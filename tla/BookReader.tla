----------------------------- MODULE BookReader -----------------------------
(***************************************************************************)
(* A book read from Python while a shard worker writes it                  *)
(* (python/mdfeed_ext.cpp: bid_depth, ask_depth, best_bid_ticks,           *)
(* best_ask_ticks).  Nothing synchronizes the two, so the worker's stores  *)
(* of OrderBook::add and reduce are steps of their own, in program order,  *)
(* and so are the reader's loads.  One instrument is enough: a book is     *)
(* written by the worker of its shard only, one message at a time.         *)
(***************************************************************************)
EXTENDS MarketSimulator, SequencesExt

CONSTANT ReferencePrice   \* init_reference_price() of each instrument
ASSUME ReferencePriceAssumption == ReferencePrice \in [Instrument -> Int]

VARIABLES worker,    \* whether the worker waits, holds a message or applies it
          message,   \* that message
          orders,    \* Shard::orders
          memory,    \* the fields of the OrderBook, as they are stored
          stores,    \* what memory will be after each store still to be made
          before,    \* history: memory when the worker last had no message
          reader,    \* where the Python thread is in its call, and what it got
          steady,    \* history: orders at rest all through the call
          seen       \* history: orders at rest at some moment of the call

writerVars == <<simVars, worker, message, orders, memory, stores, before>>
historyVars == <<steady, seen>>
readerVars == <<writerVars, reader, historyVars>>

TheInstrument == 0

Depth(book, side) == IF side = "Buy" THEN book.bid ELSE book.ask
BestOf(book, side) == IF side = "Buy" THEN book.bestBid ELSE book.bestAsk
HasBest(book, side) == IF side = "Buy" THEN HasBid(book) ELSE HasAsk(book)
Beats(side, i, j) == IF side = "Buy" THEN i > j ELSE i < j

StoreQty(book, side, i, qty) ==
  IF side = "Buy" THEN [book EXCEPT !.bid[i] = qty] ELSE [book EXCEPT !.ask[i] = qty]

StoreBest(book, side, i) ==
  IF side = "Buy" THEN [book EXCEPT !.bestBid = i] ELSE [book EXCEPT !.bestAsk = i]

(***************************************************************************)
(* The stores of add(), reduce() and apply(), each as the book it leaves.  *)
(***************************************************************************)
AddStores(book, side, price, qty) ==
  LET i      == IndexOf(book, price)
      filled == StoreQty(book, side, i, Depth(book, side)[i] + qty)
  IN  IF ~InBand(book, price) THEN <<DropUpdate(book)>>
      ELSE IF Beats(side, i, BestOf(book, side))
      THEN <<filled, StoreBest(filled, side, i)>>
      ELSE <<filled>>

\* Variant: the best level is looked for from the far end of the band.
WalkStoresRescan(book, side) ==
  LET from == BestOf(book, side)
      to   == IF side = "Buy" THEN WalkDown(book.bid, from) ELSE WalkUp(book.ask, from)
      none == IF side = "Buy" THEN -1 ELSE Levels
  IN  <<StoreBest(book, side, none), StoreBest(book, side, to)>>

\* Variant: the next level is taken, occupied or not.
WalkStoresOneLevel(book, side) ==
  IF side = "Buy" THEN <<StoreBest(book, side, book.bestBid - 1)>>
  ELSE <<StoreBest(book, side, book.bestAsk + 1)>>

\* The loop moves the index level by level.  A compiler may keep it in a
\* register meanwhile: the reader then misses the stores in between.
WalkStores(book, side) ==
  LET from == BestOf(book, side)
      to   == IF side = "Buy" THEN WalkDown(book.bid, from) ELSE WalkUp(book.ask, from)
  IN  IF side = "Buy"
      THEN [k \in 1 .. from - to |-> StoreBest(book, side, from - k)]
      ELSE [k \in 1 .. to - from |-> StoreBest(book, side, from + k)]

ReduceStores(book, side, price, qty) ==
  LET i       == IndexOf(book, price)
      left    == Depth(book, side)[i] - qty
      reduced == StoreQty(book, side, i, left)
      final   == IF left < 0 THEN StoreQty(book, side, i, 0) ELSE reduced
      clamp   == IF left < 0 THEN <<final>> ELSE << >>
      walk    == IF i = BestOf(book, side) /\ left <= 0
                 THEN WalkStores(final, side) ELSE << >>
  IN  IF ~InBand(book, price) THEN <<DropUpdate(book)>>
      ELSE <<reduced>> \o clamp \o walk

\* Variant: the new quantity is taken out of the old level.
ReplaceStoresReducesNew(book, old, m) ==
  LET reduce == ReduceStores(book, old.side, old.price, m.qty)
  IN  reduce \o AddStores(Last(reduce), old.side, m.price, m.qty)

ReplaceStores(book, old, m) ==
  LET reduce == ReduceStores(book, old.side, old.price, old.qty)
  IN  reduce \o AddStores(Last(reduce), old.side, m.price, m.qty)

ApplyStores(m) ==
  LET order == orders[m.id]
  IN  CASE m.type = "Add" -> AddStores(memory, m.side, m.price, m.qty)
        [] m.type # "Add" /\ order = NoOrder -> << >>
        [] m.type \in {"Execute", "Cancel"} /\ order # NoOrder ->
             ReduceStores(memory, order.side, order.price,
                          SmallerOf(m.qty, order.qty))
        [] m.type = "Delete" /\ order # NoOrder ->
             ReduceStores(memory, order.side, order.price, order.qty)
        [] m.type = "Replace" /\ order # NoOrder -> ReplaceStores(memory, order, m)

(***************************************************************************)
(* Which orders a reader can count on.                                     *)
(***************************************************************************)
Rested(map) ==
  {[id |-> id, side |-> map[id].side, price |-> map[id].price, qty |-> map[id].qty] :
     id \in {id \in OrderId : map[id] # NoOrder}}

OrdersAfter(m) == Apply([orders |-> orders, book |-> before], m).orders

\* The order o rests in a map, at its price and with no less than its quantity.
Rests(o, map) ==
  /\ map[o.id] # NoOrder
  /\ map[o.id].side = o.side /\ map[o.id].price = o.price /\ o.qty <= map[o.id].qty

\* All orders that are there before or after the message being applied.
Present ==
  IF worker = "applying" THEN Rested(orders) \cup Rested(OrdersAfter(message))
  ELSE Rested(orders)

\* The orders that are there before and after it, each with what it has at least:
\* an order that the message executes in part is one of them.
Staying ==
  {o \in Present :
     Rests(o, orders) /\ (worker = "applying" => Rests(o, OrdersAfter(message)))}

Reading == reader.at = "checked"

Watch ==
  IF Reading
  THEN /\ steady' = {o \in Staying' : \E p \in steady :
                      p.id = o.id /\ p.side = o.side /\ p.price = o.price}
       /\ seen' = seen \cup Present'
  ELSE UNCHANGED historyVars

(***************************************************************************)
(* The worker                                                              *)
(***************************************************************************)
Idle == [at |-> "idle", side |-> "none", got |-> << >>]

ReaderInit ==
  /\ SimInit /\ refPrice = ReferencePrice
  /\ worker = "waiting" /\ message = NoMessage
  /\ orders = NoOrders
  /\ memory = BookInit(ReferencePrice[TheInstrument])
  /\ stores = << >> /\ before = memory
  /\ reader = Idle /\ steady = {} /\ seen = {}

\* The next message of the feed is about to be queued.
Arrive ==
  /\ worker = "waiting"
  /\ worker' = "holding"
  /\ \E drift \in Drift : NextMessage(TheInstrument, drift, message')
  /\ UNCHANGED <<orders, memory, stores, before, reader, historyVars>>

\* The socket or the shard queue was full: the worker never gets it.
Lose ==
  /\ worker = "holding"
  /\ worker' = "waiting" /\ message' = NoMessage
  /\ UNCHANGED <<simVars, orders, memory, stores, before, reader, historyVars>>

BeginApply ==
  /\ worker = "holding"
  /\ worker' = "applying"
  /\ stores' = ApplyStores(message)
  /\ UNCHANGED <<simVars, message, orders, memory, before, reader>>
  /\ Watch

Store ==
  /\ stores # << >>
  /\ memory' = Head(stores)
  /\ stores' = Tail(stores)
  /\ UNCHANGED <<simVars, worker, message, orders, before, reader, historyVars>>

EndApply ==
  /\ worker = "applying" /\ stores = << >>
  /\ worker' = "waiting" /\ message' = NoMessage
  /\ orders' = OrdersAfter(message)
  /\ before' = memory
  /\ UNCHANGED <<simVars, memory, stores, reader>>
  /\ Watch

(***************************************************************************)
(* The Python thread, one call at a time                                   *)
(***************************************************************************)
\* has_bid() or has_ask().  The index is loaded again for the price, or the
\* compiler uses the value it has.
ReadTouch(side) ==
  /\ reader = Idle
  /\ steady' = Staying /\ seen' = Present
  /\ \/ /\ ~HasBest(memory, side)
        /\ reader' = [at |-> "touch", side |-> side, got |-> << >>]
     \/ /\ HasBest(memory, side)
        /\ reader' \in {[at |-> "checked", side |-> side, got |-> << >>],
                        [at |-> "touch", side |-> side,
                         got |-> <<BestOf(memory, side)>>]}
  /\ UNCHANGED writerVars

LoadTouch ==
  /\ reader.at = "checked"
  /\ reader' = [reader EXCEPT !.at = "touch", !.got = <<BestOf(memory, reader.side)>>]
  /\ UNCHANGED <<writerVars, historyVars>>

\* One element of a view of the levels.  A copy or a sum of the view is one such
\* load after the other, each of whatever the level holds by then.
LoadLevel(side, i) ==
  /\ reader = Idle
  /\ steady' = Staying /\ seen' = Present
  /\ reader' = [at |-> "level", side |-> side, got |-> <<i, Depth(memory, side)[i]>>]
  /\ UNCHANGED writerVars

Returning == reader.at \in {"touch", "level"}

Return ==
  /\ Returning
  /\ reader' = Idle /\ steady' = {} /\ seen' = {}
  /\ UNCHANGED writerVars

WriterStep == Arrive \/ Lose \/ BeginApply \/ Store \/ EndApply

ReaderStep ==
  \/ \E side \in Side : ReadTouch(side) \/ \E i \in Index : LoadLevel(side, i)
  \/ LoadTouch \/ Return

\* What a call got cannot change any more: the worker need not be interleaved with
\* its return.
ReaderNext == (WriterStep /\ ~Returning) \/ ReaderStep

ReaderSpec == ReaderInit /\ [][ReaderNext]_readerVars

-----------------------------------------------------------------------------
\* The orders of a set that rest on a side of the band.
Banded(set, side) == {o \in set : o.side = side /\ InBand(memory, o.price)}

\* What best_bid_ticks() and best_ask_ticks() return during a run: no order that
\* rested all through the call, executed in part or not, is better, None is
\* returned only if there was none, and some order of the call was as good.  A
\* call that no message overlaps therefore returns the best price exactly.
TouchIsRecent ==
  reader.at = "touch" =>
    LET side == reader.side
    IN  IF reader.got = << >> THEN Banded(steady, side) = {}
        ELSE /\ \A o \in Banded(steady, side) :
                  ~Beats(side, IndexOf(memory, o.price), reader.got[1])
             /\ \E o \in Banded(seen, side) :
                  ~Beats(side, reader.got[1], IndexOf(memory, o.price))

\* The least and the largest quantity that the orders account for.
QtyOf(set) == SumFunction([o \in set |-> o.qty])

MostQtyOf(set) ==
  SumFunction([id \in {o.id : o \in set} |->
                Max({o.qty : o \in {o \in set : o.id = id}})])

\* "a read during the run yields some real level quantity from some point in the
\* recent past, not garbage" (mdfeed_ext.cpp:24-26): a level is read as no less
\* than the orders that rest there before and after the message being applied,
\* each with the smaller of its quantities, and as no more than those that do
\* before or after it, each with the larger; exactly, between messages.
DepthIsRecent ==
  reader.at = "level" =>
    LET At(set) == {o \in Banded(set, reader.side) :
                     IndexOf(memory, o.price) = reader.got[1]}
    IN  reader.got[2] \in QtyOf(At(steady)) .. MostQtyOf(At(seen))

\* Store by store, the worker makes what Protocol says of a whole message: the
\* book it leaves is the one of a replay that applies each message at once.  The
\* other instruments get no messages here.
Backlog ==
  [i \in Instrument |->
    IF i = TheInstrument /\ worker = "applying" THEN <<message>> ELSE << >>]

Views ==
  [i \in Instrument |->
    IF i = TheInstrument THEN [orders |-> orders, book |-> before]
    ELSE [orders |-> NoOrders, book |-> BookInit(ReferencePrice[i])]]

Replay == INSTANCE InstrumentReplay WITH backlog <- Backlog, view <- Views

ImplementsReplay == Replay!ReplaySpec
=============================================================================
