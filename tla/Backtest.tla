------------------------------ MODULE Backtest ------------------------------
(***************************************************************************)
(* BacktestEngine (include/backtest_sim.hpp): every simulated message goes *)
(* to an aggregated book and to a queue-position book; pairs of            *)
(* hypothetical orders, one per fill model, are placed at the best bid,    *)
(* and each message fills them, cancels them by age or leaves them.        *)
(***************************************************************************)
EXTENDS QueueBook, MarketSimulator

CONSTANTS PlacementInterval,   \* cfg_.placement_interval
          Ttl                  \* cfg_.ttl_messages

ASSUME BacktestAssumption ==
  PlacementInterval \in Nat \ {0} /\ Ttl \in Nat

VARIABLES bookOrders,   \* book_orders_
          book,         \* book_
          queueBook,    \* qbook_
          active,       \* active_; no order is looked at before another matters
          results,      \* results
          nextPair,     \* next_pair_id_
          message,      \* the message replayed last
          finished      \* run() has returned

bookVars == <<bookOrders, book, queueBook>>
engineVars == <<active, results, nextPair, message, finished>>
backtestVars == <<bookVars, engineVars, simVars>>

TheInstrument == 0
NoTracker == [front |-> FALSE]

BacktestInit ==
  /\ SimInit
  /\ bookOrders = NoOrders
  /\ book = BookInit(refPrice[TheInstrument])
  /\ queueBook = QueueBookInit
  /\ active = {} /\ results = {} /\ nextPair = 1
  /\ message = NoMessage
  /\ finished = FALSE

Result(order, outcome, idx) ==
  [pair |-> order.pair, naive |-> order.naive, placed |-> order.placed,
   resolved |-> idx, outcome |-> outcome]

\* The naive order fills when anything trades at its level.
IsFilled(order, reduction) ==
  IF order.naive
  THEN Concerns(order, reduction) /\ reduction.isExecute
  ELSE Fills(order.tracker, reduction)

IsExpired(order, idx) == idx - order.placed >= Ttl

Aged(order, reduction) ==
  IF order.naive THEN order
  ELSE [order EXCEPT !.tracker = Consume(@, reduction)]

\* Variant: the tracked order keeps its own time from the next message on.
PlacePairLate(idx, newBook, newQueueBook) ==
  LET level == [instrument |-> TheInstrument, side |-> "Buy",
                price |-> BestBid(newBook)]
      order == [pair |-> nextPair, naive |-> TRUE, level |-> level,
                placed |-> idx, tracker |-> NoTracker]
  IN  {order,
       [order EXCEPT !.naive = FALSE, !.placed = idx + 1,
          !.tracker = NewTracker(level, newQueueBook.nextSeq,
                                 LevelTotal(newQueueBook, level))]}

\* place_pair()
PlacePair(idx, newBook, newQueueBook) ==
  LET level == [instrument |-> TheInstrument, side |-> "Buy",
                price |-> BestBid(newBook)]
      order == [pair |-> nextPair, naive |-> TRUE, level |-> level,
                placed |-> idx, tracker |-> NoTracker]
  IN  {order,
       [order EXCEPT !.naive = FALSE,
          !.tracker = NewTracker(level, newQueueBook.nextSeq,
                                 LevelTotal(newQueueBook, level))]}

\* apply_to_book() is the switch of Normalizer::apply() once more.
ApplyToBook(m) == Apply([orders |-> bookOrders, book |-> book], m)

\* The body of the loop: the message, the active orders, a new pair.
Replay ==
  /\ ~finished
  /\ \E drift \in Drift : NextMessage(TheInstrument, drift, message')
  /\ LET idx      == generated
         after    == ApplyToBook(message')
         effect   == QueueApply(queueBook, message')
         filled   == {o \in active : IsFilled(o, effect.reduction)}
         expired  == {o \in active \ filled : IsExpired(o, idx)}
         kept     == {Aged(o, effect.reduction) : o \in active \ (filled \cup expired)}
         places   == /\ idx % PlacementInterval = 0
                     /\ HasBid(after.book) /\ HasAsk(after.book)
     IN  /\ bookOrders' = after.orders /\ book' = after.book
         /\ queueBook' = effect.book
         /\ results' = results \cup {Result(o, "Filled", idx) : o \in filled}
                               \cup {Result(o, "Canceled", idx) : o \in expired}
         /\ active' = IF places THEN kept \cup PlacePair(idx, book', queueBook')
                      ELSE kept
         /\ nextPair' = IF places THEN nextPair + 1 ELSE nextPair
  /\ UNCHANGED finished

\* Variant: what is left of the active orders is not cleared.
FinishUncleared ==
  /\ ~finished
  /\ finished' = TRUE
  /\ results' = results \cup {Result(o, "Resting", generated) : o \in active}
  /\ UNCHANGED <<bookVars, active, nextPair, message, simVars>>

\* The replay ends after num_messages, which may be any number up to the bound.
Finish ==
  /\ ~finished
  /\ finished' = TRUE
  /\ results' = results \cup {Result(o, "Resting", generated) : o \in active}
  /\ active' = {}
  /\ UNCHANGED <<bookVars, nextPair, message, simVars>>

BacktestNext == Replay \/ Finish

BacktestSpec == BacktestInit /\ [][BacktestNext]_backtestVars

-----------------------------------------------------------------------------
\* The quantity of all orders together fits the 32 bits of level_total_qty(); in
\* the program, 500 for each id given out is less than 2^32.  place_pair() takes
\* the position of a new order from that total: a level that holds a multiple of
\* 2^32 would put the order at the front.
TotalsFit == MaxQty * MaxOrderId < IntRange

\* tests/queue_position_reference_test.cpp: as long as totals fit 32 bits, the
\* position kept message by message is the one the oracle recomputes from the
\* queue, and an order is at the front exactly when nothing is ahead of it.
TrackersMatchOracle ==
  TotalsFit => \A o \in active : ~o.naive =>
    /\ o.tracker.ahead = QtyAhead(queueBook, o.level, o.tracker.seq)
    /\ o.tracker.front <=> o.tracker.ahead = 0

\* The two books are fed the same messages: every level in the band of the
\* aggregated book, which counts in 64 bits, has the quantity of the orders queued
\* there, of which level_total_qty() tells the last 32 bits.
BooksAgree ==
  \A side \in Side, index \in Index :
    QtyAt(book, side, book.base + index) % IntRange =
      LevelTotal(queueBook, [instrument |-> TheInstrument, side |-> side,
                             price |-> book.base + index])

\* "Identical placement decisions": of every pair placed, each model has exactly
\* one order, active or with a result, and no order has two results.
EveryOrderOnce ==
  \A pair \in 1 .. nextPair - 1, naive \in BOOLEAN :
    Cardinality({o \in active : o.pair = pair /\ o.naive = naive})
      + Cardinality({r \in results : r.pair = pair /\ r.naive = naive}) = 1

\* The queue-tracked model is never the more optimistic of the two: when it
\* fills an order, the naive model has filled its twin, no later.
NaiveFillsFirst ==
  \A r \in results : r.outcome = "Filled" /\ ~r.naive =>
    \E n \in results : /\ n.naive /\ n.pair = r.pair
                       /\ n.outcome = "Filled" /\ n.resolved <= r.resolved

\* "Reaching the front and the trade that fills us are never the same message":
\* as long as totals fit 32 bits, when a tracked order fills, nothing was ahead of
\* it before the message, and the message is an execution.
NewFill(o) ==
  Result(o, "Filled", generated) \in results' \ results

FillsFromTheFront ==
  [][TotalsFit => \A o \in active : ~o.naive /\ NewFill(o) =>
       /\ QtyAhead(queueBook, o.level, o.tracker.seq) = 0
       /\ message'.type = "Execute"]_backtestVars
=============================================================================
