---------------------------- MODULE VenueProofs ----------------------------
(***************************************************************************)
(* Theorems about the venues, the NBBO and the guard, and the harness that *)
(* injects faults into them, for any number of venues, orders, levels,     *)
(* scenarios and sessions and any length of the feeds.                     *)
(***************************************************************************)
EXTENDS FaultInjection, SimulatorProofs

VenueView(v) == [orders |-> venueOrders[v], book |-> venueBooks[v]]

\* The types, the top of every book, every map of orders a mirror of its
\* simulator, and every book as deep as the orders of its map.  The messages are
\* well formed because the simulator is; they find the orders they name because
\* the maps mirror it; and reduce() clamps nothing because a level holds all that
\* its orders have.
VenueInv ==
  /\ SimInv
  /\ DOMAIN venueOrders = Venue /\ venueBooks = [v \in Venue |-> venueBooks[v]]
  /\ \A v \in Venue : /\ GoodView(VenueView(v))
                      /\ Mirrors(venueOrders[v], liveOrders[v], v)
                      /\ DepthMatches(venueOrders[v], venueBooks[v], v)

\* The venues start with empty books around the shared price.
LEMMA VenueInitOK == VenueInit => VenueInv
<1> SUFFICES ASSUME VenueInit PROVE VenueInv
  OBVIOUS
<1>1. SimInv
  BY SimInitOK DEF VenueInit
<1>2. ASSUME NEW v \in Venue
      PROVE  /\ GoodView(VenueView(v)) /\ Mirrors(venueOrders[v], liveOrders[v], v)
             /\ DepthMatches(venueOrders[v], venueBooks[v], v)
  <2>1. venueOrders[v] = NoOrders /\ venueBooks[v] = BookInit(VenueReference)
    BY DEF VenueInit
  <2>2. NoOrders \in OrderMap
    BY DEF NoOrders, OrderMap
  <2>3. GoodView(VenueView(v))
    BY <2>1, <2>2, EmptyBookIsGood, VenueReferenceAssumption DEF GoodView, VenueView
  <2>4. liveOrders[v] = {}
    BY DEF VenueInit, SimInit, Venue
  <2>5. DepthMatches(venueOrders[v], venueBooks[v], v)
    BY <2>1, EmptyBookDepth, VenueReferenceAssumption
  <2> QED BY <2>1, <2>3, <2>4, <2>5 DEF Mirrors, NoOrders
<1> QED BY <1>1, <1>2 DEF VenueInit, VenueInv

\* The step() of one venue keeps the invariant for all of them.
LEMMA VenueStep == VenueInv /\ [VenueNext]_venueVars => VenueInv'
<1> SUFFICES ASSUME VenueInv, [VenueNext]_venueVars PROVE VenueInv'
  OBVIOUS
<1>1. CASE UNCHANGED venueVars
  BY <1>1 DEF venueVars, simVars, VenueInv, VenueView, SimInv, SimTypeOK, IdsAreFresh
<1>2. ASSUME NEW v \in Venue, Step(v) PROVE VenueInv'
  <2> DEFINE after == Apply(VenueView(v), last')
  <2>1. PICK drift \in Drift : NextMessage(v, drift, last')
    BY <1>2 DEF Step
  <2>2. Follows(v, last')
    BY <2>1, NextMessageFollows DEF VenueInv, Venue
  <2>3. /\ venueOrders' = [venueOrders EXCEPT ![v] = after.orders]
        /\ venueBooks' = [venueBooks EXCEPT ![v] = after.book]
    BY <1>2 DEF Step, VenueView
  <2>4. GoodView(after)
    BY <2>2, ApplyKeeps DEF VenueInv, Follows
  <2>5. Mirrors(after.orders, liveOrders'[v], v)
    <3>1. venueOrders[v] \in OrderMap /\ Mirrors(venueOrders[v], liveOrders[v], v)
      BY DEF VenueInv, GoodView, VenueView
    <3> QED BY <2>2, <3>1 DEF Follows, VenueView
  <2>depth. DepthMatches(after.orders, after.book, v)
    <3>1. /\ venueOrders[v] \in OrderMap /\ GoodBook(venueBooks[v]) /\ SimInv
          /\ Mirrors(venueOrders[v], liveOrders[v], v)
          /\ DepthMatches(venueOrders[v], venueBooks[v], v)
      BY DEF VenueInv, GoodView, VenueView
    <3>2. last' \in Message /\ last'.instrument = v
      BY <2>2 DEF Follows
    <3>3. FitsMap(venueOrders[v], last')
      BY <2>1, <3>1, NextMessageFits DEF Venue
    <3>4. venueBooks[v] \in Book
      BY <3>1 DEF GoodBook
    <3> QED BY <3>1, <3>2, <3>3, <3>4, ApplyKeepsDepth DEF VenueView
  <2>6. ASSUME NEW w \in Venue
        PROVE  /\ GoodView(VenueView(w)') /\ Mirrors(venueOrders'[w], liveOrders'[w], w)
               /\ DepthMatches(venueOrders'[w], venueBooks'[w], w)
    <3>1. CASE w = v
      <4>1. venueOrders'[v] = after.orders /\ venueBooks'[v] = after.book
        BY <2>3 DEF VenueInv
      <4>2. GoodView(VenueView(v)')
        BY <2>4, <4>1 DEF GoodView, VenueView
      <4> QED BY <2>5, <2>depth, <3>1, <4>1, <4>2
    <3>2. CASE w # v
      <4>1. venueOrders'[w] = venueOrders[w] /\ venueBooks'[w] = venueBooks[w]
        BY <2>3, <3>2 DEF VenueInv
      <4>2. liveOrders'[w] = liveOrders[w]
        BY <2>2, <3>2 DEF Follows, Venue
      <4> QED BY <4>1, <4>2 DEF VenueInv, VenueView
    <3> QED BY <3>1, <3>2
  <2>7. SimInv' /\ DOMAIN venueOrders' = Venue
        /\ venueBooks' = [u \in Venue |-> venueBooks'[u]]
    BY <2>2, <2>3 DEF Follows, VenueInv
  <2> QED BY <2>6, <2>7 DEF VenueInv
<1> QED BY <1>1, <1>2 DEF VenueNext

\* The invariant holds in every run of the venues.
LEMMA VenueInvHolds == VenueSpec => []VenueInv
<1> QED BY VenueInitOK, VenueStep, PTL DEF VenueSpec

\* Every map and every book of a venue keeps its type, for any drift of the
\* prices and any length of the feed.
THEOREM VenueTypeCorrect == VenueSpec => []VenueTypeOK
<1>1. VenueInv => VenueTypeOK
  BY DEF VenueInv, VenueTypeOK, VenueView, GoodView, GoodBook, View
<1> QED BY <1>1, VenueInvHolds, PTL

\* step() keeps exactly the orders the simulator believes to rest: no partial
\* execution, cancel, delete or replace leaves one behind or loses one.
THEOREM OrdersAreLiveHolds == VenueSpec => []OrdersAreLive
<1>1. ASSUME VenueInv PROVE OrdersAreLive
  <2> SUFFICES ASSUME NEW v \in Venue
               PROVE  liveOrders[v] =
                 {[id |-> id, side |-> venueOrders[v][id].side,
                   price |-> venueOrders[v][id].price, qty |-> venueOrders[v][id].qty] :
                  id \in Resting(v)}
    BY DEF OrdersAreLive
  <2> DEFINE Entry(id) ==
        [id |-> id, side |-> venueOrders[v][id].side,
         price |-> venueOrders[v][id].price, qty |-> venueOrders[v][id].qty]
  <2>1. ASSUME NEW order \in liveOrders[v]
        PROVE  order.id \in Resting(v) /\ order = Entry(order.id)
    <3>1. venueOrders[v] \in OrderMap /\ Mirrors(venueOrders[v], liveOrders[v], v)
      BY <1>1 DEF VenueInv, GoodView, VenueView
    <3>2. /\ order \in LiveOrder /\ order.id \in OrderId
          /\ venueOrders[v][order.id] = LocationOf(order, v)
          /\ venueOrders[v][order.id] # NoOrder
      BY <1>1, <3>1, FoundInMap DEF VenueInv, Venue
    <3> QED BY <3>2 DEF Resting, LocationOf, LiveOrder
  <2>2. ASSUME NEW id \in Resting(v)
        PROVE  Entry(id) \in liveOrders[v]
    <3>1. PICK order \in liveOrders[v] : order.id = id
      BY <1>1 DEF VenueInv, Mirrors, Resting
    <3> QED BY <2>1, <3>1
  <2> QED BY <2>1, <2>2
<1> QED BY <1>1, VenueInvHolds, PTL

\* Every level of every venue holds what the simulated market has there: no
\* partial execution, cancel, delete or replace is clamped, counted twice or lost.
THEOREM DepthIsLiveHolds == VenueSpec => []DepthIsLive
<1>1. ASSUME VenueInv PROVE DepthIsLive
  <2>1. ASSUME NEW v \in Venue, NEW side \in Side, NEW index \in Index
        PROVE  LevelOf(venueBooks[v], side, index) = LiveQty(v, side, index)
    <3> DEFINE at == {order \in liveOrders[v] :
                       order.side = side /\ IndexOf(venueBooks[v], order.price) = index}
    <3>1. /\ SimInv /\ venueOrders[v] \in OrderMap
          /\ Mirrors(venueOrders[v], liveOrders[v], v)
          /\ DepthMatches(venueOrders[v], venueBooks[v], v)
      BY <1>1 DEF VenueInv, GoodView, VenueView
    <3>2. DepthOf(venueOrders[v], venueBooks[v], v, side, index)
            = SumFunctionOnSet([order \in at |-> order.qty], at)
      BY <3>1, DepthOfLive DEF Venue
    <3>3. LiveQty(v, side, index) = SumFunctionOnSet([order \in at |-> order.qty], at)
      BY DEF LiveQty, SumFunction
    <3> QED BY <3>1, <3>2, <3>3 DEF DepthMatches
  <2> QED BY <2>1 DEF DepthIsLive, LevelOf, Side
<1> QED BY <1>1, VenueInvHolds, PTL

\* The best indices of a venue, maintained message by message, are the ones a
\* scan of its levels finds.
THEOREM OracleAgreesHolds == VenueSpec => []OracleAgrees
<1>1. ASSUME VenueInv PROVE OracleAgrees
  <2> SUFFICES ASSUME NEW v \in Venue
               PROVE  /\ venueBooks[v].bestBid = OracleBid(venueBooks[v])
                      /\ venueBooks[v].bestAsk = OracleAsk(venueBooks[v])
    BY DEF OracleAgrees
  <2> DEFINE book == venueBooks[v]
             bids == {i \in Index : book.bid[i] > 0}
             asks == {i \in Index : book.ask[i] > 0}
  <2>1. book \in Book /\ NothingBetter(book) /\ BestIsOccupied(book)
    BY <1>1 DEF VenueInv, GoodView, GoodBook, VenueView
  <2>2. /\ book.bestBid \in -1 .. Levels - 1 /\ book.bestAsk \in 0 .. Levels
        /\ Levels \in Nat
    BY <2>1, LevelsAssumption DEF Book
  <2>3. \A i \in bids : i \in Int /\ i <= book.bestBid
    BY <2>1, <2>2 DEF NothingBetter, Index
  <2>4. \A i \in asks : i \in Int /\ i >= book.bestAsk
    BY <2>1, <2>2 DEF NothingBetter, Index
  <2>5. book.bestBid # -1 => book.bestBid \in bids
    BY <2>1, <2>2 DEF BestIsOccupied, HasBid, Index
  <2>6. book.bestAsk # Levels => book.bestAsk \in asks
    BY <2>1, <2>2 DEF BestIsOccupied, HasAsk, Index
  <2>7. book.bestBid = OracleBid(book)
    <3>1. CASE bids = {}
      BY <2>5, <3>1 DEF OracleBid
    <3>2. CASE bids # {}
      <4>1. book.bestBid \in bids
        BY <2>2, <2>3, <2>5, <3>2 DEF Index
      <4>2. Max(bids) \in bids /\ \A i \in bids : Max(bids) >= i
        BY <2>3, <4>1 DEF Max
      <4>3. Max(bids) = book.bestBid
        <5>1. Max(bids) \in Int /\ Max(bids) <= book.bestBid /\ Max(bids) >= book.bestBid
          BY <2>3, <4>1, <4>2
        <5> HIDE DEF bids
        <5> QED BY <2>2, <5>1
      <4> QED BY <3>2, <4>3 DEF OracleBid
    <3> QED BY <3>1, <3>2
  <2>8. book.bestAsk = OracleAsk(book)
    <3>1. CASE asks = {}
      BY <2>6, <3>1 DEF OracleAsk
    <3>2. CASE asks # {}
      <4>1. book.bestAsk \in asks
        BY <2>2, <2>4, <2>6, <3>2 DEF Index
      <4>2. Min(asks) \in asks /\ \A i \in asks : Min(asks) <= i
        BY <2>4, <4>1 DEF Min
      <4>3. Min(asks) = book.bestAsk
        <5>1. Min(asks) \in Int /\ Min(asks) >= book.bestAsk /\ Min(asks) <= book.bestAsk
          BY <2>4, <4>1, <4>2
        <5> HIDE DEF asks
        <5> QED BY <2>2, <5>1
      <4> QED BY <3>2, <4>3 DEF OracleAsk
    <3> QED BY <3>1, <3>2
  <2> QED BY <2>7, <2>8
<1> QED BY <1>1, VenueInvHolds, PTL

-----------------------------------------------------------------------------
(***************************************************************************)
(* The NBBO and the guard, for any books.                                  *)
(***************************************************************************)
\* Of finitely many venues with a key each, one comes first among those with
\* the greatest key.
LEMMA FirstBest ==
  ASSUME NEW S, S \subseteq Nat, S # {}, NEW n \in Nat, \A w \in S : w <= n,
         NEW key \in [S -> Int]
  PROVE  \E v \in S : \A w \in S : key[w] < key[v] \/ (key[w] = key[v] /\ v <= w)
<1> DEFINE First(v, T) ==
             \A w \in T : key[w] < key[v] \/ (key[w] = key[v] /\ v <= w)
           Upto(b) == {w \in S : w <= b}
           Bad == {b \in Nat : Upto(b) # {} /\ \A v \in Upto(b) : ~First(v, Upto(b))}
<1>1. Bad = {} => \E v \in S : First(v, S)
  <2>1. n \in Nat /\ Upto(n) = S
    OBVIOUS
  <2> QED BY <2>1
<1>2. ASSUME Bad # {} PROVE FALSE
  <2>1. PICK m \in Bad : \A b \in Bad : m <= b
    BY <1>2, LeastNatural
  <2> DEFINE rest == Upto(m - 1)
  <2>2. /\ m \in Nat /\ m - 1 \notin Bad
        /\ Upto(m) = IF m \in S THEN rest \cup {m} ELSE rest
    <3>1. m \in Nat /\ \A b \in Bad : b \in Nat
      OBVIOUS
    <3>2. m - 1 \notin Bad
      <4> HIDE DEF Bad
      <4> QED BY <2>1, <3>1
    <3>3. \A w \in S : w <= m <=> w = m \/ w <= m - 1
      BY <3>1
    <3>4. m <= m
      BY <3>1
    <3>5. Upto(m) = IF m \in S THEN rest \cup {m} ELSE rest
      BY <3>3, <3>4, Zenon
    <3> QED BY <3>1, <3>2, <3>5
  <2>3. rest # {} => m - 1 \in Nat
    <3> SUFFICES ASSUME NEW w \in rest PROVE m - 1 \in Nat
      OBVIOUS
    <3>1. w \in Nat /\ w <= m - 1
      OBVIOUS
    <3> QED BY <2>2, <3>1
  <2>4. rest # {} => \E v \in rest : First(v, rest)
    BY <2>2, <2>3
  <2>5. m \in S
    BY <2>1, <2>2, <2>4
  <2>6. CASE rest = {}
    <3>1. Upto(m) = {m} /\ First(m, {m})
      BY <2>2, <2>5, <2>6
    <3> QED BY <2>1, <3>1
  <2>7. CASE rest # {}
    <3>1. PICK v \in rest : First(v, rest)
      BY <2>4, <2>7
    <3>2. v \in S /\ v <= m
      BY <2>2
    <3>3. key[m] <= key[v] => First(v, Upto(m))
      BY <2>2, <2>5, <3>1, <3>2
    <3>4. key[m] > key[v] => First(m, Upto(m))
      <4> SUFFICES ASSUME key[m] > key[v], NEW w \in Upto(m)
                   PROVE  key[w] < key[m] \/ (key[w] = key[m] /\ m <= w)
        OBVIOUS
      <4>1. CASE w = m
        BY <2>5, <4>1
      <4>2. CASE w # m
        <5>1. w \in rest /\ w \in S
          BY <2>2, <2>5, <4>2
        <5>2. key[w] <= key[v] /\ key[w] \in Int /\ key[v] \in Int
          BY <3>1, <3>2, <5>1
        <5> QED BY <5>2, <2>5
      <4> QED BY <4>1, <4>2
    <3>5. v \in Upto(m) /\ m \in Upto(m) /\ key[m] \in Int /\ key[v] \in Int
      BY <2>2, <2>5, <3>1, <3>2
    <3> QED BY <2>1, <3>3, <3>4, <3>5
  <2> QED BY <2>6, <2>7
<1> QED BY <1>1, <1>2

Typed(books) == books \in [Venue -> Book]

\* A typed book quotes integers.
LEMMA TouchIsInt ==
  ASSUME NEW book \in Book
  PROVE  BestBid(book) \in Int /\ BestAsk(book) \in Int
BY DEF Book, BestBid, BestAsk

\* best_bid(): the first of the venues with the highest bid, or no quote.
LEMMA NationalBidIsFirst ==
  ASSUME NEW books, Typed(books)
  PROVE  LET quoting == {v \in Venue : HasBid(books[v])}
         IN  /\ quoting = {} => NationalBid(books) = NoQuote
             /\ quoting # {} =>
                  \E v \in quoting :
                    /\ NationalBid(books) = BidQuote(books, v)
                    /\ \A w \in quoting :
                         \/ BestBid(books[w]) < BestBid(books[v])
                         \/ BestBid(books[w]) = BestBid(books[v]) /\ v <= w
<1> DEFINE quoting == {v \in Venue : HasBid(books[v])}
           key == [v \in quoting |-> BestBid(books[v])]
           First(v) == \A w \in quoting :
                         \/ BestBid(books[w]) < BestBid(books[v])
                         \/ BestBid(books[w]) = BestBid(books[v]) /\ v <= w
<1>1. CASE quoting = {}
  BY <1>1 DEF NationalBid
<1>2. CASE quoting # {}
  <2>1. /\ quoting \subseteq Nat /\ NumInstruments - 1 \in Nat
        /\ \A w \in quoting : w <= NumInstruments - 1
    BY InstrumentsAssumption DEF Venue, Instrument
  <2>2. key \in [quoting -> Int]
    BY TouchIsInt DEF Typed
  <2>3. \E v \in quoting : \A w \in quoting :
          key[w] < key[v] \/ (key[w] = key[v] /\ v <= w)
    <3> HIDE DEF quoting, key
    <3> QED BY <1>2, <2>1, <2>2, FirstBest
  <2>4. \E v \in quoting : First(v)
    BY <2>3
  <2>5. NationalBid(books) = BidQuote(books, CHOOSE v \in quoting : First(v))
    BY <1>2 DEF NationalBid
  <2> HIDE DEF quoting, First
  <2>6. \E v \in quoting : NationalBid(books) = BidQuote(books, v) /\ First(v)
    BY <2>4, <2>5
  <2> QED BY <1>2, <2>6 DEF quoting, First
<1> QED BY <1>1, <1>2

\* best_offer(): the first of the venues with the lowest offer, or no quote.
LEMMA NationalOfferIsFirst ==
  ASSUME NEW books, Typed(books)
  PROVE  LET quoting == {v \in Venue : HasAsk(books[v])}
         IN  /\ quoting = {} => NationalOffer(books) = NoQuote
             /\ quoting # {} =>
                  \E v \in quoting :
                    /\ NationalOffer(books) = OfferQuote(books, v)
                    /\ \A w \in quoting :
                         \/ BestAsk(books[w]) > BestAsk(books[v])
                         \/ BestAsk(books[w]) = BestAsk(books[v]) /\ v <= w
<1> DEFINE quoting == {v \in Venue : HasAsk(books[v])}
           key == [v \in quoting |-> -BestAsk(books[v])]
           First(v) == \A w \in quoting :
                         \/ BestAsk(books[w]) > BestAsk(books[v])
                         \/ BestAsk(books[w]) = BestAsk(books[v]) /\ v <= w
<1>1. CASE quoting = {}
  BY <1>1 DEF NationalOffer
<1>2. CASE quoting # {}
  <2>1. /\ quoting \subseteq Nat /\ NumInstruments - 1 \in Nat
        /\ \A w \in quoting : w <= NumInstruments - 1
    BY InstrumentsAssumption DEF Venue, Instrument
  <2>2. \A v \in quoting : BestAsk(books[v]) \in Int
    BY TouchIsInt DEF Typed
  <2>3. key \in [quoting -> Int]
    BY <2>2
  <2>4. \E v \in quoting : \A w \in quoting :
          key[w] < key[v] \/ (key[w] = key[v] /\ v <= w)
    <3> HIDE DEF quoting, key
    <3> QED BY <1>2, <2>1, <2>3, FirstBest
  <2>5. \E v \in quoting : First(v)
    <3>1. PICK v \in quoting : \A w \in quoting :
            key[w] < key[v] \/ (key[w] = key[v] /\ v <= w)
      BY <2>4
    <3>2. ASSUME NEW w \in quoting
          PROVE  \/ BestAsk(books[w]) > BestAsk(books[v])
                 \/ BestAsk(books[w]) = BestAsk(books[v]) /\ v <= w
      <4>1. key[w] = -BestAsk(books[w]) /\ key[v] = -BestAsk(books[v])
        OBVIOUS
      <4>2. key[w] < key[v] \/ (key[w] = key[v] /\ v <= w)
        BY <3>1
      <4> HIDE DEF key
      <4> QED BY <2>2, <4>1, <4>2
    <3> QED BY <3>2
  <2>6. NationalOffer(books) = OfferQuote(books, CHOOSE v \in quoting : First(v))
    BY <1>2 DEF NationalOffer
  <2> HIDE DEF quoting, First
  <2>7. \E v \in quoting : NationalOffer(books) = OfferQuote(books, v) /\ First(v)
    BY <2>5, <2>6
  <2> QED BY <1>2, <2>7 DEF quoting, First
<1> QED BY <1>1, <1>2

\* A quote is told from none by its venue.
LEMMA QuotesAreQuotes ==
  ASSUME NEW books, NEW v \in Venue
  PROVE  BidQuote(books, v) # NoQuote /\ OfferQuote(books, v) # NoQuote
<1>1. v # -1
  BY InstrumentsAssumption DEF Venue, Instrument
<1>2. BidQuote(books, v).venue = v /\ OfferQuote(books, v).venue = v /\ NoQuote.venue = -1
  BY DEF BidQuote, OfferQuote, NoQuote
<1> QED BY <1>1, <1>2

\* An order to buy: refused as a trade-through exactly when it would execute
\* and another venue's offer is better.
LEMMA GuardForBuy ==
  ASSUME NEW books, Typed(books), NEW order \in OutboundOrder, order.side = "Buy"
  PROVE  AcceptedIsBest(order, books) /\ RefusedForReason(order, books)
<1> DEFINE quoting == {v \in Venue : HasAsk(books[v])}
           own == books[order.venue]
           ask(v) == BestAsk(books[v])
<1>1. order.venue \in Venue /\ order.limit \in Int
  BY DEF OutboundOrder
<1>2. \A v \in Venue : ask(v) \in Int
  BY TouchIsInt DEF Typed
<1>3. CASE ~HasAsk(own)
  BY <1>3 DEF AcceptedIsBest, RefusedForReason, Evaluate, Marketable, HasTouch
<1>4. CASE HasAsk(own) /\ order.limit < ask(order.venue)
  BY <1>4 DEF AcceptedIsBest, RefusedForReason, Evaluate, Marketable, HasTouch,
     BetterFor, TouchOf
<1>5. CASE HasAsk(own) /\ ~(order.limit < ask(order.venue))
  <2>1. PICK v \in quoting :
          /\ NationalOffer(books) = OfferQuote(books, v)
          /\ \A w \in quoting : ask(w) > ask(v) \/ (ask(w) = ask(v) /\ v <= w)
    BY <1>1, <1>5, NationalOfferIsFirst
  <2>2. /\ NationalOffer(books) # NoQuote /\ NationalOffer(books).venue = v
        /\ NationalOffer(books).price = ask(v)
    BY <2>1, QuotesAreQuotes DEF OfferQuote
  <2>3. Evaluate(order, books) =
          IF v # order.venue /\ ask(v) < ask(order.venue)
          THEN "RejectedTradeThrough" ELSE "Accepted"
    BY <1>5, <2>2 DEF Evaluate, Marketable, HasTouch, BetterFor, TouchOf
  <2>4. order.venue \in quoting /\ v \in Venue /\ HasAsk(books[v])
    BY <1>1, <1>5
  <2>5. CASE v # order.venue /\ ask(v) < ask(order.venue)
    <3>1. ask(v) <= order.limit
      BY <1>1, <1>2, <1>5, <2>4, <2>5
    <3>2. ~(order.limit < ask(v))
      BY <1>1, <1>2, <2>4, <3>1
    <3> QED BY <2>3, <2>4, <2>5, <3>2
            DEF AcceptedIsBest, RefusedForReason, HasTouch, BetterFor, TouchOf
  <2>6. CASE ~(v # order.venue /\ ask(v) < ask(order.venue))
    <3>1. ask(order.venue) <= ask(v)
      BY <1>1, <1>2, <2>4, <2>6
    <3>2. \A w \in quoting : ~(ask(w) < ask(order.venue))
      BY <1>1, <1>2, <2>1, <2>4, <3>1
    <3> QED BY <1>1, <2>3, <2>6, <3>2
            DEF AcceptedIsBest, RefusedForReason, HasTouch, BetterFor, TouchOf
  <2> QED BY <2>5, <2>6
<1> QED BY <1>3, <1>4, <1>5

\* An order to sell, against the bids.
LEMMA GuardForSell ==
  ASSUME NEW books, Typed(books), NEW order \in OutboundOrder, order.side = "Sell"
  PROVE  AcceptedIsBest(order, books) /\ RefusedForReason(order, books)
<1> DEFINE quoting == {v \in Venue : HasBid(books[v])}
           own == books[order.venue]
           bid(v) == BestBid(books[v])
<1>1. order.venue \in Venue /\ order.limit \in Int
  BY DEF OutboundOrder
<1>2. \A v \in Venue : bid(v) \in Int
  BY TouchIsInt DEF Typed
<1>3. CASE ~HasBid(own)
  BY <1>3 DEF AcceptedIsBest, RefusedForReason, Evaluate, Marketable, HasTouch
<1>4. CASE HasBid(own) /\ order.limit > bid(order.venue)
  BY <1>4 DEF AcceptedIsBest, RefusedForReason, Evaluate, Marketable, HasTouch,
     BetterFor, TouchOf
<1>5. CASE HasBid(own) /\ ~(order.limit > bid(order.venue))
  <2>1. PICK v \in quoting :
          /\ NationalBid(books) = BidQuote(books, v)
          /\ \A w \in quoting : bid(w) < bid(v) \/ (bid(w) = bid(v) /\ v <= w)
    BY <1>1, <1>5, NationalBidIsFirst
  <2>2. /\ NationalBid(books) # NoQuote /\ NationalBid(books).venue = v
        /\ NationalBid(books).price = bid(v)
    BY <2>1, QuotesAreQuotes DEF BidQuote
  <2>3. Evaluate(order, books) =
          IF v # order.venue /\ bid(v) > bid(order.venue)
          THEN "RejectedTradeThrough" ELSE "Accepted"
    BY <1>5, <2>2 DEF Evaluate, Marketable, HasTouch, BetterFor, TouchOf
  <2>4. order.venue \in quoting /\ v \in Venue /\ HasBid(books[v])
    BY <1>1, <1>5
  <2>5. CASE v # order.venue /\ bid(v) > bid(order.venue)
    <3>1. ~(order.limit > bid(v))
      BY <1>1, <1>2, <1>5, <2>4, <2>5
    <3> QED BY <2>3, <2>4, <2>5, <3>1
            DEF AcceptedIsBest, RefusedForReason, HasTouch, BetterFor, TouchOf
  <2>6. CASE ~(v # order.venue /\ bid(v) > bid(order.venue))
    <3>1. bid(order.venue) >= bid(v)
      BY <1>1, <1>2, <2>4, <2>6
    <3>2. \A w \in quoting : ~(bid(w) > bid(order.venue))
      BY <1>1, <1>2, <2>1, <2>4, <3>1
    <3> QED BY <1>1, <2>3, <2>6, <3>2
            DEF AcceptedIsBest, RefusedForReason, HasTouch, BetterFor, TouchOf
  <2> QED BY <2>5, <2>6
<1> QED BY <1>3, <1>4, <1>5

\* The venues' books are typed, so that the lemmas apply to them.
LEMMA VenuesAreTyped == VenueInv => Typed(venueBooks)
<1> SUFFICES ASSUME VenueInv PROVE Typed(venueBooks)
  OBVIOUS
<1>1. venueBooks = [v \in Venue |-> venueBooks[v]]
  BY DEF VenueInv
<1>2. \A v \in Venue : venueBooks[v] \in Book
  BY DEF VenueInv, GoodView, GoodBook, VenueView
<1> QED BY <1>1, <1>2 DEF Typed

\* The guard asks for typed books only.
LEMMA GuardFromInv == VenueInv => GuardIsExact
<1> SUFFICES ASSUME VenueInv, NEW order \in BandOrder
             PROVE  /\ AcceptedIsBest(order, venueBooks)
                    /\ RefusedForReason(order, venueBooks)
  BY DEF GuardIsExact
<1>1. order \in OutboundOrder /\ order.side \in {"Buy", "Sell"}
  <2>1. BandPrice \subseteq Int
    BY DEF BandPrice
  <2> QED BY <2>1 DEF BandOrder, OutboundOrder, Side
<1> QED BY <1>1, VenuesAreTyped, GuardForBuy, GuardForSell

\* The guard lets through no order that would execute behind a better quote of
\* another venue, refuses no other as a trade-through, and refuses for want of a
\* quote only at a venue without one, whatever the venues have done.
THEOREM GuardIsExactHolds == VenueSpec => []GuardIsExact
<1> QED BY GuardFromInv, VenueInvHolds, PTL

\* Nor does the search for inverted pairs.
LEMMA InversionFromInv == VenueInv => InversionIsReported
<1> SUFFICES ASSUME VenueInv PROVE InversionIsReported
  OBVIOUS
<1> DEFINE nbb == NationalBid(venueBooks)
           nbo == NationalOffer(venueBooks)
<1> SUFFICES ASSUME nbb # NoQuote, nbo # NoQuote, nbb.price >= nbo.price,
                    nbb.venue # nbo.venue
             PROVE  \E p \in Classify(venueBooks) :
                      /\ p.bidVenue = nbb.venue /\ p.offerVenue = nbo.venue
                      /\ p.relation = IF nbb.price = nbo.price
                                      THEN "Locked" ELSE "Crossed"
  BY DEF InversionIsReported
<1>1. PICK v \in Venue : HasBid(venueBooks[v]) /\ nbb = BidQuote(venueBooks, v)
  BY VenuesAreTyped, NationalBidIsFirst
<1>2. PICK w \in Venue : HasAsk(venueBooks[w]) /\ nbo = OfferQuote(venueBooks, w)
  BY VenuesAreTyped, NationalOfferIsFirst
<1>3. /\ nbb.venue = v /\ nbb.price = BestBid(venueBooks[v])
      /\ nbo.venue = w /\ nbo.price = BestAsk(venueBooks[w])
  BY <1>1, <1>2 DEF BidQuote, OfferQuote
<1>4. <<v, w>> \in Inverted(venueBooks)
  BY <1>1, <1>2, <1>3 DEF Inverted
<1>5. [bidVenue |-> v, offerVenue |-> w,
       relation |-> IF BestBid(venueBooks[v]) = BestAsk(venueBooks[w])
                    THEN "Locked" ELSE "Crossed"] \in Classify(venueBooks)
  BY <1>4 DEF Classify
<1> QED BY <1>3, <1>5

\* Whenever the national best bid is not below the national best offer, the
\* pair of venues that quote them is reported, or they are one venue.
THEOREM InversionIsReportedHolds == VenueSpec => []InversionIsReported
<1> QED BY InversionFromInv, VenueInvHolds, PTL

-----------------------------------------------------------------------------
(***************************************************************************)
(* The NBBO against the simulated markets.  index_of() narrows the         *)
(* distance of a price from the base to an int, so a price 2^32 ticks away *)
(* would be taken for one in the band: the theorem asks that the walk is   *)
(* too short to go that far.                                               *)
(***************************************************************************)
VenueBase == VenueReference - Levels \div 2

\* In the program: 2^31 ticks are more than the offset of 200 and 3 ticks for
\* each message.
WalkFitsInt ==
  \A origin \in StartPrices :
    Within(origin, VenueBase, IntRange \div 2 - 1 - MaxOffset - Walked(MaxMessages))

\* The prices stay near the reference and the bands stay where they were built.
WalkInv ==
  /\ VenueInv
  /\ PricesAreNear
  /\ \A v \in Venue : venueBooks[v].base = VenueBase

LEMMA WalkInitOK == VenueInit => WalkInv
BY VenueInitOK, PricesStartNear DEF VenueInit, WalkInv, BookInit, VenueBase

LEMMA WalkStep == WalkInv /\ [VenueNext]_venueVars => WalkInv'
<1> SUFFICES ASSUME WalkInv, [VenueNext]_venueVars PROVE WalkInv'
  OBVIOUS
<1>1. VenueInv'
  BY VenueStep DEF WalkInv
<1>2. CASE UNCHANGED venueVars
  BY <1>1, <1>2 DEF venueVars, simVars, WalkInv, PricesAreNear
<1>3. ASSUME NEW v \in Venue, Step(v) PROVE WalkInv'
  <2> DEFINE after == Apply(VenueView(v), last')
  <2>1. PICK drift \in Drift : NextMessage(v, drift, last')
    BY <1>3 DEF Step
  <2>2. SimInv /\ v \in Instrument /\ last' \in Message
    BY <2>1, NextMessageFollows DEF WalkInv, VenueInv, Venue, Follows
  <2>3. PricesAreNear'
    BY <2>1, <2>2, PricesStayNear DEF WalkInv
  <2>4. venueBooks' = [venueBooks EXCEPT ![v] = after.book]
    BY <1>3 DEF Step, VenueView
  <2>5. GoodView(VenueView(v)) /\ VenueView(v).book = venueBooks[v]
    BY DEF WalkInv, VenueInv, VenueView
  <2>6. after.book.base = venueBooks[v].base
    BY <2>2, <2>5, ApplyKeepsBase
  <2>7. \A w \in Venue : venueBooks'[w].base = VenueBase
    <3> HIDE DEF after
    <3> QED BY <2>4, <2>6 DEF WalkInv, VenueInv
  <2> QED BY <1>1, <2>3, <2>7 DEF WalkInv
<1> QED BY <1>2, <1>3 DEF VenueNext

\* Where a walk fits, an order in the band is at the price of its level.
LEMMA BandIsPrice ==
  ASSUME WalkInv, WalkFitsInt, NEW v \in Venue, NEW order \in liveOrders[v]
  PROVE  /\ order \in LiveOrder /\ venueBooks[v] \in Book
         /\ IndexOf(venueBooks[v], order.price) \in Int
         /\ order.price = venueBooks[v].base + IndexOf(venueBooks[v], order.price)
<1>1. /\ order \in LiveOrder /\ order.price \in Int
      /\ venueBooks[v] \in Book /\ venueBooks[v].base = VenueBase
      /\ generated \in Nat /\ generated <= MaxMessages
  BY DEF WalkInv, PricesAreNear, VenueInv, SimInv, SimTypeOK, GoodView, GoodBook, VenueView,
     Venue, LiveOrder
<1>2. PICK origin \in StartPrices :
        /\ origin \in Int
        /\ Within(order.price, origin, Walked(generated) + MaxOffset)
        /\ Within(origin, VenueBase, IntRange \div 2 - 1 - MaxOffset - Walked(MaxMessages))
  BY SimulatorAssumption DEF WalkInv, PricesAreNear, WalkFitsInt, Venue
<1>3. /\ Walked(generated) \in Nat /\ Walked(MaxMessages) \in Nat
      /\ Walked(generated) <= Walked(MaxMessages) /\ MaxOffset \in Nat
  <2>1. MaxDrift \in Nat /\ MaxMessages \in Nat
    BY SimulatorAssumption
  <2> QED BY <1>1, <2>1, SimulatorAssumption DEF Walked
<1>4. VenueBase \in Int /\ IntRange \div 2 \in Int
  BY VenueReferenceAssumption, LevelsAssumption, IntAssumption DEF VenueBase
<1>5. /\ order.price - VenueBase >= -(IntRange \div 2)
      /\ order.price - VenueBase < IntRange \div 2
  BY <1>1, <1>2, <1>3, <1>4 DEF Within
<1>6. IndexOf(venueBooks[v], order.price) = order.price - venueBooks[v].base
  BY <1>1, <1>5, IndexIsDistance
<1> QED BY <1>1, <1>4, <1>6

\* A level holds something exactly when an order of the market rests there.
LEMMA OccupiedByLive ==
  ASSUME VenueInv, NEW v \in Venue, NEW side \in Side, NEW index \in Index
  PROVE  LevelOf(venueBooks[v], side, index) > 0 <=>
           \E order \in liveOrders[v] :
             order.side = side /\ IndexOf(venueBooks[v], order.price) = index
<1>1. /\ SimInv /\ venueOrders[v] \in OrderMap /\ v \in Instrument
      /\ Mirrors(venueOrders[v], liveOrders[v], v)
      /\ DepthMatches(venueOrders[v], venueBooks[v], v)
  BY DEF VenueInv, GoodView, VenueView, Venue
<1>2. LevelOf(venueBooks[v], side, index) > 0 <=>
        \E id \in OrderId :
          /\ venueOrders[v][id] # NoOrder /\ venueOrders[v][id].instrument = v
          /\ venueOrders[v][id].side = side
          /\ IndexOf(venueBooks[v], venueOrders[v][id].price) = index
  BY <1>1, OccupiedByOrder
<1>3. \A order \in liveOrders[v] :
        /\ order.id \in OrderId
        /\ venueOrders[v][order.id] = LocationOf(order, v) /\ venueOrders[v][order.id] # NoOrder
  BY <1>1, FoundInMap
<1>4. \A id \in OrderId : venueOrders[v][id] # NoOrder =>
        \E order \in liveOrders[v] : order.id = id
  BY <1>1 DEF Mirrors
<1>5. \A order : /\ LocationOf(order, v).instrument = v
                 /\ LocationOf(order, v).side = order.side
                 /\ LocationOf(order, v).price = order.price
  BY DEF LocationOf
<1>6. ASSUME NEW order \in liveOrders[v], order.side = side,
             IndexOf(venueBooks[v], order.price) = index
      PROVE  LevelOf(venueBooks[v], side, index) > 0
  <2>1. /\ order.id \in OrderId /\ venueOrders[v][order.id] # NoOrder
        /\ venueOrders[v][order.id].instrument = v
        /\ venueOrders[v][order.id].side = side
        /\ IndexOf(venueBooks[v], venueOrders[v][order.id].price) = index
    BY <1>3, <1>5, <1>6
  <2> QED BY <1>2, <2>1
<1>7. ASSUME LevelOf(venueBooks[v], side, index) > 0
      PROVE  \E order \in liveOrders[v] :
               order.side = side /\ IndexOf(venueBooks[v], order.price) = index
  <2>1. PICK id \in OrderId :
          /\ venueOrders[v][id] # NoOrder /\ venueOrders[v][id].side = side
          /\ IndexOf(venueBooks[v], venueOrders[v][id].price) = index
    BY <1>2, <1>7
  <2>2. PICK order \in liveOrders[v] : order.id = id
    BY <1>4, <2>1
  <2>3. venueOrders[v][id] = LocationOf(order, v)
    BY <1>3, <2>2
  <2> QED BY <1>5, <2>1, <2>3
<1> QED BY <1>6, <1>7

\* The quotes of a venue are where its market's orders rest, and no order the
\* band holds is at a better price.
LEMMA BidIsLive ==
  ASSUME WalkInv, WalkFitsInt, NEW v \in Venue
  PROVE  /\ HasBid(venueBooks[v]) =>
              [venue |-> v, price |-> BestBid(venueBooks[v])] \in Rests("Buy")
         /\ \A order \in liveOrders[v] :
              order.side = "Buy" /\ InBand(venueBooks[v], order.price) =>
                /\ HasBid(venueBooks[v]) /\ order.price \in Int
                /\ order.price <= BestBid(venueBooks[v])
<1> DEFINE book == venueBooks[v]
<1>1. /\ book \in Book /\ NothingBetter(book) /\ BestIsOccupied(book)
      /\ Levels \in Nat /\ book.bestBid \in -1 .. Levels - 1 /\ book.base \in Int
      /\ book.bid \in [Index -> Nat]
  BY LevelsAssumption DEF WalkInv, VenueInv, GoodView, GoodBook, VenueView, Book, Quantity
<1>2. ASSUME HasBid(book) PROVE [venue |-> v, price |-> BestBid(book)] \in Rests("Buy")
  <2>1. book.bestBid \in Index /\ LevelOf(book, "Buy", book.bestBid) > 0
    BY <1>1, <1>2 DEF HasBid, BestIsOccupied, Index, LevelOf
  <2>2. PICK order \in liveOrders[v] :
          order.side = "Buy" /\ IndexOf(book, order.price) = book.bestBid
    BY <2>1, OccupiedByLive DEF WalkInv, Side
  <2>3. order.price = BestBid(book) /\ InBand(book, order.price)
    BY <2>1, <2>2, BandIsPrice DEF BestBid, InBand
  <2> QED BY <2>2, <2>3 DEF Rests
<1>3. ASSUME NEW order \in liveOrders[v], order.side = "Buy", InBand(book, order.price)
      PROVE  HasBid(book) /\ order.price \in Int /\ order.price <= BestBid(book)
  <2> DEFINE i == IndexOf(book, order.price)
  <2>1. i \in Index /\ i \in Int /\ i >= 0 /\ order.price = book.base + i
    BY <1>3, BandIsPrice, LevelsAssumption DEF InBand, Index
  <2>2. LevelOf(book, "Buy", i) > 0
    BY <1>3, <2>1, OccupiedByLive DEF WalkInv, Side
  <2>3. i <= book.bestBid
    BY <1>1, <2>1, <2>2 DEF NothingBetter, LevelOf
  <2> HIDE DEF i
  <2> QED BY <1>1, <2>1, <2>3 DEF HasBid, BestBid
<1> QED BY <1>2, <1>3

LEMMA OfferIsLive ==
  ASSUME WalkInv, WalkFitsInt, NEW v \in Venue
  PROVE  /\ HasAsk(venueBooks[v]) =>
              [venue |-> v, price |-> BestAsk(venueBooks[v])] \in Rests("Sell")
         /\ \A order \in liveOrders[v] :
              order.side = "Sell" /\ InBand(venueBooks[v], order.price) =>
                /\ HasAsk(venueBooks[v]) /\ order.price \in Int
                /\ order.price >= BestAsk(venueBooks[v])
<1> DEFINE book == venueBooks[v]
<1>1. /\ book \in Book /\ NothingBetter(book) /\ BestIsOccupied(book)
      /\ Levels \in Nat /\ book.bestAsk \in 0 .. Levels /\ book.base \in Int
      /\ book.ask \in [Index -> Nat]
  BY LevelsAssumption DEF WalkInv, VenueInv, GoodView, GoodBook, VenueView, Book, Quantity
<1>2. ASSUME HasAsk(book) PROVE [venue |-> v, price |-> BestAsk(book)] \in Rests("Sell")
  <2>1. book.bestAsk \in Index /\ LevelOf(book, "Sell", book.bestAsk) > 0
    BY <1>1, <1>2 DEF HasAsk, BestIsOccupied, Index, LevelOf
  <2>2. PICK order \in liveOrders[v] :
          order.side = "Sell" /\ IndexOf(book, order.price) = book.bestAsk
    BY <2>1, OccupiedByLive DEF WalkInv, Side
  <2>3. order.price = BestAsk(book) /\ InBand(book, order.price)
    BY <2>1, <2>2, BandIsPrice DEF BestAsk, InBand
  <2> QED BY <2>2, <2>3 DEF Rests
<1>3. ASSUME NEW order \in liveOrders[v], order.side = "Sell", InBand(book, order.price)
      PROVE  HasAsk(book) /\ order.price \in Int /\ order.price >= BestAsk(book)
  <2> DEFINE i == IndexOf(book, order.price)
  <2>1. i \in Index /\ i \in Int /\ i <= Levels - 1 /\ order.price = book.base + i
    BY <1>3, BandIsPrice, LevelsAssumption DEF InBand, Index
  <2>2. LevelOf(book, "Sell", i) > 0
    BY <1>3, <2>1, OccupiedByLive DEF WalkInv, Side
  <2>3. i >= book.bestAsk
    BY <1>1, <2>1, <2>2 DEF NothingBetter, LevelOf
  <2> HIDE DEF i
  <2> QED BY <1>1, <2>1, <2>3 DEF HasAsk, BestAsk
<1> QED BY <1>2, <1>3

LEMMA BidIsBestResting ==
  ASSUME WalkInv, WalkFitsInt
  PROVE  Published(NationalBid(venueBooks), Rests("Buy"), "Sell")
<1> DEFINE quoting == {v \in Venue : HasBid(venueBooks[v])}
           bid(v) == BestBid(venueBooks[v])
<1>1. Typed(venueBooks) /\ \A v \in Venue : bid(v) \in Int
  BY VenuesAreTyped, TouchIsInt DEF WalkInv, Typed
<1>2. ASSUME NEW r \in Rests("Buy")
      PROVE  /\ r.venue \in Venue /\ HasBid(venueBooks[r.venue]) /\ r.price \in Int
             /\ r.price <= bid(r.venue)
  <2>1. PICK w \in Venue : \E order \in liveOrders[w] :
          /\ r = [venue |-> w, price |-> order.price]
          /\ order.side = "Buy" /\ InBand(venueBooks[w], order.price)
    BY <1>2 DEF Rests
  <2>2. PICK order \in liveOrders[w] :
          /\ r = [venue |-> w, price |-> order.price]
          /\ order.side = "Buy" /\ InBand(venueBooks[w], order.price)
    BY <2>1
  <2>3. /\ HasBid(venueBooks[w]) /\ order.price \in Int
        /\ order.price <= BestBid(venueBooks[w])
    BY <2>2, BidIsLive
  <2>4. r.venue = w /\ r.price = order.price
    BY <2>2
  <2> QED BY <2>3, <2>4
<1>3. CASE quoting = {}
  <2>1. Rests("Buy") = {}
    BY <1>2, <1>3
  <2> QED BY <1>1, <1>3, <2>1, NationalBidIsFirst DEF Published
<1>4. CASE quoting # {}
  <2>1. PICK v \in quoting :
          /\ NationalBid(venueBooks) = BidQuote(venueBooks, v)
          /\ \A w \in quoting : bid(w) < bid(v) \/ (bid(w) = bid(v) /\ v <= w)
    BY <1>1, <1>4, NationalBidIsFirst
  <2>2. BidQuote(venueBooks, v) \in Rests("Buy")
    BY BidIsLive DEF BidQuote
  <2>3. ASSUME NEW r \in Rests("Buy")
        PROVE  bid(v) > r.price \/ (r.price = bid(v) /\ v <= r.venue)
    <3>1. /\ r.venue \in quoting /\ r.price \in Int /\ r.price <= bid(r.venue)
          /\ bid(r.venue) \in Int /\ bid(v) \in Int
      BY <1>1, <1>2
    <3>2. bid(r.venue) < bid(v) \/ (bid(r.venue) = bid(v) /\ v <= r.venue)
      BY <2>1, <3>1
    <3> HIDE DEF bid
    <3> QED BY <3>1, <3>2
  <2>4. /\ NationalBid(venueBooks).price = bid(v) /\ NationalBid(venueBooks).venue = v
        /\ NationalBid(venueBooks) \in Rests("Buy")
    BY <2>1, <2>2 DEF BidQuote
  <2> QED BY <2>3, <2>4 DEF Published, BetterFor
<1> QED BY <1>3, <1>4

LEMMA OfferIsBestResting ==
  ASSUME WalkInv, WalkFitsInt
  PROVE  Published(NationalOffer(venueBooks), Rests("Sell"), "Buy")
<1> DEFINE quoting == {v \in Venue : HasAsk(venueBooks[v])}
           ask(v) == BestAsk(venueBooks[v])
<1>1. Typed(venueBooks) /\ \A v \in Venue : ask(v) \in Int
  BY VenuesAreTyped, TouchIsInt DEF WalkInv, Typed
<1>2. ASSUME NEW r \in Rests("Sell")
      PROVE  /\ r.venue \in Venue /\ HasAsk(venueBooks[r.venue]) /\ r.price \in Int
             /\ r.price >= ask(r.venue)
  <2>1. PICK w \in Venue : \E order \in liveOrders[w] :
          /\ r = [venue |-> w, price |-> order.price]
          /\ order.side = "Sell" /\ InBand(venueBooks[w], order.price)
    BY <1>2 DEF Rests
  <2>2. PICK order \in liveOrders[w] :
          /\ r = [venue |-> w, price |-> order.price]
          /\ order.side = "Sell" /\ InBand(venueBooks[w], order.price)
    BY <2>1
  <2>3. /\ HasAsk(venueBooks[w]) /\ order.price \in Int
        /\ order.price >= BestAsk(venueBooks[w])
    BY <2>2, OfferIsLive
  <2>4. r.venue = w /\ r.price = order.price
    BY <2>2
  <2> QED BY <2>3, <2>4
<1>3. CASE quoting = {}
  <2>1. Rests("Sell") = {}
    BY <1>2, <1>3
  <2> QED BY <1>1, <1>3, <2>1, NationalOfferIsFirst DEF Published
<1>4. CASE quoting # {}
  <2>1. PICK v \in quoting :
          /\ NationalOffer(venueBooks) = OfferQuote(venueBooks, v)
          /\ \A w \in quoting : ask(w) > ask(v) \/ (ask(w) = ask(v) /\ v <= w)
    BY <1>1, <1>4, NationalOfferIsFirst
  <2>2. OfferQuote(venueBooks, v) \in Rests("Sell")
    BY OfferIsLive DEF OfferQuote
  <2>3. ASSUME NEW r \in Rests("Sell")
        PROVE  ask(v) < r.price \/ (r.price = ask(v) /\ v <= r.venue)
    <3>1. /\ r.venue \in quoting /\ r.price \in Int /\ r.price >= ask(r.venue)
          /\ ask(r.venue) \in Int /\ ask(v) \in Int
      BY <1>1, <1>2
    <3>2. ask(r.venue) > ask(v) \/ (ask(r.venue) = ask(v) /\ v <= r.venue)
      BY <2>1, <3>1
    <3> HIDE DEF ask
    <3> QED BY <3>1, <3>2
  <2>4. /\ NationalOffer(venueBooks).price = ask(v) /\ NationalOffer(venueBooks).venue = v
        /\ NationalOffer(venueBooks) \in Rests("Sell")
    BY <2>1, <2>2 DEF OfferQuote
  <2> QED BY <2>3, <2>4 DEF Published, BetterFor
<1> QED BY <1>3, <1>4

\* The NBBO is the best price at which an order of any simulated market rests
\* within a band, and names the first venue that has one there, as long as the
\* prices cannot walk out of the range of an int.
THEOREM NbboIsBestRestingHolds ==
  ASSUME WalkFitsInt
  PROVE  VenueSpec => []NbboIsBestResting
<1>1. WalkInv => NbboIsBestResting
  BY BidIsBestResting, OfferIsBestResting DEF NbboIsBestResting
<1>2. VenueSpec => []WalkInv
  BY WalkInitOK, WalkStep, PTL DEF VenueSpec
<1> QED BY <1>1, <1>2, PTL

----------------------------------------------------------------------------
\* The harness: what holds of the venues holds of those it steps and builds anew,
\* and the guard passes it.

\* The venues keep their invariant, and nothing was missed or refused by
\* mistake.
HarnessInv ==
  /\ VenueInv
  /\ constructed \in Nat /\ falsePositives \in Nat
  /\ HarnessPasses

\* If there is a pair at all, the two loops stop at one.
LEMMA FirstPairIsAPair ==
  ASSUME NEW pairs, pairs \subseteq Venue \X Venue, pairs # {}
  PROVE  FirstPair(pairs) \in pairs
<1> DEFINE victims == {p[1] : p \in pairs}
<1>1. victims \subseteq Nat /\ victims # {}
  BY InstrumentsAssumption DEF Venue, Instrument
<1>2. PICK v \in victims : \A w \in victims : v <= w
  <2> HIDE DEF victims
  <2> QED BY <1>1, LeastNatural
<1> DEFINE rivals == {p[2] : p \in {q \in pairs : q[1] = v}}
<1>3. rivals \subseteq Nat /\ rivals # {}
  BY InstrumentsAssumption DEF Venue, Instrument
<1>4. PICK r \in rivals : \A w \in rivals : r <= w
  <2> HIDE DEF rivals
  <2> QED BY <1>3, LeastNatural
<1>5. PICK p \in pairs : p[1] = v /\ p[2] = r
  BY <1>4
<1>6. \A q \in pairs : p[1] < q[1] \/ (p[1] = q[1] /\ p[2] <= q[2])
  <2> SUFFICES ASSUME NEW q \in pairs
               PROVE  p[1] < q[1] \/ (p[1] = q[1] /\ p[2] <= q[2])
    OBVIOUS
  <2>1. v <= q[1] /\ v \in Nat /\ q[1] \in Nat
    BY <1>1, <1>2
  <2>2. q[1] = v => r <= q[2]
    BY <1>4
  <2> QED BY <1>5, <2>1, <2>2
<1> QED BY <1>5, <1>6 DEF FirstPair

\* A buy at the offer of a venue is refused when another venue offers lower.
LEMMA ThroughBuyIsRefused ==
  ASSUME Typed(venueBooks), NEW v \in Venue, NEW w \in Venue,
         HasAsk(venueBooks[v]), HasAsk(venueBooks[w]),
         BestAsk(venueBooks[w]) < BestAsk(venueBooks[v])
  PROVE  Evaluate(OrderAtTouch("Buy", v), venueBooks) = "RejectedTradeThrough"
<1> DEFINE quoting == {u \in Venue : HasAsk(venueBooks[u])}
           ask(u) == BestAsk(venueBooks[u])
           order == OrderAtTouch("Buy", v)
<1>1. \A u \in Venue : ask(u) \in Int
  BY TouchIsInt DEF Typed
<1>2. PICK f \in quoting :
        /\ NationalOffer(venueBooks) = OfferQuote(venueBooks, f)
        /\ \A u \in quoting : ask(u) > ask(f) \/ (ask(u) = ask(f) /\ f <= u)
  BY NationalOfferIsFirst
<1>3. ask(f) < ask(v) /\ f # v
  BY <1>1, <1>2
<1>4. /\ NationalOffer(venueBooks) # NoQuote /\ NationalOffer(venueBooks).venue = f
      /\ NationalOffer(venueBooks).price = ask(f)
  BY <1>2, QuotesAreQuotes DEF OfferQuote
<1>5. order.side = "Buy" /\ order.venue = v /\ order.limit = ask(v)
  BY DEF OrderAtTouch, TouchOf
<1>6. Marketable(order, venueBooks)
  BY <1>1, <1>5 DEF Marketable, HasTouch, BetterFor, TouchOf
<1> QED BY <1>3, <1>4, <1>5, <1>6 DEF Evaluate, HasTouch, BetterFor, TouchOf

\* A sell at the bid of a venue is refused when another venue bids higher.
LEMMA ThroughSellIsRefused ==
  ASSUME Typed(venueBooks), NEW v \in Venue, NEW w \in Venue,
         HasBid(venueBooks[v]), HasBid(venueBooks[w]),
         BestBid(venueBooks[w]) > BestBid(venueBooks[v])
  PROVE  Evaluate(OrderAtTouch("Sell", v), venueBooks) = "RejectedTradeThrough"
<1> DEFINE quoting == {u \in Venue : HasBid(venueBooks[u])}
           bid(u) == BestBid(venueBooks[u])
           order == OrderAtTouch("Sell", v)
<1>1. \A u \in Venue : bid(u) \in Int
  BY TouchIsInt DEF Typed
<1>2. PICK f \in quoting :
        /\ NationalBid(venueBooks) = BidQuote(venueBooks, f)
        /\ \A u \in quoting : bid(u) < bid(f) \/ (bid(u) = bid(f) /\ f <= u)
  BY NationalBidIsFirst
<1>3. bid(f) > bid(v) /\ f # v
  BY <1>1, <1>2
<1>4. /\ NationalBid(venueBooks) # NoQuote /\ NationalBid(venueBooks).venue = f
      /\ NationalBid(venueBooks).price = bid(f)
  BY <1>2, QuotesAreQuotes DEF BidQuote
<1>5. order.side = "Sell" /\ order.venue = v /\ order.limit = bid(v)
  BY DEF OrderAtTouch, TouchOf
<1>6. Marketable(order, venueBooks)
  BY <1>1, <1>5 DEF Marketable, HasTouch, BetterFor, TouchOf
<1> QED BY <1>3, <1>4, <1>5, <1>6 DEF Evaluate, HasTouch, BetterFor, TouchOf

\* Part 1: every scenario is caught.
LEMMA InjectIsCaught == HarnessInv /\ Inject => caught' = caught + 1
<1> SUFFICES ASSUME HarnessInv, Inject PROVE caught' = caught + 1
  OBVIOUS
<1> DEFINE side == IF constructed % 2 = 0 THEN "Buy" ELSE "Sell"
           pairs == Throughs(side, venueBooks)
           p == FirstPair(pairs)
<1>1. Typed(venueBooks)
  BY VenuesAreTyped DEF HarnessInv
<1>2. p \in pairs
  <2>1. pairs \subseteq Venue \X Venue /\ pairs # {}
    BY DEF Throughs, Inject
  <2> HIDE DEF pairs
  <2> QED BY <2>1, FirstPairIsAPair
<1>3. /\ p[1] \in Venue /\ p[2] \in Venue
      /\ HasTouch(side, venueBooks[p[1]]) /\ HasTouch(side, venueBooks[p[2]])
      /\ BetterFor(side, TouchOf(side, venueBooks[p[2]]), TouchOf(side, venueBooks[p[1]]))
  <2> HIDE DEF p, side
  <2> QED BY <1>2 DEF Throughs
<1>4. Evaluate(OrderAtTouch(side, p[1]), venueBooks) = "RejectedTradeThrough"
  <2>1. CASE side = "Buy"
    <3> HIDE DEF p
    <3> QED BY <1>1, <1>3, <2>1, ThroughBuyIsRefused DEF HasTouch, BetterFor, TouchOf
  <2>2. CASE side = "Sell"
    <3> HIDE DEF p
    <3> QED BY <1>1, <1>3, <2>2, ThroughSellIsRefused DEF HasTouch, BetterFor, TouchOf
  <2> QED BY <2>1, <2>2
<1> QED BY <1>4 DEF Inject

\* Part 2: an order to the venue that the quote names is no trade-through.
LEMMA CleanIsNotRefused == CleanOrder => falsePositives' = falsePositives
<1> SUFFICES ASSUME CleanOrder PROVE falsePositives' = falsePositives
  OBVIOUS
<1> DEFINE side == IF k % 2 = 0 THEN "Buy" ELSE "Sell"
           best == IF side = "Buy" THEN NationalOffer(venueBooks) ELSE NationalBid(venueBooks)
           away == IF k % 3 # 0 THEN 0 ELSE IF side = "Buy" THEN -500 ELSE 500
           order == [side |-> side, limit |-> best.price + away, venue |-> best.venue]
<1>1. order.side = side /\ order.venue = best.venue
  OBVIOUS
<1>2. Evaluate(order, venueBooks) # "RejectedTradeThrough"
  <2> HIDE DEF order, side
  <2> QED BY <1>1 DEF Evaluate
<1> QED BY <1>2 DEF CleanOrder

\* The harness starts right.
LEMMA HarnessInitOK == HarnessInit => HarnessInv
BY VenueInitOK DEF HarnessInit, HarnessInv, HarnessPasses

\* A new session is a new start of the venues.
LEMMA SessionVenues == NewSession => VenueInv'
<1>1. NewSession => VenueInit'
  BY DEF NewSession, VenueInit, SimInit
<1>2. VenueInit' => VenueInv'
  BY VenueInitOK, PTL
<1> QED BY <1>1, <1>2

\* Every step of the harness keeps the invariant.
LEMMA HarnessStep == HarnessInv /\ [HarnessNext]_harnessVars => HarnessInv'
<1> SUFFICES ASSUME HarnessInv, [HarnessNext]_harnessVars PROVE HarnessInv'
  OBVIOUS
<1>1. CASE StepVenues
  <2>1. VenueInv'
    BY <1>1, VenueStep DEF HarnessInv, StepVenues
  <2> QED BY <1>1, <2>1 DEF HarnessInv, HarnessPasses, StepVenues, countVars
<1>2. CASE Inject
  <2>1. VenueInv'
    BY <1>2, VenueStep DEF HarnessInv, Inject
  <2>2. constructed' = constructed + 1 /\ caught' = caught + 1
        /\ falsePositives' = falsePositives
    BY <1>2, InjectIsCaught DEF Inject
  <2> QED BY <2>1, <2>2 DEF HarnessInv, HarnessPasses
<1>3. CASE NewSession
  BY <1>3, SessionVenues DEF HarnessInv, HarnessPasses, NewSession
<1>4. CASE CleanOrder
  <2>1. VenueInv'
    BY <1>4, VenueStep DEF HarnessInv, CleanOrder
  <2>2. falsePositives' = falsePositives
    BY <1>4, CleanIsNotRefused
  <2> QED BY <1>4, <2>1, <2>2 DEF HarnessInv, HarnessPasses, CleanOrder
<1>5. CASE UNCHANGED harnessVars
  <2>1. VenueInv'
    BY <1>5, VenueStep DEF HarnessInv, harnessVars
  <2> QED BY <1>5, <2>1 DEF HarnessInv, HarnessPasses, harnessVars, countVars
<1> QED BY <1>1, <1>2, <1>3, <1>4, <1>5 DEF HarnessNext

\* The invariant holds in every run of the harness.
LEMMA HarnessInvHolds == HarnessSpec => []HarnessInv
<1> QED BY HarnessInitOK, HarnessStep, PTL DEF HarnessSpec

\* The guard catches every scenario the harness constructs, however many venues
\* tie, and refuses none of the clean orders.
THEOREM HarnessPassesHolds == HarnessSpec => []HarnessPasses
<1>1. HarnessInv => HarnessPasses
  BY DEF HarnessInv
<1> QED BY <1>1, HarnessInvHolds, PTL

\* On the venues of the harness, in every session, the guard is exact and an
\* inverted market is reported.
THEOREM HarnessVenuesHold ==
  HarnessSpec => [](GuardIsExact /\ InversionIsReported)
<1>1. HarnessInv => GuardIsExact /\ InversionIsReported
  BY GuardFromInv, InversionFromInv DEF HarnessInv
<1> QED BY <1>1, HarnessInvHolds, PTL

\* A step of the harness is one of the venues, leaves them alone or builds them
\* anew.
LEMMA HarnessWalkStep == WalkInv /\ [HarnessNext]_harnessVars => WalkInv'
<1>1. NewSession => VenueInit'
  BY DEF NewSession, VenueInit, SimInit
<1>2. VenueInit' => WalkInv'
  BY WalkInitOK, PTL
<1>3. [HarnessNext]_harnessVars => NewSession \/ [VenueNext]_venueVars
  BY DEF HarnessNext, StepVenues, Inject, CleanOrder, harnessVars
<1> QED BY <1>1, <1>2, <1>3, WalkStep

\* In every session the NBBO is the best price any order rests at, as long as the
\* prices of no session can walk out of the range of an int.
THEOREM HarnessNbboHolds ==
  ASSUME WalkFitsInt
  PROVE  HarnessSpec => []NbboIsBestResting
<1>1. WalkInv => NbboIsBestResting
  BY BidIsBestResting, OfferIsBestResting DEF NbboIsBestResting
<1>2. HarnessInit => WalkInv
  BY WalkInitOK DEF HarnessInit
<1>3. HarnessSpec => []WalkInv
  BY <1>2, HarnessWalkStep, PTL DEF HarnessSpec
<1> QED BY <1>1, <1>3, PTL
=============================================================================
