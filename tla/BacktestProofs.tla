--------------------------- MODULE BacktestProofs ---------------------------
(***************************************************************************)
(* Theorems about BacktestEngine, for any feed, placement interval and     *)
(* time to live: each order has one result in the end, the naive twin of   *)
(* an order is never filled after it, an order is filled only from the     *)
(* front of its queue, a position kept message by message is the one the   *)
(* queue shows, and the two books agree.                                   *)
(***************************************************************************)
EXTENDS Backtest, FiniteSetTheorems, SimulatorProofs

\* A tracker that watches a level, and an active order, the one of the
\* queue-tracked model with a tracker of the level it rests on.
Watches(t, level) ==
  \E seq, ahead, front :
    t = [level |-> level, seq |-> seq, ahead |-> ahead, front |-> front]

Shaped(o) ==
  \E tracker :
    /\ o = [pair |-> o.pair, naive |-> o.naive, level |-> o.level,
            placed |-> o.placed, tracker |-> tracker]
    /\ o.naive \in BOOLEAN
    /\ ~o.naive => Watches(tracker, o.level)

\* The orders and the results of one model for one pair.
Of(set, pair, naive) == {x \in set : x.pair = pair /\ x.naive = naive}

\* Of every pair placed, each model has an order or a result, not both.
PairsOnce(orders, res, next) ==
  \A pair \in 1 .. next - 1, naive \in BOOLEAN :
    \/ Of(res, pair, naive) = {} /\ \E o : Of(orders, pair, naive) = {o}
    \/ Of(orders, pair, naive) = {} /\ \E r : Of(res, pair, naive) = {r}

NaiveTwin(o, n) ==
  n.naive /\ n.pair = o.pair /\ n.level = o.level /\ n.placed = o.placed

NaiveFilled(res, pair, idx) ==
  \E r \in res : /\ r.naive /\ r.pair = pair
                 /\ r.outcome = "Filled" /\ r.resolved <= idx

\* A tracked order that is still active has its naive twin beside it, placed at
\* the same level by the same message, unless the twin has been filled: the two
\* expire together.
TwinsTogether(orders, res, idx) ==
  \A o \in orders : ~o.naive =>
    (\E n \in orders : NaiveTwin(o, n)) \/ NaiveFilled(res, o.pair, idx)

FillsFirst(res) ==
  \A r \in res : r.outcome = "Filled" /\ ~r.naive =>
    NaiveFilled(res, r.pair, r.resolved)

\* What holds of the orders, the results and the next pair before message idx.
OrdersOK(orders, res, next, idx) ==
  /\ idx \in Nat /\ next \in Nat /\ next >= 1
  /\ \A o \in orders : Shaped(o) /\ o.pair \in 1 .. next - 1
  /\ \A r \in res : /\ r.pair \in 1 .. next - 1 /\ r.naive \in BOOLEAN
                    /\ r.resolved \in Nat /\ r.resolved <= idx
  /\ PairsOnce(orders, res, next)
  /\ TwinsTogether(orders, res, idx)
  /\ FillsFirst(res)

OrdersInv == OrdersOK(active, results, nextPair, generated)

\* No order is active or resolved at first.
LEMMA OrdersInit == BacktestInit => OrdersInv
<1> SUFFICES ASSUME BacktestInit PROVE OrdersInv
  OBVIOUS
<1>1. active = {} /\ results = {} /\ nextPair = 1 /\ generated = 0
  BY DEF BacktestInit, SimInit
<1> QED BY <1>1 DEF OrdersInv, OrdersOK, PairsOnce, TwinsTogether, FillsFirst

\* A tracker watches the same level after every message.
LEMMA ConsumeWatches ==
  ASSUME NEW t, NEW level, Watches(t, level), NEW reduction
  PROVE  Watches(Consume(t, reduction), level)
<1> DEFINE left == Minus(t.ahead, reduction.qty)
<1>1. PICK seq, ahead, front :
        t = [level |-> level, seq |-> seq, ahead |-> ahead, front |-> front]
  BY DEF Watches
<1>2. CASE Concerns(t, reduction) /\ reduction.seq < t.seq
  <2>1. Consume(t, reduction) = [t EXCEPT !.ahead = left, !.front = @ \/ left = 0]
    BY <1>2, Zenon DEF Consume
  <2> HIDE DEF left
  <2> DEFINE f == t.front \/ left = 0
  <2> DEFINE moved == [level |-> level, seq |-> seq, ahead |-> left, front |-> front]
  <2>2. [t EXCEPT !.ahead = left] = moved
    BY <1>1
  <2>3. [moved EXCEPT !.front = f] =
          [level |-> level, seq |-> seq, ahead |-> left, front |-> f]
    <3> HIDE DEF f
    <3> QED OBVIOUS
  <2>4. [t EXCEPT !.ahead = left, !.front = @ \/ left = 0] =
          [[t EXCEPT !.ahead = left] EXCEPT !.front = f]
    BY SMT
  <2> HIDE DEF f
  <2> QED BY <2>1, <2>2, <2>3, <2>4, Zenon DEF Watches
<1>3. CASE ~(Concerns(t, reduction) /\ reduction.seq < t.seq)
  BY <1>3, Zenon DEF Consume
<1> QED BY <1>2, <1>3

\* Ageing an order moves its tracker and nothing else.
LEMMA AgedIsSame ==
  ASSUME NEW o, Shaped(o), NEW reduction
  PROVE  /\ Shaped(Aged(o, reduction))
         /\ Aged(o, reduction).pair = o.pair /\ Aged(o, reduction).naive = o.naive
         /\ Aged(o, reduction).level = o.level /\ Aged(o, reduction).placed = o.placed
<1>1. CASE o.naive
  BY <1>1 DEF Aged
<1>2. CASE ~o.naive
  <2>1. PICK tracker :
          /\ o = [pair |-> o.pair, naive |-> o.naive, level |-> o.level,
                  placed |-> o.placed, tracker |-> tracker]
          /\ o.naive \in BOOLEAN
          /\ Watches(tracker, o.level)
    BY <1>2, Zenon DEF Shaped
  <2>2. o.tracker = tracker
    BY <2>1
  <2> DEFINE t == Consume(tracker, reduction)
             new == [pair |-> o.pair, naive |-> o.naive, level |-> o.level,
                     placed |-> o.placed, tracker |-> t]
  <2>3. Watches(t, o.level)
    BY <2>1, ConsumeWatches
  <2>4. Aged(o, reduction) = [o EXCEPT !.tracker = t]
    BY <1>2, <2>2, Zenon DEF Aged
  <2> HIDE DEF t
  <2>5. [o EXCEPT !.tracker = t] = new
    BY <2>1
  <2>6. Shaped(new)
    <3>1. /\ new.pair = o.pair /\ new.naive = o.naive
          /\ new.level = o.level /\ new.placed = o.placed
      OBVIOUS
    <3> QED BY <2>1, <2>3, <3>1 DEF Shaped
  <2> QED BY <2>4, <2>5, <2>6
<1> QED BY <1>1, <1>2 DEF Shaped

\* The two orders that place_pair() makes.
Twins(pair, idx, level, seq, ahead) ==
  LET order == [pair |-> pair, naive |-> TRUE, level |-> level,
                placed |-> idx, tracker |-> NoTracker]
  IN  {order, [order EXCEPT !.naive = FALSE, !.tracker = NewTracker(level, seq, ahead)]}

\* Two twins of that pair: n for the naive model, o for the other.
TwinPair(n, o, pair) ==
  /\ Shaped(n) /\ Shaped(o) /\ n.naive = TRUE /\ o.naive = FALSE
  /\ n.pair = pair /\ o.pair = pair /\ NaiveTwin(o, n)

\* place_pair() makes twins.
LEMMA NewPairIsTwins ==
  ASSUME NEW pair, NEW idx, NEW level, NEW seq, NEW ahead
  PROVE  \E n, o : Twins(pair, idx, level, seq, ahead) = {n, o} /\ TwinPair(n, o, pair)
<1> DEFINE yes == TRUE
           no == FALSE
           n == [pair |-> pair, naive |-> yes, level |-> level,
                 placed |-> idx, tracker |-> NoTracker]
           t == NewTracker(level, seq, ahead)
           o == [pair |-> pair, naive |-> no, level |-> level,
                 placed |-> idx, tracker |-> t]
<1>1. Twins(pair, idx, level, seq, ahead) = {n, [n EXCEPT !.naive = no, !.tracker = t]}
  BY Zenon DEF Twins
<1>2. Watches(t, level)
  BY Zenon DEF NewTracker, Watches
<1>3. yes = TRUE /\ no = FALSE
  OBVIOUS
<1> HIDE DEF t, yes, no
<1>4. [n EXCEPT !.naive = no, !.tracker = t] = o
  <2> DEFINE m == [pair |-> pair, naive |-> no, level |-> level,
                   placed |-> idx, tracker |-> NoTracker]
  <2>1. [n EXCEPT !.naive = no] = m
    BY SMT
  <2>2. [m EXCEPT !.tracker = t] = o
    BY SMT
  <2>3. [n EXCEPT !.naive = no, !.tracker = t] =
          [[n EXCEPT !.naive = no] EXCEPT !.tracker = t]
    <3> HIDE DEF n
    <3> QED BY SMT
  <2> QED BY <2>1, <2>2, <2>3
<1>5. Shaped(n) /\ Shaped(o) /\ NaiveTwin(o, n)
  BY <1>2, <1>3 DEF Shaped, NaiveTwin
<1> QED BY <1>1, <1>3, <1>4, <1>5 DEF TwinPair
-----------------------------------------------------------------------------
\* What one message does to the orders.
Filled(orders, reduction) == {o \in orders : IsFilled(o, reduction)}
Expired(orders, reduction, idx) ==
  {o \in orders \ Filled(orders, reduction) : IsExpired(o, idx)}
Left(orders, reduction, idx) ==
  orders \ (Filled(orders, reduction) \cup Expired(orders, reduction, idx))
Kept(orders, reduction, idx) ==
  {Aged(o, reduction) : o \in Left(orders, reduction, idx)}
Resolved(orders, res, reduction, idx) ==
  res \cup {Result(o, "Filled", idx) : o \in Filled(orders, reduction)}
      \cup {Result(o, "Canceled", idx) : o \in Expired(orders, reduction, idx)}

\* What fills a tracked order fills its naive twin.
LEMMA TwinFills ==
  ASSUME NEW o, NEW n, NEW reduction, Shaped(o), ~o.naive, NaiveTwin(o, n),
         IsFilled(o, reduction)
  PROVE  IsFilled(n, reduction)
<1>1. o.tracker.level = o.level
  <2>1. PICK tracker :
          /\ o = [pair |-> o.pair, naive |-> o.naive, level |-> o.level,
                  placed |-> o.placed, tracker |-> tracker]
          /\ Watches(tracker, o.level)
    BY Zenon DEF Shaped
  <2>2. o.tracker = tracker
    BY <2>1
  <2>3. tracker.level = o.level
    BY <2>1 DEF Watches
  <2> QED BY <2>2, <2>3
<1>2. Concerns(o.tracker, reduction) /\ reduction.isExecute
  BY DEF IsFilled, Fills
<1> QED BY <1>1, <1>2 DEF IsFilled, Concerns, NaiveTwin

\* A message leaves every pair with one order or result per model.
LEMMA MessagePairs ==
  ASSUME NEW orders, NEW res, NEW next, NEW idx, NEW reduction,
         OrdersOK(orders, res, next, idx)
  PROVE  PairsOnce(Kept(orders, reduction, idx),
                   Resolved(orders, res, reduction, idx), next)
<1> DEFINE kept == Kept(orders, reduction, idx)
           resolved == Resolved(orders, res, reduction, idx)
<1> SUFFICES ASSUME NEW pair \in 1 .. next - 1, NEW naive \in BOOLEAN
             PROVE  \/ /\ Of(resolved, pair, naive) = {}
                       /\ \E o : Of(kept, pair, naive) = {o}
                    \/ /\ Of(kept, pair, naive) = {}
                       /\ \E r : Of(resolved, pair, naive) = {r}
  BY DEF PairsOnce
<1>1. \A o \in orders : Shaped(o)
  BY DEF OrdersOK
<1>2. \A a \in kept : \E o \in Left(orders, reduction, idx) :
        a = Aged(o, reduction) /\ a.pair = o.pair /\ a.naive = o.naive
  <2> TAKE a \in kept
  <2>1. PICK o \in Left(orders, reduction, idx) : a = Aged(o, reduction)
    BY DEF Kept
  <2>2. Shaped(o)
    BY <1>1 DEF Left
  <2> QED BY <2>1, <2>2, AgedIsSame
<1>3. \A o, outcome : /\ Result(o, outcome, idx).pair = o.pair
                      /\ Result(o, outcome, idx).naive = o.naive
  BY DEF Result
<1>4. \A r \in resolved :
        \/ r \in res
        \/ \E o \in Filled(orders, reduction) : r = Result(o, "Filled", idx)
        \/ \E o \in Expired(orders, reduction, idx) : r = Result(o, "Canceled", idx)
  BY Zenon DEF Resolved
<1>5. CASE Of(res, pair, naive) = {} /\ \E o : Of(orders, pair, naive) = {o}
  <2>1. PICK o : Of(orders, pair, naive) = {o}
    BY <1>5
  <2>2. /\ o \in orders /\ o.pair = pair /\ o.naive = naive
        /\ \A x \in orders : x.pair = pair /\ x.naive = naive => x = o
    BY <2>1 DEF Of
  <2>3. \A r \in res : ~(r.pair = pair /\ r.naive = naive)
    BY <1>5 DEF Of
  <2>4. CASE o \in Filled(orders, reduction)
    <3>1. Of(kept, pair, naive) = {}
      BY <1>2, <2>2, <2>4 DEF Of, Left
    <3>2. Of(resolved, pair, naive) = {Result(o, "Filled", idx)}
      BY <1>3, <1>4, <2>2, <2>3, <2>4 DEF Of, Resolved, Expired, Filled
    <3> QED BY <3>1, <3>2
  <2>5. CASE o \in Expired(orders, reduction, idx)
    <3>1. Of(kept, pair, naive) = {}
      BY <1>2, <2>2, <2>5 DEF Of, Left
    <3>2. Of(resolved, pair, naive) = {Result(o, "Canceled", idx)}
      BY <1>3, <1>4, <2>2, <2>3, <2>5 DEF Of, Resolved, Expired, Filled
    <3> QED BY <3>1, <3>2
  <2>6. CASE o \in Left(orders, reduction, idx)
    <3>1. Of(kept, pair, naive) = {Aged(o, reduction)}
      BY <1>1, <1>2, <2>2, <2>6, AgedIsSame DEF Of, Left, Kept
    <3>2. Of(resolved, pair, naive) = {}
      BY <1>3, <1>4, <2>2, <2>3, <2>6 DEF Of, Left, Expired, Filled
    <3> QED BY <3>1, <3>2
  <2> QED BY <2>2, <2>4, <2>5, <2>6 DEF Left
<1>6. CASE Of(orders, pair, naive) = {} /\ \E r : Of(res, pair, naive) = {r}
  <2>1. \A x \in orders : ~(x.pair = pair /\ x.naive = naive)
    BY <1>6 DEF Of
  <2>2. Of(kept, pair, naive) = {}
    BY <1>2, <2>1 DEF Of, Left
  <2>3. Of(resolved, pair, naive) = Of(res, pair, naive)
    <3>1. res \subseteq resolved
      BY DEF Resolved
    <3> QED BY <1>3, <1>4, <2>1, <3>1 DEF Of, Expired, Filled
  <2> QED BY <1>6, <2>2, <2>3
<1> QED BY <1>5, <1>6 DEF OrdersOK, PairsOnce

\* What is filled is naively filled by then, and who stays keeps its twin.
LEMMA MessageTwins ==
  ASSUME NEW orders, NEW res, NEW next, NEW idx, NEW reduction,
         OrdersOK(orders, res, next, idx)
  PROVE  LET kept == Kept(orders, reduction, idx)
             resolved == Resolved(orders, res, reduction, idx)
         IN  TwinsTogether(kept, resolved, idx) /\ FillsFirst(resolved)
<1> DEFINE kept == Kept(orders, reduction, idx)
           resolved == Resolved(orders, res, reduction, idx)
<1>1. \A o \in orders : Shaped(o)
  BY DEF OrdersOK
<1>2. res \subseteq resolved
  BY DEF Resolved
<1>3. \A o, outcome : /\ Result(o, outcome, idx).pair = o.pair
                      /\ Result(o, outcome, idx).naive = o.naive
                      /\ Result(o, outcome, idx).outcome = outcome
                      /\ Result(o, outcome, idx).resolved = idx
  BY DEF Result
<1>4. ASSUME NEW pair, NaiveFilled(res, pair, idx)
      PROVE  NaiveFilled(resolved, pair, idx)
  BY <1>2, <1>4 DEF NaiveFilled
<1>5. ASSUME NEW n \in Filled(orders, reduction), n.naive
      PROVE  NaiveFilled(resolved, n.pair, idx)
  <2>1. Result(n, "Filled", idx) \in resolved
    BY DEF Resolved
  <2>2. idx <= idx
    BY DEF OrdersOK
  <2> QED BY <1>3, <1>5, <2>1, <2>2 DEF NaiveFilled
<1>6. TwinsTogether(kept, resolved, idx)
  <2> SUFFICES ASSUME NEW a \in kept, ~a.naive
               PROVE  \/ \E n \in kept : NaiveTwin(a, n)
                      \/ NaiveFilled(resolved, a.pair, idx)
    BY DEF TwinsTogether
  <2>1. PICK o \in Left(orders, reduction, idx) : a = Aged(o, reduction)
    BY DEF Kept
  <2>2. /\ o \in orders /\ ~IsExpired(o, idx)
        /\ a.pair = o.pair /\ a.level = o.level /\ a.placed = o.placed /\ ~o.naive
    BY <1>1, <2>1, AgedIsSame DEF Left, Expired
  <2>3. CASE \E n \in orders : NaiveTwin(o, n)
    <3>1. PICK n \in orders : NaiveTwin(o, n)
      BY <2>3
    <3>2. CASE n \in Filled(orders, reduction)
      BY <1>5, <2>2, <3>1, <3>2 DEF NaiveTwin
    <3>3. CASE n \notin Filled(orders, reduction)
      <4>1. n \in Left(orders, reduction, idx)
        BY <2>2, <3>1, <3>3 DEF Left, Expired, IsExpired, NaiveTwin
      <4>2. Aged(n, reduction) = n
        BY <3>1 DEF Aged, NaiveTwin
      <4>3. n \in kept
        BY <4>1, <4>2 DEF Kept
      <4> QED BY <2>2, <3>1, <4>3 DEF NaiveTwin
    <3> QED BY <3>2, <3>3
  <2>4. CASE NaiveFilled(res, o.pair, idx)
    BY <1>4, <2>2, <2>4
  <2> QED BY <2>2, <2>3, <2>4 DEF OrdersOK, TwinsTogether
<1>7. FillsFirst(resolved)
  <2> SUFFICES ASSUME NEW r \in resolved, r.outcome = "Filled", ~r.naive
               PROVE  NaiveFilled(resolved, r.pair, r.resolved)
    BY DEF FillsFirst
  <2>1. CASE r \in res
    <3>1. NaiveFilled(res, r.pair, r.resolved)
      BY <2>1 DEF OrdersOK, FillsFirst
    <3> QED BY <1>2, <3>1 DEF NaiveFilled
  <2>2. CASE \E o \in Filled(orders, reduction) : r = Result(o, "Filled", idx)
    <3>1. PICK o \in Filled(orders, reduction) : r = Result(o, "Filled", idx)
      BY <2>2
    <3>2. /\ o \in orders /\ ~o.naive /\ IsFilled(o, reduction) /\ Shaped(o)
          /\ r.pair = o.pair /\ r.resolved = idx
      BY <1>1, <1>3, <3>1 DEF Filled
    <3>3. CASE \E n \in orders : NaiveTwin(o, n)
      <4>1. PICK n \in orders : NaiveTwin(o, n)
        BY <3>3
      <4>2. n \in Filled(orders, reduction)
        BY <3>2, <4>1, TwinFills DEF Filled
      <4> QED BY <1>5, <3>2, <4>1, <4>2 DEF NaiveTwin
    <3>4. CASE NaiveFilled(res, o.pair, idx)
      BY <1>4, <3>2, <3>4
    <3> QED BY <3>2, <3>3, <3>4 DEF OrdersOK, TwinsTogether
  <2>3. r \in res \/ \E o \in Filled(orders, reduction) : r = Result(o, "Filled", idx)
    <3>1. \A o : Result(o, "Canceled", idx).outcome # "Filled"
      BY <1>3
    <3> QED BY <3>1 DEF Resolved
  <2> QED BY <2>1, <2>2, <2>3
<1> QED BY <1>6, <1>7

\* One message, without what it places, keeps the invariant.
LEMMA MessageKeeps ==
  ASSUME NEW orders, NEW res, NEW next, NEW idx, NEW reduction,
         OrdersOK(orders, res, next, idx)
  PROVE  OrdersOK(Kept(orders, reduction, idx),
                  Resolved(orders, res, reduction, idx), next, idx + 1)
<1> DEFINE kept == Kept(orders, reduction, idx)
           resolved == Resolved(orders, res, reduction, idx)
<1>1. \A o \in orders : Shaped(o) /\ o.pair \in 1 .. next - 1 /\ o.naive \in BOOLEAN
  BY DEF OrdersOK, Shaped
<1>2. \A a \in kept : Shaped(a) /\ a.pair \in 1 .. next - 1
  <2> TAKE a \in kept
  <2>1. PICK o \in Left(orders, reduction, idx) : a = Aged(o, reduction)
    BY DEF Kept
  <2>2. o \in orders
    BY DEF Left
  <2> QED BY <1>1, <2>1, <2>2, AgedIsSame
<1>3. \A r \in resolved : /\ r.pair \in 1 .. next - 1 /\ r.naive \in BOOLEAN
                          /\ r.resolved \in Nat /\ r.resolved <= idx + 1
  <2> TAKE r \in resolved
  <2>1. CASE r \in res
    BY <2>1 DEF OrdersOK
  <2>2. ASSUME NEW o \in orders, NEW outcome, r = Result(o, outcome, idx)
        PROVE  /\ r.pair \in 1 .. next - 1 /\ r.naive \in BOOLEAN
               /\ r.resolved \in Nat /\ r.resolved <= idx + 1
    <3>1. r.pair = o.pair /\ r.naive = o.naive /\ r.resolved = idx
      BY <2>2 DEF Result
    <3> QED BY <1>1, <3>1 DEF OrdersOK
  <2>3. r \in res \/ \E o \in orders, outcome \in {"Filled", "Canceled"} : r = Result(o, outcome, idx)
    <3>1. \/ r \in res
          \/ \E o \in Filled(orders, reduction) : r = Result(o, "Filled", idx)
          \/ \E o \in Expired(orders, reduction, idx) : r = Result(o, "Canceled", idx)
      BY Zenon DEF Resolved
    <3>2. /\ Filled(orders, reduction) \subseteq orders
          /\ Expired(orders, reduction, idx) \subseteq orders
      BY DEF Filled, Expired
    <3> QED BY <3>1, <3>2
  <2> QED BY <2>1, <2>2, <2>3
<1>4. TwinsTogether(kept, resolved, idx + 1)
  <2>1. ASSUME NEW pair, NaiveFilled(resolved, pair, idx)
        PROVE  NaiveFilled(resolved, pair, idx + 1)
    BY <1>3, <2>1 DEF NaiveFilled, OrdersOK
  <2> QED BY <2>1, MessageTwins DEF TwinsTogether
<1>5. FillsFirst(resolved) /\ PairsOnce(kept, resolved, next)
  BY MessageTwins, MessagePairs
<1>6. idx + 1 \in Nat /\ next \in Nat /\ next >= 1
  BY DEF OrdersOK
<1> QED BY <1>2, <1>3, <1>4, <1>5, <1>6, Zenon DEF OrdersOK

\* A pair of twins may be placed beside the orders there are.
LEMMA PlaceKeeps ==
  ASSUME NEW orders, NEW res, NEW next, NEW idx, OrdersOK(orders, res, next, idx),
         NEW n, NEW o, TwinPair(n, o, next)
  PROVE  OrdersOK(orders \cup {n, o}, res, next + 1, idx)
<1> DEFINE new == orders \cup {n, o}
<1>1. next \in Nat /\ next >= 1 /\ idx \in Nat
  BY DEF OrdersOK
<1>2. \A x \in new : Shaped(x) /\ x.pair \in 1 .. (next + 1) - 1
  BY <1>1 DEF OrdersOK, TwinPair
<1>3. \A r \in res : r.pair \in 1 .. next - 1
  BY DEF OrdersOK
<1>4. PairsOnce(new, res, next + 1)
  <2> SUFFICES ASSUME NEW pair \in 1 .. (next + 1) - 1, NEW naive \in BOOLEAN
               PROVE  \/ /\ Of(res, pair, naive) = {}
                         /\ \E x : Of(new, pair, naive) = {x}
                      \/ /\ Of(new, pair, naive) = {}
                         /\ \E r : Of(res, pair, naive) = {r}
    BY DEF PairsOnce
  <2>1. CASE pair = next
    <3>1. Of(res, pair, naive) = {}
      BY <1>1, <1>3, <2>1 DEF Of
    <3>2. \A x \in orders : x.pair # next
      BY <1>1 DEF OrdersOK
    <3>3. CASE naive = TRUE
      <4>1. Of(new, pair, naive) = {n}
        BY <2>1, <3>2, <3>3 DEF Of, TwinPair
      <4> QED BY <3>1, <4>1
    <3>4. CASE naive = FALSE
      <4>1. Of(new, pair, naive) = {o}
        BY <2>1, <3>2, <3>4 DEF Of, TwinPair
      <4> QED BY <3>1, <4>1
    <3> QED BY <3>3, <3>4
  <2>2. CASE pair # next
    <3>1. pair \in 1 .. next - 1
      BY <1>1, <2>2
    <3>2. Of(new, pair, naive) = Of(orders, pair, naive)
      BY <2>2 DEF Of, TwinPair
    <3> QED BY <3>1, <3>2 DEF OrdersOK, PairsOnce
  <2> QED BY <2>1, <2>2
<1>5. TwinsTogether(new, res, idx)
  BY DEF OrdersOK, TwinsTogether, TwinPair
<1>6. /\ \A r \in res : /\ r.pair \in 1 .. (next + 1) - 1 /\ r.naive \in BOOLEAN
                        /\ r.resolved \in Nat /\ r.resolved <= idx
      /\ FillsFirst(res)
  BY <1>1 DEF OrdersOK
<1> QED BY <1>1, <1>2, <1>4, <1>5, <1>6 DEF OrdersOK

\* The orders still active at the end of the replay rest in the results.
Closed(orders, res, idx) == res \cup {Result(o, "Resting", idx) : o \in orders}

\* The end of run() turns every order into a result, once.
LEMMA CloseKeeps ==
  ASSUME NEW orders, NEW res, NEW next, NEW idx, OrdersOK(orders, res, next, idx)
  PROVE  OrdersOK({}, Closed(orders, res, idx), next, idx)
<1> DEFINE closed == Closed(orders, res, idx)
<1>1. \A o \in orders : o.pair \in 1 .. next - 1 /\ o.naive \in BOOLEAN
  BY DEF OrdersOK, Shaped
<1>2. \A o : LET r == Result(o, "Resting", idx)
             IN  /\ r.pair = o.pair /\ r.naive = o.naive
                 /\ r.outcome = "Resting" /\ r.resolved = idx
  BY DEF Result
<1>3. res \subseteq closed
  BY DEF Closed
<1>4. \A r \in closed : r \in res \/ \E o \in orders : r = Result(o, "Resting", idx)
  BY DEF Closed
<1>5. \A r \in closed : /\ r.pair \in 1 .. next - 1 /\ r.naive \in BOOLEAN
                        /\ r.resolved \in Nat /\ r.resolved <= idx
  BY <1>1, <1>2, <1>4 DEF OrdersOK
<1>6. FillsFirst(closed)
  BY <1>2, <1>3, <1>4 DEF OrdersOK, FillsFirst, NaiveFilled
<1>7. PairsOnce({}, closed, next)
  <2> SUFFICES ASSUME NEW pair \in 1 .. next - 1, NEW naive \in BOOLEAN
               PROVE  \E r : Of(closed, pair, naive) = {r}
    BY DEF PairsOnce, Of
  <2>1. CASE Of(res, pair, naive) = {} /\ \E o : Of(orders, pair, naive) = {o}
    <3>1. PICK o : Of(orders, pair, naive) = {o}
      BY <2>1
    <3>2. Of(closed, pair, naive) = {Result(o, "Resting", idx)}
      BY <1>2, <1>4, <2>1, <3>1 DEF Of, Closed
    <3> QED BY <3>2
  <2>2. CASE Of(orders, pair, naive) = {} /\ \E r : Of(res, pair, naive) = {r}
    <3>1. Of(closed, pair, naive) = Of(res, pair, naive)
      BY <1>2, <1>3, <1>4, <2>2 DEF Of
    <3> QED BY <2>2, <3>1
  <2> QED BY <2>1, <2>2 DEF OrdersOK, PairsOnce
<1>8. TwinsTogether({}, closed, idx)
  BY DEF TwinsTogether
<1> QED BY <1>5, <1>6, <1>7, <1>8 DEF OrdersOK

-----------------------------------------------------------------------------
\* The body of run()'s loop: the orders there are, then the pair it may place.
LEMMA ReplayKeeps ==
  ASSUME OrdersInv, Replay
  PROVE  OrdersInv'
<1> DEFINE after == ApplyToBook(message')
           effect == QueueApply(queueBook, message')
           reduction == effect.reduction
           places == /\ generated % PlacementInterval = 0
                     /\ HasBid(after.book) /\ HasAsk(after.book)
           level == [instrument |-> TheInstrument, side |-> "Buy",
                     price |-> BestBid(book')]
           seq == queueBook'.nextSeq
           ahead == LevelTotal(queueBook', level)
           twins == Twins(nextPair, generated, level, seq, ahead)
           kept == Kept(active, reduction, generated)
           resolved == Resolved(active, results, reduction, generated)
<1>1. generated' = generated + 1
  BY DEF Replay, NextMessage, SimAdd, SimTake, SimDelete, SimReplace, Generate
<1>2. /\ results' = resolved
      /\ active' = IF places THEN kept \cup twins ELSE kept
      /\ nextPair' = IF places THEN nextPair + 1 ELSE nextPair
  BY Zenon DEF Replay, Filled, Expired, Left, Kept, Resolved, PlacePair, Twins
<1>3. OrdersOK(kept, resolved, nextPair, generated + 1)
  BY MessageKeeps DEF OrdersInv
<1> HIDE DEF kept, resolved, places, level, seq, ahead
<1>4. CASE places
  <2>1. PICK n, o : twins = {n, o} /\ TwinPair(n, o, nextPair)
    BY NewPairIsTwins
  <2>2. OrdersOK(kept \cup {n, o}, resolved, nextPair + 1, generated + 1)
    BY <1>3, <2>1, PlaceKeeps
  <2> QED BY <1>1, <1>2, <1>4, <2>1, <2>2 DEF OrdersInv
<1>5. CASE ~places
  BY <1>1, <1>2, <1>3, <1>5 DEF OrdersInv
<1> QED BY <1>4, <1>5

\* Every step of the backtest keeps the invariant.
LEMMA OrdersStep == OrdersInv /\ [BacktestNext]_backtestVars => OrdersInv'
<1> SUFFICES ASSUME OrdersInv, [BacktestNext]_backtestVars PROVE OrdersInv'
  OBVIOUS
<1>1. CASE Replay
  BY <1>1, ReplayKeeps
<1>2. CASE Finish
  <2>1. /\ active' = {} /\ results' = Closed(active, results, generated)
        /\ nextPair' = nextPair /\ generated' = generated
    BY <1>2 DEF Finish, Closed, simVars
  <2> QED BY <2>1, CloseKeeps DEF OrdersInv
<1>3. CASE UNCHANGED backtestVars
  BY <1>3 DEF backtestVars, engineVars, simVars, OrdersInv
<1> QED BY <1>1, <1>2, <1>3 DEF BacktestNext

\* The invariant holds in every run of the backtest.
LEMMA OrdersAlways == BacktestSpec => []OrdersInv
BY OrdersInit, OrdersStep, PTL DEF BacktestSpec

\* run() in backtest_sim.hpp: the queue-tracked model fills no order that the
\* naive one has not filled by then.
THEOREM NaiveFillsFirstHolds == BacktestSpec => []NaiveFillsFirst
<1>1. OrdersInv => NaiveFillsFirst
  BY DEF OrdersInv, OrdersOK, FillsFirst, NaiveFilled, NaiveFillsFirst
<1> QED BY <1>1, OrdersAlways, PTL

\* run() in backtest_sim.hpp: whatever the feed, each model keeps one order or
\* one result of every pair placed, and no order is lost or resolved twice.
THEOREM EveryOrderOnceHolds == BacktestSpec => []EveryOrderOnce
<1>1. OrdersInv => EveryOrderOnce
  <2> SUFFICES ASSUME OrdersInv, NEW pair \in 1 .. nextPair - 1, NEW naive \in BOOLEAN
               PROVE  Cardinality(Of(active, pair, naive))
                        + Cardinality(Of(results, pair, naive)) = 1
    BY DEF EveryOrderOnce, Of
  <2>1. PairsOnce(active, results, nextPair)
    BY DEF OrdersInv, OrdersOK
  <2>2. Cardinality({}) = 0 /\ \A x : Cardinality({x}) = 1
    BY FS_EmptySet, FS_Singleton
  <2>3. CASE Of(results, pair, naive) = {} /\ \E o : Of(active, pair, naive) = {o}
    <3>1. PICK o : Of(active, pair, naive) = {o}
      BY <2>3
    <3>2. Cardinality(Of(active, pair, naive)) = 1
      BY <2>2, <3>1, Zenon
    <3>3. Cardinality(Of(results, pair, naive)) = 0
      BY <2>2, <2>3, Zenon
    <3> QED BY <3>2, <3>3
  <2>4. CASE Of(active, pair, naive) = {} /\ \E r : Of(results, pair, naive) = {r}
    <3>1. PICK r : Of(results, pair, naive) = {r}
      BY <2>4
    <3>2. Cardinality(Of(results, pair, naive)) = 1
      BY <2>2, <3>1, Zenon
    <3>3. Cardinality(Of(active, pair, naive)) = 0
      BY <2>2, <2>4, Zenon
    <3> QED BY <3>2, <3>3
  <2> QED BY <2>1, <2>3, <2>4 DEF PairsOnce
<1> QED BY <1>1, OrdersAlways, PTL

-----------------------------------------------------------------------------
(***************************************************************************)
(* The queue-position book against a map of the resting orders: fed the    *)
(* same messages, it queues exactly these orders, each once.               *)
(***************************************************************************)
KeyOf(order) ==
  [instrument |-> order.instrument, side |-> order.side, price |-> order.price]

Queued(id, order, seq) ==
  [id |-> id, qty |-> order.qty, seq |-> seq, level |-> KeyOf(order)]

Resting(map) == {id \in OrderId : map[id] # NoOrder}

QueuesOrders(q, map) ==
  /\ q = [entries |-> q.entries, orders |-> q.orders, nextSeq |-> q.nextSeq]
  /\ q.nextSeq \in Nat /\ q.orders \in [OrderId -> Int]
  /\ \A id \in OrderId \ Resting(map) : q.orders[id] = NoEntry
  /\ \A id \in Resting(map) :
       /\ q.orders[id] \in Nat /\ q.orders[id] < q.nextSeq
       /\ \A other \in Resting(map) : q.orders[other] = q.orders[id] => other = id
  /\ q.entries = {Queued(id, map[id], q.orders[id]) : id \in Resting(map)}

LEMMA EmptyQueue == QueuesOrders(QueueBookInit, NoOrders)
<1>1. Resting(NoOrders) = {}
  BY DEF Resting, NoOrders
<1> QED BY <1>1 DEF QueuesOrders, QueueBookInit, NoEntry

\* The entry of an order that rests.
LEMMA EntryFound ==
  ASSUME NEW q, NEW map, QueuesOrders(q, map), NEW id \in Resting(map)
  PROVE  /\ EntryOf(q, id) = Queued(id, map[id], q.orders[id])
         /\ q.orders[id] # NoEntry
<1> DEFINE e == Queued(id, map[id], q.orders[id])
<1>1. e \in q.entries /\ e.seq = q.orders[id]
  BY DEF QueuesOrders, Queued
<1>2. \A other \in q.entries : other.seq = q.orders[id] => other = e
  <2> TAKE other \in q.entries
  <2>1. PICK x \in Resting(map) : other = Queued(x, map[x], q.orders[x])
    BY DEF QueuesOrders
  <2>2. other.seq = q.orders[x]
    BY <2>1 DEF Queued
  <2> QED BY <2>1, <2>2 DEF QueuesOrders
<1> HIDE DEF e
<1>3. EntryOf(q, id) = e
  BY <1>1, <1>2 DEF EntryOf
<1> QED BY <1>3 DEF e, QueuesOrders, NoEntry

\* A new order goes to the end of its queue.
LEMMA EnqueueKeeps ==
  ASSUME NEW q, NEW map \in OrderMap, QueuesOrders(q, map),
         NEW id \in OrderId, map[id] = NoOrder, NEW order \in Location
  PROVE  QueuesOrders(Enqueue(q, id, KeyOf(order), order.qty), [map EXCEPT ![id] = order])
<1> DEFINE new == Enqueue(q, id, KeyOf(order), order.qty)
           after == [map EXCEPT ![id] = order]
           entry == Queued(id, order, q.nextSeq)
<1>1. /\ new.entries = q.entries \cup {entry}
      /\ new.orders = [q.orders EXCEPT ![id] = q.nextSeq]
      /\ new.nextSeq = q.nextSeq + 1
      /\ new = [entries |-> new.entries, orders |-> new.orders, nextSeq |-> new.nextSeq]
  BY DEF Enqueue, Queued
<1>2. q.nextSeq \in Nat /\ q.orders \in [OrderId -> Int]
  BY DEF QueuesOrders
<1>3. /\ after[id] = order /\ new.orders[id] = q.nextSeq
      /\ \A x \in OrderId \ {id} : after[x] = map[x] /\ new.orders[x] = q.orders[x]
  BY <1>1, <1>2 DEF OrderMap
<1>4. Resting(after) = Resting(map) \cup {id} /\ id \notin Resting(map)
  BY <1>3, NothingIsNotSomething DEF Resting
<1>5. new.nextSeq \in Nat /\ new.orders \in [OrderId -> Int]
  BY <1>1, <1>2
<1> HIDE DEF new, after
<1>6. \A x \in OrderId \ Resting(after) : new.orders[x] = NoEntry
  BY <1>3, <1>4 DEF QueuesOrders
<1>7. \A x \in Resting(after) :
        /\ new.orders[x] \in Nat /\ new.orders[x] < new.nextSeq
        /\ \A other \in Resting(after) : new.orders[other] = new.orders[x] => other = x
  <2>1. \A x \in Resting(map) : /\ x \in OrderId \ {id}
                                /\ q.orders[x] \in Nat /\ q.orders[x] < q.nextSeq
    BY <1>4 DEF QueuesOrders, Resting
  <2>2. \A x, y \in Resting(map) : q.orders[x] = q.orders[y] => x = y
    BY DEF QueuesOrders
  <2> QED BY <1>1, <1>2, <1>3, <1>4, <2>1, <2>2
<1>8. new.entries = {Queued(x, after[x], new.orders[x]) : x \in Resting(after)}
  <2>1. q.entries = {Queued(x, map[x], q.orders[x]) : x \in Resting(map)}
    BY DEF QueuesOrders
  <2>2. \A x \in Resting(map) :
          Queued(x, map[x], q.orders[x]) = Queued(x, after[x], new.orders[x])
    BY <1>3, <1>4 DEF Resting
  <2> QED BY <1>1, <1>3, <1>4, <2>1, <2>2
<1> QED BY <1>1, <1>5, <1>6, <1>7, <1>8 DEF QueuesOrders, new, after

\* What an execution or a cancellation leaves of an order.
LeftOf(order, taken) ==
  IF taken = order.qty THEN NoOrder ELSE [order EXCEPT !.qty = @ - taken]

\* A reduction gives out no place in a queue.
LEMMA ReduceKeepsSeq ==
  ASSUME NEW q, NEW map, QueuesOrders(q, map), NEW id, NEW qty, NEW isExecute
  PROVE  ReduceBy(q, id, qty, isExecute).book.nextSeq = q.nextSeq
<1>1. PICK es, os, n : q = [entries |-> es, orders |-> os, nextSeq |-> n]
  BY DEF QueuesOrders
<1>2. \A es2, os2 : [[q EXCEPT !.entries = es2] EXCEPT !.orders = os2].nextSeq = n
  BY <1>1
<1>3. q.nextSeq = n
  BY <1>1
<1>4. CASE q.orders[id] = NoEntry
  BY <1>4 DEF ReduceBy
<1>5. CASE q.orders[id] # NoEntry
  <2>1. \E es2, os2 : ReduceBy(q, id, qty, isExecute).book
                        = [[q EXCEPT !.entries = es2] EXCEPT !.orders = os2]
    <3> DEFINE e == EntryOf(q, id)
    <3> HIDE DEF e
    <3> QED BY <1>5 DEF ReduceBy, e
  <2> QED BY <1>2, <1>3, <2>1
<1> QED BY <1>4, <1>5

\* reduce_by() takes from the entry of an order what an execution or a
\* cancellation takes from the order, and reports it.
LEMMA ReduceKeeps ==
  ASSUME NEW q, NEW map \in OrderMap, QueuesOrders(q, map),
         NEW id \in Resting(map), NEW qty \in WireQuantity, NEW isExecute
  PROVE  LET taken == SmallerOf(qty, map[id].qty)
             left == LeftOf(map[id], taken)
             done == ReduceBy(q, id, qty, isExecute)
         IN  /\ QueuesOrders(done.book, [map EXCEPT ![id] = left])
             /\ done.reduction = [level |-> KeyOf(map[id]), seq |-> q.orders[id],
                                  qty |-> taken, isExecute |-> isExecute]
             /\ \A x \in OrderId \ {id} : done.book.orders[x] = q.orders[x]
             /\ left # NoOrder => done.book.orders[id] = q.orders[id]
<1> DEFINE order == map[id]
           taken == SmallerOf(qty, order.qty)
           less == [order EXCEPT !.qty = @ - taken]
           left == LeftOf(order, taken)
           done == ReduceBy(q, id, qty, isExecute)
           e == EntryOf(q, id)
           kept == IF taken = order.qty THEN {} ELSE {[e EXCEPT !.qty = @ - taken]}
           after == [map EXCEPT ![id] = left]
           new == done.book
<1>1. /\ e = Queued(id, order, q.orders[id]) /\ q.orders[id] # NoEntry
      /\ id \in OrderId /\ order \in Location
  BY EntryFound DEF Resting, OrderMap
<1>2. e.qty = order.qty /\ e.level = KeyOf(order) /\ e.seq = q.orders[id]
  BY <1>1 DEF Queued
<1>3. taken # order.qty => less \in Location /\ less.qty = order.qty - taken
                           /\ KeyOf(less) = KeyOf(order)
  <2>1. taken \in Nat /\ order.qty \in Nat /\ (taken # order.qty => taken < order.qty)
    BY <1>1 DEF SmallerOf, Location, WireQuantity
  <2>2. taken # order.qty => order.qty - taken \in WireQuantity
    BY <2>1 DEF WireQuantity
  <2> HIDE DEF taken
  <2> QED BY <1>1, <2>2 DEF Location, KeyOf
<1>4. done = [book |-> [q EXCEPT !.entries = (@ \ {e}) \cup kept,
                                 !.orders[id] = IF kept = {} THEN NoEntry ELSE @],
              reduction |-> [level |-> e.level, seq |-> e.seq, qty |-> taken,
                             isExecute |-> isExecute]]
  <2> HIDE DEF order
  <2> QED BY <1>1, <1>2, Zenon DEF ReduceBy
<1>5. q = [entries |-> q.entries, orders |-> q.orders, nextSeq |-> q.nextSeq]
      /\ q.nextSeq \in Nat /\ q.orders \in [OrderId -> Int]
  BY DEF QueuesOrders
<1>6. /\ new.entries = (q.entries \ {e}) \cup kept
      /\ new.orders = [q.orders EXCEPT ![id] = IF kept = {} THEN NoEntry ELSE @]
      /\ new.nextSeq = q.nextSeq
      /\ new = [entries |-> new.entries, orders |-> new.orders, nextSeq |-> new.nextSeq]
  <2> DEFINE slot == IF kept = {} THEN NoEntry ELSE q.orders[id]
             es == (q.entries \ {e}) \cup kept
             os == [q.orders EXCEPT ![id] = slot]
  <2>1. new = [[q EXCEPT !.entries = es] EXCEPT !.orders = os]
    <3> HIDE DEF kept, e
    <3> QED BY <1>4, SMT
  <2>2. os = [q.orders EXCEPT ![id] = IF kept = {} THEN NoEntry ELSE @]
    <3> HIDE DEF kept
    <3> QED BY SMT
  <2> HIDE DEF es, os, new
  <2>3. new = [entries |-> es, orders |-> os, nextSeq |-> q.nextSeq]
    BY <1>5, <2>1
  <2> QED BY <2>2, <2>3 DEF es
<1>7. /\ left = IF taken = order.qty THEN NoOrder ELSE less
      /\ left = NoOrder <=> taken = order.qty
  BY <1>3, NothingIsNotSomething DEF LeftOf
<1>8. kept = IF left = NoOrder THEN {} ELSE {Queued(id, left, q.orders[id])}
  <2>1. taken # order.qty => [e EXCEPT !.qty = @ - taken] = Queued(id, less, q.orders[id])
    <3> HIDE DEF less, taken, order
    <3> QED BY <1>1, <1>3 DEF Queued
  <2> QED BY <1>7, <2>1
<1>9. DOMAIN map = OrderId /\ left # NoOrder => left \in Location
  BY <1>3, <1>7 DEF OrderMap
<1> HIDE DEF done, e, kept, left
<1>10. /\ after[id] = left
       /\ new.orders[id] = IF left = NoOrder THEN NoEntry ELSE q.orders[id]
       /\ \A x \in OrderId \ {id} : after[x] = map[x] /\ new.orders[x] = q.orders[x]
  BY <1>1, <1>5, <1>6, <1>8 DEF OrderMap
<1>11. new.orders \in [OrderId -> Int]
  BY <1>1, <1>5, <1>6 DEF NoEntry
<1> HIDE DEF after, new
<1>12. Resting(after) = IF left = NoOrder THEN Resting(map) \ {id} ELSE Resting(map)
  BY <1>1, <1>10 DEF Resting
<1>13. \A x \in OrderId \ Resting(after) : new.orders[x] = NoEntry
  BY <1>10, <1>12 DEF QueuesOrders
<1>14. \A x \in Resting(after) : x \in Resting(map) /\ new.orders[x] = q.orders[x]
  BY <1>10, <1>12 DEF Resting
<1>15. new.entries = {Queued(x, after[x], new.orders[x]) : x \in Resting(after)}
  <2>1. q.entries = {Queued(x, map[x], q.orders[x]) : x \in Resting(map)}
    BY DEF QueuesOrders
  <2>2. \A x \in Resting(map) \ {id} : /\ Queued(x, map[x], q.orders[x]) # e
                                       /\ after[x] = map[x]
    BY <1>1, <1>10 DEF Queued, Resting
  <2>3. q.entries \ {e} = {Queued(x, after[x], new.orders[x]) : x \in Resting(map) \ {id}}
    <3>1. \A x \in Resting(map) \ {id} :
            Queued(x, after[x], new.orders[x]) = Queued(x, map[x], q.orders[x])
      BY <1>10, <2>2 DEF Resting
    <3> QED BY <1>1, <2>1, <2>2, <3>1
  <2> QED BY <1>6, <1>8, <1>10, <1>12, <2>3
<1>16. QueuesOrders(new, after)
  <2>1. \A x \in Resting(after) :
          /\ new.orders[x] \in Nat /\ new.orders[x] < new.nextSeq
          /\ \A other \in Resting(after) : new.orders[other] = new.orders[x] => other = x
    BY <1>6, <1>14 DEF QueuesOrders
  <2> QED BY <1>5, <1>6, <1>11, <1>13, <1>15, <2>1 DEF QueuesOrders
<1>17. done.reduction = [level |-> KeyOf(order), seq |-> q.orders[id],
                         qty |-> taken, isExecute |-> isExecute]
  BY <1>2, <1>4
<1>18. left # NoOrder => new.orders[id] = q.orders[id]
  BY <1>10
<1> QED BY <1>10, <1>16, <1>17, <1>18, Zenon DEF left, after, new, done

-----------------------------------------------------------------------------
(***************************************************************************)
(* The oracle's quantity ahead, as a sum over the orders: a new order adds *)
(* nothing to it, and a reduction takes from it what it reports if it is   *)
(* of an earlier entry of the level.                                       *)
(***************************************************************************)
IsAhead(q, map, level, seq, id) ==
  map[id] # NoOrder /\ KeyOf(map[id]) = level /\ q.orders[id] < seq

AheadShares(q, map, level, seq) ==
  [id \in OrderId |-> IF IsAhead(q, map, level, seq, id) THEN map[id].qty ELSE 0]

LEMMA AheadIsSum ==
  ASSUME NEW q, NEW map \in OrderMap, QueuesOrders(q, map), NEW level, NEW seq
  PROVE  QtyAhead(q, level, seq)
           = SumFunctionOnSet(AheadShares(q, map, level, seq), OrderId)
<1> DEFINE shares == AheadShares(q, map, level, seq)
           ids == {id \in OrderId : IsAhead(q, map, level, seq, id)}
           ahead == {e \in q.entries : e.level = level /\ e.seq < seq}
           qtys == [e \in ahead |-> e.qty]
           entryOf == [id \in ids |-> Queued(id, map[id], q.orders[id])]
<1>1. IsFiniteSet(OrderId) /\ IsFiniteSet(ids)
  <2>1. IsFiniteSet(OrderId) /\ ids \subseteq OrderId
    BY OrderIdAssumption, FS_Interval DEF OrderId
  <2> HIDE DEF ids
  <2> QED BY <2>1, FS_Subset
<1>2. \A id \in OrderId : shares[id] \in Int
  BY DEF AheadShares, IsAhead, OrderMap, Location, WireQuantity
<1>3. \A id \in ids : shares[id] = map[id].qty
  BY DEF AheadShares
<1>4. \A id \in OrderId \ ids : shares[id] = 0
  BY DEF AheadShares
<1>5. \A id : LET e == Queued(id, map[id], q.orders[id])
              IN  e.id = id /\ e.qty = map[id].qty /\ e.seq = q.orders[id]
                  /\ e.level = KeyOf(map[id])
  BY DEF Queued
<1>6. ahead = {entryOf[id] : id \in ids}
  <2>1. q.entries = {Queued(id, map[id], q.orders[id]) : id \in Resting(map)}
    BY DEF QueuesOrders
  <2>2. \A id \in ids : entryOf[id] = Queued(id, map[id], q.orders[id])
    OBVIOUS
  <2>3. ids = {id \in Resting(map) : KeyOf(map[id]) = level /\ q.orders[id] < seq}
    BY DEF Resting, IsAhead
  <2>4. ASSUME NEW e \in ahead PROVE \E id \in ids : e = Queued(id, map[id], q.orders[id])
    <3>1. PICK id \in Resting(map) : e = Queued(id, map[id], q.orders[id])
      BY <2>1
    <3> QED BY <1>5, <2>3, <3>1
  <2>5. ASSUME NEW id \in ids PROVE Queued(id, map[id], q.orders[id]) \in ahead
    <3>1. Queued(id, map[id], q.orders[id]) \in q.entries
      BY <2>1, <2>3
    <3> QED BY <1>5, <2>3, <3>1
  <2> HIDE DEF ahead, entryOf, ids
  <2> QED BY <2>2, <2>4, <2>5
<1>7. /\ \A id \in ids : qtys[entryOf[id]] = shares[id]
      /\ \A x, y \in ids : entryOf[x] = entryOf[y] => x = y
  <2>0. \A id \in ids : entryOf[id] = Queued(id, map[id], q.orders[id])
    OBVIOUS
  <2>2. \A id \in ids : entryOf[id] \in ahead
    <3> HIDE DEF ahead
    <3> QED BY <1>6
  <2> HIDE DEF entryOf, ahead, ids
  <2>1. \A id \in ids : entryOf[id].qty = map[id].qty /\ entryOf[id].id = id
    BY <1>5, <2>0
  <2> QED BY <1>3, <2>1, <2>2
<1>8. ids \subseteq OrderId /\ \A id \in ids : shares[id] \in Int
  BY <1>2
<1> HIDE DEF ids, entryOf, shares
<1>9. SumFunctionOnSet(shares, OrderId) = SumFunctionOnSet(shares, ids)
  BY <1>1, <1>2, <1>4, <1>8, SumOfSupport
<1>10. SumFunctionOnSet(shares, ids) = SumFunctionOnSet(qtys, {entryOf[id] : id \in ids})
  <2> HIDE DEF qtys, ahead
  <2> QED BY <1>1, <1>7, <1>8, SumOfImages
<1>11. QtyAhead(q, level, seq) = SumFunctionOnSet(qtys, ahead)
  <2> HIDE DEF ahead
  <2> QED BY DEF QtyAhead, SumFunction, ahead
<1> QED BY <1>6, <1>9, <1>10, <1>11 DEF shares

\* The shares are naturals, and so is what is ahead.
LEMMA AheadIsNat ==
  ASSUME NEW q, NEW map \in OrderMap, QueuesOrders(q, map), NEW level, NEW seq
  PROVE  /\ QtyAhead(q, level, seq) \in Nat
         /\ \A id \in OrderId : /\ AheadShares(q, map, level, seq)[id] \in Nat
                                /\ AheadShares(q, map, level, seq)[id]
                                     <= QtyAhead(q, level, seq)
<1>1. IsFiniteSet(OrderId)
  BY OrderIdAssumption, FS_Interval DEF OrderId
<1>2. \A id \in OrderId : AheadShares(q, map, level, seq)[id] \in Nat
  BY DEF AheadShares, IsAhead, OrderMap, Location, WireQuantity
<1> QED BY <1>1, <1>2, AheadIsSum, SumOfNaturals

\* As long as totals fit, the 32 bits of level_total_qty() are all of them.
LEMMA TotalIsExact ==
  ASSUME TotalsFit, NEW q, NEW map \in OrderMap, QueuesOrders(q, map), NEW level,
         \A id \in OrderId : map[id] # NoOrder => map[id].qty <= MaxQty
  PROVE  LevelTotal(q, level) = QtyAhead(q, level, q.nextSeq)
<1> DEFINE shares == AheadShares(q, map, level, q.nextSeq)
           total == QtyAhead(q, level, q.nextSeq)
<1>1. /\ IsFiniteSet(OrderId) /\ Cardinality(OrderId) = MaxOrderId
      /\ MaxOrderId \in Nat /\ MaxQty \in Nat /\ IntRange \in Nat
  <2>1. MaxOrderId \in Nat /\ MaxQty \in Nat /\ IntRange \in Nat
    BY OrderIdAssumption, SimulatorAssumption, IntAssumption
  <2>2. PICK n \in Nat : n = MaxOrderId
    BY <2>1
  <2>3. IsFiniteSet(1 .. n) /\ Cardinality(1 .. n) = IF 1 > n THEN 0 ELSE n - 1 + 1
    BY FS_Interval
  <2>4. Cardinality(1 .. n) = n
    BY <2>3
  <2> QED BY <2>1, <2>2, <2>3, <2>4 DEF OrderId
<1>2. \A id \in OrderId : shares[id] \in Int /\ shares[id] <= MaxQty
  BY <1>1 DEF AheadShares, IsAhead, OrderMap, Location, WireQuantity
<1>3. total = SumFunctionOnSet(shares, OrderId) /\ total \in Nat
  BY AheadIsSum, AheadIsNat
<1> HIDE DEF shares, total
<1>4. SumFunctionOnSet(shares, OrderId) <= MaxQty * Cardinality(OrderId)
  BY <1>1, <1>2, SumIsBounded
<1>5. total < IntRange
  <2>1. PICK most \in Nat : most = MaxQty * MaxOrderId
    BY <1>1
  <2> QED BY <1>1, <1>3, <1>4, <2>1 DEF TotalsFit
<1>6. total % IntRange = total
  BY <1>1, <1>3, <1>5
<1> QED BY <1>6 DEF LevelTotal, total

\* Who comes last is ahead of nobody.
LEMMA EnqueueAhead ==
  ASSUME NEW q, q.nextSeq \in Nat, NEW id, NEW key, NEW qty,
         NEW level, NEW seq \in Nat, seq <= q.nextSeq
  PROVE  QtyAhead(Enqueue(q, id, key, qty), level, seq) = QtyAhead(q, level, seq)
<1> DEFINE new == [id |-> id, qty |-> qty, seq |-> q.nextSeq, level |-> key]
<1>1. Enqueue(q, id, key, qty).entries = q.entries \cup {new} /\ new.seq = q.nextSeq
  BY DEF Enqueue
<1> HIDE DEF new
<1>2. {e \in q.entries \cup {new} : e.level = level /\ e.seq < seq}
        = {e \in q.entries : e.level = level /\ e.seq < seq}
  BY <1>1
<1> QED BY <1>1, <1>2 DEF QtyAhead

\* What a reduction takes from what is ahead of a place in the queue of a level.
TakenAhead(reduction, level, seq) ==
  IF reduction # NoReduction /\ reduction.level = level /\ reduction.seq < seq
  THEN reduction.qty ELSE 0

LEMMA ReduceAhead ==
  ASSUME NEW q, NEW map \in OrderMap, QueuesOrders(q, map),
         NEW id \in Resting(map), NEW qty \in WireQuantity, NEW isExecute,
         NEW level, NEW seq \in Nat
  PROVE  LET done == ReduceBy(q, id, qty, isExecute)
         IN  /\ done.reduction # NoReduction /\ done.reduction.qty \in WireQuantity
             /\ done.reduction.isExecute = isExecute
             /\ TakenAhead(done.reduction, level, seq) <= QtyAhead(q, level, seq)
             /\ QtyAhead(done.book, level, seq)
                  = QtyAhead(q, level, seq) - TakenAhead(done.reduction, level, seq)
<1> DEFINE order == map[id]
           taken == SmallerOf(qty, order.qty)
           less == [order EXCEPT !.qty = @ - taken]
           left == LeftOf(order, taken)
           done == ReduceBy(q, id, qty, isExecute)
           after == [map EXCEPT ![id] = left]
           f == AheadShares(q, map, level, seq)
           e == AheadShares(done.book, after, level, seq)
<1>1. /\ QueuesOrders(done.book, after)
      /\ done.reduction = [level |-> KeyOf(order), seq |-> q.orders[id],
                           qty |-> taken, isExecute |-> isExecute]
      /\ \A x \in OrderId \ {id} : done.book.orders[x] = q.orders[x]
      /\ left # NoOrder => done.book.orders[id] = q.orders[id]
  BY ReduceKeeps
<1>2. /\ id \in OrderId /\ order \in Location /\ order # NoOrder
      /\ q.orders[id] \in Nat /\ order.qty \in WireQuantity
  BY DEF Resting, OrderMap, QueuesOrders, Location
<1>3. taken \in WireQuantity /\ taken <= order.qty
  BY <1>2 DEF SmallerOf, WireQuantity
<1>4. taken # order.qty => /\ less \in Location /\ less.qty = order.qty - taken
                           /\ KeyOf(less) = KeyOf(order)
  <2>1. taken # order.qty => order.qty - taken \in WireQuantity
    BY <1>2, <1>3 DEF WireQuantity
  <2> HIDE DEF taken
  <2> QED BY <1>2, <2>1 DEF Location, KeyOf
<1>5. /\ left = IF taken = order.qty THEN NoOrder ELSE less
      /\ left \in Location \cup {NoOrder}
      /\ left = NoOrder <=> taken = order.qty
  BY <1>4, NothingIsNotSomething DEF LeftOf
<1>6. after \in OrderMap /\ after[id] = left
      /\ \A x \in OrderId \ {id} : after[x] = map[x]
  <2> HIDE DEF left
  <2> QED BY <1>2, <1>5, OrderMapUpdate DEF OrderMap
<1>7. done.reduction # NoReduction
  <2>1. done.reduction.seq = q.orders[id] /\ NoReduction.seq = -1
    BY <1>1 DEF NoReduction, NoEntry
  <2> QED BY <1>2, <2>1
<1>8. TakenAhead(done.reduction, level, seq)
        = IF KeyOf(order) = level /\ q.orders[id] < seq THEN taken ELSE 0
  <2> HIDE DEF order, taken
  <2> QED BY <1>1, <1>7 DEF TakenAhead
<1> HIDE DEF done, after
<1>9. \A x \in OrderId \ {id} : f[x] = e[x]
  BY <1>1, <1>6 DEF AheadShares, IsAhead
<1>10. f[id] = IF KeyOf(order) = level /\ q.orders[id] < seq THEN order.qty ELSE 0
  BY <1>2 DEF AheadShares, IsAhead
<1>11. e[id] = IF KeyOf(order) = level /\ q.orders[id] < seq THEN order.qty - taken ELSE 0
  <2>1. e[id] = IF IsAhead(done.book, after, level, seq, id) THEN after[id].qty ELSE 0
    BY <1>2 DEF AheadShares
  <2>2. CASE taken = order.qty
    <3>1. ~IsAhead(done.book, after, level, seq, id)
      BY <1>5, <1>6, <2>2 DEF IsAhead
    <3>2. order.qty - taken = 0
      BY <1>2, <2>2 DEF WireQuantity
    <3> QED BY <2>1, <3>1, <3>2
  <2>3. CASE taken # order.qty
    <3>1. after[id] = less /\ left # NoOrder
      BY <1>5, <1>6, <2>3
    <3>2. /\ after[id] # NoOrder /\ KeyOf(after[id]) = KeyOf(order)
          /\ after[id].qty = order.qty - taken /\ done.book.orders[id] = q.orders[id]
      BY <1>1, <1>4, <1>6, <2>3, <3>1
    <3> QED BY <2>1, <3>2 DEF IsAhead
  <2> QED BY <2>2, <2>3
<1> HIDE DEF f, e, left, taken, order
<1>12. /\ \A x \in OrderId : f[x] \in Nat /\ e[x] \in Nat
       /\ f[id] <= QtyAhead(q, level, seq) /\ QtyAhead(q, level, seq) \in Nat
  BY <1>1, <1>2, <1>6, AheadIsNat DEF f, e
<1>13. SumFunctionOnSet(e, OrderId) = SumFunctionOnSet(f, OrderId) - f[id] + e[id]
  <2>1. IsFiniteSet(OrderId)
    BY OrderIdAssumption, FS_Interval DEF OrderId
  <2> QED BY <1>2, <1>9, <1>12, <2>1, SumChanged
<1>14. /\ QtyAhead(done.book, level, seq) = SumFunctionOnSet(e, OrderId)
       /\ QtyAhead(q, level, seq) = SumFunctionOnSet(f, OrderId)
  BY <1>1, <1>6, AheadIsSum DEF f, e
<1>15. /\ TakenAhead(done.reduction, level, seq) <= QtyAhead(q, level, seq)
       /\ QtyAhead(done.book, level, seq)
            = QtyAhead(q, level, seq) - TakenAhead(done.reduction, level, seq)
  <2>1. taken \in Nat /\ order.qty \in Nat
    BY <1>2, <1>3 DEF WireQuantity
  <2> QED BY <1>3, <1>8, <1>10, <1>11, <1>12, <1>13, <1>14, <2>1
<1>16. done.reduction.qty = taken /\ done.reduction.isExecute = isExecute
  BY <1>1
<1> QED BY <1>3, <1>7, <1>15, <1>16 DEF done

-----------------------------------------------------------------------------
\* What is to be shown of every kind of message: the queues hold the orders that
\* rest, and what is ahead of any place in them moves by what is reported.
Moves(q, effect, map, m) ==
  /\ QueuesOrders(effect.book, map)
  /\ effect.book.nextSeq >= q.nextSeq
  /\ effect.reduction # NoReduction =>
       /\ effect.reduction.qty \in WireQuantity
       /\ effect.reduction.isExecute => m.type = "Execute"
  /\ \A level : \A seq \in 0 .. q.nextSeq :
       /\ TakenAhead(effect.reduction, level, seq) <= QtyAhead(q, level, seq)
       /\ QtyAhead(effect.book, level, seq)
            = QtyAhead(q, level, seq) - TakenAhead(effect.reduction, level, seq)

\* A message that finds no order moves nothing.
LEMMA NothingMoves ==
  ASSUME NEW q, NEW map \in OrderMap, QueuesOrders(q, map), NEW m
  PROVE  Moves(q, [book |-> q, reduction |-> NoReduction], map, m)
<1>1. q.nextSeq \in Nat
  BY DEF QueuesOrders
<1>2. \A level, seq : QtyAhead(q, level, seq) \in Nat
  BY AheadIsNat
<1>3. \A level, seq : TakenAhead(NoReduction, level, seq) = 0
  BY DEF TakenAhead
<1> QED BY <1>1, <1>2, <1>3 DEF Moves

\* A reduction of an order that rests.
LEMMA ReductionMoves ==
  ASSUME NEW q, NEW map \in OrderMap, QueuesOrders(q, map),
         NEW id \in Resting(map), NEW qty \in WireQuantity, NEW isExecute,
         NEW m, isExecute => m.type = "Execute"
  PROVE  LET left == LeftOf(map[id], SmallerOf(qty, map[id].qty))
         IN  Moves(q, ReduceBy(q, id, qty, isExecute), [map EXCEPT ![id] = left], m)
<1> DEFINE left == LeftOf(map[id], SmallerOf(qty, map[id].qty))
           done == ReduceBy(q, id, qty, isExecute)
           after == [map EXCEPT ![id] = left]
<1>1. QueuesOrders(done.book, after) /\ done.book.nextSeq = q.nextSeq
  <2>1. QueuesOrders(done.book, after)
    BY ReduceKeeps
  <2>2. done.book.nextSeq = q.nextSeq
    BY ReduceKeepsSeq
  <2> QED BY <2>1, <2>2
<1>2. q.nextSeq \in Nat
  BY DEF QueuesOrders
<1>3. \A level : \A seq \in Nat :
        /\ done.reduction # NoReduction /\ done.reduction.qty \in WireQuantity
        /\ done.reduction.isExecute = isExecute
        /\ TakenAhead(done.reduction, level, seq) <= QtyAhead(q, level, seq)
        /\ QtyAhead(done.book, level, seq)
             = QtyAhead(q, level, seq) - TakenAhead(done.reduction, level, seq)
  BY ReduceAhead
<1> HIDE DEF done, after
<1>4. Moves(q, done, after, m)
  BY <1>1, <1>2, <1>3 DEF Moves
<1> QED BY <1>4 DEF done, after

\* A new order after whatever moved before.
LEMMA EnqueueMoves ==
  ASSUME NEW q, q.nextSeq \in Nat, NEW effect, NEW map \in OrderMap, NEW m,
         Moves(q, effect, map, m),
         NEW id \in OrderId, map[id] = NoOrder, NEW order \in Location,
         NEW new, new.book = Enqueue(effect.book, id, KeyOf(order), order.qty),
         new.reduction = effect.reduction
  PROVE  Moves(q, new, [map EXCEPT ![id] = order], m)
<1>1. QueuesOrders(effect.book, map) /\ effect.book.nextSeq \in Nat
  BY DEF Moves, QueuesOrders
<1>2. QueuesOrders(new.book, [map EXCEPT ![id] = order])
  BY <1>1, EnqueueKeeps
<1>3. new.book.nextSeq = effect.book.nextSeq + 1
  BY DEF Enqueue
<1>4. \A level : \A seq \in 0 .. q.nextSeq :
        QtyAhead(new.book, level, seq) = QtyAhead(effect.book, level, seq)
  <2>1. \A seq \in 0 .. q.nextSeq : seq \in Nat /\ seq <= effect.book.nextSeq
    BY <1>1 DEF Moves
  <2> QED BY <1>1, <2>1, EnqueueAhead
<1>5. new.book.nextSeq >= q.nextSeq
  BY <1>1, <1>3 DEF Moves
<1> QED BY <1>2, <1>4, <1>5, Zenon DEF Moves

\* RemoveAll takes all of an order that rests.
LEMMA RemovalMoves ==
  ASSUME NEW q, NEW map \in OrderMap, QueuesOrders(q, map), NEW id \in Resting(map), NEW m
  PROVE  Moves(q, RemoveAll(q, id), [map EXCEPT ![id] = NoOrder], m)
<1> DEFINE qty == map[id].qty
<1>1. qty \in WireQuantity
  BY DEF Resting, OrderMap, Location
<1>2. EntryOf(q, id).qty = qty
  BY EntryFound DEF Queued
<1>3. LeftOf(map[id], SmallerOf(qty, map[id].qty)) = NoOrder
  BY <1>1 DEF LeftOf, SmallerOf, WireQuantity
<1> HIDE DEF qty
<1>4. RemoveAll(q, id) = ReduceBy(q, id, qty, FALSE)
  BY <1>2 DEF RemoveAll
<1>5. Moves(q, ReduceBy(q, id, qty, FALSE),
            [map EXCEPT ![id] = LeftOf(map[id], SmallerOf(qty, map[id].qty))], m)
  BY <1>1, ReductionMoves
<1> QED BY <1>3, <1>4, <1>5

\* What reduce_by() returns.
LEMMA ReduceIsPair ==
  ASSUME NEW q, NEW id, NEW qty, NEW isExecute
  PROVE  LET done == ReduceBy(q, id, qty, isExecute)
         IN  done = [book |-> done.book, reduction |-> done.reduction]
<1> DEFINE IsPair(x) == x = [book |-> x.book, reduction |-> x.reduction]
<1>1. \A a, b : IsPair([book |-> a, reduction |-> b])
  OBVIOUS
<1> HIDE DEF IsPair
<1>2. IsPair(ReduceBy(q, id, qty, isExecute))
  BY <1>1 DEF ReduceBy
<1> QED BY <1>2 DEF IsPair

\* The queues follow the orders, whichever message is applied to both.
LEMMA QueueFollows ==
  ASSUME NEW q, NEW map \in OrderMap, QueuesOrders(q, map),
         NEW m \in Message, FitsMap(map, m), NEW aBook
  PROVE  Moves(q, QueueApply(q, m), Apply([orders |-> map, book |-> aBook], m).orders, m)
<1> DEFINE view == [orders |-> map, book |-> aBook]
           after == Apply(view, m).orders
           order == map[m.id]
           none == [book |-> q, reduction |-> NoReduction]
<1>1. /\ m.type \in {"Add", "Execute", "Cancel", "Delete", "Replace"} /\ m.id \in OrderId
      /\ m.instrument \in Instrument /\ q.nextSeq \in Nat
  BY MessageKinds DEF QueuesOrders
<1>2. Moves(q, none, map, m)
  BY NothingMoves
<1>3. order = NoOrder => q.orders[m.id] = NoEntry
  BY <1>1 DEF QueuesOrders, Resting
<1>4. order # NoOrder => /\ m.id \in Resting(map) /\ order \in Location
                         /\ q.orders[m.id] # NoEntry
                         /\ EntryOf(q, m.id) = Queued(m.id, order, q.orders[m.id])
  BY <1>1, EntryFound DEF Resting, OrderMap
<1>5. CASE m.type = "Add"
  <2> DEFINE new == [instrument |-> m.instrument, side |-> m.side,
                     price |-> m.price, qty |-> m.qty]
  <2>1. m \in AddOrderMsg
    BY <1>5, MessageKinds
  <2>2. new \in Location /\ new.qty = m.qty
    BY <2>1 DEF AddOrderMsg, Location
  <2>3. QueueApply(q, m) = [book |-> Enqueue(q, m.id, KeyOf(new), new.qty),
                            reduction |-> NoReduction]
    BY <1>5 DEF QueueApply, KeyOf
  <2>4. after = [map EXCEPT ![m.id] = new] /\ order = NoOrder
    BY <1>5 DEF Apply, ApplyAdd, FitsMap
  <2> DEFINE moved == QueueApply(q, m)
  <2>5. moved.book = Enqueue(none.book, m.id, KeyOf(new), new.qty)
        /\ moved.reduction = none.reduction
    BY <2>3
  <2> HIDE DEF new, none, moved, after
  <2>6. Moves(q, moved, [map EXCEPT ![m.id] = new], m)
    BY <1>1, <1>2, <2>2, <2>4, <2>5, EnqueueMoves
  <2> QED BY <2>4, <2>6 DEF moved, after
<1>6. CASE m.type \in {"Execute", "Cancel"}
  <2> DEFINE isExecute == m.type = "Execute"
  <2>1. QueueApply(q, m) = ReduceBy(q, m.id, m.qty, isExecute)
    BY <1>6 DEF QueueApply
  <2>2. m.qty \in WireQuantity
    BY <1>6, MessageKinds DEF TakeMsg
  <2>3. CASE order = NoOrder
    <3>1. QueueApply(q, m) = none /\ after = map
      BY <1>3, <1>6, <2>1, <2>3 DEF ReduceBy, Apply, ApplyTake
    <3> QED BY <1>2, <3>1
  <2>4. CASE order # NoOrder
    <3>1. after = [map EXCEPT ![m.id] = LeftOf(order, SmallerOf(m.qty, order.qty))]
      BY <1>6, <2>4 DEF Apply, ApplyTake, LeftOf
    <3>2. isExecute => m.type = "Execute"
      OBVIOUS
    <3> HIDE DEF isExecute
    <3>3. Moves(q, ReduceBy(q, m.id, m.qty, isExecute),
                [map EXCEPT ![m.id] = LeftOf(order, SmallerOf(m.qty, order.qty))], m)
      BY <1>4, <2>2, <2>4, <3>2, ReductionMoves
    <3> QED BY <2>1, <3>1, <3>3
  <2> QED BY <2>3, <2>4
<1>7. CASE m.type = "Delete"
  <2>1. CASE order = NoOrder
    <3>1. QueueApply(q, m) = none /\ after = map
      BY <1>3, <1>7, <2>1 DEF QueueApply, Apply, ApplyDelete
    <3> QED BY <1>2, <3>1
  <2>2. CASE order # NoOrder
    <3>1. QueueApply(q, m) = RemoveAll(q, m.id)
      BY <1>4, <1>7, <2>2 DEF QueueApply
    <3>2. after = [map EXCEPT ![m.id] = NoOrder]
      BY <1>7, <2>2 DEF Apply, ApplyDelete
    <3> QED BY <1>4, <2>2, <3>1, <3>2, RemovalMoves
  <2> QED BY <2>1, <2>2
<1>8. CASE m.type = "Replace"
  <2> DEFINE new == [instrument |-> m.instrument, side |-> order.side,
                     price |-> m.price, qty |-> m.qty]
             erased == [map EXCEPT ![m.id] = NoOrder]
             removed == RemoveAll(q, m.id)
             moved == QueueApply(q, m)
  <2>1. m \in ReplaceMsg /\ m.newId \in OrderId /\ map[m.newId] = NoOrder
    BY <1>8, MessageKinds DEF ReplaceMsg, FitsMap
  <2>2. CASE order = NoOrder
    <3>1. QueueApply(q, m) = none /\ after = map
      BY <1>3, <1>8, <2>2 DEF QueueApply, QueueReplace, Apply, ApplyReplace
    <3> QED BY <1>2, <3>1
  <2>3. CASE order # NoOrder
    <3>1. new \in Location /\ new.qty = m.qty
      BY <1>1, <1>4, <2>1, <2>3 DEF ReplaceMsg, Location
    <3>2. EntryOf(q, m.id).level.side = order.side
      BY <1>4, <2>3 DEF Queued, KeyOf
    <3>3. after = [erased EXCEPT ![m.newId] = new]
      BY <1>8, <2>3 DEF Apply, ApplyReplace
    <3>4. erased \in OrderMap /\ erased[m.newId] = NoOrder
      BY <1>1, <2>1, OrderMapUpdate DEF OrderMap
    <3>5. Moves(q, removed, erased, m)
      BY <1>4, <2>3, RemovalMoves
    <3>6. moved = [removed EXCEPT !.book = Enqueue(@, m.newId, KeyOf(new), new.qty)]
      <4>1. KeyOf(new) = [instrument |-> m.instrument, side |-> EntryOf(q, m.id).level.side,
                          price |-> m.price]
        BY <3>2 DEF KeyOf
      <4>2. moved = QueueReplace(q, m)
        BY <1>8 DEF QueueApply
      <4> HIDE DEF moved
      <4> QED BY <1>4, <2>3, <3>1, <4>1, <4>2 DEF QueueReplace
    <3>7. removed = [book |-> removed.book, reduction |-> removed.reduction]
      BY ReduceIsPair DEF RemoveAll
    <3> HIDE DEF removed, moved, new, erased, after
    <3>8. /\ moved.book = Enqueue(removed.book, m.newId, KeyOf(new), new.qty)
          /\ moved.reduction = removed.reduction
      <4> DEFINE b == Enqueue(removed.book, m.newId, KeyOf(new), new.qty)
      <4>1. moved = [removed EXCEPT !.book = b]
        BY <3>6
      <4> HIDE DEF b
      <4>2. moved = [book |-> b, reduction |-> removed.reduction]
        BY <3>7, <4>1
      <4> QED BY <4>2 DEF b
    <3>9. Moves(q, moved, [erased EXCEPT ![m.newId] = new], m)
      BY <1>1, <2>1, <3>1, <3>4, <3>5, <3>8, EnqueueMoves
    <3> QED BY <3>3, <3>9 DEF moved, after
  <2> QED BY <2>2, <2>3
<1> QED BY <1>1, <1>5, <1>6, <1>7, <1>8

-----------------------------------------------------------------------------
(***************************************************************************)
(* The trackers against the oracle: a tracker is at all times what a new   *)
(* one would be if it took its place in the queue now.                     *)
(***************************************************************************)
Tracks(t, level, q) ==
  \E seq \in 0 .. q.nextSeq : t = NewTracker(level, seq, QtyAhead(q, level, seq))

\* consume() keeps up with the queue.
LEMMA ConsumeTracks ==
  ASSUME NEW q, NEW map \in OrderMap, QueuesOrders(q, map),
         NEW effect, NEW after, NEW m, Moves(q, effect, after, m),
         NEW level, NEW t, Tracks(t, level, q)
  PROVE  Tracks(Consume(t, effect.reduction), level, effect.book)
<1> DEFINE reduction == effect.reduction
           left == Minus(t.ahead, reduction.qty)
<1>1. PICK seq \in 0 .. q.nextSeq : t = NewTracker(level, seq, QtyAhead(q, level, seq))
  BY DEF Tracks
<1>2. PICK ahead \in Nat : ahead = QtyAhead(q, level, seq)
  BY AheadIsNat
<1>3. PICK zero : zero = (ahead = 0)
  OBVIOUS
<1>4. t = [level |-> level, seq |-> seq, ahead |-> ahead, front |-> zero]
  BY <1>1, <1>2, <1>3, Zenon DEF NewTracker
<1>5. t.level = level /\ t.seq = seq /\ t.ahead = ahead /\ t.front = zero
  BY <1>4
<1>6. /\ TakenAhead(reduction, level, seq) <= ahead
      /\ QtyAhead(effect.book, level, seq) = ahead - TakenAhead(reduction, level, seq)
      /\ reduction # NoReduction => reduction.qty \in WireQuantity
  BY <1>2, Zenon DEF Moves
<1>7. seq \in 0 .. effect.book.nextSeq
  <2>1. q.nextSeq \in Nat /\ effect.book.nextSeq \in Nat /\ effect.book.nextSeq >= q.nextSeq
    BY DEF Moves, QueuesOrders
  <2> QED BY <2>1
<1> HIDE DEF reduction
<1>8. CASE Concerns(t, reduction) /\ reduction.seq < t.seq
  <2>1. PICK qty \in WireQuantity : qty = reduction.qty
    BY <1>6, <1>8 DEF Concerns
  <2>2. TakenAhead(reduction, level, seq) = qty
    BY <1>5, <1>8, <2>1 DEF Concerns, TakenAhead
  <2>3. left = ahead - qty /\ ahead # 0 /\ QtyAhead(effect.book, level, seq) = left
    <3>1. qty <= ahead /\ qty \in Nat /\ qty # 0
      BY <1>6, <2>2 DEF WireQuantity
    <3> QED BY <1>5, <1>6, <2>1, <2>2, <3>1 DEF Minus
  <2>4. Consume(t, reduction) = [t EXCEPT !.ahead = left, !.front = @ \/ left = 0]
    BY <1>8, Zenon DEF Consume
  <2> HIDE DEF left
  <2> DEFINE f == t.front \/ left = 0
             moved == [level |-> level, seq |-> seq, ahead |-> left, front |-> zero]
  <2>5. [t EXCEPT !.ahead = left] = moved
    BY <1>4
  <2>6. [moved EXCEPT !.front = f] =
          [level |-> level, seq |-> seq, ahead |-> left, front |-> f]
    <3> HIDE DEF f
    <3> QED OBVIOUS
  <2>7. [t EXCEPT !.ahead = left, !.front = @ \/ left = 0] =
          [[t EXCEPT !.ahead = left] EXCEPT !.front = f]
    BY SMT
  <2>8. f = (left = 0)
    <3>1. zero = FALSE
      BY <1>3, <2>3
    <3> QED BY <1>5, <3>1
  <2> HIDE DEF f
  <2>9. Consume(t, reduction) = [level |-> level, seq |-> seq, ahead |-> left, front |-> f]
    BY <2>4, <2>5, <2>6, <2>7, Zenon
  <2>10. Consume(t, reduction) = NewTracker(level, seq, left)
    BY <2>8, <2>9, Zenon DEF NewTracker
  <2> QED BY <1>7, <2>3, <2>10 DEF Tracks, reduction
<1>9. CASE ~(Concerns(t, reduction) /\ reduction.seq < t.seq)
  <2>1. TakenAhead(reduction, level, seq) = 0
    BY <1>5, <1>9 DEF Concerns, TakenAhead
  <2>2. QtyAhead(effect.book, level, seq) = QtyAhead(q, level, seq)
    BY <1>2, <1>6, <2>1
  <2>3. Consume(t, reduction) = t
    BY <1>9, Zenon DEF Consume
  <2> QED BY <1>1, <1>7, <2>2, <2>3 DEF Tracks, reduction
<1> QED BY <1>8, <1>9

\* Ageing an order moves its tracker by the message.
LEMMA AgedTracker ==
  ASSUME NEW o, Shaped(o), ~o.naive, NEW reduction
  PROVE  Aged(o, reduction).tracker = Consume(o.tracker, reduction)
<1>1. PICK tracker :
        o = [pair |-> o.pair, naive |-> o.naive, level |-> o.level,
             placed |-> o.placed, tracker |-> tracker]
  BY Zenon DEF Shaped
<1> DEFINE t == Consume(o.tracker, reduction)
<1>2. Aged(o, reduction) = [o EXCEPT !.tracker = t]
  BY Zenon DEF Aged
<1> HIDE DEF t
<1>3. [o EXCEPT !.tracker = t].tracker = t
  BY <1>1
<1> QED BY <1>2, <1>3 DEF t

AllTrack(orders, q) == \A o \in orders : ~o.naive => Tracks(o.tracker, o.level, q)

\* The trackers of the orders that a message leaves.
LEMMA KeptTrack ==
  ASSUME NEW q, NEW map \in OrderMap, QueuesOrders(q, map),
         NEW effect, NEW after, NEW m, Moves(q, effect, after, m),
         NEW orders, \A o \in orders : Shaped(o), AllTrack(orders, q), NEW idx
  PROVE  AllTrack(Kept(orders, effect.reduction, idx), effect.book)
<1> SUFFICES ASSUME NEW a \in Kept(orders, effect.reduction, idx), ~a.naive
             PROVE  Tracks(a.tracker, a.level, effect.book)
  BY DEF AllTrack
<1>1. PICK o \in Left(orders, effect.reduction, idx) : a = Aged(o, effect.reduction)
  BY DEF Kept
<1>2. o \in orders /\ Shaped(o)
  BY DEF Left
<1>3. a.level = o.level /\ ~o.naive
  BY <1>1, <1>2, AgedIsSame
<1>4. a.tracker = Consume(o.tracker, effect.reduction)
  BY <1>1, <1>2, <1>3, AgedTracker
<1>5. Tracks(o.tracker, o.level, q)
  BY <1>2, <1>3 DEF AllTrack
<1> QED BY <1>3, <1>4, <1>5, ConsumeTracks

\* The trackers of the pair that place_pair() makes.
LEMMA TwinsTrack ==
  ASSUME NEW q, q.nextSeq \in Nat, NEW pair, NEW idx, NEW level,
         LevelTotal(q, level) = QtyAhead(q, level, q.nextSeq)
  PROVE  AllTrack(Twins(pair, idx, level, q.nextSeq, LevelTotal(q, level)), q)
<1> DEFINE yes == TRUE
           no == FALSE
           n == [pair |-> pair, naive |-> yes, level |-> level,
                 placed |-> idx, tracker |-> NoTracker]
           t == NewTracker(level, q.nextSeq, LevelTotal(q, level))
           o == [n EXCEPT !.naive = no, !.tracker = t]
<1>1. Twins(pair, idx, level, q.nextSeq, LevelTotal(q, level)) = {n, o}
  BY Zenon DEF Twins
<1>2. Tracks(t, level, q)
  <2>1. t = NewTracker(level, q.nextSeq, QtyAhead(q, level, q.nextSeq))
    OBVIOUS
  <2>2. q.nextSeq \in 0 .. q.nextSeq
    OBVIOUS
  <2> HIDE DEF t
  <2> QED BY <2>1, <2>2 DEF Tracks
<1>3. yes = TRUE
  OBVIOUS
<1> HIDE DEF t, yes, no
<1>4. o.tracker = t /\ o.level = level /\ n.naive = yes
  OBVIOUS
<1> HIDE DEF n, o
<1> QED BY <1>1, <1>2, <1>3, <1>4 DEF AllTrack

-----------------------------------------------------------------------------
(***************************************************************************)
(* The invariant of the two books: both hold the orders of the simulator,  *)
(* and the prices are as near the middle of the band as the walk is long.  *)
(***************************************************************************)
Middle == book.base + Levels \div 2

PricesNearMiddle ==
  /\ generated <= MaxMessages
  /\ Within(refPrice[TheInstrument], Middle, Walked(generated))
  /\ \A order \in liveOrders[TheInstrument] :
       Within(order.price, Middle, Walked(generated) + MaxOffset)

BooksInv ==
  /\ SimInv
  /\ GoodView([orders |-> bookOrders, book |-> book])
  /\ Mirrors(bookOrders, liveOrders[TheInstrument], TheInstrument)
  /\ DepthMatches(bookOrders, book, TheInstrument)
  /\ QueuesOrders(queueBook, bookOrders)
  /\ OrdersAreSmall(liveOrders[TheInstrument])
  /\ TotalsFit => AllTrack(active, queueBook)
  /\ PricesNearMiddle

LEMMA TheInstrumentIs == TheInstrument \in Instrument
BY InstrumentsAssumption DEF TheInstrument, Instrument

\* Both books start empty, the band around the first reference price.
LEMMA BooksInit == BacktestInit => BooksInv
<1> SUFFICES ASSUME BacktestInit PROVE BooksInv
  OBVIOUS
<1> DEFINE price == refPrice[TheInstrument]
<1>1. /\ SimInit /\ bookOrders = NoOrders /\ book = BookInit(price)
      /\ queueBook = QueueBookInit /\ active = {}
  BY DEF BacktestInit
<1>2. SimInv
  BY <1>1, SimInitOK
<1>3. price \in Int
  BY <1>2, TheInstrumentIs DEF SimInv, SimTypeOK
<1>4. generated = 0 /\ liveOrders[TheInstrument] = {}
  BY <1>1, TheInstrumentIs DEF SimInit
<1>5. GoodView([orders |-> bookOrders, book |-> book])
  BY <1>1, <1>3, EmptyBookIsGood DEF GoodView
<1>6. Mirrors(bookOrders, liveOrders[TheInstrument], TheInstrument)
  BY <1>1, <1>4 DEF Mirrors, NoOrders
<1>7. DepthMatches(bookOrders, book, TheInstrument)
  BY <1>1, <1>3, EmptyBookDepth
<1>8. /\ QueuesOrders(queueBook, bookOrders) /\ AllTrack(active, queueBook)
      /\ OrdersAreSmall(liveOrders[TheInstrument])
  BY <1>1, <1>4, EmptyQueue DEF AllTrack, OrdersAreSmall
<1>9. PricesNearMiddle
  <2>1. Walked(0) = 0 /\ MaxMessages \in Nat
    BY SimulatorAssumption DEF Walked
  <2>2. Middle = price
    BY <1>1, <1>3, LevelsAssumption DEF Middle, BookInit
  <2> HIDE DEF price
  <2>3. Within(price, Middle, Walked(generated))
    BY <1>3, <1>4, <2>1, <2>2 DEF Within
  <2> QED BY <1>4, <2>1, <2>3 DEF PricesNearMiddle, price
<1> QED BY <1>2, <1>5, <1>6, <1>7, <1>8, <1>9 DEF BooksInv

\* One message walks no further than its drift.
LEMMA ReplayPrices ==
  ASSUME BooksInv, NEW drift \in Drift, NEW m, NextMessage(TheInstrument, drift, m),
         book'.base = book.base
  PROVE  PricesNearMiddle'
<1> DEFINE price == refPrice[TheInstrument]
<1>1. /\ generated < MaxMessages /\ generated' = generated + 1
      /\ refPrice' = [refPrice EXCEPT ![TheInstrument] = price + drift]
      /\ \A order \in liveOrders'[TheInstrument] :
           \/ \E a \in liveOrders[TheInstrument] : a.price = order.price
           \/ Within(order.price, price + drift, MaxOffset)
  BY NextMessagePrices, TheInstrumentIs DEF BooksInv
<1>2. SimInv'
  BY NextMessageFollows, TheInstrumentIs DEF Follows, BooksInv
<1>3. /\ Walked(generated') = Walked(generated) + MaxDrift /\ generated \in Nat
      /\ Walked(generated) \in Nat /\ MaxDrift \in Nat /\ MaxOffset \in Nat
  BY <1>1, SimulatorAssumption DEF BooksInv, SimInv, SimTypeOK, Walked
<1>4. PICK middle \in Int : middle = Middle /\ middle = Middle'
  BY LevelsAssumption DEF BooksInv, GoodView, GoodBook, Book, Middle
<1>5. /\ price \in Int /\ drift \in Int /\ -MaxDrift <= drift /\ drift <= MaxDrift
      /\ refPrice'[TheInstrument] = price + drift
  BY <1>1, <1>3, TheInstrumentIs DEF BooksInv, SimInv, SimTypeOK, Drift
<1>6. /\ Within(price, middle, Walked(generated))
      /\ \A order \in liveOrders[TheInstrument] :
           Within(order.price, middle, Walked(generated) + MaxOffset)
  BY <1>4 DEF BooksInv, PricesNearMiddle
<1>7. /\ \A order \in liveOrders[TheInstrument] : order.price \in Int
      /\ \A order \in liveOrders'[TheInstrument] : order.price \in Int
  BY <1>2, TheInstrumentIs DEF BooksInv, SimInv, SimTypeOK, LiveOrder
<1> HIDE DEF price
<1>8. Within(refPrice'[TheInstrument], middle, Walked(generated'))
  BY <1>3, <1>5, <1>6 DEF Within
<1>9. ASSUME NEW order \in liveOrders'[TheInstrument]
      PROVE  Within(order.price, middle, Walked(generated') + MaxOffset)
  <2>1. CASE \E a \in liveOrders[TheInstrument] : a.price = order.price
    BY <1>3, <1>6, <1>7, <2>1 DEF Within
  <2>2. CASE Within(order.price, price + drift, MaxOffset)
    BY <1>3, <1>5, <1>6, <1>7, <2>2 DEF Within
  <2> QED BY <1>1, <2>1, <2>2
<1>10. generated' <= MaxMessages
  BY <1>1, <1>3, SimulatorAssumption
<1> QED BY <1>4, <1>8, <1>9, <1>10 DEF PricesNearMiddle

\* The message applied to both books, and the pair it may place.
LEMMA ReplayKeepsBooks ==
  ASSUME OrdersInv, BooksInv, Replay
  PROVE  /\ BooksInv'
         /\ Moves(queueBook, QueueApply(queueBook, message'), bookOrders', message')
<1>1. PICK drift \in Drift : NextMessage(TheInstrument, drift, message')
  BY DEF Replay
<1>2. PICK m : m = message'
  OBVIOUS
<1> DEFINE view == [orders |-> bookOrders, book |-> book]
           after == Apply(view, m)
           effect == QueueApply(queueBook, m)
           kept == Kept(active, effect.reduction, generated)
           level == [instrument |-> TheInstrument, side |-> "Buy",
                     price |-> BestBid(book')]
           twins == Twins(nextPair, generated, level, queueBook'.nextSeq,
                          LevelTotal(queueBook', level))
<1>3. /\ bookOrders' = after.orders /\ book' = after.book
      /\ queueBook' = effect.book
      /\ active' = kept \/ active' = kept \cup twins
  <2> DEFINE applied == ApplyToBook(message')
             moved == QueueApply(queueBook, message')
             places == /\ generated % PlacementInterval = 0
                       /\ HasBid(applied.book) /\ HasAsk(applied.book)
             left == Kept(active, moved.reduction, generated)
  <2>1. /\ bookOrders' = applied.orders /\ book' = applied.book
        /\ queueBook' = moved.book
        /\ active' = IF places THEN left \cup twins ELSE left
    BY Zenon DEF Replay, Filled, Expired, Left, Kept, PlacePair, Twins
  <2>2. active' = left \/ active' = left \cup twins
    <3> HIDE DEF places, left, twins
    <3> QED BY <2>1
  <2>3. applied = after /\ moved = effect /\ left = kept
    BY <1>2 DEF ApplyToBook
  <2> HIDE DEF applied, moved, left, after, effect, kept, twins
  <2> QED BY <2>1, <2>2, <2>3
<1>4. NextMessage(TheInstrument, drift, m) /\ SimInv /\ TheInstrument \in Instrument
  BY <1>1, <1>2, TheInstrumentIs DEF BooksInv
<1>5. /\ m \in Message /\ m.instrument = TheInstrument /\ SimInv'
      /\ Mirrors(after.orders, liveOrders'[TheInstrument], TheInstrument)
  <2>1. Follows(TheInstrument, m)
    BY <1>4, NextMessageFollows
  <2>2. /\ bookOrders \in OrderMap
        /\ Mirrors(bookOrders, liveOrders[TheInstrument], TheInstrument)
    BY DEF BooksInv, GoodView
  <2> QED BY <2>1, <2>2 DEF Follows
<1>6. /\ bookOrders \in OrderMap /\ GoodBook(book) /\ book \in Book /\ GoodView(view)
      /\ FitsMap(bookOrders, m)
  <2>1. bookOrders \in OrderMap /\ GoodBook(book) /\ book \in Book /\ GoodView(view)
    BY DEF BooksInv, GoodView, GoodBook
  <2> QED BY <1>4, <2>1, NextMessageFits DEF BooksInv
<1>7. GoodView(after) /\ after.book.base = book.base
  BY <1>5, <1>6, ApplyKeeps, ApplyKeepsBase
<1>8. DepthMatches(after.orders, after.book, TheInstrument)
  BY <1>5, <1>6, ApplyKeepsDepth DEF BooksInv
<1>9. Moves(queueBook, effect, after.orders, m)
  BY <1>5, <1>6, QueueFollows DEF BooksInv
<1> HIDE DEF after, effect, kept, twins
<1>10. GoodView([orders |-> after.orders, book |-> after.book])
  BY <1>7 DEF GoodView
<1>11. PricesNearMiddle'
  BY <1>3, <1>4, <1>7, ReplayPrices
<1>12. QueuesOrders(queueBook', bookOrders') /\ queueBook'.nextSeq \in Nat
  BY <1>3, <1>9 DEF Moves, QueuesOrders
<1>13. ASSUME TotalsFit PROVE AllTrack(kept, queueBook')
  <2>1. \A o \in active : Shaped(o)
    BY DEF OrdersInv, OrdersOK
  <2>2. AllTrack(kept, effect.book)
    BY <1>6, <1>9, <1>13, <2>1, KeptTrack DEF BooksInv, kept
  <2> QED BY <1>3, <2>2
<1>14. OrdersAreSmall(liveOrders'[TheInstrument])
  BY <1>4, OrdersStaySmall DEF BooksInv
<1>15. ASSUME TotalsFit PROVE AllTrack(twins, queueBook')
  <2>1. after.orders \in OrderMap
    BY <1>10 DEF GoodView
  <2>2. ASSUME NEW id \in OrderId, after.orders[id] # NoOrder
        PROVE  after.orders[id].qty <= MaxQty
    <3>1. PICK order \in liveOrders'[TheInstrument] :
            order.id = id /\ order.qty <= MaxQty
      BY <1>5, <1>14, <2>2 DEF Mirrors, OrdersAreSmall
    <3>2. after.orders[id] = LocationOf(order, TheInstrument)
      BY <1>5, <3>1 DEF Mirrors
    <3> QED BY <3>1, <3>2 DEF LocationOf
  <2>3. LevelTotal(queueBook', level) = QtyAhead(queueBook', level, queueBook'.nextSeq)
    <3> HIDE DEF level
    <3> QED BY <1>3, <1>12, <1>15, <2>1, <2>2, TotalIsExact
  <2> QED BY <1>12, <2>3, TwinsTrack DEF twins
<1>16. ASSUME TotalsFit PROVE AllTrack(active', queueBook')
  <2>1. AllTrack(kept, queueBook') /\ AllTrack(twins, queueBook')
    BY <1>13, <1>15, <1>16
  <2> QED BY <1>3, <2>1 DEF AllTrack
<1> QED BY <1>2, <1>3, <1>5, <1>8, <1>9, <1>10, <1>11, <1>12, <1>14, <1>16
    DEF BooksInv, effect

LEMMA BooksStep == OrdersInv /\ BooksInv /\ [BacktestNext]_backtestVars => BooksInv'
<1> SUFFICES ASSUME OrdersInv, BooksInv, [BacktestNext]_backtestVars PROVE BooksInv'
  OBVIOUS
<1>1. CASE Replay
  BY <1>1, ReplayKeepsBooks
<1>2. CASE Finish \/ UNCHANGED backtestVars
  <2>1. /\ UNCHANGED <<bookOrders, book, queueBook, refPrice, liveOrders, nextOrderId, generated>>
        /\ active' = {} \/ active' = active
    BY <1>2 DEF Finish, backtestVars, bookVars, engineVars, simVars
  <2>2. SimInv' /\ PricesNearMiddle'
    BY <2>1 DEF BooksInv, SimInv, SimTypeOK, IdsAreFresh, PricesNearMiddle, Middle
  <2> QED BY <2>1, <2>2 DEF BooksInv, AllTrack
<1> QED BY <1>1, <1>2 DEF BacktestNext

\* The invariant of the books holds in every run of the backtest.
LEMMA BooksAlways == BacktestSpec => []BooksInv
BY OrdersAlways, BooksInit, BooksStep, PTL DEF BacktestSpec

\* consume() in queue_book.hpp: the position kept message by message is the one
\* that the oracle finds by walking the queue, for every order, at all times, and
\* an order is at the front exactly when nothing is ahead of it, for any feed
\* whose quantities together fit the 32 bits of level_total_qty().
THEOREM TrackersMatchOracleHolds == BacktestSpec => []TrackersMatchOracle
<1>1. BooksInv => TrackersMatchOracle
  <2> SUFFICES ASSUME BooksInv, TotalsFit, NEW o \in active, ~o.naive
               PROVE  /\ o.tracker.ahead = QtyAhead(queueBook, o.level, o.tracker.seq)
                      /\ o.tracker.front <=> o.tracker.ahead = 0
    BY DEF TrackersMatchOracle
  <2>1. Tracks(o.tracker, o.level, queueBook)
    BY DEF BooksInv, AllTrack
  <2>2. PICK seq : o.tracker = NewTracker(o.level, seq, QtyAhead(queueBook, o.level, seq))
    BY <2>1 DEF Tracks
  <2> DEFINE ahead == QtyAhead(queueBook, o.level, seq)
             zero == ahead = 0
  <2>3. o.tracker = [level |-> o.level, seq |-> seq, ahead |-> ahead, front |-> zero]
    BY <2>2, Zenon DEF NewTracker
  <2> HIDE DEF ahead, zero
  <2>4. o.tracker.seq = seq /\ o.tracker.ahead = ahead /\ o.tracker.front = zero
    BY <2>3
  <2> QED BY <2>4, Zenon DEF ahead, zero
<1> QED BY <1>1, BooksAlways, PTL

-----------------------------------------------------------------------------
(***************************************************************************)
(* The two books against each other.  The aggregated one finds a level by  *)
(* the distance of the price from the base, narrowed to an int; the queues *)
(* are found by the price itself.                                          *)
(***************************************************************************)
\* In the program: 2^31 ticks are more than half the band, the offset of 200 and
\* 3 ticks for each message.
WalkFitsBand == Walked(MaxMessages) + MaxOffset + Levels \div 2 < IntRange \div 2

\* An order rests at the price of its level.
LEMMA RestsAtPrice ==
  ASSUME BooksInv, WalkFitsBand, NEW id \in OrderId, bookOrders[id] # NoOrder
  PROVE  LET order == bookOrders[id]
         IN  /\ order.instrument = TheInstrument /\ order.price \in Int
             /\ IndexOf(book, order.price) = order.price - book.base
<1>1. PICK order \in liveOrders[TheInstrument] : order.id = id
  BY DEF BooksInv, Mirrors
<1>2. bookOrders[id] = LocationOf(order, TheInstrument)
  BY <1>1 DEF BooksInv, Mirrors
<1>3. PICK price \in Int : price = order.price
  BY TheInstrumentIs DEF BooksInv, SimInv, SimTypeOK, LiveOrder
<1>4. bookOrders[id].instrument = TheInstrument /\ bookOrders[id].price = price
  BY <1>2, <1>3 DEF LocationOf
<1>5. Within(price, Middle, Walked(generated) + MaxOffset)
  BY <1>3 DEF BooksInv, PricesNearMiddle
<1>6. /\ Walked(generated) \in Nat /\ Walked(MaxMessages) \in Nat
      /\ Walked(generated) <= Walked(MaxMessages) /\ MaxOffset \in Nat
  <2>1. /\ generated \in Nat /\ MaxDrift \in Nat /\ MaxMessages \in Nat
        /\ generated <= MaxMessages
    BY SimulatorAssumption DEF BooksInv, SimInv, SimTypeOK, PricesNearMiddle
  <2> QED BY <2>1, SimulatorAssumption DEF Walked
<1>7. PICK base \in Int : base = book.base
  BY DEF BooksInv, GoodView, GoodBook, Book
<1>8. PICK half \in Nat, limit \in Nat : half = Levels \div 2 /\ limit = IntRange \div 2
  BY LevelsAssumption, IntAssumption
<1>9. price - base >= -limit /\ price - base < limit
  BY <1>5, <1>6, <1>7, <1>8 DEF Within, Middle, WalkFitsBand
<1>10. IndexOf(book, price) = price - book.base
  <2>1. book \in Book
    BY DEF BooksInv, GoodView, GoodBook
  <2> QED BY <1>7, <1>8, <1>9, <2>1, IndexIsDistance
<1> QED BY <1>4, <1>10

LEMMA BooksAgreeFromInv ==
  ASSUME BooksInv, WalkFitsBand, NEW side \in Side, NEW index \in Index
  PROVE  QtyAt(book, side, book.base + index) % IntRange =
           LevelTotal(queueBook, [instrument |-> TheInstrument, side |-> side,
                                  price |-> book.base + index])
<1> DEFINE price == book.base + index
           level == [instrument |-> TheInstrument, side |-> side, price |-> price]
           f == Shares(bookOrders, book, TheInstrument, side, index)
           e == AheadShares(queueBook, bookOrders, level, queueBook.nextSeq)
<1>1. /\ book \in Book /\ book.base \in Int /\ bookOrders \in OrderMap
      /\ index \in Int /\ 0 <= index /\ index < Levels
  BY LevelsAssumption DEF BooksInv, GoodView, GoodBook, Book, Index
<1>2. IndexOf(book, price) = index
  <2>1. /\ price - book.base >= -(IntRange \div 2) /\ price - book.base < IntRange \div 2
        /\ price \in Int /\ price - book.base = index
    BY <1>1, IntAssumption, LevelsAssumption
  <2> HIDE DEF price
  <2> QED BY <1>1, <2>1, IndexIsDistance
<1>3. QtyAt(book, side, price) = SumFunctionOnSet(f, OrderId)
  <2>1. QtyAt(book, side, price) = LevelOf(book, side, index)
    <3> HIDE DEF price
    <3> QED BY <1>2 DEF QtyAt, InBand, LevelOf
  <2> QED BY <2>1 DEF BooksInv, DepthMatches, DepthOf
<1>4. LevelTotal(queueBook, level) = SumFunctionOnSet(e, OrderId) % IntRange
  <2>1. QtyAhead(queueBook, level, queueBook.nextSeq) = SumFunctionOnSet(e, OrderId)
    BY <1>1, AheadIsSum DEF BooksInv
  <2> QED BY <2>1 DEF LevelTotal
<1>5. ASSUME NEW id \in OrderId
      PROVE  f[id] \in Int /\ f[id] = e[id]
  <2> DEFINE order == bookOrders[id]
  <2>1. f[id] = Share(order, book, TheInstrument, side, index)
    BY DEF Shares
  <2>2. e[id] = IF IsAhead(queueBook, bookOrders, level, queueBook.nextSeq, id)
                THEN order.qty ELSE 0
    BY DEF AheadShares
  <2>3. CASE order = NoOrder
    BY <2>1, <2>2, <2>3 DEF Share, IsAhead
  <2>4. CASE order # NoOrder
    <3>1. /\ order.instrument = TheInstrument /\ order.price \in Int
          /\ IndexOf(book, order.price) = order.price - book.base
      BY <2>4, RestsAtPrice
    <3>2. queueBook.orders[id] < queueBook.nextSeq /\ order.qty \in Int
      BY <1>1, <2>4 DEF BooksInv, QueuesOrders, Resting, OrderMap, Location, WireQuantity
    <3>3. IndexOf(book, order.price) = index <=> order.price = price
      BY <1>1, <3>1
    <3> HIDE DEF price
    <3>4. KeyOf(order) = level <=> order.side = side /\ order.price = price
      BY <3>1 DEF KeyOf
    <3> HIDE DEF order, level
    <3>5. IsAhead(queueBook, bookOrders, level, queueBook.nextSeq, id)
            <=> order.side = side /\ order.price = price
      BY <2>4, <3>2, <3>4 DEF IsAhead, order
    <3> QED BY <2>1, <2>2, <2>4, <3>1, <3>2, <3>3, <3>5 DEF Share
  <2> QED BY <2>3, <2>4
<1>6. SumFunctionOnSet(f, OrderId) = SumFunctionOnSet(e, OrderId)
  <2>1. IsFiniteSet(OrderId)
    BY OrderIdAssumption, FS_Interval DEF OrderId
  <2> HIDE DEF f, e
  <2> QED BY <1>5, <2>1, SumsAgree
<1> QED BY <1>3, <1>4, <1>6

\* run() in backtest_sim.hpp feeds both books the same messages: as long as the
\* walk of the price fits an int, every level in the band of the aggregated book
\* has the quantity of the orders queued there, to the 32 bits that
\* level_total_qty() tells of it.
THEOREM BooksAgreeHolds ==
  ASSUME WalkFitsBand
  PROVE  BacktestSpec => []BooksAgree
<1>1. BooksInv => BooksAgree
  BY BooksAgreeFromInv DEF BooksAgree
<1> QED BY <1>1, BooksAlways, PTL

-----------------------------------------------------------------------------
\* A new fill is of an order that the message fills.
LEMMA NewFillFills ==
  ASSUME OrdersInv, Replay, NEW o \in active, ~o.naive, NewFill(o)
  PROVE  Fills(o.tracker, QueueApply(queueBook, message').reduction)
<1> DEFINE reduction == QueueApply(queueBook, message').reduction
<1>1. results' = Resolved(active, results, reduction, generated)
  BY Zenon DEF Replay, Filled, Expired, Resolved
<1>2. \A x, outcome : /\ Result(x, outcome, generated).pair = x.pair
                      /\ Result(x, outcome, generated).naive = x.naive
                      /\ Result(x, outcome, generated).outcome = outcome
  BY DEF Result
<1>3. PICK n \in Filled(active, reduction) :
        Result(o, "Filled", generated) = Result(n, "Filled", generated)
  <2>1. Result(o, "Filled", generated) \in results' \ results
    BY DEF NewFill
  <2>2. \A x : Result(o, "Filled", generated) # Result(x, "Canceled", generated)
    BY <1>2
  <2> HIDE DEF reduction
  <2> QED BY <1>1, <2>1, <2>2 DEF Resolved
<1>4. n \in active /\ IsFilled(n, reduction) /\ n.pair = o.pair /\ n.naive = o.naive
  BY <1>2, <1>3 DEF Filled
<1>5. /\ PairsOnce(active, results, nextPair)
      /\ o.pair \in 1 .. nextPair - 1 /\ o.naive \in BOOLEAN
  BY DEF OrdersInv, OrdersOK, Shaped
<1>6. {o, n} \subseteq Of(active, o.pair, o.naive)
  BY <1>4 DEF Of
<1>7. n = o
  BY <1>5, <1>6 DEF PairsOnce
<1> QED BY <1>4, <1>7 DEF IsFilled

\* "Reaching the front and the trade that fills us are never the same message":
\* whatever the feed, while totals fit 32 bits, the queue-tracked model fills an
\* order only by an execution that found nothing ahead of it.
THEOREM FillsFromTheFrontHolds == BacktestSpec => FillsFromTheFront
<1> DEFINE FromTheFront ==
             TotalsFit => \A o \in active : ~o.naive /\ NewFill(o) =>
               /\ QtyAhead(queueBook, o.level, o.tracker.seq) = 0
               /\ message'.type = "Execute"
<1>1. OrdersInv /\ BooksInv /\ [BacktestNext]_backtestVars => [FromTheFront]_backtestVars
  <2> SUFFICES ASSUME OrdersInv, BooksInv, BacktestNext, TotalsFit,
                      NEW o \in active, ~o.naive, NewFill(o)
               PROVE  /\ QtyAhead(queueBook, o.level, o.tracker.seq) = 0
                      /\ message'.type = "Execute"
    OBVIOUS
  <2>1. CASE Replay
    <3> DEFINE reduction == QueueApply(queueBook, message').reduction
    <3>1. Concerns(o.tracker, reduction) /\ o.tracker.front /\ reduction.isExecute
      BY <2>1, NewFillFills DEF Fills
    <3>2. message'.type = "Execute"
      BY <2>1, <3>1, ReplayKeepsBooks DEF Concerns, Moves
    <3>3. PICK seq : o.tracker = NewTracker(o.level, seq, QtyAhead(queueBook, o.level, seq))
      BY DEF BooksInv, AllTrack, Tracks
    <3> DEFINE ahead == QtyAhead(queueBook, o.level, seq)
               zero == ahead = 0
    <3>4. o.tracker = [level |-> o.level, seq |-> seq, ahead |-> ahead, front |-> zero]
      BY <3>3, Zenon DEF NewTracker
    <3> HIDE DEF ahead, zero
    <3>5. o.tracker.seq = seq /\ o.tracker.front = zero
      BY <3>4
    <3>6. zero
      BY <3>1, <3>5
    <3> QED BY <3>2, <3>5, <3>6 DEF ahead, zero
  <2>2. CASE Finish
    <3>1. /\ Result(o, "Filled", generated) \in results' \ results
          /\ results' = results \cup {Result(x, "Resting", generated) : x \in active}
      BY <2>2 DEF NewFill, Finish
    <3>2. \A x : Result(o, "Filled", generated) # Result(x, "Resting", generated)
      BY DEF Result
    <3> QED BY <3>1, <3>2
  <2> QED BY <2>1, <2>2 DEF BacktestNext
<1> QED BY <1>1, OrdersAlways, BooksAlways, PTL DEF BacktestSpec, FillsFromTheFront
=============================================================================
