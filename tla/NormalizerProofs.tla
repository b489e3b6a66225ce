-------------------------- MODULE NormalizerProofs --------------------------
(***************************************************************************)
(* Theorems about Normalizer for any number of instruments, shards and     *)
(* orders, any band width and queue size, and a caller that dispatches any *)
(* well-formed messages: types, the top of every book, and a drain that    *)
(* leaves nothing behind.  And about FeedReplay, whose messages are the    *)
(* simulator's: the drained books are those of the single-threaded replay, *)
(* every level is the sum of the orders resting there, and sharding        *)
(* implements a replay of every instrument alone.                          *)
(***************************************************************************)
EXTENDS FeedReplay, SimulatorProofs, SequenceTheorems

\* Every instrument has a shard.
LEMMA ShardOfInstrument ==
  ASSUME NEW i \in Instrument
  PROVE  ShardOf(i) \in Shard
BY ShardsAssumption, InstrumentsAssumption DEF Instrument, ShardOf, Shard

-----------------------------------------------------------------------------
(***************************************************************************)
(* Types and the top of every book.  A book keeps its type only as long as *)
(* nothing is quoted beyond its best indices, because reduce() moves them  *)
(* no further than the walk it makes from the old best; so the two are one *)
(* induction, for the shards and for the reference.                        *)
(***************************************************************************)
BooksAreGood ==
  /\ TopOfBook
  /\ \A i \in Instrument :
       NothingBetter(reference.books[i]) /\ BestIsOccupied(reference.books[i])

\* No worker runs before start().
Unstarted == mpc = "constructed" => \A s \in Shard : worker[s] = "unstarted"

TypedBooks == TypeOK /\ Unstarted /\ BooksAreGood

\* The constructor establishes it.
LEMMA TypedBooksInit == Init => TypedBooks
<1> SUFFICES ASSUME Init PROVE TypedBooks
  OBVIOUS
<1>1. \A i \in Instrument : GoodBook(NewBooks[i])
  BY BookInitType, ReferencePriceAssumption DEF NewBooks, GoodBook
<1>2. NewBooks \in Books
  BY <1>1 DEF NewBooks, Books, GoodBook
<1>3. NoOrders \in OrderMap
  BY DEF NoOrders, OrderMap
<1>4. TypeOK
  <2>1. /\ << >> \in Seq(Message) /\ Len(<< >>) <= Room
        /\ 0 \in 0 .. NumShards
    BY ShardsAssumption, RoomAssumption
  <2>2. \A s \in Shard : worker[s] = "applying" <=> item[s] # NoMessage
    BY DEF Init
  <2> QED BY <1>2, <1>3, <2>1, <2>2 DEF Init, TypeOK
<1>5. BooksAreGood
  BY <1>1 DEF Init, BooksAreGood, TopOfBook, GoodBook
<1> QED BY <1>4, <1>5 DEF Init, TypedBooks, Unstarted

\* What the reference becomes when a message is accepted.
LEMMA ReferenceKeeps ==
  ASSUME TypedBooks, NEW m \in Message
  PROVE  /\ ReferenceAfter(m).orders \in OrderMap
         /\ ReferenceAfter(m).books \in Books
         /\ \A i \in Instrument : /\ NothingBetter(ReferenceAfter(m).books[i])
                                  /\ BestIsOccupied(ReferenceAfter(m).books[i])
<1> DEFINE view == [orders |-> reference.orders,
                    book |-> reference.books[m.instrument]]
           after == Apply(view, m)
<1>1. m.instrument \in Instrument
  BY MessageKinds
<1>2. GoodView(view)
  BY <1>1 DEF TypedBooks, TypeOK, BooksAreGood, Books, GoodView, GoodBook
<1>3. GoodView(after)
  BY <1>2, ApplyKeeps
<1>4. /\ ReferenceAfter(m).orders = after.orders
      /\ ReferenceAfter(m).books
           = [reference.books EXCEPT ![m.instrument] = after.book]
  BY DEF ReferenceAfter
<1> HIDE DEF after
<1> QED
  BY <1>1, <1>3, <1>4
  DEF TypedBooks, TypeOK, BooksAreGood, Books, GoodView, GoodBook

\* What the books and the orders of a shard become when its worker applies a
\* message.
LEMMA ApplyInShard ==
  ASSUME TypedBooks, NEW s \in Shard, NEW m \in Message, NEW after,
         after = Apply([orders |-> orders[s], book |-> books[s][m.instrument]], m)
  PROVE  /\ [orders EXCEPT ![s] = after.orders] \in [Shard -> OrderMap]
         /\ [books EXCEPT ![s][m.instrument] = after.book] \in [Shard -> Books]
         /\ \A t \in Shard : \A i \in Instrument :
              LET book == [books EXCEPT ![s][m.instrument] = after.book][t][i]
              IN  NothingBetter(book) /\ BestIsOccupied(book)
<1> DEFINE i == m.instrument
           new == [books EXCEPT ![s][i] = after.book]
<1>1. i \in Instrument
  BY MessageKinds
<1>2. GoodView([orders |-> orders[s], book |-> books[s][i]])
  BY <1>1 DEF TypedBooks, TypeOK, BooksAreGood, TopOfBook, Books, GoodView, GoodBook
<1>3. GoodView(after)
  BY <1>2, ApplyKeeps
<1>4. orders \in [Shard -> OrderMap] /\ books \in [Shard -> Books]
  BY DEF TypedBooks, TypeOK
<1>5. new \in [Shard -> Books]
  BY <1>1, <1>3, <1>4 DEF Books, GoodView, GoodBook
<1>6. \A t \in Shard : \A j \in Instrument :
        new[t][j] = IF t = s /\ j = i THEN after.book ELSE books[t][j]
  BY <1>1, <1>4 DEF Books
<1>7. \A t \in Shard : \A j \in Instrument :
        NothingBetter(new[t][j]) /\ BestIsOccupied(new[t][j])
  <2> SUFFICES ASSUME NEW t \in Shard, NEW j \in Instrument
               PROVE  NothingBetter(new[t][j]) /\ BestIsOccupied(new[t][j])
    OBVIOUS
  <2>1. CASE t = s /\ j = i
    BY <2>1, <1>3, <1>6 DEF GoodView, GoodBook
  <2>2. CASE ~(t = s /\ j = i)
    <3>1. new[t][j] = books[t][j]
      BY <2>2, <1>6
    <3>2. NothingBetter(books[t][j]) /\ BestIsOccupied(books[t][j])
      BY DEF TypedBooks, BooksAreGood, TopOfBook
    <3> QED BY <3>1, <3>2
  <2> QED BY <2>1, <2>2
<1>8. [orders EXCEPT ![s] = after.orders] \in [Shard -> OrderMap]
  BY <1>3, <1>4 DEF GoodView
<1> QED BY <1>5, <1>7, <1>8

\* Only dispatch() and a worker's apply() touch books or orders.
LEMMA UntouchedBooks ==
  ASSUME BooksAreGood, UNCHANGED <<books, reference>>
  PROVE  BooksAreGood'
BY DEF BooksAreGood, TopOfBook

\* Every step keeps the types and the books good.
LEMMA TypedBooksStep ==
  ASSUME TypedBooks, [Next]_vars
  PROVE  TypedBooks'
<1> USE DEF TypedBooks, shardVars, workerVars, ownerVars, dispatchVars, vars
<1>1. CASE Start
  <2>1. \A s \in Shard : item[s] = NoMessage
    BY <1>1 DEF Start, Unstarted, TypeOK
  <2>2. TypeOK' /\ Unstarted'
    BY <1>1, <2>1 DEF Start, TypeOK, Unstarted
  <2> QED BY <1>1, <2>2, UntouchedBooks DEF Start
<1>2. CASE DispatchAccepted
  <2> DEFINE s == ShardOf(pending.instrument)
  <2>1. pending \in Message /\ s \in Shard
    BY <1>2, MessageKinds, ShardOfInstrument DEF DispatchAccepted, TypeOK
  <2>2. /\ queue' \in [Shard -> Seq(Message)] /\ accepted' \in [Shard -> Nat]
        /\ \A t \in Shard : Len(queue'[t]) <= Room
    <3>1. /\ queue[s] \in Seq(Message) /\ Len(queue[s]) < Room
          /\ queue' = [queue EXCEPT ![s] = Append(@, pending)]
      BY <1>2, <2>1 DEF DispatchAccepted, TypeOK
    <3>2. Append(queue[s], pending) \in Seq(Message) /\ Len(Append(queue[s], pending)) <= Room
      BY <2>1, <3>1, RoomAssumption
    <3>3. accepted' \in [Shard -> Nat]
      BY <1>2, <2>1 DEF DispatchAccepted, TypeOK
    <3> QED BY <3>1, <3>2, <3>3 DEF TypeOK
  <2>3. /\ reference'.orders \in OrderMap /\ reference'.books \in Books
        /\ \A i \in Instrument : /\ NothingBetter(reference'.books[i])
                                 /\ BestIsOccupied(reference'.books[i])
    BY <1>2, <2>1, ReferenceKeeps DEF DispatchAccepted
  <2>4. TypeOK'
    BY <1>2, <2>2, <2>3 DEF DispatchAccepted, TypeOK
  <2>5. BooksAreGood'
    BY <1>2, <2>3 DEF DispatchAccepted, BooksAreGood, TopOfBook
  <2> QED BY <1>2, <2>4, <2>5 DEF DispatchAccepted, Unstarted
<1>3. CASE DispatchRefused
  <2>1. pending \in Message /\ ShardOf(pending.instrument) \in Shard
    BY <1>3, MessageKinds, ShardOfInstrument DEF DispatchRefused, TypeOK
  <2>2. TypeOK'
    BY <1>3, <2>1 DEF DispatchRefused, TypeOK
  <2> QED BY <1>3, <2>2, UntouchedBooks DEF DispatchRefused, Unstarted
<1>4. CASE DrainBegin
  BY <1>4, ShardsAssumption, UntouchedBooks DEF DrainBegin, TypeOK, Unstarted
<1>5. CASE DrainStep
  <2>1. /\ drainAt' \in 0 .. NumShards /\ stop' \in BOOLEAN
        /\ mpc' \in {"constructed", "running", "draining", "joining", "stopped"}
    <3>1. drainAt \in 0 .. NumShards /\ NumShards \in Nat
      BY ShardsAssumption DEF TypeOK
    <3>2. CASE DrainShard
      BY <3>1, <3>2 DEF DrainShard, TypeOK
    <3>3. CASE RaiseStop
      BY <3>1, <3>3 DEF RaiseStop
    <3>4. CASE Join
      BY <3>1, <3>4 DEF Join, TypeOK
    <3> QED BY <1>5, <3>2, <3>3, <3>4 DEF DrainStep
  <2>2. UNCHANGED <<shardVars, workerVars, dispatchVars, pending>>
    BY <1>5 DEF DrainStep, DrainShard, RaiseStop, Join
  <2>3. TypeOK'
    BY <2>1, <2>2 DEF TypeOK
  <2>4. Unstarted'
    BY <1>5 DEF DrainStep, DrainShard, RaiseStop, Join, Unstarted
  <2> QED BY <2>2, <2>3, <2>4, UntouchedBooks
<1>6. ASSUME NEW s \in Shard, WorkerPop(s) PROVE TypedBooks'
  <2>1. /\ Head(queue[s]) \in Message /\ Tail(queue[s]) \in Seq(Message)
        /\ Len(Tail(queue[s])) <= Room
    BY <1>6, RoomAssumption DEF WorkerPop, TypeOK
  <2>2. TypeOK'
    BY <1>6, <2>1, NothingIsNotSomething DEF WorkerPop, TypeOK
  <2> QED BY <1>6, <2>2, UntouchedBooks DEF WorkerPop, TypeOK, Unstarted
<1>7. ASSUME NEW s \in Shard, WorkerApply(s) PROVE TypedBooks'
  <2> DEFINE m == item[s]
             after == Apply([orders |-> orders[s], book |-> books[s][m.instrument]], m)
  <2>1. m \in Message
    BY <1>7 DEF WorkerApply, TypeOK
  <2>2. /\ orders' \in [Shard -> OrderMap] /\ books' \in [Shard -> Books]
        /\ \A t \in Shard : \A i \in Instrument :
             NothingBetter(books'[t][i]) /\ BestIsOccupied(books'[t][i])
    BY <1>7, <2>1, ApplyInShard DEF WorkerApply
  <2>3. /\ processed' \in [Shard -> Nat]
        /\ item' \in [Shard -> Message \cup {NoMessage}]
        /\ worker' \in [Shard -> {"unstarted", "polling", "applying",
                                 "checking", "exited"}]
        /\ \A t \in Shard : worker'[t] = "applying" <=> item'[t] # NoMessage
    BY <1>7 DEF WorkerApply, TypeOK
  <2>4. TypeOK'
    BY <1>7, <2>2, <2>3 DEF WorkerApply, TypeOK
  <2>5. BooksAreGood'
    BY <1>7, <2>2 DEF WorkerApply, BooksAreGood, TopOfBook
  <2> QED BY <1>7, <2>4, <2>5 DEF WorkerApply, TypeOK, Unstarted
<1>8. ASSUME NEW s \in Shard, WorkerFindsEmpty(s) \/ WorkerChecksStop(s)
      PROVE TypedBooks'
  <2>1. TypeOK'
    BY <1>8 DEF WorkerFindsEmpty, WorkerChecksStop, TypeOK
  <2>2. Unstarted'
    BY <1>8 DEF WorkerFindsEmpty, WorkerChecksStop, TypeOK, Unstarted
  <2> QED
    BY <1>8, <2>1, <2>2, UntouchedBooks DEF WorkerFindsEmpty, WorkerChecksStop
<1>9. ASSUME NEW m \in Message, Fetch(m) PROVE TypedBooks'
  <2>1. TypeOK'
    BY <1>9 DEF Fetch, TypeOK
  <2> QED BY <1>9, <2>1, UntouchedBooks DEF Fetch, Unstarted
<1>10. CASE UNCHANGED vars
  BY <1>10, UntouchedBooks DEF TypeOK, Unstarted
<1> QED
  BY <1>1, <1>2, <1>3, <1>4, <1>5, <1>6, <1>7, <1>8, <1>9, <1>10
  DEF Next, NormalizerStep, WorkerStep

\* The invariant, from the first state on.
LEMMA TypedBooksHolds == Spec => []TypedBooks
<1>1. TypedBooks /\ [Next]_vars => TypedBooks'
  BY TypedBooksStep
<1> QED BY <1>1, TypedBooksInit, PTL DEF Spec

\* Every variable keeps its declared type, and every quantity stays positive
\* where the code relies on it.
THEOREM TypeCorrect == Spec => []TypeOK
<1>1. TypedBooks => TypeOK
  BY DEF TypedBooks
<1> QED BY <1>1, TypedBooksHolds, PTL

\* The incremental best indices are right in every book at all times: nothing
\* is quoted beyond them and the level at them is occupied, whatever messages
\* are dispatched and however the threads interleave.
THEOREM TopOfBookHolds == Spec => []TopOfBook
<1>1. TypedBooks => TopOfBook
  BY DEF TypedBooks, BooksAreGood
<1> QED BY <1>1, TypedBooksHolds, PTL

-----------------------------------------------------------------------------
(***************************************************************************)
(* drain_and_stop() leaves nothing behind.  Three facts carry it: a shard  *)
(* has applied what it accepted except what is queued or in the worker's   *)
(* hands; nothing is dispatched from the drain on, so an empty queue stays *)
(* empty; and the joins wait for workers that hold nothing.                *)
(***************************************************************************)
InHand(m) == IF m = NoMessage THEN 0 ELSE 1

Accounted == \A s \in Shard : accepted[s] = processed[s] + InHand(item[s]) + Len(queue[s])

DispatchOver == mpc \in {"draining", "joining", "stopped"} => pending = NoMessage

QueuesDrained ==
  /\ mpc = "draining" => \A s \in Shard : s < drainAt => queue[s] = << >>
  /\ mpc \in {"joining", "stopped"} => \A s \in Shard : queue[s] = << >>

WorkersJoined ==
  /\ mpc = "joining" => \A s \in Shard : s < drainAt => worker[s] = "exited"
  /\ mpc = "stopped" => \A s \in Shard : worker[s] = "exited"

Drained == Accounted /\ DispatchOver /\ QueuesDrained /\ WorkersJoined

\* Before the first message there is nothing to account for.
LEMMA DrainedInit == Init => Drained
BY DEF Init, Drained, Accounted, DispatchOver, QueuesDrained, WorkersJoined, InHand

\* Every step keeps the account of the messages.
LEMMA AccountedStep ==
  ASSUME TypeOK, Accounted, [Next]_vars
  PROVE  Accounted'
<1> USE DEF shardVars, workerVars, ownerVars, dispatchVars, vars
<1>1. CASE UNCHANGED <<queue, item, accepted, processed>>
  BY <1>1 DEF Accounted, InHand
<1>2. CASE DispatchAccepted
  <2> DEFINE s == ShardOf(pending.instrument)
  <2>1. pending \in Message /\ s \in Shard
    BY <1>2, MessageKinds, ShardOfInstrument DEF DispatchAccepted, TypeOK
  <2>2. \A t \in Shard : queue[t] \in Seq(Message) /\ accepted[t] \in Nat
                         /\ processed[t] \in Nat /\ InHand(item[t]) \in Nat
    BY DEF TypeOK, InHand
  <2>3. /\ queue' = [queue EXCEPT ![s] = Append(@, pending)]
        /\ accepted' = [accepted EXCEPT ![s] = @ + 1]
        /\ UNCHANGED <<item, processed>>
    BY <1>2 DEF DispatchAccepted
  <2> SUFFICES ASSUME NEW t \in Shard
               PROVE  accepted'[t] = processed'[t] + InHand(item'[t]) + Len(queue'[t])
    BY DEF Accounted
  <2>4. InHand(item'[t]) = InHand(item[t]) /\ processed'[t] = processed[t]
    BY <2>3
  <2>5. accepted[t] = processed[t] + InHand(item[t]) + Len(queue[t])
    BY DEF Accounted
  <2>6. CASE t = s
    <3>1. accepted'[t] = accepted[t] + 1
      BY <2>3, <2>6 DEF TypeOK
    <3>2. queue'[t] = Append(queue[t], pending)
      BY <2>3, <2>6 DEF TypeOK
    <3>3. Len(queue'[t]) = Len(queue[t]) + 1
      BY <2>1, <2>2, <3>2
    <3>4. Len(queue[t]) \in Nat /\ processed[t] \in Nat /\ InHand(item[t]) \in Nat
      BY <2>2
    <3> QED BY <2>4, <2>5, <3>1, <3>3, <3>4
  <2>7. CASE t # s
    BY <2>3, <2>4, <2>5, <2>7 DEF TypeOK
  <2> QED BY <2>6, <2>7
<1>3. ASSUME NEW s \in Shard, WorkerPop(s) PROVE Accounted'
  <2>1. /\ item[s] = NoMessage /\ Head(queue[s]) # NoMessage
        /\ Len(Tail(queue[s])) = Len(queue[s]) - 1
        /\ Len(queue[s]) \in Nat
    BY <1>3, NothingIsNotSomething DEF WorkerPop, TypeOK
  <2>2. \A t \in Shard : InHand(item'[t]) = IF t = s THEN 1 ELSE InHand(item[t])
    BY <1>3, <2>1 DEF WorkerPop, InHand, TypeOK
  <2>3. \A t \in Shard : queue'[t] = IF t = s THEN Tail(queue[s]) ELSE queue[t]
    BY <1>3 DEF WorkerPop, TypeOK
  <2>4. InHand(item[s]) = 0
    BY <2>1 DEF InHand
  <2>5. UNCHANGED <<accepted, processed>>
    BY <1>3 DEF WorkerPop
  <2> SUFFICES ASSUME NEW t \in Shard
               PROVE  accepted'[t] = processed'[t] + InHand(item'[t]) + Len(queue'[t])
    BY DEF Accounted
  <2>6. /\ accepted[t] = processed[t] + InHand(item[t]) + Len(queue[t])
        /\ processed[t] \in Nat
    BY DEF Accounted, TypeOK
  <2>7. CASE t = s
    <3>1. Len(queue'[t]) = Len(queue[t]) - 1 /\ Len(queue[t]) \in Nat
      BY <2>1, <2>3, <2>7
    <3>2. InHand(item'[t]) = 1 /\ InHand(item[t]) = 0
      BY <2>2, <2>4, <2>7
    <3> QED BY <2>5, <2>6, <3>1, <3>2
  <2>8. CASE t # s
    BY <2>2, <2>3, <2>5, <2>6, <2>8
  <2> QED BY <2>7, <2>8
<1>4. ASSUME NEW s \in Shard, WorkerApply(s) PROVE Accounted'
  <2>1. InHand(item[s]) = 1
    BY <1>4 DEF WorkerApply, TypeOK, InHand
  <2>2. \A t \in Shard : InHand(item'[t]) = IF t = s THEN 0 ELSE InHand(item[t])
    BY <1>4 DEF WorkerApply, InHand, TypeOK
  <2>3. \A t \in Shard : processed'[t] = IF t = s THEN processed[s] + 1
                                         ELSE processed[t]
    BY <1>4 DEF WorkerApply, TypeOK
  <2>4. UNCHANGED <<accepted, queue>>
    BY <1>4 DEF WorkerApply
  <2> SUFFICES ASSUME NEW t \in Shard
               PROVE  accepted'[t] = processed'[t] + InHand(item'[t]) + Len(queue'[t])
    BY DEF Accounted
  <2>5. /\ accepted[t] = processed[t] + InHand(item[t]) + Len(queue[t])
        /\ processed[t] \in Nat /\ Len(queue[t]) \in Nat
    BY DEF Accounted, TypeOK
  <2>6. CASE t = s
    BY <2>1, <2>2, <2>3, <2>4, <2>5, <2>6
  <2>7. CASE t # s
    BY <2>2, <2>3, <2>4, <2>5, <2>7
  <2> QED BY <2>6, <2>7
<1>5. CASE Start
  BY <1>5, <1>1 DEF Start
<1>6. CASE DispatchRefused
  BY <1>6, <1>1 DEF DispatchRefused
<1>7. CASE DrainBegin \/ DrainStep
  BY <1>7, <1>1 DEF DrainBegin, DrainStep, DrainShard, RaiseStop, Join
<1>8. ASSUME NEW s \in Shard, WorkerFindsEmpty(s) \/ WorkerChecksStop(s)
      PROVE Accounted'
  BY <1>8, <1>1 DEF WorkerFindsEmpty, WorkerChecksStop
<1>9. ASSUME NEW m \in Message, Fetch(m) PROVE Accounted'
  BY <1>9, <1>1 DEF Fetch
<1>10. CASE UNCHANGED vars
  BY <1>10, <1>1
<1> QED
  BY <1>2, <1>3, <1>4, <1>5, <1>6, <1>7, <1>8, <1>9, <1>10
  DEF Next, NormalizerStep, WorkerStep

\* Every step keeps the drained queues empty and the joined workers gone.
LEMMA DrainedStep ==
  ASSUME TypeOK, Drained, [Next]_vars
  PROVE  Drained'
<1> DEFINE Rest == DispatchOver /\ QueuesDrained /\ WorkersJoined
<1> USE DEF shardVars, workerVars, ownerVars, dispatchVars, vars
<1> SUFFICES Rest'
  BY AccountedStep DEF Drained
<1>a. NumShards \in Nat \ {0} /\ drainAt \in 0 .. NumShards
  BY ShardsAssumption DEF TypeOK
<1>1. CASE Start
  BY <1>1 DEF Start, Drained, DispatchOver, QueuesDrained, WorkersJoined
<1>2. CASE DispatchAccepted \/ DispatchRefused
  <2>1. mpc \notin {"draining", "joining", "stopped"} /\ mpc' = mpc
    BY <1>2 DEF DispatchAccepted, DispatchRefused, Drained, DispatchOver
  <2> QED BY <2>1 DEF DispatchOver, QueuesDrained, WorkersJoined
<1>3. CASE DrainBegin
  BY <1>3, <1>a
  DEF DrainBegin, Drained, DispatchOver, QueuesDrained, WorkersJoined, Shard
<1>4. CASE DrainShard
  <2>1. \A s \in Shard : s < drainAt + 1 => s < drainAt \/ s = drainAt
    BY <1>a DEF Shard
  <2> QED
    BY <1>4, <2>1
    DEF DrainShard, Drained, DispatchOver, QueuesDrained, WorkersJoined
<1>5. CASE RaiseStop
  <2>1. \A s \in Shard : s < drainAt /\ ~(s < 0)
    BY <1>5, <1>a DEF RaiseStop, Shard
  <2> QED
    BY <1>5, <2>1
    DEF RaiseStop, Drained, DispatchOver, QueuesDrained, WorkersJoined
<1>6. CASE Join
  <2>1. \A s \in Shard : s < drainAt' => s < drainAt \/ s = drainAt
    BY <1>6, <1>a DEF Join, Shard
  <2>2. drainAt' = NumShards => \A s \in Shard : s < drainAt'
    BY <1>6, <1>a DEF Shard
  <2>3. \A s \in Shard : s < drainAt' => worker'[s] = "exited"
    BY <1>6, <2>1 DEF Join, Drained, WorkersJoined
  <2>4. mpc' \in {"joining", "stopped"} /\ (mpc' = "stopped" => drainAt' = NumShards)
    BY <1>6 DEF Join
  <2>5. WorkersJoined'
    BY <2>2, <2>3, <2>4 DEF WorkersJoined
  <2>6. DispatchOver' /\ QueuesDrained'
    BY <1>6, <2>4 DEF Join, Drained, DispatchOver, QueuesDrained
  <2> QED BY <2>5, <2>6
<1>7. ASSUME NEW s \in Shard, WorkerPop(s) PROVE Rest'
  BY <1>7
  DEF WorkerPop, TypeOK, Drained, DispatchOver, QueuesDrained, WorkersJoined
<1>8. ASSUME NEW s \in Shard, WorkerApply(s) PROVE Rest'
  BY <1>8
  DEF WorkerApply, TypeOK, Drained, DispatchOver, QueuesDrained, WorkersJoined
<1>9. ASSUME NEW s \in Shard, WorkerFindsEmpty(s) \/ WorkerChecksStop(s)
      PROVE Rest'
  BY <1>9
  DEF WorkerFindsEmpty, WorkerChecksStop, TypeOK, Drained, DispatchOver,
      QueuesDrained, WorkersJoined
<1>10. ASSUME NEW m \in Message, Fetch(m) PROVE Rest'
  BY <1>10 DEF Fetch, DispatchOver, QueuesDrained, WorkersJoined
<1>11. CASE UNCHANGED vars
  BY <1>11 DEF Drained, DispatchOver, QueuesDrained, WorkersJoined
<1> QED
  BY <1>1, <1>2, <1>3, <1>4, <1>5, <1>6, <1>7, <1>8, <1>9, <1>10, <1>11
  DEF Next, NormalizerStep, WorkerStep, DrainStep

\* When drain_and_stop() has returned, every message a queue accepted has been
\* applied, however many shards there are and however the workers were
\* scheduled between finding their queue empty and looking at the flag.
THEOREM DrainIsComplete == Spec => []DrainComplete
<1>1. TypedBooks /\ Drained /\ [Next]_vars => Drained'
  BY DrainedStep DEF TypedBooks
<1>2. TypedBooks /\ Drained => DrainComplete
  <2> SUFFICES ASSUME TypedBooks, Drained, mpc = "stopped", NEW s \in Shard
               PROVE  /\ queue[s] = << >> /\ item[s] = NoMessage
                      /\ processed[s] = accepted[s]
    BY DEF DrainComplete
  <2>1. queue[s] = << >> /\ worker[s] = "exited"
    BY DEF Drained, QueuesDrained, WorkersJoined
  <2>2. item[s] = NoMessage
    BY <2>1 DEF TypedBooks, TypeOK
  <2>3. processed[s] \in Nat /\ Len(<< >>) = 0
    BY DEF TypedBooks, TypeOK
  <2>4. accepted[s] = processed[s] + 0 + 0
    BY <2>1, <2>2, <2>3 DEF Drained, Accounted, InHand
  <2> QED BY <2>1, <2>2, <2>3, <2>4
<1> QED BY <1>1, <1>2, DrainedInit, TypedBooksHolds, PTL DEF Spec

-----------------------------------------------------------------------------
(***************************************************************************)
(* Where the shards are on the way to the reference.  The reference takes  *)
(* a message when it is accepted, a shard when its worker applies it; what *)
(* the worker holds and what is queued is the difference.  A shard that    *)
(* applied it all would have the part of the reference that belongs to its *)
(* instruments.  That needs orders of different shards to have different   *)
(* ids: every id has an owner, the instrument whose messages name it.      *)
(***************************************************************************)
InstrumentsOf(s) == {i \in Instrument : ShardOf(i) = s}

\* Applying a message to orders and the books of all instruments.
ApplyTo(held, m) ==
  LET after == Apply([orders |-> held.orders, book |-> held.books[m.instrument]], m)
  IN  [orders |-> after.orders, books |-> [held.books EXCEPT ![m.instrument] = after.book]]

Held(s) == [orders |-> orders[s], books |-> books[s]]

\* What the shard has once its worker has applied the message in its hands.
Current(s) == IF item[s] = NoMessage THEN Held(s) ELSE ApplyTo(Held(s), item[s])

\* The states a queue leads through.
IsReplay(trace, from, q) ==
  /\ trace[0] = from
  /\ \A k \in 1 .. Len(q) : trace[k] = ApplyTo(trace[k - 1], q[k])

\* The part of all orders and books that a shard should end with.
Agrees(held, s, whole) ==
  /\ held.orders = Only(whole.orders, InstrumentsOf(s))
  /\ DOMAIN held.books = Instrument
  /\ \A i \in InstrumentsOf(s) : held.books[i] = whole.books[i]

LeadsToReference(s) ==
  \E trace : /\ IsReplay(trace, Current(s), queue[s])
             /\ Agrees(trace[Len(queue[s])], s, reference)

\* The ids below next have owners, and a message or an order with such an id is
\* one of its owner.
Owns(owner, next, m) ==
  m # NoMessage =>
    /\ m.id < next /\ owner[m.id] = m.instrument
    /\ m.type = "Replace" => m.newId < next /\ owner[m.newId] = m.instrument

OwnsAll(owner, next, map) ==
  \A id \in OrderId : map[id] # NoOrder => id < next /\ map[id].instrument = owner[id]

Routed(owner, next) ==
  /\ OwnsAll(owner, next, reference.orders)
  /\ Owns(owner, next, pending)
  /\ \A s \in Shard :
       /\ OwnsAll(owner, next, orders[s])
       /\ Owns(owner, next, item[s])
       /\ item[s] # NoMessage => ShardOf(item[s].instrument) = s
       /\ \A k \in 1 .. Len(queue[s]) :
            Owns(owner, next, queue[s][k]) /\ ShardOf(queue[s][k].instrument) = s
       /\ LeadsToReference(s)

\* A message of an owner finds orders of its instrument only.
LEMMA OwnerNamesOwn ==
  ASSUME NEW owner, NEW next, NEW map \in OrderMap, OwnsAll(owner, next, map),
         NEW m \in Message, Owns(owner, next, m)
  PROVE  NamesOwn(map, m)
<1>1. m.id \in OrderId /\ (m.type = "Replace" => m.newId \in OrderId) /\ m # NoMessage
  BY MessageKinds, NothingIsNotSomething DEF ReplaceMsg
<1> QED BY <1>1 DEF NamesOwn, Owns, OwnsAll

\* And leaves orders of their owners.
LEMMA OwnerKept ==
  ASSUME NEW owner, NEW next, NEW map \in OrderMap, OwnsAll(owner, next, map), NEW book,
         NEW m \in Message, Owns(owner, next, m)
  PROVE  OwnsAll(owner, next, Apply([orders |-> map, book |-> book], m).orders)
<1> DEFINE after == Apply([orders |-> map, book |-> book], m).orders
<1> SUFFICES ASSUME NEW id \in OrderId, after[id] # NoOrder
             PROVE  id < next /\ after[id].instrument = owner[id]
  BY DEF OwnsAll
<1>1. \/ map[id] # NoOrder /\ after[id].instrument = map[id].instrument
      \/ id = NewId(m) /\ after[id].instrument = m.instrument
  BY ApplyWrites
<1>2. m # NoMessage
  BY NothingIsNotSomething
<1>3. id = NewId(m) => id < next /\ m.instrument = owner[id]
  BY <1>2 DEF NewId, Owns, OrderId
<1> HIDE DEF after
<1> QED BY <1>1, <1>3 DEF OwnsAll

\* One more message in a queue is one more state.
LEMMA ReplayExtended ==
  ASSUME NEW q \in Seq(Message), NEW m \in Message, NEW from, NEW trace,
         IsReplay(trace, from, q)
  PROVE  \E longer : /\ IsReplay(longer, from, Append(q, m))
                     /\ longer[Len(Append(q, m))] = ApplyTo(trace[Len(q)], m)
<1> DEFINE n == Len(q)
           longer == [k \in 0 .. n + 1 |-> IF k = n + 1 THEN ApplyTo(trace[n], m) ELSE trace[k]]
<1>1. n \in Nat /\ Len(Append(q, m)) = n + 1
  OBVIOUS
<1>2. \A k \in 1 .. n + 1 : Append(q, m)[k] = IF k = n + 1 THEN m ELSE q[k]
  OBVIOUS
<1>3. longer[0] = from /\ longer[n + 1] = ApplyTo(trace[n], m)
  BY <1>1 DEF IsReplay
<1>4. ASSUME NEW k \in 1 .. n + 1
      PROVE  longer[k] = ApplyTo(longer[k - 1], Append(q, m)[k])
  <2>1. k - 1 \in 0 .. n + 1 /\ k - 1 # n + 1 /\ longer[k - 1] = trace[k - 1]
    BY <1>1
  <2>2. CASE k = n + 1
    <3>1. k - 1 = n
      BY <1>1, <2>2
    <3> HIDE DEF longer, n
    <3> QED BY <1>2, <1>3, <2>1, <2>2, <3>1
  <2>3. CASE k # n + 1
    <3>1. k \in 1 .. n /\ longer[k] = trace[k]
      BY <1>1, <2>3
    <3> HIDE DEF longer, n
    <3>2. trace[k] = ApplyTo(trace[k - 1], q[k])
      BY <3>1 DEF IsReplay, n
    <3> QED BY <1>2, <2>1, <2>3, <3>1, <3>2
  <2> QED BY <2>2, <2>3
<1> HIDE DEF longer
<1>5. IsReplay(longer, from, Append(q, m))
  <2> HIDE DEF n
  <2> QED BY <1>1, <1>3, <1>4 DEF IsReplay
<1> QED BY <1>1, <1>3, <1>5

\* One message fewer is the same states without the first.
LEMMA ReplayShortened ==
  ASSUME NEW q \in Seq(Message), q # << >>, NEW from, NEW trace, IsReplay(trace, from, q)
  PROVE  \E shorter : /\ IsReplay(shorter, ApplyTo(from, Head(q)), Tail(q))
                      /\ shorter[Len(Tail(q))] = trace[Len(q)]
<1> DEFINE n == Len(q)
           shorter == [k \in 0 .. n - 1 |-> trace[k + 1]]
<1>1. n \in Nat /\ n >= 1 /\ Len(Tail(q)) = n - 1 /\ Head(q) = q[1]
  OBVIOUS
<1>2. \A k \in 1 .. n - 1 : Tail(q)[k] = q[k + 1]
  OBVIOUS
<1>3. \A k \in 0 .. n - 1 : shorter[k] = trace[k + 1]
  OBVIOUS
<1>4. \A k \in 1 .. n : trace[k] = ApplyTo(trace[k - 1], q[k])
  BY DEF IsReplay
<1> HIDE DEF n, shorter
<1>5. shorter[0] = ApplyTo(from, Head(q))
  <2>1. trace[1] = ApplyTo(trace[1 - 1], q[1]) /\ 1 - 1 = 0
    BY <1>1, <1>4
  <2>2. shorter[0] = trace[0 + 1] /\ 0 + 1 = 1
    BY <1>1, <1>3
  <2> QED BY <1>1, <2>1, <2>2 DEF IsReplay
<1>6. ASSUME NEW k \in 1 .. n - 1
      PROVE  shorter[k] = ApplyTo(shorter[k - 1], Tail(q)[k])
  <2>1. /\ shorter[k] = trace[k + 1] /\ shorter[k - 1] = trace[(k - 1) + 1]
        /\ (k - 1) + 1 = k /\ (k + 1) - 1 = k /\ k + 1 \in 1 .. n
    BY <1>1, <1>3
  <2>2. trace[k + 1] = ApplyTo(trace[(k + 1) - 1], q[k + 1])
    BY <1>4, <2>1
  <2> QED BY <1>2, <2>1, <2>2
<1>7. IsReplay(shorter, ApplyTo(from, Head(q)), Tail(q))
  BY <1>1, <1>5, <1>6 DEF IsReplay
<1>8. shorter[n - 1] = trace[(n - 1) + 1] /\ (n - 1) + 1 = n
  BY <1>1, <1>3
<1> QED BY <1>1, <1>7, <1>8 DEF n

\* When a message is accepted, its shard has it to apply too, and the others have
\* nothing new to end with.
LEMMA AgreesAfterAccept ==
  ASSUME TypeOK, NEW m \in Message, NamesOwn(reference.orders, m),
         NEW t \in Shard, NEW held, Agrees(held, t, reference)
  PROVE  /\ t = ShardOf(m.instrument) => Agrees(ApplyTo(held, m), t, ReferenceAfter(m))
         /\ t # ShardOf(m.instrument) => Agrees(held, t, ReferenceAfter(m))
<1> DEFINE i == m.instrument
           book == reference.books[i]
           after == Apply([orders |-> reference.orders, book |-> book], m)
           mine == InstrumentsOf(t)
           whole == ReferenceAfter(m)
<1>1. /\ i \in Instrument /\ (i \in mine <=> t = ShardOf(i)) /\ mine \subseteq Instrument
      /\ reference.orders \in OrderMap /\ DOMAIN reference.books = Instrument
  BY MessageKinds DEF InstrumentsOf, TypeOK, Books
<1>2. /\ whole.orders = after.orders
      /\ whole.books = [reference.books EXCEPT ![i] = after.book]
  BY DEF ReferenceAfter
<1> HIDE DEF whole
<1>3. /\ held.orders = Only(reference.orders, mine)
      /\ DOMAIN held.books = Instrument
      /\ \A j \in mine : held.books[j] = reference.books[j]
  BY DEF Agrees
<1>4. CASE t = ShardOf(i)
  <2>1. held.books[i] = book
    BY <1>1, <1>3, <1>4
  <2>2. Apply([orders |-> held.orders, book |-> held.books[i]], m)
          = [orders |-> Only(after.orders, mine), book |-> after.book]
    <3> HIDE DEF mine
    <3> QED BY <1>1, <1>3, <1>4, <2>1, ApplyOnlyOwn
  <2>3. ApplyTo(held, m) = [orders |-> Only(after.orders, mine),
                            books |-> [held.books EXCEPT ![i] = after.book]]
    <3> HIDE DEF after, mine
    <3> QED BY <2>2 DEF ApplyTo
  <2> HIDE DEF after, mine
  <2>4. /\ ApplyTo(held, m).orders = Only(whole.orders, mine)
        /\ DOMAIN ApplyTo(held, m).books = Instrument
        /\ \A j \in mine : ApplyTo(held, m).books[j] = whole.books[j]
    BY <1>1, <1>2, <1>3, <2>3
  <2> QED BY <1>4, <2>4 DEF Agrees, mine, whole
<1>5. CASE t # ShardOf(i)
  <2>1. Only(after.orders, mine) = Only(reference.orders, mine)
    <3> HIDE DEF mine
    <3> QED BY <1>1, <1>5, ApplyOnlyOthers
  <2> HIDE DEF after, mine
  <2>2. /\ held.orders = Only(whole.orders, mine)
        /\ \A j \in mine : held.books[j] = whole.books[j]
    BY <1>1, <1>2, <1>3, <1>5, <2>1
  <2> QED BY <1>3, <1>5, <2>2 DEF Agrees, mine, whole
<1> QED BY <1>4, <1>5

\* In the beginning nothing is anybody's, and the shards have all of it.
LEMMA RoutedInit ==
  ASSUME Init, NEW owner, NEW next
  PROVE  Routed(owner, next)
<1>1. /\ reference = [orders |-> NoOrders, books |-> NewBooks] /\ pending = NoMessage
      /\ \A s \in Shard : /\ orders[s] = NoOrders /\ books[s] = NewBooks
                          /\ item[s] = NoMessage /\ queue[s] = << >>
  BY DEF Init
<1>2. OwnsAll(owner, next, NoOrders) /\ Owns(owner, next, NoMessage)
  BY DEF OwnsAll, NoOrders, Owns
<1>3. ASSUME NEW s \in Shard PROVE LeadsToReference(s)
  <2> DEFINE trace == [k \in {0} |-> Held(s)]
  <2>1. IsReplay(trace, Current(s), queue[s]) /\ Len(queue[s]) = 0
    BY <1>1 DEF IsReplay, Current
  <2>2. Agrees(trace[0], s, reference)
    <3>1. trace[0].orders = NoOrders /\ trace[0].books = NewBooks
      BY <1>1 DEF Held
    <3>2. Only(NoOrders, InstrumentsOf(s)) = NoOrders
      BY DEF Only, NoOrders
    <3> HIDE DEF trace
    <3> QED BY <1>1, <3>1, <3>2 DEF Agrees, NewBooks
  <2> HIDE DEF trace
  <2> QED BY <2>1, <2>2 DEF LeadsToReference
<1> QED BY <1>1, <1>2, <1>3 DEF Routed

\* Whatever leaves shards, queues and the reference alone leaves this alone.
LEMMA LeadsUnchanged ==
  ASSUME NEW s \in Shard, LeadsToReference(s),
         UNCHANGED <<orders, books, item, queue, reference>>
  PROVE  LeadsToReference(s)'
BY DEF LeadsToReference, IsReplay, Agrees, Current, Held

\* A new id, given to the instrument that the caller's next message is of.
LEMMA RoutedFetch ==
  ASSUME NEW owner, NEW next, Routed(owner, next), NEW newer, NEW after,
         \A id \in OrderId : id < next => id < after /\ newer[id] = owner[id],
         TypedBooks, Owns(newer, after, pending'), 
         UNCHANGED <<orders, books, item, queue, reference>>
  PROVE  Routed(newer, after)'
<1>1. ASSUME NEW map, OwnsAll(owner, next, map) PROVE OwnsAll(newer, after, map)
  BY <1>1 DEF OwnsAll
<1>2. ASSUME NEW m \in Message \cup {NoMessage}, Owns(owner, next, m)
      PROVE  Owns(newer, after, m)
  <2>1. m # NoMessage => m.id \in OrderId /\ (m.type = "Replace" => m.newId \in OrderId)
    BY <1>2, MessageKinds DEF ReplaceMsg
  <2> QED BY <1>2, <2>1 DEF Owns
<1>3. OwnsAll(newer, after, reference')
      <=> OwnsAll(newer, after, reference)
  OBVIOUS
<1>4. ASSUME NEW s \in Shard
      PROVE  /\ OwnsAll(newer, after, orders'[s])
             /\ Owns(newer, after, item'[s])
             /\ item'[s] # NoMessage => ShardOf(item'[s].instrument) = s
             /\ \A k \in 1 .. Len(queue'[s]) :
                  Owns(newer, after, queue'[s][k]) /\ ShardOf(queue'[s][k].instrument) = s
             /\ LeadsToReference(s)'
  <2>1. item[s] \in Message \cup {NoMessage} /\ queue[s] \in Seq(Message)
    BY DEF TypedBooks, TypeOK
  <2>2. \A k \in 1 .. Len(queue[s]) : queue[s][k] \in Message
    BY <2>1
  <2> QED BY <1>1, <1>2, <2>1, <2>2, LeadsUnchanged DEF Routed
<1>5. OwnsAll(newer, after, reference'.orders)
  BY <1>1 DEF Routed
<1> QED BY <1>4, <1>5 DEF Routed, Owns, OwnsAll

\* A message into the queue of its shard.
LEMMA RoutedDispatch ==
  ASSUME TypedBooks, NEW owner, NEW next, Routed(owner, next), DispatchAccepted
  PROVE  Routed(owner, next)'
<1> DEFINE m == pending
           s == ShardOf(m.instrument)
<1>1. /\ m \in Message /\ m.instrument \in Instrument /\ s \in Shard
      /\ m # NoMessage /\ Owns(owner, next, m)
      /\ reference.orders \in OrderMap /\ OwnsAll(owner, next, reference.orders)
      /\ TypeOK
  BY MessageKinds, ShardOfInstrument DEF DispatchAccepted, TypedBooks, TypeOK, Routed
<1>2. NamesOwn(reference.orders, m)
  BY <1>1, OwnerNamesOwn
<1>3. /\ queue' = [queue EXCEPT ![s] = Append(@, m)]
      /\ reference' = ReferenceAfter(m) /\ pending' = NoMessage
      /\ UNCHANGED <<orders, books, item>>
  BY DEF DispatchAccepted, shardVars, workerVars
<1>4. OwnsAll(owner, next, reference'.orders)
  <2>1. reference'.orders =
          Apply([orders |-> reference.orders, book |-> reference.books[m.instrument]], m).orders
    BY <1>3 DEF ReferenceAfter
  <2> QED BY <1>1, <2>1, OwnerKept
<1>5. ASSUME NEW t \in Shard
      PROVE  /\ \A k \in 1 .. Len(queue'[t]) :
                  Owns(owner, next, queue'[t][k]) /\ ShardOf(queue'[t][k].instrument) = t
             /\ LeadsToReference(t)'
  <2>1. /\ queue[t] \in Seq(Message) /\ queue \in [Shard -> Seq(Message)]
        /\ \A k \in 1 .. Len(queue[t]) :
             Owns(owner, next, queue[t][k]) /\ ShardOf(queue[t][k].instrument) = t
    BY DEF TypedBooks, TypeOK, Routed
  <2>2. PICK trace : /\ IsReplay(trace, Current(t), queue[t])
                     /\ Agrees(trace[Len(queue[t])], t, reference)
    BY DEF Routed, LeadsToReference
  <2>3. Current(t)' = Current(t)
    BY <1>3 DEF Current, Held
  <2>4. CASE t = s
    <3>1. queue'[t] = Append(queue[t], m)
      BY <1>3, <2>1, <2>4
    <3>2. /\ Len(queue'[t]) = Len(queue[t]) + 1 /\ Len(queue[t]) \in Nat
          /\ \A k \in 1 .. Len(queue[t]) + 1 :
               queue'[t][k] = IF k = Len(queue[t]) + 1 THEN m ELSE queue[t][k]
      BY <1>1, <2>1, <3>1
    <3>3. \A k \in 1 .. Len(queue'[t]) :
                  Owns(owner, next, queue'[t][k]) /\ ShardOf(queue'[t][k].instrument) = t
      BY <1>1, <2>1, <2>4, <3>2
    <3>4. PICK longer :
            /\ IsReplay(longer, Current(t), Append(queue[t], m))
            /\ longer[Len(Append(queue[t], m))] = ApplyTo(trace[Len(queue[t])], m)
      BY <1>1, <2>1, <2>2, ReplayExtended
    <3>5. Agrees(ApplyTo(trace[Len(queue[t])], m), t, reference')
      BY <1>1, <1>2, <1>3, <2>2, <2>4, AgreesAfterAccept
    <3>6. /\ IsReplay(longer, Current(t)', queue'[t])
          /\ Agrees(longer[Len(queue'[t])], t, reference')
      BY <2>3, <3>1, <3>4, <3>5
    <3> QED BY <3>3, <3>6 DEF LeadsToReference
  <2>5. CASE t # s
    <3>1. queue'[t] = queue[t]
      BY <1>3, <2>1, <2>5
    <3>2. Agrees(trace[Len(queue[t])], t, reference')
      BY <1>1, <1>2, <1>3, <2>2, <2>5, AgreesAfterAccept
    <3> QED BY <2>1, <2>2, <2>3, <3>1, <3>2 DEF LeadsToReference
  <2> QED BY <2>4, <2>5
<1> QED BY <1>3, <1>4, <1>5 DEF Routed, OwnsAll, Owns

\* From the queue into the worker's hands.
LEMMA RoutedPop ==
  ASSUME TypedBooks, NEW owner, NEW next, Routed(owner, next), NEW s \in Shard, WorkerPop(s)
  PROVE  Routed(owner, next)'
<1> DEFINE m == Head(queue[s])
<1>1. /\ queue[s] \in Seq(Message) /\ queue[s] # << >> /\ queue \in [Shard -> Seq(Message)]
      /\ item \in [Shard -> Message \cup {NoMessage}] /\ item[s] = NoMessage
  BY DEF TypedBooks, TypeOK, WorkerPop
<1>2. /\ queue' = [queue EXCEPT ![s] = Tail(queue[s])]
      /\ item' = [item EXCEPT ![s] = m]
      /\ UNCHANGED <<orders, books, reference, pending>>
  BY DEF WorkerPop, shardVars
<1>3. /\ m \in Message /\ m # NoMessage /\ Len(queue[s]) \in Nat /\ Len(queue[s]) >= 1
      /\ m = queue[s][1] /\ Len(Tail(queue[s])) = Len(queue[s]) - 1
      /\ \A k \in 1 .. Len(queue[s]) - 1 : Tail(queue[s])[k] = queue[s][k + 1]
  BY <1>1, NothingIsNotSomething
<1>4. ASSUME NEW t \in Shard
      PROVE  /\ Owns(owner, next, item'[t])
             /\ item'[t] # NoMessage => ShardOf(item'[t].instrument) = t
             /\ \A k \in 1 .. Len(queue'[t]) :
                  Owns(owner, next, queue'[t][k]) /\ ShardOf(queue'[t][k].instrument) = t
             /\ LeadsToReference(t)'
  <2>1. /\ Owns(owner, next, item[t])
        /\ item[t] # NoMessage => ShardOf(item[t].instrument) = t
        /\ \A k \in 1 .. Len(queue[t]) :
             Owns(owner, next, queue[t][k]) /\ ShardOf(queue[t][k].instrument) = t
    BY DEF Routed
  <2>2. PICK trace : /\ IsReplay(trace, Current(t), queue[t])
                     /\ Agrees(trace[Len(queue[t])], t, reference)
    BY DEF Routed, LeadsToReference
  <2>3. CASE t = s
    <3>1. queue'[t] = Tail(queue[t]) /\ item'[t] = m
      BY <1>1, <1>2, <2>3
    <3>2. Owns(owner, next, m) /\ ShardOf(m.instrument) = t
      BY <1>3, <2>1, <2>3
    <3>3. \A k \in 1 .. Len(queue'[t]) :
            Owns(owner, next, queue'[t][k]) /\ ShardOf(queue'[t][k].instrument) = t
      <4> SUFFICES ASSUME NEW k \in 1 .. Len(queue'[t])
                   PROVE  /\ Owns(owner, next, queue'[t][k])
                          /\ ShardOf(queue'[t][k].instrument) = t
        OBVIOUS
      <4>1. queue'[t][k] = queue[t][k + 1] /\ k + 1 \in 1 .. Len(queue[t])
        BY <1>3, <2>3, <3>1
      <4> QED BY <2>1, <4>1
    <3>4. PICK shorter :
            /\ IsReplay(shorter, ApplyTo(Current(t), Head(queue[t])), Tail(queue[t]))
            /\ shorter[Len(Tail(queue[t]))] = trace[Len(queue[t])]
      BY <1>1, <2>2, <2>3, ReplayShortened
    <3>5. Current(t)' = ApplyTo(Current(t), Head(queue[t]))
      BY <1>1, <1>2, <1>3, <2>3, <3>1 DEF Current, Held, ApplyTo
    <3>6. LeadsToReference(t)'
      BY <1>2, <2>2, <3>1, <3>4, <3>5 DEF LeadsToReference
    <3> QED BY <3>1, <3>2, <3>3, <3>6
  <2>4. CASE t # s
    <3>1. queue'[t] = queue[t] /\ item'[t] = item[t] /\ Current(t)' = Current(t)
      BY <1>1, <1>2, <2>4 DEF Current, Held
    <3> QED BY <1>2, <2>1, <2>2, <3>1 DEF LeadsToReference
  <2> QED BY <2>3, <2>4
<1> QED BY <1>2, <1>4 DEF Routed, OwnsAll, Owns

\* From the worker's hands into the orders and the book.
LEMMA RoutedApply ==
  ASSUME TypedBooks, NEW owner, NEW next, Routed(owner, next), NEW s \in Shard, WorkerApply(s)
  PROVE  Routed(owner, next)'
<1> DEFINE m == item[s]
           after == Apply([orders |-> orders[s], book |-> books[s][m.instrument]], m)
<1>1. /\ m \in Message /\ m # NoMessage /\ m.instrument \in Instrument
      /\ orders \in [Shard -> OrderMap] /\ books \in [Shard -> Books]
      /\ item \in [Shard -> Message \cup {NoMessage}]
  <2>1. /\ m \in Message \cup {NoMessage} /\ m # NoMessage
        /\ orders \in [Shard -> OrderMap] /\ books \in [Shard -> Books]
        /\ item \in [Shard -> Message \cup {NoMessage}]
    BY DEF TypedBooks, TypeOK, WorkerApply
  <2> QED BY <2>1, MessageKinds
<1>2. /\ orders' = [orders EXCEPT ![s] = after.orders]
      /\ books' = [books EXCEPT ![s][m.instrument] = after.book]
      /\ item' = [item EXCEPT ![s] = NoMessage]
      /\ UNCHANGED <<queue, reference, pending>>
  BY DEF WorkerApply, dispatchVars
<1>3. OwnsAll(owner, next, after.orders)
  <2>1. OwnsAll(owner, next, orders[s]) /\ Owns(owner, next, m) /\ orders[s] \in OrderMap
    BY <1>1 DEF Routed
  <2> QED BY <1>1, <2>1, OwnerKept
<1>4. ASSUME NEW t \in Shard
      PROVE  /\ OwnsAll(owner, next, orders'[t])
             /\ Owns(owner, next, item'[t])
             /\ item'[t] # NoMessage => ShardOf(item'[t].instrument) = t
             /\ LeadsToReference(t)'
  <2>1. /\ OwnsAll(owner, next, orders[t]) /\ Owns(owner, next, item[t])
        /\ item[t] # NoMessage => ShardOf(item[t].instrument) = t
        /\ LeadsToReference(t)
    BY DEF Routed
  <2>2. CASE t = s
    <3> HIDE DEF after
    <3>1. orders'[t] = after.orders /\ item'[t] = NoMessage
      BY <1>1, <1>2, <2>2
    <3>2. books'[t] = [books[t] EXCEPT ![m.instrument] = after.book]
      BY <1>1, <1>2, <2>2
    <3>3. Current(t)' = [orders |-> after.orders,
                         books |-> [books[t] EXCEPT ![m.instrument] = after.book]]
      BY <3>1, <3>2 DEF Current, Held
    <3>4. Current(t) = [orders |-> after.orders,
                        books |-> [books[t] EXCEPT ![m.instrument] = after.book]]
      BY <1>1, <2>2 DEF Current, Held, ApplyTo, after
    <3>5. Current(t)' = Current(t)
      BY <3>3, <3>4
    <3> QED BY <1>2, <1>3, <2>1, <3>1, <3>5 DEF LeadsToReference, Owns
  <2>3. CASE t # s
    <3>1. /\ orders'[t] = orders[t] /\ item'[t] = item[t] /\ books'[t] = books[t]
      BY <1>1, <1>2, <2>3
    <3>2. Current(t)' = Current(t)
      BY <3>1 DEF Current, Held, ApplyTo
    <3> QED BY <1>2, <2>1, <3>1, <3>2 DEF LeadsToReference
  <2> QED BY <2>2, <2>3
<1> HIDE DEF after
<1> QED BY <1>2, <1>4 DEF Routed, OwnsAll, Owns

\* Every step of the normalizer keeps the shards on their way.
LEMMA RoutedStep ==
  ASSUME TypedBooks, NEW owner, NEW next, Routed(owner, next), NormalizerStep
  PROVE  Routed(owner, next)'
<1>1. ASSUME UNCHANGED <<orders, books, item, queue, reference, pending>>
      PROVE  Routed(owner, next)'
  BY <1>1, LeadsUnchanged DEF Routed, OwnsAll, Owns
<1>2. CASE DispatchRefused
  <2>1. /\ UNCHANGED <<orders, books, item, queue, reference>>
        /\ pending' \in {pending, NoMessage}
    BY <1>2 DEF DispatchRefused, shardVars, workerVars
  <2>2. Owns(owner, next, pending)
    BY DEF Routed
  <2>3. Owns(owner, next, pending')
    BY <2>1, <2>2 DEF Owns
  <2> QED BY <2>1, <2>3, RoutedFetch
<1>3. CASE Start \/ DrainBegin \/ DrainStep
  BY <1>1, <1>3 DEF Start, DrainBegin, DrainStep, DrainShard, RaiseStop, Join,
     shardVars, workerVars, dispatchVars
<1>4. ASSUME NEW s \in Shard, WorkerFindsEmpty(s) \/ WorkerChecksStop(s)
      PROVE  Routed(owner, next)'
  BY <1>1, <1>4 DEF WorkerFindsEmpty, WorkerChecksStop, shardVars, dispatchVars
<1> QED BY <1>2, <1>3, <1>4, RoutedDispatch, RoutedPop, RoutedApply
        DEF NormalizerStep, WorkerStep

\* A shard with nothing left has its part of the reference.
LEMMA QuiescentMatches ==
  ASSUME NEW owner, NEW next, Routed(owner, next), NEW i \in Instrument,
         queue[ShardOf(i)] = << >>, item[ShardOf(i)] = NoMessage
  PROVE  books[ShardOf(i)][i] = reference.books[i]
<1> DEFINE s == ShardOf(i)
<1>1. s \in Shard
  BY ShardOfInstrument
<1>2. PICK trace : /\ IsReplay(trace, Current(s), queue[s])
                   /\ Agrees(trace[Len(queue[s])], s, reference)
  BY <1>1 DEF Routed, LeadsToReference
<1>3. trace[0] = Held(s) /\ Len(queue[s]) = 0 /\ i \in InstrumentsOf(s)
  BY <1>2 DEF IsReplay, Current, InstrumentsOf
<1>4. Held(s).books[i] = reference.books[i]
  BY <1>2, <1>3 DEF Agrees
<1> QED BY <1>4 DEF Held

-----------------------------------------------------------------------------
(***************************************************************************)
(* The new ids of what a shard still has to apply are new to it, and no    *)
(* two of those messages have the same.                                    *)
(***************************************************************************)
Unseen(map, m) == NewId(m) # 0 => map[NewId(m)] = NoOrder

Differ(m, other) == NewId(m) # 0 => NewId(m) # NewId(other)

Fresh(s) ==
  /\ Unseen(orders[s], item[s]) /\ Unseen(orders[s], pending) /\ Differ(pending, item[s])
  /\ \A k \in 1 .. Len(queue[s]) :
       /\ Unseen(orders[s], queue[s][k])
       /\ Differ(queue[s][k], item[s]) /\ Differ(pending, queue[s][k])
       /\ \A l \in 1 .. Len(queue[s]) : k < l => Differ(queue[s][l], queue[s][k])

\* A new id is an id, and the placeholder for no message has none.
LEMMA NewIdIsId ==
  /\ NewId(NoMessage) = 0
  /\ \A m \in Message : NewId(m) \in OrderId \cup {0}
<1>1. ASSUME NEW m \in Message PROVE NewId(m) \in OrderId \cup {0}
  BY <1>1, MessageKinds DEF NewId, AddOrderMsg, ReplaceMsg
<1> QED BY <1>1 DEF NewId, NoMessage

\* Before the first message.
LEMMA FreshInit == Init => \A s \in Shard : Fresh(s)
BY NewIdIsId DEF Init, Fresh, Unseen, Differ

\* A message the caller takes up gives the next id, or none.
LEMMA FreshFetch ==
  ASSUME TypedBooks, NEW owner, NEW next \in Nat, Routed(owner, next),
         NewId(pending') = 0 \/ (NewId(pending') = next /\ next \in OrderId),
         UNCHANGED <<orders, books, item, queue>>,
         NEW s \in Shard, Fresh(s)
  PROVE  Fresh(s)'
<1> DEFINE m == pending'
<1>1. Unseen(orders[s], m)
  <2>1. next \in OrderId /\ orders[s][next] # NoOrder => next < next
    BY DEF Routed, OwnsAll
  <2> QED BY <2>1 DEF Unseen
<1>2. ASSUME NEW n \in Message \cup {NoMessage}, Owns(owner, next, n)
      PROVE  Differ(m, n)
  <2>1. CASE n = NoMessage
    BY <2>1, NewIdIsId DEF Differ
  <2>2. CASE n # NoMessage
    <3>1. n \in Message /\ n.id < next /\ (n.type = "Replace" => n.newId < next)
      BY <1>2, <2>2 DEF Owns
    <3>2. NewId(n) \in {0, n.id} \/ (n.type = "Replace" /\ NewId(n) = n.newId)
      BY DEF NewId
    <3>3. NewId(n) # next \/ NewId(n) = 0
      BY <3>1, <3>2
    <3> QED BY <3>3 DEF Differ
  <2> QED BY <2>1, <2>2
<1>3. item[s] \in Message \cup {NoMessage} /\ queue[s] \in Seq(Message)
  BY DEF TypedBooks, TypeOK
<1>4. Differ(m, item[s])
  BY <1>2, <1>3 DEF Routed
<1>5. \A k \in 1 .. Len(queue[s]) : Differ(m, queue[s][k])
  <2>1. \A k \in 1 .. Len(queue[s]) : queue[s][k] \in Message
    BY <1>3
  <2> QED BY <1>2, <2>1 DEF Routed
<1> HIDE DEF m
<1>6. /\ m = pending' /\ orders'[s] = orders[s] /\ item'[s] = item[s] /\ queue'[s] = queue[s]
  BY DEF m
<1> QED BY <1>1, <1>4, <1>5, <1>6 DEF Fresh

\* Into the queue, behind messages with other new ids.
LEMMA FreshDispatch ==
  ASSUME TypedBooks, DispatchAccepted, NEW t \in Shard, Fresh(t)
  PROVE  Fresh(t)'
<1> DEFINE m == pending
           s == ShardOf(m.instrument)
<1>1. m \in Message /\ s \in Shard /\ queue \in [Shard -> Seq(Message)]
  BY MessageKinds, ShardOfInstrument DEF DispatchAccepted, TypedBooks, TypeOK
<1>2. /\ queue' = [queue EXCEPT ![s] = Append(@, m)] /\ pending' = NoMessage
      /\ UNCHANGED <<orders, item>>
  BY DEF DispatchAccepted, shardVars, workerVars
<1>3. \A n : Differ(NoMessage, n) /\ Unseen(orders[t], NoMessage)
  BY NewIdIsId DEF Differ, Unseen
<1>4. CASE t # s
  <2>1. queue'[t] = queue[t]
    BY <1>1, <1>2, <1>4
  <2> QED BY <1>2, <1>3, <2>1 DEF Fresh
<1>5. CASE t = s
  <2>1. queue'[t] = Append(queue[t], m)
    BY <1>1, <1>2, <1>5
  <2>2. /\ Len(queue[t]) \in Nat /\ Len(queue'[t]) = Len(queue[t]) + 1
        /\ \A k \in 1 .. Len(queue[t]) + 1 :
             queue'[t][k] = IF k = Len(queue[t]) + 1 THEN m ELSE queue[t][k]
    BY <1>1, <2>1
  <2>3. ASSUME NEW k \in 1 .. Len(queue'[t])
        PROVE  /\ Unseen(orders[t], queue'[t][k]) /\ Differ(queue'[t][k], item[t])
               /\ \A l \in 1 .. Len(queue'[t]) : k < l => Differ(queue'[t][l], queue'[t][k])
    <3> HIDE DEF m
    <3>1. CASE k = Len(queue[t]) + 1
      <4>1. queue'[t][k] = m /\ \A l \in 1 .. Len(queue'[t]) : ~(k < l)
        BY <2>2, <3>1
      <4>2. Unseen(orders[t], m) /\ Differ(m, item[t])
        BY DEF Fresh, m
      <4> QED BY <4>1, <4>2
    <3>2. CASE k # Len(queue[t]) + 1
      <4>1. k \in 1 .. Len(queue[t]) /\ queue'[t][k] = queue[t][k]
        BY <2>2, <3>2
      <4>2. ASSUME NEW l \in 1 .. Len(queue'[t]), k < l
            PROVE  Differ(queue'[t][l], queue'[t][k])
        <5>1. CASE l = Len(queue[t]) + 1
          <6>1. queue'[t][l] = m
            BY <2>2, <5>1
          <6> QED BY <4>1, <6>1 DEF Fresh, m
        <5>2. CASE l # Len(queue[t]) + 1
          <6>1. l \in 1 .. Len(queue[t]) /\ queue'[t][l] = queue[t][l]
            BY <2>2, <5>2
          <6> QED BY <4>1, <4>2, <6>1 DEF Fresh
        <5> QED BY <5>1, <5>2
      <4> QED BY <4>1, <4>2 DEF Fresh
    <3> QED BY <3>1, <3>2
  <2>4. Unseen(orders[t], item[t])
    BY DEF Fresh
  <2> QED BY <1>2, <1>3, <2>3, <2>4 DEF Fresh
<1> QED BY <1>4, <1>5

\* Into the worker's hands.
LEMMA FreshPop ==
  ASSUME TypedBooks, NEW s \in Shard, WorkerPop(s), NEW t \in Shard, Fresh(t)
  PROVE  Fresh(t)'
<1>1. /\ queue[s] \in Seq(Message) /\ queue[s] # << >> /\ queue \in [Shard -> Seq(Message)]
      /\ item \in [Shard -> Message \cup {NoMessage}]
  BY DEF TypedBooks, TypeOK, WorkerPop
<1>2. /\ queue' = [queue EXCEPT ![s] = Tail(queue[s])]
      /\ item' = [item EXCEPT ![s] = Head(queue[s])]
      /\ UNCHANGED <<orders, pending>>
  BY DEF WorkerPop, shardVars
<1>3. CASE t # s
  <2>1. queue'[t] = queue[t] /\ item'[t] = item[t]
    BY <1>1, <1>2, <1>3
  <2> QED BY <1>2, <2>1 DEF Fresh
<1>4. CASE t = s
  <2>1. queue'[t] = Tail(queue[t]) /\ item'[t] = queue[t][1]
    BY <1>1, <1>2, <1>4
  <2>2. /\ Len(queue[t]) \in Nat /\ Len(queue[t]) >= 1 /\ Len(queue'[t]) = Len(queue[t]) - 1
        /\ \A k \in 1 .. Len(queue[t]) - 1 : queue'[t][k] = queue[t][k + 1]
    BY <1>1, <1>4, <2>1
  <2>3. Unseen(orders[t], item'[t]) /\ Differ(pending, item'[t])
    <3>1. 1 \in 1 .. Len(queue[t])
      BY <2>2
    <3> QED BY <2>1, <3>1 DEF Fresh
  <2>4. ASSUME NEW k \in 1 .. Len(queue'[t])
        PROVE  /\ Unseen(orders[t], queue'[t][k]) /\ Differ(queue'[t][k], item'[t])
               /\ Differ(pending, queue'[t][k])
               /\ \A l \in 1 .. Len(queue'[t]) : k < l => Differ(queue'[t][l], queue'[t][k])
    <3>1. /\ k + 1 \in 1 .. Len(queue[t]) /\ 1 \in 1 .. Len(queue[t]) /\ 1 < k + 1
          /\ queue'[t][k] = queue[t][k + 1]
      BY <2>2
    <3>2. ASSUME NEW l \in 1 .. Len(queue'[t]), k < l
          PROVE  Differ(queue'[t][l], queue'[t][k])
      <4>1. l + 1 \in 1 .. Len(queue[t]) /\ k + 1 < l + 1 /\ queue'[t][l] = queue[t][l + 1]
        BY <2>2, <3>2
      <4> QED BY <3>1, <4>1 DEF Fresh
    <3> QED BY <2>1, <3>1, <3>2 DEF Fresh
  <2> QED BY <1>2, <2>3, <2>4 DEF Fresh
<1> QED BY <1>3, <1>4

\* Applied: its new id is seen now, and is the new id of no other.
LEMMA FreshApply ==
  ASSUME TypedBooks, NEW s \in Shard, WorkerApply(s), NEW t \in Shard, Fresh(t)
  PROVE  Fresh(t)'
<1> DEFINE m == item[s]
           after == Apply([orders |-> orders[s], book |-> books[s][m.instrument]], m)
<1>1. /\ m \in Message /\ orders \in [Shard -> OrderMap]
      /\ item \in [Shard -> Message \cup {NoMessage}]
  BY DEF TypedBooks, TypeOK, WorkerApply
<1>2. /\ orders' = [orders EXCEPT ![s] = after.orders]
      /\ item' = [item EXCEPT ![s] = NoMessage] /\ UNCHANGED <<queue, pending>>
  BY DEF WorkerApply, dispatchVars
<1>3. CASE t # s
  <2>1. orders'[t] = orders[t] /\ item'[t] = item[t]
    BY <1>1, <1>2, <1>3
  <2> QED BY <1>2, <2>1 DEF Fresh
<1>4. CASE t = s
  <2>1. ASSUME NEW n \in Message \cup {NoMessage}, Unseen(orders[t], n), Differ(n, m)
        PROVE  Unseen(orders'[t], n)
    <3> SUFFICES ASSUME NewId(n) # 0 PROVE orders'[t][NewId(n)] = NoOrder
      BY DEF Unseen
    <3>1. NewId(n) \in OrderId /\ NewId(n) # NewId(m) /\ orders[t][NewId(n)] = NoOrder
      BY <2>1, NewIdIsId DEF Unseen, Differ
    <3>2. after.orders[NewId(n)] # NoOrder =>
            orders[s][NewId(n)] # NoOrder \/ NewId(n) = NewId(m)
      BY <1>1, <3>1, ApplyWrites
    <3> HIDE DEF after
    <3>3. orders'[t] = after.orders
      BY <1>1, <1>2, <1>4
    <3> QED BY <1>4, <3>1, <3>2, <3>3
  <2>2. /\ pending \in Message \cup {NoMessage} /\ queue[t] \in Seq(Message)
        /\ \A k \in 1 .. Len(queue[t]) : queue[t][k] \in Message
    BY DEF TypedBooks, TypeOK
  <2>3. Unseen(orders'[t], pending) /\ Unseen(orders'[t], NoMessage)
    BY <1>4, <2>1, <2>2, NewIdIsId DEF Fresh, Unseen
  <2>4. \A k \in 1 .. Len(queue[t]) : Unseen(orders'[t], queue[t][k])
    BY <1>4, <2>1, <2>2 DEF Fresh
  <2>5. \A n \in Message \cup {NoMessage} : Differ(n, NoMessage)
    BY NewIdIsId DEF Differ
  <2>6. item'[t] = NoMessage /\ queue'[t] = queue[t] /\ pending' = pending
    BY <1>1, <1>2, <1>4
  <2>7. \A k \in 1 .. Len(queue[t]) :
          /\ Differ(pending, queue[t][k])
          /\ \A l \in 1 .. Len(queue[t]) : k < l => Differ(queue[t][l], queue[t][k])
    BY DEF Fresh
  <2> QED BY <2>2, <2>3, <2>4, <2>5, <2>6, <2>7 DEF Fresh
<1> QED BY <1>3, <1>4

\* Every step of the normalizer leaves new ids new.
LEMMA FreshStep ==
  ASSUME TypedBooks, NormalizerStep, NEW t \in Shard, Fresh(t)
  PROVE  Fresh(t)'
<1>1. ASSUME UNCHANGED <<orders, item, queue>>, pending' \in {pending, NoMessage}
      PROVE  Fresh(t)'
  <2>1. \A n : Differ(NoMessage, n) /\ Unseen(orders[t], NoMessage)
    BY NewIdIsId DEF Differ, Unseen
  <2> QED BY <1>1, <2>1 DEF Fresh
<1>2. CASE Start \/ DispatchRefused \/ DrainBegin \/ DrainStep
  BY <1>1, <1>2 DEF Start, DispatchRefused, DrainBegin, DrainStep, DrainShard, RaiseStop,
     Join, shardVars, workerVars, dispatchVars
<1>3. ASSUME NEW s \in Shard, WorkerFindsEmpty(s) \/ WorkerChecksStop(s)
      PROVE  Fresh(t)'
  BY <1>1, <1>3 DEF WorkerFindsEmpty, WorkerChecksStop, shardVars, dispatchVars
<1> QED BY <1>2, <1>3, FreshDispatch, FreshPop, FreshApply DEF NormalizerStep, WorkerStep

-----------------------------------------------------------------------------
(***************************************************************************)
(* Levels are sums of orders, in every book of a shard.                    *)
(***************************************************************************)
Deep(s) == \A i \in InstrumentsOf(s) : DepthMatches(orders[s], books[s][i], i)

LEMMA DeepInit == Init => \A s \in Shard : Deep(s)
<1> SUFFICES ASSUME Init, NEW s \in Shard, NEW i \in InstrumentsOf(s)
             PROVE  DepthMatches(orders[s], books[s][i], i)
  BY DEF Deep
<1>1. i \in Instrument /\ orders[s] = NoOrders /\ books[s][i] = BookInit(ReferencePrice[i])
  BY DEF Init, NewBooks, InstrumentsOf
<1> QED BY <1>1, EmptyBookDepth, ReferencePriceAssumption

\* A worker applies a message of one of the shard's instruments.
LEMMA DeepApply ==
  ASSUME TypedBooks, NEW owner, NEW next, Routed(owner, next),
         NEW s \in Shard, Fresh(s), WorkerApply(s), NEW t \in Shard, Deep(t)
  PROVE  Deep(t)'
<1> DEFINE m == item[s]
           i == m.instrument
           after == Apply([orders |-> orders[s], book |-> books[s][i]], m)
<1>1. /\ m \in Message /\ m # NoMessage /\ i \in Instrument /\ ShardOf(i) = s
      /\ orders \in [Shard -> OrderMap] /\ books \in [Shard -> Books]
      /\ Owns(owner, next, m) /\ OwnsAll(owner, next, orders[s])
  <2>1. m \in Message /\ m # NoMessage
    BY DEF TypedBooks, TypeOK, WorkerApply
  <2> QED BY <2>1, MessageKinds DEF TypedBooks, TypeOK, Routed
<1>2. /\ orders' = [orders EXCEPT ![s] = after.orders]
      /\ books' = [books EXCEPT ![s][i] = after.book]
  BY DEF WorkerApply
<1>3. CASE t # s
  <2>1. orders'[t] = orders[t] /\ books'[t] = books[t]
    BY <1>1, <1>2, <1>3
  <2> QED BY <2>1 DEF Deep
<1>4. CASE t = s
  <2>1. FitsMap(orders[s], m)
    <3>1. Unseen(orders[s], m) /\ m.id \in OrderId /\ (m.type = "Replace" => m.newId \in OrderId)
      BY <1>1, <1>4, MessageKinds DEF Fresh, ReplaceMsg
    <3>2. NamesOwn(orders[s], m)
      BY <1>1, OwnerNamesOwn
    <3>3. m.type = "Add" => NewId(m) = m.id /\ NewId(m) # 0
      BY <3>1 DEF NewId, OrderId
    <3>4. m.type = "Replace" => NewId(m) = m.newId /\ NewId(m) # 0
      BY <3>1 DEF NewId, OrderId
    <3> QED BY <3>1, <3>2, <3>3, <3>4 DEF Unseen, FitsMap, NamesOwn
  <2>2. orders[s] \in OrderMap /\ GoodBook(books[s][i]) /\ books[s][i] \in Book
    BY <1>1 DEF Books, TypedBooks, BooksAreGood, TopOfBook, GoodBook
  <2>3. DepthMatches(orders[s], books[s][i], i)
    BY <1>1, <1>4 DEF Deep, InstrumentsOf
  <2>4. DepthMatches(after.orders, after.book, i)
    BY <1>1, <2>1, <2>2, <2>3, ApplyKeepsDepth
  <2>5. ASSUME NEW j \in InstrumentsOf(s), j # i
        PROVE  DepthMatches(after.orders, books[s][j], j)
    <3>1. j \in Instrument /\ DepthMatches(orders[s], books[s][j], j)
      BY <1>4 DEF Deep, InstrumentsOf
    <3> QED BY <1>1, <2>1, <2>2, <2>5, <3>1, ApplyKeepsOtherDepth
  <2> HIDE DEF after, i
  <2>6. orders'[t] = after.orders
    BY <1>1, <1>2, <1>4
  <2>7. \A j \in Instrument : books'[t][j] = IF j = i THEN after.book ELSE books[s][j]
    BY <1>1, <1>2, <1>4 DEF Books
  <2>8. ASSUME NEW j \in InstrumentsOf(t)
        PROVE  DepthMatches(orders'[t], books'[t][j], j)
    <3>1. j \in Instrument /\ j \in InstrumentsOf(s)
      BY <1>4 DEF InstrumentsOf
    <3> QED BY <2>4, <2>5, <2>6, <2>7, <3>1
  <2> QED BY <2>8 DEF Deep, InstrumentsOf
<1> QED BY <1>3, <1>4

\* No other step touches orders or books.
LEMMA DeepStep ==
  ASSUME TypedBooks, NEW owner, NEW next, Routed(owner, next),
         \A s \in Shard : Fresh(s) /\ Deep(s), NormalizerStep
  PROVE  \A s \in Shard : Deep(s)'
<1>1. ASSUME UNCHANGED <<orders, books>> PROVE \A s \in Shard : Deep(s)'
  BY <1>1 DEF Deep
<1>2. CASE Start \/ DispatchAccepted \/ DispatchRefused \/ DrainBegin \/ DrainStep
  BY <1>1, <1>2 DEF Start, DispatchAccepted, DispatchRefused, DrainBegin, DrainStep,
     DrainShard, RaiseStop, Join, shardVars
<1>3. ASSUME NEW s \in Shard, WorkerPop(s) \/ WorkerFindsEmpty(s) \/ WorkerChecksStop(s)
      PROVE  \A t \in Shard : Deep(t)'
  BY <1>1, <1>3 DEF WorkerPop, WorkerFindsEmpty, WorkerChecksStop, shardVars
<1> QED BY <1>2, <1>3, DeepApply DEF NormalizerStep, WorkerStep

-----------------------------------------------------------------------------
(***************************************************************************)
(* FeedReplay: the caller is the simulator.  It owns the ids: an id is of  *)
(* the instrument it was given to, and the next one is nobody's yet.       *)
(***************************************************************************)
LiveAreOwned(owner) ==
  \A i \in Instrument : \A order \in liveOrders[i] : owner[order.id] = i

FeedInv ==
  /\ SimInv /\ TypedBooks /\ Drained
  /\ \E owner : Routed(owner, nextOrderId) /\ LiveAreOwned(owner)
  /\ \A s \in Shard : Fresh(s) /\ Deep(s)

LEMMA FeedInvInit == FeedInit => FeedInv
<1> SUFFICES ASSUME FeedInit PROVE FeedInv
  OBVIOUS
<1>1. Init /\ SimInit
  BY DEF FeedInit
<1>2. LiveAreOwned(0)
  BY <1>1 DEF LiveAreOwned, SimInit
<1>3. Routed(0, nextOrderId)
  BY <1>1, RoutedInit
<1> QED BY <1>1, <1>2, <1>3, SimInitOK, TypedBooksInit, DrainedInit, FreshInit, DeepInit
        DEF FeedInv

\* The simulator's next message is one of the messages of Normalizer.
LEMMA FetchNextIsFetch ==
  ASSUME SimInv, FetchNext
  PROVE  /\ pending' \in Message /\ Fetch(pending') /\ [Next]_vars
         /\ \E i \in Instrument : Follows(i, pending') /\ NamesResting(i, pending')
<1>1. PICK i \in Instrument : \E drift \in Drift : NextMessage(i, drift, pending')
  BY DEF FetchNext
<1>2. PICK drift \in Drift : NextMessage(i, drift, pending')
  BY <1>1
<1>3. Follows(i, pending') /\ NamesResting(i, pending')
  BY <1>2, NextMessageFollows, NextMessageNames
<1>4. pending' \in Message
  BY <1>3 DEF Follows
<1>5. Fetch(pending')
  BY DEF FetchNext, Fetch
<1> QED BY <1>3, <1>4, <1>5 DEF Next

\* The instrument of the message becomes the owner of its new id.
LEMMA OwnerOfNext ==
  ASSUME SimInv, NEW owner, LiveAreOwned(owner), NEW i \in Instrument,
         NEW m, Follows(i, m), NamesResting(i, m)
  PROVE  \E newer : /\ \A id \in OrderId :
                         id < nextOrderId => id < nextOrderId' /\ newer[id] = owner[id]
                    /\ Owns(newer, nextOrderId', m)
                    /\ \A j \in Instrument : \A order \in liveOrders'[j] :
                         newer[order.id] = j
<1> DEFINE next == nextOrderId
           newer == [id \in OrderId |-> IF id = next THEN i ELSE owner[id]]
<1>1. next \in Nat /\ nextOrderId' \in {next, next + 1} /\ m \in Message /\ m.instrument = i
  BY DEF SimInv, SimTypeOK, NamesResting, Follows
<1>2. \A id \in OrderId : id < next => id < nextOrderId' /\ newer[id] = owner[id]
  BY <1>1 DEF OrderId
<1>3. \A j \in Instrument : \A order \in liveOrders[j] :
        order.id \in OrderId /\ order.id < next /\ newer[order.id] = j
  <2> SUFFICES ASSUME NEW j \in Instrument, NEW order \in liveOrders[j]
               PROVE  order.id \in OrderId /\ order.id < next /\ newer[order.id] = j
    OBVIOUS
  <2>1. order.id \in OrderId /\ order.id < next /\ owner[order.id] = j
    BY DEF SimInv, SimTypeOK, IdsAreFresh, LiveOrder, LiveAreOwned
  <2> QED BY <1>2, <2>1
<1>4. m.type \in {"Add", "Replace"} =>
        NewId(m) = next /\ next \in OrderId /\ newer[next] = i /\ nextOrderId' = next + 1
  BY DEF NamesResting
<1>5. m.type # "Add" => \E order \in liveOrders[i] : m.id = order.id
  BY DEF NamesResting
<1> HIDE DEF newer
<1>6. Owns(newer, nextOrderId', m)
  <2>1. m.type = "Add" => m.id = next
    BY <1>4 DEF NewId
  <2>2. m.type = "Replace" => m.newId = next
    BY <1>4 DEF NewId
  <2>3. m.id < nextOrderId' /\ newer[m.id] = m.instrument
    <3>1. CASE m.type = "Add"
      BY <1>1, <1>4, <2>1, <3>1
    <3>2. CASE m.type # "Add"
      BY <1>1, <1>2, <1>3, <1>5, <3>2
    <3> QED BY <3>1, <3>2
  <2>4. m.type = "Replace" => m.newId < nextOrderId' /\ newer[m.newId] = m.instrument
    BY <1>1, <1>4, <2>2
  <2> QED BY <2>3, <2>4 DEF Owns
<1>7. \A j \in Instrument : \A order \in liveOrders'[j] : newer[order.id] = j
  <2> SUFFICES ASSUME NEW j \in Instrument, NEW order \in liveOrders'[j]
               PROVE  newer[order.id] = j
    OBVIOUS
  <2>1. CASE j # i
    BY <1>3, <2>1 DEF Follows
  <2>2. CASE j = i
    <3>1. \/ \E a \in liveOrders[i] : a.id = order.id
          \/ order.id = next /\ nextOrderId' = next + 1
      BY <2>2 DEF NamesResting
    <3>2. order.id \in OrderId
      BY DEF Follows, SimInv, SimTypeOK, LiveOrder
    <3>3. order.id = next => newer[order.id] = i
      BY <3>2 DEF newer
    <3> QED BY <1>3, <2>2, <3>1, <3>3
  <2> QED BY <2>1, <2>2
<1> QED BY <1>2, <1>6, <1>7

\* Every step of the pipeline keeps the invariant.
LEMMA FeedInvStep ==
  ASSUME FeedInv, [FeedNext]_feedVars
  PROVE  FeedInv'
<1>1. PICK owner : Routed(owner, nextOrderId) /\ LiveAreOwned(owner)
  BY DEF FeedInv
<1>2. SimInv /\ TypedBooks /\ Drained /\ \A s \in Shard : Fresh(s) /\ Deep(s)
  BY DEF FeedInv
<1>3. CASE FetchNext
  <2>1. /\ [Next]_vars
        /\ \E i \in Instrument : Follows(i, pending') /\ NamesResting(i, pending')
    BY <1>2, <1>3, FetchNextIsFetch
  <2>2. PICK i \in Instrument : Follows(i, pending') /\ NamesResting(i, pending')
    BY <2>1
  <2>3. UNCHANGED <<orders, books, item, queue, reference>>
    BY <1>3 DEF FetchNext, shardVars, workerVars, dispatchVars
  <2>4. PICK newer : /\ \A id \in OrderId :
                          id < nextOrderId => id < nextOrderId' /\ newer[id] = owner[id]
                     /\ Owns(newer, nextOrderId', pending')
                     /\ \A j \in Instrument : \A order \in liveOrders'[j] :
                          newer[order.id] = j
    BY <1>1, <1>2, <2>2, OwnerOfNext
  <2>5. Routed(newer, nextOrderId)' 
    <3>1. \A next : \A after :
            (/\ Routed(owner, next) /\ Owns(newer, after, pending')
             /\ \A id \in OrderId : id < next => id < after /\ newer[id] = owner[id])
            => Routed(newer, after)'
      BY <1>2, <2>3, RoutedFetch
    <3>2. PICK after : after = nextOrderId'
      OBVIOUS
    <3>3. Routed(newer, after)'
      BY <1>1, <2>4, <3>1, <3>2
    <3> QED BY <3>2, <3>3
  <2>6. LiveAreOwned(newer)'
    BY <2>4 DEF LiveAreOwned
  <2>7. \A s \in Shard : Fresh(s)'
    <3>1. nextOrderId \in Nat
      BY <1>2 DEF SimInv, SimTypeOK
    <3>2. NewId(pending') = 0 \/ (NewId(pending') = nextOrderId /\ nextOrderId \in OrderId)
      BY <2>2 DEF NamesResting, NewId
    <3> QED BY <1>1, <1>2, <2>3, <3>1, <3>2, FreshFetch
  <2>8. \A s \in Shard : Deep(s)'
    BY <1>2, <2>3 DEF Deep
  <2>9. SimInv' /\ TypedBooks' /\ Drained'
    BY <1>2, <2>1, <2>2, TypedBooksStep, DrainedStep DEF Follows, TypedBooks
  <2> QED BY <2>5, <2>6, <2>7, <2>8, <2>9 DEF FeedInv
<1>4. CASE NormalizerStep /\ UNCHANGED simVars
  <2>1. Routed(owner, nextOrderId)'
    <3>1. PICK next : next = nextOrderId
      OBVIOUS
    <3>2. Routed(owner, next)'
      BY <1>1, <1>2, <1>4, <3>1, RoutedStep
    <3>3. next = nextOrderId'
      BY <1>4, <3>1 DEF simVars
    <3> QED BY <3>2, <3>3
  <2>2. LiveAreOwned(owner)' /\ SimInv'
    BY <1>1, <1>2, <1>4 DEF simVars, LiveAreOwned, SimInv, SimTypeOK, IdsAreFresh
  <2>3. TypedBooks' /\ Drained'
    BY <1>2, <1>4, TypedBooksStep, DrainedStep DEF Next, TypedBooks
  <2>4. \A s \in Shard : Fresh(s)' /\ Deep(s)'
    BY <1>1, <1>2, <1>4, FreshStep, DeepStep
  <2> QED BY <2>1, <2>2, <2>3, <2>4 DEF FeedInv
<1>5. CASE UNCHANGED feedVars
  <2>1. UNCHANGED <<vars, simVars>>
    BY <1>5 DEF feedVars
  <2>2. TypedBooks' /\ Drained'
    BY <1>2, <2>1, TypedBooksStep, DrainedStep DEF TypedBooks
  <2>3. UNCHANGED <<orders, books, item, queue, reference, pending, liveOrders, nextOrderId>>
    BY <2>1 DEF vars, simVars, shardVars, workerVars, dispatchVars
  <2>4. Routed(owner, nextOrderId)'
    BY <1>1, <2>3, LeadsUnchanged DEF Routed, OwnsAll, Owns
  <2>5. LiveAreOwned(owner)' /\ SimInv'
    BY <1>1, <1>2, <2>1 DEF simVars, LiveAreOwned, SimInv, SimTypeOK, IdsAreFresh
  <2>6. \A s \in Shard : Fresh(s)' /\ Deep(s)'
    BY <1>2, <2>3 DEF Fresh, Deep
  <2> QED BY <2>2, <2>4, <2>5, <2>6 DEF FeedInv
<1> QED BY <1>3, <1>4, <1>5 DEF FeedNext

LEMMA FeedInvHolds == FeedSpec => []FeedInv
<1>1. FeedInv /\ [FeedNext]_feedVars => FeedInv'
  BY FeedInvStep
<1> QED BY <1>1, FeedInvInit, PTL DEF FeedSpec

\* The generate-and-dispatch loop is a caller of Normalizer that keeps to what start()
\* and dispatch() ask for, with well-formed messages only: what the theorems above
\* say of any such caller, they say of the offline pipeline.
THEOREM FeedImplementsNormalizer == FeedSpec => Spec
<1>1. FeedInit => Init
  BY DEF FeedInit
<1>2. FeedInv /\ [FeedNext]_feedVars => [Next]_vars
  <2>1. CASE FetchNext
    BY <2>1, FetchNextIsFetch DEF FeedInv
  <2> QED BY <2>1 DEF FeedNext, Next, feedVars
<1> QED BY <1>1, <1>2, FeedInvHolds, PTL DEF FeedSpec, Spec

\* In the offline pipeline the best indices are right at all times, and a drained
\* normalizer has applied every message it accepted.
THEOREM FeedIsDrained == FeedSpec => [](TopOfBook /\ DrainComplete)
BY FeedImplementsNormalizer, TopOfBookHolds, DrainIsComplete, PTL

\* Once drained, the book of every instrument is the one that a single-threaded
\* replay of the accepted messages builds, for any number of shards and
\* instruments, however the workers were scheduled and whatever was refused.
THEOREM MatchesReferenceHolds == FeedSpec => []MatchesReference
<1>1. ASSUME FeedInv PROVE MatchesReference
  <2> SUFFICES ASSUME mpc = "stopped", NEW i \in Instrument
               PROVE  books[ShardOf(i)][i] = reference.books[i]
    BY DEF MatchesReference
  <2>1. ShardOf(i) \in Shard
    BY ShardOfInstrument
  <2>2. queue[ShardOf(i)] = << >> /\ worker[ShardOf(i)] = "exited"
    BY <1>1, <2>1 DEF FeedInv, Drained, QueuesDrained, WorkersJoined
  <2>3. item[ShardOf(i)] = NoMessage
    BY <1>1, <2>1, <2>2 DEF FeedInv, TypedBooks, TypeOK
  <2> QED BY <1>1, <2>2, <2>3, QuiescentMatches DEF FeedInv
<1> QED BY <1>1, FeedInvHolds, PTL

\* Every level of every book holds exactly the sum of the resting orders priced
\* there, at all times, for any prices, band and drift.
THEOREM LevelsAreOrdersHolds == FeedSpec => []LevelsAreOrders
<1>1. ASSUME FeedInv PROVE LevelsAreOrders
  <2>1. ASSUME NEW i \in Instrument, NEW side \in Side, NEW index \in Index
        PROVE  LevelOf(books[ShardOf(i)][i], side, index) = RestingQty(i, side, index)
    <3> DEFINE s == ShardOf(i)
               map == orders[s]
               book == books[s][i]
               at == {id \in RestingOrders(i) :
                        map[id].side = side /\ IndexOf(book, map[id].price) = index}
               f == Shares(map, book, i, side, index)
               e == [id \in at |-> map[id].qty]
    <3>1. s \in Shard /\ map \in OrderMap /\ DepthMatches(map, book, i)
      BY <1>1, ShardOfInstrument DEF FeedInv, Deep, InstrumentsOf, TypedBooks, TypeOK
    <3>2. LevelOf(book, side, index) = SumFunctionOnSet(f, OrderId)
      BY <3>1 DEF DepthMatches, DepthOf
    <3>3. RestingQty(i, side, index) = SumFunctionOnSet(e, at)
      BY DEF RestingQty, SumFunction
    <3>4. /\ at \subseteq OrderId /\ IsFiniteSet(OrderId) /\ IsFiniteSet(at)
          /\ \A id \in OrderId : f[id] \in Int /\ (id \notin at => f[id] = 0)
          /\ \A id \in at : f[id] = e[id]
      <4>1. IsFiniteSet(OrderId)
        BY OrderIdAssumption, FS_Interval DEF OrderId
      <4>2. at \subseteq OrderId
        BY DEF RestingOrders
      <4>3. \A id \in OrderId : f[id] \in Int
        BY <3>1, DepthIsNat DEF Shares
      <4>4. \A id \in OrderId : id \in at <=>
              /\ map[id] # NoOrder /\ map[id].instrument = i /\ map[id].side = side
              /\ IndexOf(book, map[id].price) = index
        BY DEF RestingOrders
      <4>5. \A id \in OrderId : f[id] = IF id \in at THEN map[id].qty ELSE 0
        BY <4>4 DEF Shares, Share
      <4>6. \A id \in at : e[id] = map[id].qty
        OBVIOUS
      <4> HIDE DEF f, e, at
      <4>7. IsFiniteSet(at)
        BY <4>1, <4>2, FS_Subset
      <4> QED BY <4>1, <4>2, <4>3, <4>5, <4>6, <4>7
    <3> HIDE DEF f, e, at, map, book, s
    <3>5. SumFunctionOnSet(f, OrderId) = SumFunctionOnSet(f, at)
      BY <3>4, SumOfSupport
    <3>6. SumFunctionOnSet(f, at) = SumFunctionOnSet(e, at)
      BY <3>4, SumsAgree
    <3> QED BY <3>2, <3>3, <3>5, <3>6 DEF book, s
  <2> QED BY <2>1 DEF LevelsAreOrders, LevelOf, Side
<1> QED BY <1>1, FeedInvHolds, PTL

-----------------------------------------------------------------------------
(***************************************************************************)
(* The messages of one instrument among those of a shard.  OfInstrument is *)
(* a recursive function; what it is of a longer or a shorter sequence is   *)
(* shown by the least counterexample.                                      *)
(***************************************************************************)
IsUpTo(f, i, q) ==
  f = [k \in 0 .. Len(q) |-> IF k = 0 THEN << >> ELSE OneMore(i, f[k - 1], q[k])]

LEMMA UpToSteps ==
  ASSUME NEW f, NEW i, NEW q \in Seq(Message), IsUpTo(f, i, q)
  PROVE  f[0] = << >> /\ \A k \in 1 .. Len(q) : f[k] = OneMore(i, f[k - 1], q[k])
<1> DEFINE n == Len(q)
<1>1. n \in Nat
  OBVIOUS
<1>2. \A k \in 0 .. n : f[k] = IF k = 0 THEN << >> ELSE OneMore(i, f[k - 1], q[k])
  BY DEF IsUpTo
<1> HIDE DEF n
<1>3. 0 \in 0 .. n /\ \A k \in 1 .. n : k \in 0 .. n /\ k # 0
  BY <1>1
<1>4. f[0] = << >> /\ \A k \in 1 .. n : f[k] = OneMore(i, f[k - 1], q[k])
  BY <1>2, <1>3
<1> QED BY <1>4 DEF n

LEMMA UpToIsChosen ==
  ASSUME NEW i, NEW q
  PROVE  OfInstrument(i, q) = (CHOOSE f : IsUpTo(f, i, q))[Len(q)]
BY DEF OfInstrument, IsUpTo

\* Two such functions are one, as far as the sequences agree.
LEMMA UpToAgree ==
  ASSUME NEW i, NEW q \in Seq(Message), NEW r \in Seq(Message), NEW f, NEW g,
         IsUpTo(f, i, q), IsUpTo(g, i, r),
         NEW n \in Nat, n <= Len(q), n <= Len(r), \A k \in 1 .. n : q[k] = r[k]
  PROVE  (\A k \in 0 .. n : f[k] = g[k]) /\ f[n] = g[n]
<1> DEFINE Bad == {k \in 0 .. n : f[k] # g[k]}
<1>1. /\ f[0] = << >> /\ \A k \in 1 .. Len(q) : f[k] = OneMore(i, f[k - 1], q[k])
      /\ g[0] = << >> /\ \A k \in 1 .. Len(r) : g[k] = OneMore(i, g[k - 1], r[k])
  BY UpToSteps
<1>2. Len(q) \in Nat /\ Len(r) \in Nat
  OBVIOUS
<1> SUFFICES ASSUME Bad # {} PROVE FALSE
  OBVIOUS
<1>3. PICK m \in Bad : \A k \in Bad : m <= k
  <2>1. Bad \subseteq Nat
    OBVIOUS
  <2> HIDE DEF Bad
  <2> QED BY <2>1, LeastNatural
<1>4. m \in 0 .. n /\ f[m] # g[m]
  OBVIOUS
<1>5. m # 0
  BY <1>1, <1>4
<1>6. m - 1 \in 0 .. n /\ ~(m <= m - 1) /\ m \in 1 .. Len(q) /\ m \in 1 .. Len(r) /\ m \in 1 .. n
  BY <1>2, <1>4, <1>5
<1>7. f[m - 1] = g[m - 1]
  BY <1>3, <1>6
<1>8. f[m] = OneMore(i, f[m - 1], q[m]) /\ g[m] = OneMore(i, g[m - 1], r[m]) /\ q[m] = r[m]
  BY <1>1, <1>6
<1> QED BY <1>4, <1>7, <1>8

\* There is one, for every sequence.
LEMMA UpToExists ==
  ASSUME NEW i, NEW q \in Seq(Message)
  PROVE  \E f : IsUpTo(f, i, q)
<1> DEFINE One(k, f) == IF k = 0 THEN << >> ELSE OneMore(i, f[k - 1], q[k])
           Table(f, n) == f = [k \in 0 .. n |-> One(k, f)]
           Bad == {n \in Nat : ~ \E f : Table(f, n)}
<1>1. 0 \notin Bad
  <2> DEFINE f == [k \in {0} |-> << >>]
  <2>1. Table(f, 0)
    <3>1. 0 .. 0 = {0}
      OBVIOUS
    <3>2. f = [k \in {0} |-> One(k, f)]
      OBVIOUS
    <3> QED BY <3>1, <3>2
  <2> QED BY <2>1
<1>2. ASSUME NEW n \in Nat, n \notin Bad PROVE n + 1 \notin Bad
  <2>1. PICK f : Table(f, n)
    BY <1>2
  <2> DEFINE g == [k \in 0 .. n + 1 |-> IF k = n + 1 THEN One(k, f) ELSE f[k]]
  <2>2. ASSUME NEW k \in 0 .. n + 1 PROVE g[k] = One(k, g)
    <3>1. CASE k = 0
      <4>1. g[0] = f[0] /\ f[0] = One(0, f)
        BY <2>1
      <4> QED BY <3>1, <4>1
    <3>2. CASE k # 0
      <4>1. g[k] = One(k, f)
        BY <2>1
      <4>2. k - 1 \in 0 .. n + 1 /\ k - 1 # n + 1
        BY <3>2
      <4>3. g[k - 1] = f[k - 1]
        BY <4>2
      <4> HIDE DEF g
      <4> QED BY <3>2, <4>1, <4>3
    <3> QED BY <3>1, <3>2
  <2>3. g = [k \in 0 .. n + 1 |-> g[k]]
    OBVIOUS
  <2>4. Table(g, n + 1)
    <3> HIDE DEF g, One
    <3> QED BY <2>2, <2>3
  <2> QED BY <2>4
<1>3. Bad = {}
  <2> SUFFICES ASSUME Bad # {} PROVE FALSE
    OBVIOUS
  <2>1. PICK m \in Bad : \A k \in Bad : m <= k
    BY LeastNatural
  <2>2. m \in Nat /\ m # 0
    BY <1>1
  <2>3. m - 1 \in Nat /\ ~ (m <= m - 1) /\ (m - 1) + 1 = m
    BY <2>2
  <2> HIDE DEF Bad
  <2>4. m - 1 \notin Bad
    BY <2>1, <2>3
  <2> QED BY <1>2, <2>1, <2>3, <2>4
<1>4. Len(q) \in Nat
  OBVIOUS
<1>5. PICK f : Table(f, Len(q))
  BY <1>3, <1>4
<1> QED BY <1>5 DEF IsUpTo

LEMMA OfInstrumentIs ==
  ASSUME NEW i, NEW q \in Seq(Message), NEW f, IsUpTo(f, i, q)
  PROVE  OfInstrument(i, q) = f[Len(q)]
<1> DEFINE g == CHOOSE h : IsUpTo(h, i, q)
<1>1. IsUpTo(g, i, q)
  OBVIOUS
<1>2. Len(q) \in Nat /\ Len(q) <= Len(q)
  OBVIOUS
<1> HIDE DEF g
<1>3. f[Len(q)] = g[Len(q)]
  <2>1. \A k \in 1 .. Len(q) : q[k] = q[k]
    OBVIOUS
  <2> QED BY <1>1, <1>2, <2>1, UpToAgree
<1> QED BY <1>3, UpToIsChosen DEF g

\* One more message.
LEMMA OfInstrumentAppend ==
  ASSUME NEW i, NEW q \in Seq(Message), NEW m \in Message
  PROVE  OfInstrument(i, Append(q, m)) = OneMore(i, OfInstrument(i, q), m)
<1> DEFINE r == Append(q, m)
           n == Len(q)
<1>1. /\ r \in Seq(Message) /\ n \in Nat /\ Len(r) = n + 1
      /\ r[n + 1] = m /\ \A k \in 1 .. n : r[k] = q[k]
  OBVIOUS
<1> HIDE DEF r
<1>2. PICK f : IsUpTo(f, i, q)
  BY UpToExists
<1>3. PICK g : IsUpTo(g, i, r)
  BY <1>1, UpToExists
<1>4. f[n] = g[n]
  <2>1. /\ r \in Seq(Message) /\ Len(q) \in Nat /\ Len(q) <= Len(q) /\ Len(q) <= Len(r)
        /\ \A k \in 1 .. Len(q) : q[k] = r[k]
    BY <1>1
  <2>2. f[Len(q)] = g[Len(q)]
    BY <1>2, <1>3, <2>1, UpToAgree
  <2> QED BY <2>2
<1>5. g[n + 1] = OneMore(i, g[(n + 1) - 1], r[n + 1]) /\ (n + 1) - 1 = n
  <2>1. n + 1 \in 1 .. Len(r)
    BY <1>1
  <2> QED BY <1>1, <1>3, <2>1, UpToSteps
<1>6. OfInstrument(i, r) = g[Len(r)] /\ OfInstrument(i, q) = f[n]
  BY <1>1, <1>2, <1>3, OfInstrumentIs
<1> QED BY <1>1, <1>4, <1>5, <1>6 DEF r

LEMMA OfInstrumentEmpty ==
  ASSUME NEW i
  PROVE  OfInstrument(i, << >>) = << >>
<1> DEFINE none == << >>
<1>1. none \in Seq(Message) /\ Len(none) = 0
  OBVIOUS
<1> HIDE DEF none
<1>2. PICK f : IsUpTo(f, i, none)
  BY <1>1, UpToExists
<1>3. OfInstrument(i, none) = f[Len(none)]
  BY <1>1, <1>2, OfInstrumentIs
<1>4. f[0] = << >>
  BY <1>1, <1>2, UpToSteps
<1> QED BY <1>1, <1>3, <1>4 DEF none

LEMMA AppendToConcat ==
  ASSUME NEW s \in Seq(Message), NEW q \in Seq(Message), NEW m \in Message
  PROVE  Append(s \o q, m) = s \o Append(q, m)
<1>1. <<m>> \in Seq(Message) /\ s \o q \in Seq(Message)
  OBVIOUS
<1>2. Append(s \o q, m) = (s \o q) \o <<m>> /\ Append(q, m) = q \o <<m>>
  BY <1>1, AppendIsConcat
<1> QED BY <1>1, <1>2, ConcatAssociative

\* One message before the others.
LEMMA OfInstrumentFirst ==
  ASSUME NEW i, NEW m \in Message, NEW q \in Seq(Message)
  PROVE  /\ OfInstrument(i, q) \in Seq(Message)
         /\ OfInstrument(i, <<m>> \o q)
              = IF m.instrument = i THEN <<m>> \o OfInstrument(i, q) ELSE OfInstrument(i, q)
<1> DEFINE r == <<m>> \o q
           n == Len(q)
           first == IF m.instrument = i THEN <<m>> ELSE << >>
<1>1. /\ r \in Seq(Message) /\ n \in Nat /\ Len(r) = n + 1
      /\ r[1] = m /\ \A k \in 1 .. n : r[k + 1] = q[k]
  OBVIOUS
<1>2. PICK f : IsUpTo(f, i, q)
  BY UpToExists
<1>3. PICK g : IsUpTo(g, i, r)
  BY <1>1, UpToExists
<1>4. f[0] = << >> /\ \A k \in 1 .. n : f[k] = OneMore(i, f[k - 1], q[k])
  BY <1>2, UpToSteps
<1>5. g[0] = << >> /\ \A k \in 1 .. n + 1 : g[k] = OneMore(i, g[k - 1], r[k])
  <2> HIDE DEF r
  <2>1. g[0] = << >> /\ \A k \in 1 .. Len(r) : g[k] = OneMore(i, g[k - 1], r[k])
    BY <1>1, <1>3, UpToSteps
  <2> QED BY <1>1, <2>1
<1>6. first \in Seq(Message)
  OBVIOUS
<1>7. \A k \in 1 .. n : q[k] \in Message
  OBVIOUS
<1> DEFINE Good(k) == f[k] \in Seq(Message) /\ g[k + 1] = first \o f[k]
           Bad == {k \in 0 .. n : ~ Good(k)}
<1>8. Good(0)
  <2>1. g[1] = OneMore(i, g[1 - 1], r[1]) /\ 1 - 1 = 0
    BY <1>1, <1>5
  <2>2. OneMore(i, << >>, m) = first
    BY DEF OneMore
  <2> HIDE DEF first, r
  <2>3. g[1] = first
    BY <1>1, <1>5, <2>1, <2>2
  <2>4. << >> \in Seq(Message) /\ first \o << >> = first
    BY <1>6
  <2> QED BY <1>4, <2>3, <2>4
<1>9. ASSUME NEW k \in 1 .. n, Good(k - 1) PROVE Good(k)
  <2> HIDE DEF first, n, r
  <2>1. f[k] = OneMore(i, f[k - 1], q[k]) /\ q[k] \in Message
    BY <1>4, <1>7
  <2>2. g[k + 1] = OneMore(i, g[(k + 1) - 1], r[k + 1]) /\ (k + 1) - 1 = k /\ (k - 1) + 1 = k
    BY <1>1, <1>5
  <2>3. g[k + 1] = OneMore(i, first \o f[k - 1], q[k]) /\ f[k - 1] \in Seq(Message)
    BY <1>1, <1>9, <2>2
  <2>4. Append(first \o f[k - 1], q[k]) = first \o Append(f[k - 1], q[k])
    BY <1>6, <2>1, <2>3, AppendToConcat
  <2>5. CASE q[k].instrument = i
    BY <2>1, <2>3, <2>4, <2>5 DEF OneMore
  <2>6. CASE q[k].instrument # i
    BY <2>1, <2>3, <2>6 DEF OneMore
  <2> QED BY <2>5, <2>6
<1>10. Bad = {}
  <2> SUFFICES ASSUME Bad # {} PROVE FALSE
    OBVIOUS
  <2>1. PICK l \in Bad : \A k \in Bad : l <= k
    <3>1. Bad \subseteq Nat
      <4> HIDE DEF Good
      <4> QED BY <1>1
    <3> HIDE DEF Bad
    <3> QED BY <3>1, LeastNatural
  <2>2. l \in 0 .. n /\ l # 0 /\ ~ Good(l)
    BY <1>8
  <2>3. l - 1 \in 0 .. n /\ l \in 1 .. n /\ ~ (l <= l - 1)
    BY <1>1, <2>2
  <2>4. Good(l - 1)
    BY <2>1, <2>3
  <2> HIDE DEF Good
  <2> QED BY <1>9, <2>2, <2>3, <2>4
<1>11. Good(n)
  <2> HIDE DEF Good
  <2>1. n \in 0 .. n
    BY <1>1
  <2> QED BY <1>10, <2>1
<1>12. OfInstrument(i, r) = g[n + 1] /\ OfInstrument(i, q) = f[n]
  <2> HIDE DEF r
  <2> QED BY <1>1, <1>2, <1>3, OfInstrumentIs
<1>13. << >> \o f[n] = f[n]
  BY <1>11
<1> HIDE DEF n
<1>14. OfInstrument(i, r) = first \o OfInstrument(i, q) /\ OfInstrument(i, q) \in Seq(Message)
  BY <1>11, <1>12
<1> QED BY <1>12, <1>13, <1>14

-----------------------------------------------------------------------------
(***************************************************************************)
(* Sharding is invisible: FeedReplay implements InstrumentReplay.          *)
(***************************************************************************)
\* What a shard has accepted and not yet applied.
Waiting(s) == (IF item[s] = NoMessage THEN << >> ELSE <<item[s]>>) \o queue[s]

LEMMA UnappliedIsWaiting ==
  ASSUME NEW i
  PROVE  Unapplied(i) = OfInstrument(i, Waiting(ShardOf(i)))
BY DEF Unapplied, Waiting

LEMMA OwnOrdersIsOnly ==
  ASSUME NEW i
  PROVE  OwnOrders(i) = Only(orders[ShardOf(i)], {i})
BY DEF OwnOrders, RestingOrders, Only

\* What the three steps that change it make of it.
LEMMA WaitingAfterDispatch ==
  ASSUME TypeOK, DispatchAccepted, NEW t \in Shard
  PROVE  /\ pending \in Message /\ Waiting(t) \in Seq(Message)
         /\ t = ShardOf(pending.instrument) => Waiting(t)' = Append(Waiting(t), pending)
         /\ t # ShardOf(pending.instrument) => Waiting(t)' = Waiting(t)
<1> DEFINE s == ShardOf(pending.instrument)
           inFlight == IF item[t] = NoMessage THEN << >> ELSE <<item[t]>>
<1>1. /\ pending \in Message /\ s \in Shard /\ queue \in [Shard -> Seq(Message)]
      /\ item[t] \in Message \cup {NoMessage} /\ queue[t] \in Seq(Message)
  BY MessageKinds, ShardOfInstrument DEF DispatchAccepted, TypeOK
<1>2. queue' = [queue EXCEPT ![s] = Append(@, pending)] /\ item' = item
  BY DEF DispatchAccepted, workerVars
<1>3. inFlight \in Seq(Message) /\ Waiting(t) = inFlight \o queue[t]
  BY <1>1 DEF Waiting
<1>4. Waiting(t)' = inFlight \o queue'[t]
  BY <1>2 DEF Waiting
<1>5. queue'[t] = IF t = s THEN Append(queue[t], pending) ELSE queue[t]
  BY <1>1, <1>2
<1> HIDE DEF inFlight
<1>6. Waiting(t) \in Seq(Message)
  BY <1>1, <1>3
<1> QED BY <1>1, <1>3, <1>4, <1>5, <1>6, AppendToConcat

LEMMA WaitingAfterPop ==
  ASSUME TypeOK, NEW s \in Shard, WorkerPop(s), NEW t \in Shard
  PROVE  Waiting(t)' = Waiting(t)
<1>1. /\ queue \in [Shard -> Seq(Message)] /\ queue[s] \in Seq(Message) /\ queue[s] # << >>
      /\ item \in [Shard -> Message \cup {NoMessage}] /\ item[s] = NoMessage
  BY DEF WorkerPop, TypeOK
<1>2. /\ queue' = [queue EXCEPT ![s] = Tail(queue[s])]
      /\ item' = [item EXCEPT ![s] = Head(queue[s])]
  BY DEF WorkerPop
<1>3. CASE t # s
  BY <1>1, <1>2, <1>3 DEF Waiting
<1>4. CASE t = s
  <2>1. queue'[t] = Tail(queue[t]) /\ item'[t] = Head(queue[t]) /\ Head(queue[t]) \in Message
    BY <1>1, <1>2, <1>4
  <2>2. <<Head(queue[t])>> \o Tail(queue[t]) = queue[t] /\ << >> \o queue[t] = queue[t]
    BY <1>1, <1>4
  <2> QED BY <1>1, <1>4, <2>1, <2>2, NothingIsNotSomething DEF Waiting
<1> QED BY <1>3, <1>4

LEMMA WaitingAfterApply ==
  ASSUME TypeOK, NEW s \in Shard, WorkerApply(s), NEW t \in Shard
  PROVE  /\ item[s] \in Message
         /\ queue[s] \in Seq(Message)
         /\ Waiting(s) = <<item[s]>> \o queue[s] /\ Waiting(s)' = queue[s]
         /\ t # s => Waiting(t)' = Waiting(t)
<1>1. /\ item[s] \in Message /\ item[s] # NoMessage /\ queue[s] \in Seq(Message)
      /\ item \in [Shard -> Message \cup {NoMessage}]
  BY NothingIsNotSomething DEF WorkerApply, TypeOK
<1>2. item' = [item EXCEPT ![s] = NoMessage] /\ queue' = queue
  BY DEF WorkerApply, dispatchVars
<1>3. item'[s] = NoMessage /\ (t # s => item'[t] = item[t])
  BY <1>1, <1>2
<1>4. << >> \o queue[s] = queue[s]
  BY <1>1
<1> QED BY <1>1, <1>2, <1>3, <1>4 DEF Waiting

\* apply() is the same function for both, and so is what it calls.
LEMMA SameIndex ==
  ASSUME NEW book, NEW price
  PROVE  /\ Replay!IndexOf(book, price) = IndexOf(book, price)
         /\ Replay!InBand(book, price) <=> InBand(book, price)
         /\ Replay!DropUpdate(book) = DropUpdate(book)
<1>1. Replay!IndexOf(book, price) = IndexOf(book, price)
  BY DEF Replay!IndexOf, IndexOf
<1>2. Replay!InBand(book, price) <=> InBand(book, price)
  BY <1>1 DEF Replay!InBand, InBand, Replay!Index, Index
<1>3. Replay!DropUpdate(book) = DropUpdate(book)
  BY DEF Replay!DropUpdate, DropUpdate
<1> QED BY <1>1, <1>2, <1>3

LEMMA SameAdd ==
  ASSUME NEW book, NEW side, NEW price, NEW qty
  PROVE  Replay!BookAdd(book, side, price, qty) = BookAdd(book, side, price, qty)
<1> DEFINE i == IndexOf(book, price)
<1>1. /\ Replay!IndexOf(book, price) = i /\ (Replay!InBand(book, price) <=> InBand(book, price))
      /\ Replay!DropUpdate(book) = DropUpdate(book)
  BY SameIndex
<1> HIDE DEF i
<1> QED BY <1>1 DEF Replay!BookAdd, BookAdd, i

LEMMA SameReduce ==
  ASSUME NEW book, NEW side, NEW price, NEW qty
  PROVE  Replay!BookReduce(book, side, price, qty) = BookReduce(book, side, price, qty)
<1> DEFINE i == IndexOf(book, price)
<1>1. /\ Replay!IndexOf(book, price) = i /\ (Replay!InBand(book, price) <=> InBand(book, price))
      /\ Replay!DropUpdate(book) = DropUpdate(book)
  BY SameIndex
<1>2. \A q : Replay!Minus(q, qty) = Minus(q, qty)
  BY DEF Replay!Minus, Minus
<1>3. \A levels, from : /\ Replay!WalkDown(levels, from) = WalkDown(levels, from)
                        /\ Replay!WalkUp(levels, from) = WalkUp(levels, from)
  BY DEF Replay!WalkDown, WalkDown, Replay!WalkUp, WalkUp
<1> HIDE DEF i
<1> QED BY <1>1, <1>2, <1>3 DEF Replay!BookReduce, BookReduce, i

LEMMA SameApply ==
  ASSUME NEW v, NEW m
  PROVE  Replay!Apply(v, m) = Apply(v, m)
<1>1. Replay!NoOrder = NoOrder
  BY DEF Replay!NoOrder, NoOrder
<1>2. \A book, side, price, qty :
        Replay!BookAdd(book, side, price, qty) = BookAdd(book, side, price, qty)
  BY SameAdd
<1>3. \A book, side, price, qty :
        Replay!BookReduce(book, side, price, qty) = BookReduce(book, side, price, qty)
  BY SameReduce
<1>4. \A a, b : Replay!SmallerOf(a, b) = SmallerOf(a, b)
  BY DEF Replay!SmallerOf, SmallerOf
<1>5. Replay!ApplyAdd(v, m) = ApplyAdd(v, m)
  BY <1>2 DEF Replay!ApplyAdd, ApplyAdd
<1>6. Replay!ApplyTake(v, m) = ApplyTake(v, m)
  BY <1>1, <1>3, <1>4 DEF Replay!ApplyTake, ApplyTake
<1>7. Replay!ApplyDelete(v, m) = ApplyDelete(v, m)
  BY <1>1, <1>3 DEF Replay!ApplyDelete, ApplyDelete
<1>8. Replay!ApplyReplace(v, m) = ApplyReplace(v, m)
  BY <1>1, <1>2, <1>3 DEF Replay!ApplyReplace, ApplyReplace
<1> QED BY <1>5, <1>6, <1>7, <1>8 DEF Replay!Apply, Apply

\* What the instruments see, by name.
Backlog == [i \in Instrument |-> Unapplied(i)]

Views == [i \in Instrument |->
           [orders |-> OwnOrders(i), book |-> books[ShardOf(i)][i]]]

LEMMA ReplayStarts ==
  ASSUME Init
  PROVE  Replay!ReplayInit
<1>1. ASSUME NEW i \in Instrument
      PROVE  /\ Unapplied(i) = << >> /\ OwnOrders(i) = NoOrders
             /\ books[ShardOf(i)][i] = BookInit(ReferencePrice[i])
  <2>1. /\ ShardOf(i) \in Shard /\ queue[ShardOf(i)] = << >>
        /\ item[ShardOf(i)] = NoMessage /\ orders[ShardOf(i)] = NoOrders
        /\ books[ShardOf(i)] = NewBooks
    BY ShardOfInstrument DEF Init
  <2>2. Waiting(ShardOf(i)) = << >>
    BY <2>1 DEF Waiting
  <2>3. OwnOrders(i) = NoOrders
    BY <2>1, OwnOrdersIsOnly DEF Only, NoOrders
  <2> QED BY <2>1, <2>2, <2>3, UnappliedIsWaiting, OfInstrumentEmpty DEF NewBooks
<1>2. Replay!NoOrders = NoOrders /\ \A price : Replay!BookInit(price) = BookInit(price)
  BY DEF Replay!NoOrders, NoOrders, Replay!NoOrder, NoOrder, Replay!OrderId, OrderId,
     Replay!BookInit, BookInit, Replay!Index, Index
<1>3. Replay!Instrument = Instrument
  BY DEF Replay!Instrument, Instrument
<1> QED BY <1>1, <1>2, <1>3 DEF Replay!ReplayInit

\* A message accepted by the queue of a shard is accepted for its instrument.
LEMMA ReplayAccepts ==
  ASSUME TypedBooks, DispatchAccepted
  PROVE  Replay!ReplayNext
<1> DEFINE m == pending
           i == m.instrument
<1>1. /\ m \in Message /\ i \in Instrument /\ ShardOf(i) \in Shard /\ TypeOK
      /\ orders' = orders /\ books' = books
  BY MessageKinds, ShardOfInstrument
  DEF DispatchAccepted, TypedBooks, TypeOK, shardVars
<1>2. ASSUME NEW j \in Instrument
      PROVE  /\ Unapplied(j) \in Seq(Message)
             /\ Unapplied(j)' = IF j = i THEN Append(Unapplied(j), m) ELSE Unapplied(j)
  <2>1. /\ ShardOf(j) \in Shard /\ Waiting(ShardOf(j)) \in Seq(Message)
        /\ Unapplied(j) = OfInstrument(j, Waiting(ShardOf(j)))
        /\ Unapplied(j)' = OfInstrument(j, Waiting(ShardOf(j))')
    BY <1>1, ShardOfInstrument, WaitingAfterDispatch, UnappliedIsWaiting
    DEF Unapplied, Waiting
  <2>2. Unapplied(j) \in Seq(Message)
    BY <1>1, <2>1, OfInstrumentFirst
  <2>3. CASE ShardOf(j) = ShardOf(i)
    <3>1. Waiting(ShardOf(j))' = Append(Waiting(ShardOf(j)), m)
      BY <1>1, <2>1, <2>3, WaitingAfterDispatch
    <3>2. Unapplied(j)' = OneMore(j, Unapplied(j), m)
      BY <1>1, <2>1, <3>1, OfInstrumentAppend
    <3> QED BY <2>2, <3>2 DEF OneMore
  <2>4. CASE ShardOf(j) # ShardOf(i)
    <3>1. Waiting(ShardOf(j))' = Waiting(ShardOf(j)) /\ j # i
      BY <1>1, <2>1, <2>4, WaitingAfterDispatch
    <3> QED BY <2>1, <2>2, <3>1
  <2> QED BY <2>3, <2>4
<1>3. Views' = Views
  BY <1>1 DEF Views, OwnOrders, RestingOrders
<1>4. /\ Backlog' = [Backlog EXCEPT ![i] = Append(@, m)]
      /\ Backlog'[i] = Append(Unapplied(i), m)
  BY <1>1, <1>2 DEF Backlog
<1>5. Backlog'[i] # << >> /\ Backlog'[i][Len(Backlog'[i])] = m
  <2>1. Unapplied(i) \in Seq(Message)
    BY <1>1, <1>2
  <2> QED BY <1>1, <1>4, <2>1
<1>6. Replay!Instrument = Instrument
  BY DEF Replay!Instrument, Instrument
<1>7. Replay!Accept(i, m)
  BY <1>3, <1>4 DEF Replay!Accept, Backlog, Views
<1> QED BY <1>1, <1>5, <1>6, <1>7 DEF Replay!ReplayNext, Backlog

\* A message applied by the worker of a shard is the next of its instrument.
LEMMA ReplayWorks ==
  ASSUME TypedBooks, NEW owner, NEW next, Routed(owner, next),
         NEW s \in Shard, WorkerApply(s)
  PROVE  Replay!ReplayNext
<1>m. PICK m \in Message : m = item[s] /\ m # NoMessage
  BY NothingIsNotSomething DEF TypedBooks, TypeOK, WorkerApply
<1>i. PICK i \in Instrument : i = m.instrument
  BY MessageKinds
<1> DEFINE after == Apply([orders |-> orders[s], book |-> books[s][i]], m)
<1>1. /\ m \in Message /\ i = m.instrument /\ i \in Instrument /\ ShardOf(i) = s
      /\ orders \in [Shard -> OrderMap] /\ books \in [Shard -> Books] /\ TypeOK
      /\ NamesOwn(orders[s], m)
  <2>1. orders[s] \in OrderMap
    BY DEF TypedBooks, TypeOK
  <2>2. Owns(owner, next, m) /\ OwnsAll(owner, next, orders[s]) /\ ShardOf(i) = s
    BY <1>m, <1>i DEF Routed
  <2> QED BY <1>m, <1>i, <2>1, <2>2, OwnerNamesOwn DEF TypedBooks, TypeOK
<1>2. /\ orders' = [orders EXCEPT ![s] = after.orders]
      /\ books' = [books EXCEPT ![s][i] = after.book]
  BY <1>m, <1>i DEF WorkerApply
<1>3. ASSUME NEW j \in Instrument
      PROVE  /\ Unapplied(j)' \in Seq(Message)
             /\ Unapplied(j) = IF j = i THEN <<m>> \o Unapplied(j)' ELSE Unapplied(j)'
  <2>1. /\ ShardOf(j) \in Shard
        /\ Unapplied(j) = OfInstrument(j, Waiting(ShardOf(j)))
        /\ Unapplied(j)' = OfInstrument(j, Waiting(ShardOf(j))')
    BY ShardOfInstrument, UnappliedIsWaiting DEF Unapplied, Waiting
  <2>2. /\ queue[s] \in Seq(Message)
        /\ Waiting(s) = <<m>> \o queue[s] /\ Waiting(s)' = queue[s]
        /\ ShardOf(j) # s => Waiting(ShardOf(j))' = Waiting(ShardOf(j))
    BY <1>m, <1>1, <2>1, WaitingAfterApply
  <2>3. CASE ShardOf(j) = s
    <3>1. /\ Unapplied(j)' = OfInstrument(j, queue[s])
          /\ Unapplied(j) = OfInstrument(j, <<m>> \o queue[s])
      BY <2>1, <2>2, <2>3
    <3>2. OfInstrument(j, queue[s]) \in Seq(Message)
      BY <1>1, <2>2, OfInstrumentFirst
    <3>3. OfInstrument(j, <<m>> \o queue[s])
            = IF m.instrument = j THEN <<m>> \o OfInstrument(j, queue[s])
              ELSE OfInstrument(j, queue[s])
      BY <1>1, <2>2, OfInstrumentFirst
    <3> QED BY <1>1, <3>1, <3>2, <3>3
  <2>4. CASE ShardOf(j) # s
    <3>1. Waiting(ShardOf(j)) \in Seq(Message)
      <4>1. item[ShardOf(j)] \in Message \cup {NoMessage} /\ queue[ShardOf(j)] \in Seq(Message)
        BY <1>1, <2>1 DEF TypeOK
      <4> QED BY <4>1 DEF Waiting
    <3>2. /\ Unapplied(j) = OfInstrument(j, Waiting(ShardOf(j)))
          /\ Unapplied(j)' = OfInstrument(j, Waiting(ShardOf(j)))
      BY <2>1, <2>2, <2>4
    <3>3. OfInstrument(j, Waiting(ShardOf(j))) \in Seq(Message)
      BY <3>1, OfInstrumentFirst
    <3>4. j # i
      BY <1>1, <2>4
    <3> QED BY <3>2, <3>3, <3>4
  <2> QED BY <2>3, <2>4
<1>4. ASSUME NEW j \in Instrument
      PROVE  [orders |-> OwnOrders(j), book |-> books[ShardOf(j)][j]]'
               = IF j = i THEN Apply(Views[i], m) ELSE Views[j]
  <2>1. /\ OwnOrders(j) = Only(orders[ShardOf(j)], {j})
        /\ OwnOrders(j)' = Only(orders'[ShardOf(j)], {j}) /\ ShardOf(j) \in Shard
    BY OwnOrdersIsOnly, ShardOfInstrument DEF OwnOrders, RestingOrders, Only
  <2>2. CASE j = i
    <3>1. Apply([orders |-> Only(orders[s], {i}), book |-> books[s][i]], m)
            = [orders |-> Only(after.orders, {i}), book |-> after.book]
      BY <1>1, ApplyOnlyOwn
    <3> HIDE DEF after
    <3>2. orders'[s] = after.orders /\ books'[s][i] = after.book
      BY <1>1, <1>2 DEF Books
    <3> QED BY <1>1, <2>1, <2>2, <3>1, <3>2 DEF Views
  <2>3. CASE j # i
    <3>1. books'[ShardOf(j)][j] = books[ShardOf(j)][j]
      <4> HIDE DEF after
      <4> QED BY <1>1, <1>2, <2>1, <2>3 DEF Books
    <3>2. Only(orders'[ShardOf(j)], {j}) = Only(orders[ShardOf(j)], {j})
      <4>1. CASE ShardOf(j) = s
        <5>1. Only(after.orders, {j}) = Only(orders[s], {j})
          BY <1>1, <2>3, ApplyOnlyOthers
        <5> HIDE DEF after
        <5>2. orders'[s] = after.orders
          BY <1>1, <1>2
        <5> QED BY <4>1, <5>1, <5>2
      <4>2. CASE ShardOf(j) # s
        <5> HIDE DEF after
        <5> QED BY <1>1, <1>2, <2>1, <4>2
      <4> QED BY <4>1, <4>2
    <3> QED BY <2>1, <2>3, <3>1, <3>2 DEF Views
  <2> QED BY <2>2, <2>3
<1>5. /\ Backlog[i] # << >> /\ Head(Backlog[i]) = m
      /\ Backlog' = [Backlog EXCEPT ![i] = Tail(@)]
  <2>1. Backlog[i] = <<m>> \o Unapplied(i)' /\ Unapplied(i)' \in Seq(Message)
    <3> HIDE DEF after
    <3>1. Unapplied(i) = <<m>> \o Unapplied(i)' /\ Unapplied(i)' \in Seq(Message)
      BY <1>1, <1>3
    <3> QED BY <1>1, <3>1 DEF Backlog
  <2>2. Backlog[i] # << >> /\ Head(Backlog[i]) = m /\ Tail(Backlog[i]) = Unapplied(i)'
    BY <1>1, <2>1
  <2>3. DOMAIN Backlog = Instrument /\ DOMAIN Backlog' = Instrument
    BY DEF Backlog
  <2>4. \A j \in Instrument : Backlog'[j] = IF j = i THEN Tail(Backlog[i]) ELSE Backlog[j]
    BY <1>3, <2>2 DEF Backlog
  <2>5. Backlog' = [j \in Instrument |-> Backlog'[j]] /\ Backlog = [j \in Instrument |-> Backlog[j]]
    BY DEF Backlog
  <2> QED BY <2>2, <2>3, <2>4, <2>5
<1>6. Views' = [Views EXCEPT ![i] = Apply(@, Head(Backlog[i]))]
  BY <1>1, <1>4, <1>5 DEF Views
<1>7. Replay!Instrument = Instrument
  BY DEF Replay!Instrument, Instrument
<1>8. Views' = [Views EXCEPT ![i] = Replay!Apply(@, Head(Backlog[i]))]
  BY <1>6, SameApply
<1>9. Replay!Work(i)
  BY <1>5, <1>8 DEF Replay!Work, Backlog, Views
<1> QED BY <1>7, <1>9 DEF Replay!ReplayNext

\* Every other step is invisible to the instruments.
LEMMA ReplayStutters ==
  ASSUME UNCHANGED <<orders, books>>, \A s \in Shard : Waiting(s)' = Waiting(s)
  PROVE  UNCHANGED Replay!replayVars
<1>1. Views' = Views
  BY DEF Views, OwnOrders, RestingOrders
<1>2. ASSUME NEW i \in Instrument PROVE Unapplied(i)' = Unapplied(i)
  <2>1. Unapplied(i)' = OfInstrument(i, Waiting(ShardOf(i))')
    BY DEF Unapplied, Waiting
  <2> QED BY <2>1, UnappliedIsWaiting, ShardOfInstrument
<1>3. Backlog' = Backlog
  BY <1>2 DEF Backlog
<1> QED BY <1>1, <1>3 DEF Replay!replayVars, Backlog, Views

LEMMA ReplayStep ==
  ASSUME FeedInv, [FeedNext]_feedVars
  PROVE  [Replay!ReplayNext]_Replay!replayVars
<1>1. TypedBooks /\ TypeOK
  BY DEF FeedInv, TypedBooks
<1>2. ASSUME UNCHANGED <<orders, books, item, queue>>
      PROVE  UNCHANGED Replay!replayVars
  BY <1>2, ReplayStutters DEF Waiting
<1>3. CASE DispatchAccepted
  BY <1>1, <1>3, ReplayAccepts
<1>4. ASSUME NEW s \in Shard, WorkerApply(s) PROVE Replay!ReplayNext
  BY <1>1, <1>4, ReplayWorks DEF FeedInv
<1>5. ASSUME NEW s \in Shard, WorkerPop(s) PROVE UNCHANGED Replay!replayVars
  <2>1. UNCHANGED <<orders, books>>
    BY <1>5 DEF WorkerPop, shardVars
  <2> QED BY <1>1, <1>5, <2>1, WaitingAfterPop, ReplayStutters
<1>6. CASE FetchNext \/ Start \/ DispatchRefused \/ DrainBegin \/ DrainStep
  BY <1>2, <1>6 DEF FetchNext, Start, DispatchRefused, DrainBegin, DrainStep, DrainShard,
     RaiseStop, Join, shardVars, workerVars, dispatchVars
<1>7. ASSUME NEW s \in Shard, WorkerFindsEmpty(s) \/ WorkerChecksStop(s)
      PROVE  UNCHANGED Replay!replayVars
  BY <1>2, <1>7 DEF WorkerFindsEmpty, WorkerChecksStop, shardVars, dispatchVars
<1>8. CASE UNCHANGED feedVars
  BY <1>2, <1>8 DEF feedVars, vars, shardVars, workerVars, dispatchVars
<1> QED BY <1>3, <1>4, <1>5, <1>6, <1>7, <1>8 DEF FeedNext, NormalizerStep, WorkerStep

\* Instruments that share a worker, a queue and an order map behave as if each had
\* its own: every behaviour of the pipeline, projected on the instruments, is a
\* behaviour of InstrumentReplay.
THEOREM ImplementsReplayHolds == FeedSpec => ImplementsReplay
<1>1. FeedInit => Replay!ReplayInit
  BY ReplayStarts DEF FeedInit
<1>2. FeedInv /\ [FeedNext]_feedVars => [Replay!ReplayNext]_Replay!replayVars
  BY ReplayStep
<1> QED
  BY <1>1, <1>2, FeedInvHolds, PTL DEF FeedSpec, ImplementsReplay, Replay!ReplaySpec
=============================================================================
