----------------------------- MODULE Normalizer -----------------------------
(***************************************************************************)
(* Normalizer (include/normalizer.hpp): a dispatcher thread routes every   *)
(* message to the queue of its instrument's shard, one worker thread per   *)
(* shard pops and applies, and drain_and_stop() waits for the queues to    *)
(* empty, raises the stop flag and joins the workers.                      *)
(*                                                                         *)
(* The shard queue is the bounded queue that SpscRing implements.  The     *)
(* actions that choose what to dispatch and when to drain belong to the    *)
(* caller; FeedReplay and LiveFeed are two callers.                        *)
(***************************************************************************)
EXTENDS Protocol, Sequences

CONSTANTS NumShards,        \* num_shards
          Room,             \* items a shard queue holds: kQueueCapacity - 1
          ReferencePrice,   \* init_reference_price() of each instrument
          MaxRefusals       \* refused dispatches counted per shard; bounds the run

ASSUME ShardsAssumption == NumShards \in Nat \ {0}
ASSUME RoomAssumption == Room \in Nat \ {0}
ASSUME ReferencePriceAssumption == ReferencePrice \in [Instrument -> Int]

VARIABLES queue,        \* Shard::queue
          orders,       \* Shard::orders
          books,        \* Shard::books, named by instrument
          processed,    \* Shard::processed
          droppedFull,  \* Shard::dropped_full
          worker,       \* where the worker of a shard is in worker_loop()
          item,         \* what its pop() returned
          stop,         \* stop_
          mpc,          \* where the owner is in start() ... drain_and_stop()
          drainAt,      \* the shard the owner's drain or join loop is at
          pending,      \* the message the dispatcher is holding
          accepted,     \* history: how many messages each shard's queue took
          reference     \* history: the accepted messages applied at once by
                        \* one shard that has every instrument

shardVars == <<orders, books, processed>>
workerVars == <<worker, item>>
ownerVars == <<stop, mpc, drainAt>>
dispatchVars == <<queue, droppedFull, accepted, reference>>
vars == <<shardVars, workerVars, ownerVars, dispatchVars, pending>>

Shard == 0 .. NumShards - 1

\* instrument_to_shard_.  instrument_to_local_ names the book within the
\* shard; here the instrument names it.
ShardOf(i) == i % NumShards

NewBooks == [i \in Instrument |-> BookInit(ReferencePrice[i])]

\* The constructor and init_reference_price() for every instrument.
Init ==
  /\ queue = [s \in Shard |-> << >>]
  /\ orders = [s \in Shard |-> NoOrders]
  /\ books = [s \in Shard |-> NewBooks]
  /\ processed = [s \in Shard |-> 0]
  /\ droppedFull = [s \in Shard |-> 0]
  /\ worker = [s \in Shard |-> "unstarted"]
  /\ item = [s \in Shard |-> NoMessage]
  /\ stop = FALSE /\ mpc = "constructed" /\ drainAt = 0
  /\ pending = NoMessage
  /\ accepted = [s \in Shard |-> 0]
  /\ reference = [orders |-> NoOrders, books |-> NewBooks]

\* start()
Start ==
  /\ mpc = "constructed"
  /\ worker' = [s \in Shard |-> "polling"]
  /\ mpc' = "running"
  /\ UNCHANGED <<shardVars, item, stop, drainAt, dispatchVars, pending>>

(***************************************************************************)
(* dispatch(), called by one thread with the message it holds.             *)
(***************************************************************************)
ReferenceAfter(m) ==
  LET after == Apply([orders |-> reference.orders,
                      book |-> reference.books[m.instrument]], m)
  IN  [orders |-> after.orders,
       books  |-> [reference.books EXCEPT ![m.instrument] = after.book]]

\* Variant: the order id chooses the shard.
DispatchByOrder ==
  LET s == ShardOf(pending.id)
  IN  /\ pending # NoMessage
      /\ Len(queue[s]) < Room
      /\ queue' = [queue EXCEPT ![s] = Append(@, pending)]
      /\ accepted' = [accepted EXCEPT ![s] = @ + 1]
      /\ reference' = ReferenceAfter(pending)
      /\ pending' = NoMessage
      /\ UNCHANGED <<shardVars, workerVars, ownerVars, droppedFull>>

DispatchAccepted ==
  LET s == ShardOf(pending.instrument)
  IN  /\ pending # NoMessage
      /\ Len(queue[s]) < Room
      /\ queue' = [queue EXCEPT ![s] = Append(@, pending)]
      /\ accepted' = [accepted EXCEPT ![s] = @ + 1]
      /\ reference' = ReferenceAfter(pending)
      /\ pending' = NoMessage
      /\ UNCHANGED <<shardVars, workerVars, ownerVars, droppedFull>>

\* push() returned false.  The tests, the benchmark and OfflineBooks call
\* again with the same message; the live receiver goes on to the next one.  The
\* ring may also refuse, or look empty to the worker, on a tail or head it has not
\* seen yet (SpscRing has that): it is then as if the other thread were a moment
\* behind, since the two meet at the queue only.
DispatchRefused ==
  LET s == ShardOf(pending.instrument)
  IN  /\ pending # NoMessage
      /\ Len(queue[s]) = Room
      /\ droppedFull[s] < MaxRefusals
      /\ droppedFull' = [droppedFull EXCEPT ![s] = @ + 1]
      /\ pending' \in {pending, NoMessage}
      /\ UNCHANGED <<shardVars, workerVars, ownerVars, queue, accepted, reference>>

(***************************************************************************)
(* worker_loop()                                                           *)
(***************************************************************************)
WorkerPop(s) ==
  /\ worker[s] = "polling"
  /\ queue[s] # << >>
  /\ item' = [item EXCEPT ![s] = Head(queue[s])]
  /\ queue' = [queue EXCEPT ![s] = Tail(@)]
  /\ worker' = [worker EXCEPT ![s] = "applying"]
  /\ UNCHANGED <<shardVars, ownerVars, droppedFull, accepted, reference, pending>>

\* Variant: the first book of the shard takes every message.
WorkerAppliesFirstBook(s) ==
  LET after == Apply([orders |-> orders[s], book |-> books[s][s]], item[s])
  IN  /\ worker[s] = "applying"
      /\ orders' = [orders EXCEPT ![s] = after.orders]
      /\ books' = [books EXCEPT ![s][s] = after.book]
      /\ processed' = [processed EXCEPT ![s] = @ + 1]
      /\ item' = [item EXCEPT ![s] = NoMessage]
      /\ worker' = [worker EXCEPT ![s] = "polling"]
      /\ UNCHANGED <<ownerVars, dispatchVars, pending>>

\* apply() and the statistics after it.  No other thread touches the shard.
WorkerApply(s) ==
  LET i == item[s].instrument
      after == Apply([orders |-> orders[s], book |-> books[s][i]], item[s])
  IN  /\ worker[s] = "applying"
      /\ orders' = [orders EXCEPT ![s] = after.orders]
      /\ books' = [books EXCEPT ![s][i] = after.book]
      /\ processed' = [processed EXCEPT ![s] = @ + 1]
      /\ item' = [item EXCEPT ![s] = NoMessage]
      /\ worker' = [worker EXCEPT ![s] = "polling"]
      /\ UNCHANGED <<ownerVars, dispatchVars, pending>>

\* pop() found the queue empty; the stop flag is looked at afterwards.
WorkerFindsEmpty(s) ==
  /\ worker[s] = "polling"
  /\ queue[s] = << >>
  /\ worker' = [worker EXCEPT ![s] = "checking"]
  /\ UNCHANGED <<shardVars, item, ownerVars, dispatchVars, pending>>

\* Variant: the flag is looked at only once messages have been processed.
WorkerStopsAfterWork(s) ==
  /\ worker[s] = "checking"
  /\ worker' = [worker EXCEPT ![s] = IF stop /\ processed[s] > 0
                                    THEN "exited" ELSE "polling"]
  /\ UNCHANGED <<shardVars, item, ownerVars, dispatchVars, pending>>

WorkerChecksStop(s) ==
  /\ worker[s] = "checking"
  /\ worker' = [worker EXCEPT ![s] = IF stop THEN "exited" ELSE "polling"]
  /\ UNCHANGED <<shardVars, item, ownerVars, dispatchVars, pending>>

WorkerStep(s) ==
  WorkerPop(s) \/ WorkerApply(s) \/ WorkerFindsEmpty(s) \/ WorkerChecksStop(s)

(***************************************************************************)
(* drain_and_stop(): wait for the queues one shard after the other, raise  *)
(* the flag, join the workers one after the other.                         *)
(***************************************************************************)
\* Variant: the drain begins while a message is being dispatched.
DrainBeginEarly ==
  /\ mpc = "running"
  /\ mpc' = "draining" /\ drainAt' = 0
  /\ UNCHANGED <<shardVars, workerVars, stop, dispatchVars, pending>>

DrainBegin ==
  /\ mpc = "running" /\ pending = NoMessage
  /\ mpc' = "draining" /\ drainAt' = 0
  /\ UNCHANGED <<shardVars, workerVars, stop, dispatchVars, pending>>

DrainShard ==
  /\ mpc = "draining" /\ drainAt < NumShards
  /\ queue[drainAt] = << >>
  /\ drainAt' = drainAt + 1
  /\ UNCHANGED <<shardVars, workerVars, stop, mpc, dispatchVars, pending>>

RaiseStop ==
  /\ mpc = "draining" /\ drainAt = NumShards
  /\ stop' = TRUE
  /\ mpc' = "joining" /\ drainAt' = 0
  /\ UNCHANGED <<shardVars, workerVars, dispatchVars, pending>>

Join ==
  /\ mpc = "joining" /\ drainAt < NumShards
  /\ worker[drainAt] = "exited"
  /\ drainAt' = drainAt + 1
  /\ mpc' = IF drainAt' = NumShards THEN "stopped" ELSE mpc
  /\ UNCHANGED <<shardVars, workerVars, stop, dispatchVars, pending>>

DrainStep == DrainShard \/ RaiseStop \/ Join

\* What the normalizer does whoever the caller is.
NormalizerStep ==
  \/ Start \/ DispatchAccepted \/ DispatchRefused
  \/ DrainBegin \/ DrainStep
  \/ \E s \in Shard : WorkerStep(s)

\* The caller takes up the next message, which may be any, as long as it has
\* not begun to drain.
Fetch(m) ==
  /\ mpc = "running" /\ pending = NoMessage
  /\ pending' = m
  /\ UNCHANGED <<shardVars, workerVars, ownerVars, dispatchVars>>

Next == NormalizerStep \/ \E m \in Message : Fetch(m)

Spec == Init /\ [][Next]_vars

-----------------------------------------------------------------------------
Books == [Instrument -> Book]

\* Every variable has the type the class declares for it; the queues respect
\* their capacity, and a worker holds an item exactly while it applies it.
TypeOK ==
  /\ queue \in [Shard -> Seq(Message)]
  /\ \A s \in Shard : Len(queue[s]) <= Room
  /\ orders \in [Shard -> OrderMap]
  /\ books \in [Shard -> Books]
  /\ processed \in [Shard -> Nat] /\ accepted \in [Shard -> Nat]
  /\ droppedFull \in [Shard -> Nat]
  /\ worker \in [Shard -> {"unstarted", "polling", "applying", "checking", "exited"}]
  /\ item \in [Shard -> Message \cup {NoMessage}]
  /\ \A s \in Shard : worker[s] = "applying" <=> item[s] # NoMessage
  /\ stop \in BOOLEAN
  /\ mpc \in {"constructed", "running", "draining", "joining", "stopped"}
  /\ drainAt \in 0 .. NumShards
  /\ pending \in Message \cup {NoMessage}
  /\ reference.orders \in OrderMap /\ reference.books \in Books

\* Top of book: after every message, in every book, no level better than the
\* best index has quantity and the level at the best index has some, whatever
\* sequence of messages (unknown, repeated, out of band) was applied.
TopOfBook ==
  \A s \in Shard : \A i \in Instrument :
    NothingBetter(books[s][i]) /\ BestIsOccupied(books[s][i])

\* "Signal shutdown once all messages have been dispatched, then join": when
\* the workers have been joined, every accepted message has been applied.
DrainComplete ==
  mpc = "stopped" =>
    \A s \in Shard : /\ queue[s] = << >> /\ item[s] = NoMessage
                     /\ processed[s] = accepted[s]
=============================================================================
