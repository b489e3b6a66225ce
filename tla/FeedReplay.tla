----------------------------- MODULE FeedReplay -----------------------------
(***************************************************************************)
(* The offline pipeline: the dispatcher takes messages from the simulator, *)
(* hands them to the sharded normalizer and drains it.  This is what       *)
(* tests/correctness_test.cpp, OfflineBooks and src/decoder_bench.cpp do.  *)
(* They generate all messages first; a message does not depend on what was *)
(* done with the earlier ones, so it is generated here when it is needed.  *)
(***************************************************************************)
EXTENDS Normalizer, MarketSimulator, Functions

feedVars == <<vars, simVars>>

\* Every book is centred on the price the simulator starts from, as the test and
\* OfflineBooks centre it; the benchmark takes the price the simulator ends at.
FeedInit == Init /\ SimInit /\ refPrice = ReferencePrice

FetchNext ==
  /\ mpc = "running" /\ pending = NoMessage
  /\ \E i \in Instrument, drift \in Drift : NextMessage(i, drift, pending')
  /\ UNCHANGED <<shardVars, workerVars, ownerVars, dispatchVars>>

FeedNext == FetchNext \/ (NormalizerStep /\ UNCHANGED simVars)

\* The operating system runs the owner's thread and every worker now and then.
FeedFairness ==
  /\ WF_feedVars(DrainStep /\ UNCHANGED simVars)
  /\ \A s \in Shard : WF_feedVars(WorkerStep(s) /\ UNCHANGED simVars)

FeedSpec == FeedInit /\ [][FeedNext]_feedVars /\ FeedFairness

-----------------------------------------------------------------------------
\* The orders of instrument i that the order map of its shard holds.
RestingOrders(i) ==
  {id \in OrderId : /\ orders[ShardOf(i)][id] # NoOrder
                    /\ orders[ShardOf(i)][id].instrument = i}

RestingQty(i, side, index) ==
  LET s  == ShardOf(i)
      at == {id \in RestingOrders(i) :
               /\ orders[s][id].side = side
               /\ IndexOf(books[s][i], orders[s][id].price) = index}
  IN  SumFunction([id \in at |-> orders[s][id].qty])

\* The aggregated book and the order map describe the same market: every level
\* of every book holds exactly the sum of the resting orders priced there,
\* through partial executions, replaces, drifting prices that leave the band
\* and messages lost to a full queue.
LevelsAreOrders ==
  \A i \in Instrument : \A index \in Index :
    LET book == books[ShardOf(i)][i]
    IN  /\ book.bid[index] = RestingQty(i, "Buy", index)
        /\ book.ask[index] = RestingQty(i, "Sell", index)

\* tests/correctness_test.cpp: once drained, the book of every instrument is
\* the one a single-threaded, single-shard replay of the same messages builds.
MatchesReference ==
  mpc = "stopped" =>
    \A i \in Instrument : books[ShardOf(i)][i] = reference.books[i]

\* drain_and_stop() returns: no worker exits with messages left, none waits
\* for a flag that was raised before it looked, and the owner joins them all.
DrainTerminates == mpc = "draining" ~> mpc = "stopped"

\* The view of one instrument: its own orders and book, and what its shard
\* still has to apply for it.
OwnOrders(i) ==
  [id \in OrderId |->
    IF id \in RestingOrders(i) THEN orders[ShardOf(i)][id] ELSE NoOrder]

OneMore(i, taken, m) == IF m.instrument = i THEN Append(taken, m) ELSE taken

\* The messages of q that are of instrument i, in their order.
OfInstrument(i, q) ==
  LET upTo[k \in 0 .. Len(q)] ==
        IF k = 0 THEN << >> ELSE OneMore(i, upTo[k - 1], q[k])
  IN  upTo[Len(q)]

Unapplied(i) ==
  LET s == ShardOf(i)
      inFlight == IF item[s] = NoMessage THEN << >> ELSE <<item[s]>>
  IN  OfInstrument(i, inFlight \o queue[s])

Replay == INSTANCE InstrumentReplay WITH
  backlog <- [i \in Instrument |-> Unapplied(i)],
  view    <- [i \in Instrument |->
               [orders |-> OwnOrders(i), book |-> books[ShardOf(i)][i]]]

\* Sharding is invisible: instruments that share a worker, a queue and an order
\* map behave as if each were replayed alone.
ImplementsReplay == Replay!ReplaySpec
=============================================================================
