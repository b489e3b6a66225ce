---------------------------- MODULE MCFeedReplay ----------------------------
(***************************************************************************)
(* Three instruments on two shards, so that one shard serves two of them.  *)
(* The price of instrument 0 drifts upwards and its orders are executed in *)
(* parts: after one drift its offers are above its band of 8 .. 11.  The   *)
(* other two only have bids of single shares at a steady price; they are   *)
(* there to share the queue, the worker and the order map.                 *)
(***************************************************************************)
EXTENDS FeedReplay

MCStartPrices == 10 .. 12
MCReferencePrice == [i \in Instrument |-> 10 + i]

Steady(i) ==
  /\ refPrice'[i] = refPrice[i]
  /\ \A order \in liveOrders'[i] : order.qty = 1 /\ order.side = "Buy"

MCFetch ==
  /\ FetchNext
  /\ refPrice'[0] >= refPrice[0]
  /\ \A i \in Instrument \ {0} : Steady(i)

MCFeedNext == MCFetch \/ (NormalizerStep /\ UNCHANGED simVars)

MCFeedSpec == FeedInit /\ [][MCFeedNext]_feedVars /\ FeedFairness
=============================================================================
