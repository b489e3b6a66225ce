---------------------------- MODULE MCNormalizer ----------------------------
(***************************************************************************)
(* The normalizer fed by a caller that dispatches anything: orders nobody  *)
(* added, ids used twice in one shard, a Replace onto its own id, prices   *)
(* outside the band.                                                       *)
(***************************************************************************)
EXTENDS Normalizer, Functions

CONSTANT MaxAccepted   \* accepted messages; bounds the run

MCReferencePrice == [i \in Instrument |-> 10 + i]

AddAt(i, id, side, price, qty) ==
  [type |-> "Add", instrument |-> i, id |-> id, side |-> side, price |-> price,
   qty |-> qty]

\* Instruments 0 and 2 share a shard; band of 0: 8 .. 11, of 1: 9 .. 12.
MCFeed ==
  {AddAt(0, 1, "Buy", 9, 2), AddAt(0, 2, "Sell", 11, 1), AddAt(0, 2, "Buy", 8, 1),
   AddAt(2, 1, "Sell", 13, 1), AddAt(0, 1, "Sell", 12, 1),
   [type |-> "Execute", instrument |-> 0, id |-> 1, qty |-> 1],
   [type |-> "Cancel", instrument |-> 1, id |-> 2, qty |-> 3],
   [type |-> "Delete", instrument |-> 0, id |-> 1],
   [type |-> "Replace", instrument |-> 0, id |-> 1, newId |-> 1, price |-> 10,
    qty |-> 1],
   [type |-> "Replace", instrument |-> 0, id |-> 2, newId |-> 1, price |-> 9,
    qty |-> 2]}

MCFetch ==
  \E m \in MCFeed :
    /\ SumFunction(accepted) < MaxAccepted
    /\ Fetch(m)

MCNext == NormalizerStep \/ MCFetch

MCSpec == Init /\ [][MCNext]_vars
=============================================================================
