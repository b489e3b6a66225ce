-------------------------- MODULE MCFaultInjection --------------------------
(***************************************************************************)
(* Three venues around one price, whose simulators happen to draw the      *)
(* price the venues are given, with a band narrow enough for drifting      *)
(* prices to leave it and to lock, cross and tie; two scenarios and an     *)
(* order of each kind.  At venue 0 orders are executed and cancelled in    *)
(* parts; at the other two, whose books it is compared with, they have one *)
(* share.                                                                  *)
(***************************************************************************)
EXTENDS FaultInjection

MCStartPrices == {10}

MCHarnessNext ==
  /\ HarnessNext
  /\ \A v \in Venue \ {0} : \A order \in liveOrders'[v] : order.qty = 1

MCHarnessSpec == HarnessInit /\ [][MCHarnessNext]_harnessVars
=============================================================================
