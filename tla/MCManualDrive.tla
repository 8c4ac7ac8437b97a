---------------------------- MODULE MCManualDrive ----------------------------
(***************************************************************************)
(* TLC instance of ManualDrive: the motion task drives the pair of wheels  *)
(* through the coordinator; the gateway's task sets one wheel, stops, or   *)
(* goes around the coordinator.                                            *)
(***************************************************************************)
EXTENDS ManualDrive

Pair == <<"left", "right">>

Ask(e, v) == [endpoint |-> e, rpm |-> v]

PairAndSingle == {<<Ask("left", 1), Ask("right", 1)>>, <<Ask("right", 2)>>}

Turn == {[left |-> 1, right |-> 1]}
=============================================================================
