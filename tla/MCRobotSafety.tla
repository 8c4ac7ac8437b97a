--------------------------- MODULE MCRobotSafety ---------------------------
(***************************************************************************)
(* TLC instances of RobotSafety: Rafa's interlock with three               *)
(* confirmations, and a receiver that goes stale after one tick.           *)
(***************************************************************************)
EXTENDS RobotSafety
=============================================================================
