------------------------- MODULE MCPpmMotionSource -------------------------
(***************************************************************************)
(* TLC instances of PpmMotionSource.                                       *)
(***************************************************************************)
EXTENDS PpmMotionSource
=============================================================================
