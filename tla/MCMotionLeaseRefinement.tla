---------------------- MODULE MCMotionLeaseRefinement ----------------------
(***************************************************************************)
(* TLC instances of MotionLeaseRefinement: one operator with a serial      *)
(* operator beside him, and a LAN operator against an RC pilot with an     *)
(* actuation call that may fail.                                           *)
(***************************************************************************)
EXTENDS MotionLeaseRefinement

Ask(action, source, stream, sequence, deadman, body) ==
    [action |-> action, source |-> source, stream_id |-> stream,
     sequence |-> sequence, deadman |-> deadman, body |-> body]

Arm(source, stream) == Ask("ARM", source, stream, 1, FALSE, 0)
Drive(source, stream, sequence) ==
    Ask("COMMAND", source, stream, sequence, TRUE, 1)
StopAsk == Ask("STOP", LAN, 0, 0, FALSE, 0)

\* One LAN operator who arms, drives and stops.
OneOperator == {Arm(LAN, 1), Drive(LAN, 1, 2), StopAsk}

\* A LAN operator and an RC pilot who both arm and drive, and a STOP.
TwoOperators ==
    {Arm(LAN, 1), Drive(LAN, 1, 2), Arm(RC, 2), Drive(RC, 2, 2), StopAsk}
=============================================================================
