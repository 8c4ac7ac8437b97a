---------------------------- MODULE MCControlLan ----------------------------
(***************************************************************************)
(* TLC instance of ControlLan: a stream is armed, driven and armed again,  *)
(* and another takes over from it; any packet may repeat or come late.     *)
(***************************************************************************)
EXTENDS ControlLan

Packet(action, stream, sequence) ==
    [action |-> action, stream |-> stream, sequence |-> sequence]

TwoStreams ==
    {Packet("ARM", 1, 1), Packet("COMMAND", 1, 2), Packet("ARM", 1, 3),
     Packet("ARM", 2, 2)}
=============================================================================
