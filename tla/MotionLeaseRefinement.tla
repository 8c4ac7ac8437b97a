----------------------- MODULE MotionLeaseRefinement -----------------------
(***************************************************************************)
(* MotionApplicationService implements MotionLease: what its clients are   *)
(* composed with is what the service does.                                 *)
(***************************************************************************)
EXTENDS MotionApplicationService

ASSUME NonzeroStreams ==
    \A r \in Requests : r.action \in {"ARM", "COMMAND"} => r.stream_id # 0

ClientOf(source) == IF source = RC THEN "RC" ELSE "LAN"

EventIn(mailbox) ==
    IF mailbox = {}
    THEN [action |-> "NONE", source |-> "NONE", stream |-> 0, mark |-> TRUE]
    ELSE LET event == CHOOSE e \in mailbox : TRUE
         IN  [action |-> event.action, source |-> ClientOf(event.source),
              stream |-> event.stream_id, mark |-> TRUE]

\* The lease is the model's active stream; it is armed unless an actuation
\* failure left the model in FAULT.
Lease == INSTANCE MotionLease WITH
    Streams <- {r.stream_id : r \in Requests} \ {0},
    stop_event <- stop_event # {},
    arm_event <- EventIn(arm_event),
    command_event <- EventIn(command_event),
    lease <- IF motion.active_stream_id = 0
             THEN [source |-> "NONE", stream |-> 0]
             ELSE [source |-> ClientOf(motion.active_source),
                   stream |-> motion.active_stream_id],
    armed <- motion.active_stream_id # 0
                 /\ motion.state \in {"ARMED", "ACTIVE"}

\* Every critical section of the service is a step of MotionLease or none of
\* its business, emergency stops and failing drivers included.
ImplementsLease == Lease!LeaseSpec

\* Several clients share one lease as MotionLease promises, and the wheels
\* change hands only at rest.
LeaseIsShared == ImplementsLease /\ HandoverThroughRest
=============================================================================
