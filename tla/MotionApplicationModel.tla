----------------------- MODULE MotionApplicationModel -----------------------
(***************************************************************************)
(* The pure functions of components/motion_application/                    *)
(* motion_application_model.c: arming a stream, passing its commands to    *)
(* the command authority, and turning the authority's decisions into an    *)
(* actuation plan.                                                         *)
(*                                                                         *)
(* As in CommandAuthorityModel a body velocity is one integer; the wheel   *)
(* speeds computed from it are the same number, unless kinematics refuses  *)
(* it (robot_kinematics rejects a lateral velocity, lround may leave the   *)
(* int16 range): those velocities are Infeasible.  The copies kept for the *)
(* status snapshot only (sequence, last_received_ms, requested, details)   *)
(* are left out.                                                           *)
(***************************************************************************)
EXTENDS CommandAuthorityModel

CONSTANTS
    RetiredStreams,   \* MOTION_APPLICATION_RETIRED_STREAMS (16)
    Infeasible        \* velocities within the limit kinematics refuses

ASSUME MotionConfig ==
    /\ RetiredStreams \in Nat \ {0}
    /\ Infeasible \subseteq Velocity

MotionState == {"DISARMED", "ARMED", "ACTIVE", "EXPIRED", "FAULT"}

\* motion_application_event_t
Event == [action: {"ARM", "COMMAND", "DISARM", "STOP"},
          source: Source \union {NONE}, stream_id: U64, sequence: U64,
          received_at_ms: U64, deadman: BOOLEAN, body: Int \union {NonFinite}]

\* motion_application_plan_t; the stream an APPLY comes from is history.
Plan == [action: {"NONE", "STOP", "APPLY"}, target: Velocity, stream: U64]
NoPlan == [action |-> "NONE", target |-> 0, stream |-> 0]
StopPlan == [action |-> "STOP", target |-> 0, stream |-> 0]
ApplyPlan(v, stream) == [action |-> "APPLY", target |-> v, stream |-> stream]

\* motion_application_model_t
Motion == [authority: Model, state: MotionState, active_stream_id: U64,
           active_source: Source \union {NONE}, deadman: BOOLEAN,
           last_dispatched_revision: U64, retired_streams: Seq(U64),
           targets: Velocity]

\* A call's outcome: the struct it leaves, the plan, and whether it was OK.
Outcome(m, plan, ok) == [motion |-> m, plan |-> plan, ok |-> ok]

motion_init ==
    [authority |-> model_init, state |-> "DISARMED", active_stream_id |-> 0,
     active_source |-> NONE, deadman |-> FALSE,
     last_dispatched_revision |-> 0, retired_streams |-> <<>>, targets |-> 0]

stream_is_retired(m, stream) ==
    \E i \in 1..Len(m.retired_streams) : m.retired_streams[i] = stream

\* The oldest retired stream makes room when the history is full.
retire_active_stream(m) ==
    LET full == Len(m.retired_streams) = RetiredStreams
        kept == IF full THEN Tail(m.retired_streams) ELSE m.retired_streams
        retired == IF stream_is_retired(m, m.active_stream_id)
                   THEN m.retired_streams
                   ELSE Append(kept, m.active_stream_id)
    IN  IF m.active_stream_id = 0 THEN m
        ELSE [m EXCEPT !.retired_streams = retired,
                       !.active_stream_id = 0, !.active_source = NONE,
                       !.deadman = FALSE]

reset_authority(m) == [m EXCEPT !.authority = model_init]

\* Withdraw the stream: the common part of fault_stop, of an expiry and of
\* an explicit stop.  (The authority's own stop is erased by its reset.)
withdraw(m, state) ==
    [reset_authority(retire_active_stream(m)) EXCEPT !.state = state]

fault_stop(m) == Outcome(withdraw(m, "FAULT"), StopPlan, FALSE)

(* ------------------------ authority decisions ------------------------- *)

SourceLost == {"SELECTED_SOURCE_EXPIRED", "SELECTED_SOURCE_INVALIDATED",
               "NO_FRESH_SOURCE"}

\* convert_authority_decision, on the result of an arbitration that has
\* just run (it is the authority's last decision and reason).
convert_authority_decision(m) ==
    LET a == m.authority
        dispatched == [m EXCEPT !.last_dispatched_revision =
                                    a.applied_revision]
    IN  IF a.last_decision = "FAULT_STOP" \/ a.last_reason \in SourceLost
        THEN Outcome(withdraw(m, "EXPIRED"), StopPlan, TRUE)
        ELSE IF \/ a.last_decision # "APPLY"
                \/ a.applied_revision = m.last_dispatched_revision
        THEN Outcome(m, NoPlan, TRUE)
        ELSE IF ~m.deadman
        THEN Outcome([dispatched EXCEPT !.state = "ARMED"], StopPlan, TRUE)
        ELSE IF a.output \in Infeasible
        THEN fault_stop(dispatched)
        ELSE Outcome(dispatched, ApplyPlan(a.output, m.active_stream_id), TRUE)

arbitrate(m, now) == [m EXCEPT !.authority = model_arbitrate(@, now)]

(* ------------------------------- events ------------------------------- *)

event_source_supported(source) == source \in {LAN, RC}

\* The authority command of an event; the ttl is the profile's.
CommandOf(event, deadman, body) ==
    [stream_id |-> event.stream_id, sequence |-> event.sequence,
     received_at_ms |-> event.received_at_ms, ttl_ms |-> MaxTtl,
     valid |-> TRUE, deadman |-> deadman, body |-> body]

handle_arm(m, event, safe, now) ==
    LET fresh == reset_authority(m)
        command == CommandOf(event, FALSE, 0)
        verdict == publish_verdict(fresh.authority, event.source, command, now)
        published == [fresh EXCEPT !.authority =
                          model_publish(@, event.source, command, now)]
    IN  IF \/ ~event_source_supported(event.source)
           \/ ~safe
           \/ event.stream_id = 0 \/ event.sequence = 0
           \/ stream_is_retired(m, event.stream_id)
           \/ m.active_stream_id # 0
        THEN Outcome(m, NoPlan, FALSE)
        ELSE IF verdict # "OK"
        THEN Outcome(published, NoPlan, FALSE)
        ELSE Outcome([arbitrate(published, now) EXCEPT
                          !.active_stream_id = event.stream_id,
                          !.active_source = event.source,
                          !.deadman = FALSE,
                          !.state = "ARMED",
                          !.last_dispatched_revision = 0],
                     StopPlan, TRUE)

handle_command(m, event, safe, now) ==
    LET command == CommandOf(event, event.deadman, event.body)
        verdict == publish_verdict(m.authority, event.source, command, now)
        published == [m EXCEPT !.authority =
                          model_publish(@, event.source, command, now)]
    IN  IF \/ m.state \notin {"ARMED", "ACTIVE"}
           \/ event.stream_id # m.active_stream_id
           \/ ~event_source_supported(event.source)
           \/ event.source # m.active_source
        THEN Outcome(m, NoPlan, FALSE)
        ELSE IF ~safe THEN fault_stop(m)
        ELSE IF verdict # "OK"
        THEN Outcome(published, IF event.deadman THEN NoPlan ELSE StopPlan,
                     FALSE)
        ELSE convert_authority_decision(
                 [arbitrate(published, now) EXCEPT !.deadman = event.deadman])

\* motion_application_model_submit
submit(m, event, safe, now) ==
    IF event.received_at_ms > now THEN Outcome(m, NoPlan, FALSE)
    ELSE CASE event.action = "ARM" -> handle_arm(m, event, safe, now)
           [] event.action = "COMMAND" -> handle_command(m, event, safe, now)
           [] event.action \in {"DISARM", "STOP"} ->
                  Outcome(withdraw(m, "DISARMED"), StopPlan, TRUE)

\* Mutant: the tick leaves an armed source alone whatever its lease says.
tick_without_arbitration(m, safe, now) ==
    IF m.state \in {"ARMED", "ACTIVE"} /\ ~safe THEN fault_stop(m)
    ELSE Outcome(m, NoPlan, TRUE)

\* motion_application_model_tick
tick(m, safe, now) ==
    IF m.state \notin {"ARMED", "ACTIVE"} THEN Outcome(m, NoPlan, TRUE)
    ELSE IF ~safe \/ clock_regressed(m.authority, now) THEN fault_stop(m)
    ELSE convert_authority_decision(arbitrate(m, now))

\* motion_application_model_record_actuation
record_actuation(m, plan, success) ==
    IF plan.action = "NONE" THEN m
    ELSE IF ~success THEN [m EXCEPT !.state = "FAULT"]
    ELSE IF plan.action = "STOP" THEN [m EXCEPT !.targets = 0]
    ELSE [m EXCEPT !.targets = plan.target, !.state = "ACTIVE"]
=============================================================================
