---------------------- MODULE MotionApplicationService ----------------------
(***************************************************************************)
(* components/motion_application/motion_application_service.c: the task    *)
(* that owns the motion model, the mailboxes other tasks publish events    *)
(* into, and the actuation plans it executes outside its lock.             *)
(*                                                                         *)
(* A critical section (take_lock .. release_lock) is one action; between   *)
(* two of them, and around the actuation calls, other tasks run.  The      *)
(* actuation port is external: a call that fails may have reached the      *)
(* wheels or not.  A mailbox is the set of the events waiting in it.       *)
(***************************************************************************)
EXTENDS MotionApplicationModel, FiniteSets

CONSTANTS
    Requests,      \* the events clients publish, apart from the timestamp
    MaxTime,       \* bound: the last instant of the clock
    MaxLag,        \* bound: how old the time is that a client stamps
    LastPublish,   \* bound: clients fall silent after this instant
    MaxFailures,   \* bound: how many actuation calls fail
    SerialStops    \* whether the serial operator uses STOP ALL

ASSUME ServiceAssumption ==
    /\ Requests \subseteq
         [action: {"ARM", "COMMAND", "DISARM", "STOP"}, source: {LAN, RC},
          stream_id: U64, sequence: U64, deadman: BOOLEAN,
          body: Int \union {NonFinite}]
    /\ MaxTime \in U64 /\ MaxLag \in Nat /\ LastPublish \in Nat
    /\ MaxFailures \in Nat
    /\ SerialStops \in BOOLEAN

VARIABLES
    motion,          \* handle->model
    stop_event,      \* pending_stop_event and its event
    arm_event,       \* pending_arm_event and its event
    command_event,   \* pending_command_event and its event
    pending_stop,    \* a STOP plan waits
    pending_apply,   \* the APPLY plans waiting (at most one)
    stop_requested,  \* deinit asked the task to end
    pc,              \* where the task is
    safe,            \* the task's reading of the safety gate
    plan,            \* the plan the task is executing
    success,         \* the outcome of its last actuation call
    serial,          \* where the serial gateway's STOP ALL is
    gate,            \* the safety gate: safety status and endpoint health
    wheels,          \* the speed the endpoints hold
    clock,           \* now_ms()
    failures,        \* actuation calls that failed so far
    stop_failed,     \* history: the last STOP the task executed failed
    driver,          \* history: the stream that last set the wheels
    overruled        \* history: the STOPs asked for after each intent

task == <<pc, safe, plan, success>>
mailboxes == <<stop_event, arm_event, command_event>>
plans == <<pending_stop, pending_apply>>
environment == <<serial, gate, clock>>
actuation == <<wheels, failures, stop_failed, driver>>
model == <<motion, overruled>>
vars == <<model, mailboxes, plans, stop_requested, task, environment,
          actuation>>

\* Where intent stands: in a mailbox, or as the stream in force.
Intent == {"arm", "command", "lease"}
Stands(i) == CASE i = "arm" -> arm_event # {}
               [] i = "command" -> command_event # {}
               [] i = "lease" -> motion.active_stream_id # 0

\* motion_application_service_init
Init ==
    /\ motion = motion_init
    /\ stop_event = {} /\ arm_event = {} /\ command_event = {}
    /\ pending_stop = FALSE /\ pending_apply = {}
    /\ stop_requested = FALSE
    /\ pc = "off" /\ safe = FALSE /\ plan = NoPlan /\ success = TRUE
    /\ serial = "idle" /\ gate = TRUE /\ clock = 0
    /\ wheels = 0 /\ failures = 0 /\ stop_failed = FALSE
    /\ overruled = [i \in Intent |-> {}] /\ driver = 0

\* motion_application_service_start creates the task.
Start ==
    /\ pc = "off" /\ pc' = "wait"
    /\ UNCHANGED <<model, mailboxes, plans, stop_requested, safe, plan,
                   success, environment, actuation>>

(* ------------------------------- clients ------------------------------ *)

\* The event as its client stamped it.  The service stamps nothing: a client
\* hands over a time it read before, ControlLan one for a whole burst.
Stamped(r, at) ==
    [action |-> r.action, source |-> r.source, stream_id |-> r.stream_id,
     sequence |-> r.sequence, received_at_ms |-> at,
     deadman |-> r.deadman, body |-> r.body]

\* Mutant: a STOP does not evict what was published before it.
publish_without_eviction(event) ==
    CASE event.action \in {"STOP", "DISARM"} ->
           /\ stop_event' = {event} /\ UNCHANGED <<arm_event, command_event>>
      [] event.action = "ARM" ->
           /\ arm_event' = {event} /\ UNCHANGED <<stop_event, command_event>>
      [] event.action = "COMMAND" ->
           /\ command_event' = {event} /\ UNCHANGED <<stop_event, arm_event>>

\* The switch of motion_application_service_publish.
publish_mailboxes(event) ==
    CASE event.action \in {"STOP", "DISARM"} ->
           /\ stop_event' = {event} /\ arm_event' = {} /\ command_event' = {}
      [] event.action = "ARM" ->
           /\ arm_event' = {event} /\ UNCHANGED <<stop_event, command_event>>
      [] event.action = "COMMAND" ->
           /\ command_event' = {event} /\ UNCHANGED <<stop_event, arm_event>>

\* The histories once a STOP of this kind has been asked for: it overrules
\* whatever intent still stands after it.
Overruled(kind) ==
    [i \in Intent |-> IF Stands(i)' THEN overruled[i] \union {kind} ELSE {}]

\* A transport task publishes; a task that is not running leaves the event
\* in its mailbox all the same.
Publish(r, at) ==
    LET event == Stamped(r, at)
        stop == event.action \in {"STOP", "DISARM"}
        slot == IF event.action = "ARM" THEN "arm" ELSE "command"
    IN  /\ pc # "done" /\ clock <= LastPublish
        /\ at <= clock /\ clock - at <= MaxLag
        /\ publish_mailboxes(event)
        /\ pending_apply' = IF stop THEN {} ELSE pending_apply
        /\ UNCHANGED motion
        /\ overruled' = IF stop THEN Overruled("published")
                        ELSE [overruled EXCEPT ![slot] = {}]
        /\ UNCHANGED <<pending_stop, stop_requested, task, environment,
                       actuation>>

\* Mutant: an emergency stop disarms and queues no STOP plan.
emergency_submit_without_plan(m, now) ==
    Outcome(withdraw(m, "DISARMED"), NoPlan, TRUE)

\* What emergency_stop submits: a STOP of no source.
emergency_submit(m, now) ==
    submit(m, [action |-> "STOP", source |-> NONE, stream_id |-> 0,
               sequence |-> 0, received_at_ms |-> now, deadman |-> FALSE,
               body |-> 0], TRUE, now)

\* queue_plan_locked: the plans waiting once p is queued.
queue_plan(p) ==
    CASE p.action = "STOP" -> <<TRUE, {}>>
      [] p.action = "APPLY" -> <<pending_stop, {p}>>
      [] p.action = "NONE" -> <<pending_stop, pending_apply>>

\* STOP ALL over serial: emergency_stop submits under the lock, or gives up
\* on it (CONTROL_BUSY); either way the gateway then stops the endpoints.
EmergencyStop ==
    /\ SerialStops /\ serial = "idle" /\ pc \notin {"off", "done"}
    /\ serial' = "stop_all"
    /\ \/ LET o == emergency_submit(motion, clock)
              queued == queue_plan(o.plan)
          IN  /\ motion' = o.motion
              /\ pending_stop' = queued[1]
              /\ pending_apply' = queued[2]
              /\ UNCHANGED mailboxes
              /\ overruled' = Overruled("emergency")
       \/ UNCHANGED <<model, mailboxes, plans>>
    /\ UNCHANGED <<stop_requested, task, gate, clock, actuation>>

(* ------------------------------ actuation ----------------------------- *)

\* A call of the actuation port that asks the wheels for speed v.
Actuate(v, ok) ==
    /\ ok \/ failures < MaxFailures
    /\ failures' = IF ok THEN failures ELSE failures + 1
    /\ wheels' \in IF ok THEN {v} ELSE {wheels, v, 0}

\* handle_stop's own actuation_application_stop_all.
SerialStopAll ==
    /\ serial = "stop_all" /\ serial' = "idle"
    /\ \E ok \in BOOLEAN : Actuate(0, ok)
    /\ UNCHANGED <<model, mailboxes, plans, stop_requested, task, gate,
                   clock, stop_failed, driver>>

(* ------------------------------- the task ----------------------------- *)

\* Woken by a notification or its period: end, or read the gate.
BeginCycle ==
    /\ pc = "wait"
    /\ pc' = IF stop_requested THEN "final" ELSE "cycle"
    /\ safe' = IF stop_requested THEN safe ELSE gate
    /\ UNCHANGED <<model, mailboxes, plans, stop_requested, plan, success,
                   environment, actuation>>

\* Mutant: the mailboxes are served in the order ARM, COMMAND, STOP.
take_pending_event_stop_last ==
    IF arm_event # {} THEN <<arm_event, <<stop_event, {}, command_event>>>>
    ELSE IF command_event # {}
    THEN <<command_event, <<stop_event, arm_event, {}>>>>
    ELSE <<stop_event, <<{}, arm_event, command_event>>>>

\* take_pending_event_locked: the event taken, and the mailboxes it leaves.
take_pending_event ==
    IF stop_event # {} THEN <<stop_event, <<{}, arm_event, command_event>>>>
    ELSE IF arm_event # {} THEN <<arm_event, <<{}, {}, command_event>>>>
    ELSE <<command_event, <<{}, {}, {}>>>>

\* The histories once a cycle has taken these events: the stream in force
\* answers for the ARM that began it and for the commands it has taken.
OverruledAfter(taken) ==
    LET lease == IF taken = {} \/ taken = stop_event THEN overruled["lease"]
                 ELSE IF taken = command_event
                 THEN overruled["lease"] \union overruled["command"]
                 ELSE IF motion.active_stream_id = 0 THEN overruled["arm"]
                 ELSE overruled["lease"]
    IN  [i \in Intent |-> IF ~Stands(i)' THEN {}
                          ELSE IF i = "lease" THEN lease ELSE overruled[i]]

\* What the model makes of the event that is due, if there is one.
Submitted ==
    LET taken == take_pending_event[1]
    IN  IF taken = {} THEN Outcome(motion, NoPlan, TRUE)
        ELSE submit(motion, CHOOSE e \in taken : TRUE, safe, clock)

\* The locked part of process_one_cycle: one event, then the plan that is
\* due (STOP first), or else a tick.
Cycle ==
    /\ pc = "cycle"
    /\ \E o \in {Submitted} : \E ticked \in {tick(o.motion, safe, clock)} :
       LET taken == take_pending_event
           queued == queue_plan(o.plan)
           due == queued[1] \/ queued[2] # {}
       IN  /\ stop_event' = taken[2][1]
           /\ arm_event' = taken[2][2]
           /\ command_event' = taken[2][3]
           /\ pending_stop' = FALSE
           /\ pending_apply' = IF queued[1] THEN queued[2] ELSE {}
           /\ motion' = IF due THEN o.motion ELSE ticked.motion
           /\ plan' = IF queued[1] THEN StopPlan
                      ELSE IF due THEN CHOOSE p \in queued[2] : TRUE
                      ELSE ticked.plan
           /\ pc' = IF plan'.action = "NONE" THEN "wait" ELSE "execute"
           /\ overruled' = OverruledAfter(taken[1])
    /\ UNCHANGED <<stop_requested, safe, success, environment, actuation>>

\* execute_plan: the driver runs without the service's lock.
Execute ==
    /\ pc = "execute" /\ pc' = "record"
    /\ \E ok \in BOOLEAN :
         /\ Actuate(plan.target, ok)
         /\ success' = ok
         /\ stop_failed' = IF plan.action = "STOP" THEN ~ok ELSE stop_failed
         /\ driver' = IF plan.action = "APPLY" THEN plan.stream ELSE driver
    /\ UNCHANGED <<model, mailboxes, plans, stop_requested, safe, plan,
                   environment>>

\* record_plan_result; a failed APPLY is followed by a STOP at once.
Record ==
    /\ pc = "record"
    /\ motion' = record_actuation(motion, plan, success)
    /\ IF plan.action = "APPLY" /\ ~success
       THEN plan' = StopPlan /\ pc' = "execute"
       ELSE plan' = NoPlan /\ pc' = "wait"
    /\ UNCHANGED <<mailboxes, plans, stop_requested, safe, success,
                   environment, actuation, overruled>>

\* The last STOP of a task that was asked to end, and its recording.
FinalStop ==
    /\ pc = "final" /\ pc' = "final_record"
    /\ \E ok \in BOOLEAN :
         /\ Actuate(0, ok) /\ success' = ok /\ stop_failed' = ~ok
    /\ UNCHANGED <<model, mailboxes, plans, stop_requested, safe, plan,
                   environment, driver>>

FinalRecord ==
    /\ pc = "final_record" /\ pc' = "done"
    /\ motion' = record_actuation(motion, StopPlan, success)
    /\ UNCHANGED <<mailboxes, plans, stop_requested, safe, plan, success,
                   environment, actuation, overruled>>

\* motion_application_service_deinit
RequestShutdown ==
    /\ pc # "off" /\ ~stop_requested /\ stop_requested' = TRUE
    /\ UNCHANGED <<model, mailboxes, plans, task, environment, actuation>>

(* ---------------------------- environment ----------------------------- *)

GateChanges ==
    /\ gate' = ~gate
    /\ UNCHANGED <<model, mailboxes, plans, stop_requested, task, serial,
                   clock, actuation>>

Advance ==
    /\ clock < MaxTime /\ clock' = clock + 1
    /\ UNCHANGED <<model, mailboxes, plans, stop_requested, task, serial,
                   gate, actuation>>

TaskStep ==
    BeginCycle \/ Cycle \/ Execute \/ Record \/ FinalStop \/ FinalRecord

Next ==
    \/ Start \/ TaskStep \/ RequestShutdown
    \/ \E r \in Requests, at \in 0..clock : Publish(r, at)
    \/ EmergencyStop \/ SerialStopAll
    \/ GateChanges \/ Advance

\* The task runs at the highest application priority and every call it
\* makes is bounded; time passes.  Nothing else is assumed to happen.
Fairness == WF_vars(TaskStep) /\ WF_vars(Advance)

Spec == Init /\ [][Next]_vars /\ Fairness

(* ----------------------------- properties ----------------------------- *)

\* The handle's fields, mailboxes and task locals keep their types.
TypeOK ==
    /\ motion \in Motion
    /\ stop_event \in SUBSET Event /\ Cardinality(stop_event) <= 1
    /\ arm_event \in SUBSET Event /\ Cardinality(arm_event) <= 1
    /\ command_event \in SUBSET Event /\ Cardinality(command_event) <= 1
    /\ pending_apply \in SUBSET Plan /\ Cardinality(pending_apply) <= 1
    /\ {pending_stop, stop_requested, safe, success, gate, stop_failed}
           \subseteq BOOLEAN
    /\ pc \in {"off", "wait", "cycle", "execute", "record", "final",
               "final_record", "done"}
    /\ plan \in Plan /\ serial \in {"idle", "stop_all"}
    /\ wheels \in Velocity /\ driver \in U64 /\ clock \in U64
    /\ overruled \in [Intent -> SUBSET {"published", "emergency"}]
    /\ failures \in 0..MaxFailures

\* A STOP that the service is bound to execute next.
StopUnderway ==
    \/ pending_stop
    \/ pc = "execute" /\ plan.action = "STOP"
    \/ pc = "record" /\ plan.action = "APPLY" /\ ~success
    \/ pc = "final"

\* Wheels turn only while the model answers for them (ARMED or ACTIVE, so
\* that tick watches lease and gate) or a STOP is on its way; a driver that
\* failed a STOP is the one exception.  An emergency stop that overtakes an
\* APPLY in flight is the hard case.
MovingIsCovered ==
    wheels # 0 /\ ~stop_failed =>
        /\ motion.state \in {"ARMED", "ACTIVE"} \/ StopUnderway
        /\ pc # "done"

\* An APPLY plan is executed in the cycle that computed it or never: no
\* APPLY computed before a STOP is left waiting behind it.
ApplyNeverWaits == pending_apply = {}

\* A STOP a client publishes overrules everything asked for before it: the
\* stream in force was armed, and its commands were published, after the last
\* such STOP, or that STOP still waits and is the next event the task takes.
\* (Publication decides, not the clients' stamps: an ARM whose burst was
\* stamped before a STOP, but that is published after it, is newer intent.)
StreamIsNotOverruled == "published" \in overruled["lease"] => stop_event # {}

\* Turning wheels are answered for, and by a stream that was asked for after
\* the last STOP a client published.
WheelsAnswerToFreshIntent == MovingIsCovered /\ StreamIsNotOverruled

\* What docs/SAFETY.md says of every STOP, the emergency stop included: it
\* evicts older pending intent.
LeaseIsNewerThanStop == "emergency" \notin overruled["lease"]

\* One stream never takes over wheels another one turned: they have come to
\* rest in between.  And once the driver has failed a STOP, nothing drives
\* until a STOP has succeeded: nobody repeats a failed STOP by itself.
HandoverThroughRest ==
    [][Execute /\ plan.action = "APPLY"
           => ~stop_failed /\ (wheels # 0 => plan.stream = driver)]_vars

\* Once the clients fall silent the wheels come to rest, unless the driver
\* failed the STOP: every lease expires and tick notices.
SilenceStops == <>[](wheels = 0 \/ stop_failed)

\* While the safety gate stays closed, turning wheels are stopped.
GateStops == ~gate ~> (gate \/ wheels = 0 \/ stop_failed)

\* A published STOP or DISARM, and a queued STOP plan, reach the wheels,
\* whatever the clients publish meanwhile.
StopTakesEffect ==
    (stop_event # {} \/ pending_stop) /\ pc # "done"
        ~> (wheels = 0 \/ stop_failed)

\* The task ends once deinit asks it to, with the wheels at rest.
ShutdownEnds == stop_requested ~> (pc = "done" /\ (wheels = 0 \/ stop_failed))

\* Somebody answers for turning wheels at every instant: the model through
\* its lease, or a STOP that no APPLY waits behind.
WheelsAreCovered == TypeOK /\ MovingIsCovered /\ ApplyNeverWaits

\* Whatever ends a drive - silence, the gate, a STOP or shutdown - the task
\* brings the wheels to rest.
ComesToRest == SilenceStops /\ GateStops /\ StopTakesEffect /\ ShutdownEnds
=============================================================================
