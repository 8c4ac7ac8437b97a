------------------------ MODULE ActuationCoordinator ------------------------
(***************************************************************************)
(* components/actuation_coordinator over the SVD48 channel adapters        *)
(* (components/svd48_channel_endpoint_adapter): several tasks apply speeds *)
(* to the wheels and stop them, each call under one lock, each endpoint    *)
(* call made of register writes that may be lost.                          *)
(*                                                                         *)
(* A register write with its retries is one step.  It is acknowledged, or  *)
(* it fails: the drive then executed it ("unacknowledged") or not          *)
(* ("lost").  A drive turns at its target while it is started.  Position   *)
(* endpoints, range checks and the legacy mirror are left out.             *)
(***************************************************************************)
EXTENDS Naturals, Sequences, FiniteSets

CONSTANTS
    Callers,     \* the tasks that command the wheels
    Endpoints,   \* the registry, in its order
    Required,    \* the endpoints of criticality REQUIRED
    Requests,    \* the velocity requests callers make
    Stoppers,    \* the callers that stop one endpoint or all of them
    MaxFaults    \* bound: register writes that fail

RegisteredEndpoints == {Endpoints[i] : i \in 1..Len(Endpoints)}

\* A call names at least one endpoint, and none of them twice: the kinematics
\* reject a profile that would.
Setpoints == [endpoint: RegisteredEndpoints, rpm: Nat]
RequestSeqs == {r \in Seq(Setpoints) :
            /\ r # <<>>
            /\ \A i, j \in DOMAIN r : r[i].endpoint = r[j].endpoint => i = j}

\* The registry holds an endpoint once.
ASSUME CoordinatorAssumption ==
    /\ Endpoints \in Seq(RegisteredEndpoints) \ {<<>>}
    /\ \A i, j \in DOMAIN Endpoints : Endpoints[i] = Endpoints[j] => i = j
    /\ Required \subseteq RegisteredEndpoints /\ Stoppers \subseteq Callers
    /\ Requests \subseteq RequestSeqs
    /\ "nobody" \notin Callers /\ MaxFaults \in Nat

VARIABLES
    drive,    \* the target and control registers of each endpoint's drive
    lock,     \* who holds the coordinator's lock
    call,     \* the call each caller is making
    faults,   \* register writes that failed so far
    missed    \* history: the writes of the running endpoint call that were
              \* executed, and the endpoints whose stop was not, per call

vars == <<drive, lock, call, faults, missed>>

Idle == [pc |-> "idle", kind |-> "none", requests |-> <<>>, index |-> 0,
         applied |-> {}, ok |-> TRUE, result |-> "FAILURE", undone |-> 0]

Speed(e) == IF drive[e].started THEN drive[e].target ELSE 0

Init ==
    /\ drive = [e \in RegisteredEndpoints |-> [target |-> 0, started |-> FALSE]]
    /\ lock = "nobody" /\ call = [c \in Callers |-> Idle] /\ faults = 0
    /\ missed = [c \in Callers |-> [reached |-> FALSE, endpoints |-> {}]]

(* --------------------------- entering a call -------------------------- *)

StopOf(e) == [endpoint |-> e, rpm |-> 0]

\* actuation_coordinator_stop_all goes through the registry.
everything == [i \in 1..Len(Endpoints) |-> StopOf(Endpoints[i])]

Begin(c, kind, requests) ==
    /\ call[c].pc = "idle"
    /\ call' = [call EXCEPT ![c] = [Idle EXCEPT !.pc = "acquire", !.kind = kind,
                                                !.requests = requests]]
    /\ UNCHANGED <<drive, lock, faults, missed>>

ApplyVelocity(c) == \E r \in Requests : Begin(c, "apply", r)
StopEndpoint(c) ==
    /\ c \in Stoppers
    /\ \E e \in RegisteredEndpoints : Begin(c, "stop", <<StopOf(e)>>)
StopAll(c) == c \in Stoppers /\ Begin(c, "stop", everything)

\* Where a call begins on the endpoint it has come to.
first_write(kind) == IF kind = "apply" THEN "target" ELSE "zero"

\* Mutant: a caller does not wait for the one that holds the lock.
available_always == TRUE

available == lock = "nobody"

Acquire(c) ==
    /\ call[c].pc = "acquire" /\ available /\ lock' = c
    /\ call' = [call EXCEPT ![c].pc = first_write(call[c].kind),
                            ![c].index = 1]
    /\ UNCHANGED <<drive, faults, missed>>

\* LOCK_TIMEOUT: somebody else held the lock for too long.
AcquireTimesOut(c) ==
    /\ call[c].pc = "acquire" /\ lock # "nobody"
    /\ call' = [call EXCEPT ![c] = Idle]
    /\ UNCHANGED <<drive, lock, faults, missed>>

(* --------------------------- register writes -------------------------- *)

Outcome == {"acknowledged", "unacknowledged", "lost"}

\* write_register_raw: registers is what the drive holds if it executes it.
Write(e, registers, outcome) ==
    /\ outcome # "acknowledged" => faults < MaxFaults
    /\ faults' = IF outcome = "acknowledged" THEN faults ELSE faults + 1
    /\ drive' = IF outcome = "lost" THEN drive
                ELSE [drive EXCEPT ![e] = registers]

request(c) == call[c].requests[call[c].index]
last_request(c) == call[c].index = Len(call[c].requests)

\* set_velocity: the target register, then START; it stops the channel whose
\* target or START it could not write.
WriteTarget(c) ==
    /\ call[c].pc = "target"
    /\ \E outcome \in Outcome :
         /\ Write(request(c).endpoint,
                  [drive[request(c).endpoint] EXCEPT !.target = request(c).rpm],
                  outcome)
         /\ call' = [call EXCEPT ![c].pc = IF outcome = "acknowledged"
                                           THEN "start"
                                           ELSE "undo_zero"]
    /\ UNCHANGED <<lock, missed>>

\* The endpoint took its speed: go on to the next one, or succeed.
applied_next(c) ==
    [call[c] EXCEPT !.applied = @ \union {request(c).endpoint},
                    !.pc = IF last_request(c) THEN "release" ELSE "target",
                    !.index = IF last_request(c) THEN @ ELSE @ + 1,
                    !.result = IF last_request(c) THEN "SUCCESS" ELSE @]

WriteStart(c) ==
    /\ call[c].pc = "start"
    /\ \E outcome \in Outcome :
         /\ Write(request(c).endpoint,
                  [drive[request(c).endpoint] EXCEPT !.started = TRUE], outcome)
         /\ call' = [call EXCEPT ![c] = IF outcome = "acknowledged"
                                        THEN applied_next(c)
                                        ELSE [@ EXCEPT !.pc = "undo_zero"]]
    /\ UNCHANGED <<lock, missed>>

(* ------------------------------ stopping ------------------------------ *)

\* The endpoint a stop is for: the request's, or the one rolled back.
stopping(c) ==
    IF call[c].pc \in {"rollback_zero", "rollback_halt"}
    THEN call[c].requests[call[c].undone + 1].endpoint
    ELSE request(c).endpoint

HaltAfter == [zero |-> "halt", undo_zero |-> "undo_halt",
              rollback_zero |-> "rollback_halt"]

\* svd48_channel_stop: target zero first, and STOP whatever came of it.
WriteZero(c) ==
    /\ call[c].pc \in DOMAIN HaltAfter
    /\ \E outcome \in Outcome :
         /\ Write(stopping(c), [drive[stopping(c)] EXCEPT !.target = 0], outcome)
         /\ call' = [call EXCEPT ![c].pc = HaltAfter[@],
                                 ![c].ok = outcome = "acknowledged"]
         /\ missed' = [missed EXCEPT ![c].reached = outcome # "lost"]
    /\ UNCHANGED lock

\* actuation_coordinator_stop_all's and stop_endpoint's verdict.
stop_result(c, applied) ==
    IF applied = {} THEN "FAILURE"
    ELSE IF Cardinality(applied) = Len(call[c].requests) THEN "SUCCESS"
    ELSE "PARTIAL"

\* Mutant: the first endpoint that does not stop ends the call.
stop_next_gives_up(c, ok) ==
    LET applied == call[c].applied \union
                       IF ok THEN {request(c).endpoint} ELSE {}
        over == last_request(c) \/ ~ok
    IN  [call[c] EXCEPT !.applied = applied, !.result = stop_result(c, applied),
                        !.pc = IF over THEN "release" ELSE "zero",
                        !.index = IF over THEN @ ELSE @ + 1]

\* The endpoint's stop has returned ok: go on to the next one, ok or not.
stop_next(c, ok) ==
    LET applied == call[c].applied \union
                       IF ok THEN {request(c).endpoint} ELSE {}
        over == last_request(c)
    IN  [call[c] EXCEPT !.applied = applied, !.result = stop_result(c, applied),
                        !.pc = IF over THEN "release" ELSE "zero",
                        !.index = IF over THEN @ ELSE @ + 1]

\* A required endpoint that fails takes those before it with it.
takes_others_along(c) == request(c).endpoint \in Required

\* The endpoint's set_velocity has failed and stopped its own channel.
apply_fails(c) ==
    [call[c] EXCEPT !.pc = IF takes_others_along(c) /\ call[c].index > 1
                           THEN "rollback_zero" ELSE "release",
                    !.result = IF call[c].applied = {} THEN "FAILURE"
                               ELSE "PARTIAL"]

\* rollback_applied_endpoints: from the first request on; what a rollback
\* stop answers is not acted on.
rollback_next(c) ==
    LET undone == call[c].undone + 1
    IN  [call[c] EXCEPT !.undone = undone,
                        !.pc = IF undone = call[c].index - 1 THEN "release"
                               ELSE "rollback_zero"]

WriteHalt(c) ==
    /\ call[c].pc \in {"halt", "undo_halt", "rollback_halt"}
    /\ \E outcome \in Outcome :
         /\ Write(stopping(c), [drive[stopping(c)] EXCEPT !.started = FALSE],
                  outcome)
         /\ call' = [call EXCEPT ![c] =
                       CASE call[c].pc = "halt" ->
                              stop_next(c, @.ok /\ outcome = "acknowledged")
                         [] call[c].pc = "undo_halt" -> apply_fails(c)
                         [] call[c].pc = "rollback_halt" -> rollback_next(c)]
         /\ missed' = [missed EXCEPT ![c].endpoints =
                         @ \union IF outcome = "lost" /\ ~missed[c].reached
                                  THEN {stopping(c)} ELSE {}]
    /\ UNCHANGED lock

released(c) == "nobody"

Release(c) ==
    /\ call[c].pc = "release"
    /\ lock' = released(c) /\ call' = [call EXCEPT ![c] = Idle]
    /\ missed' = [missed EXCEPT ![c] = [reached |-> FALSE, endpoints |-> {}]]
    /\ UNCHANGED <<drive, faults>>

(* ----------------------------- properties ----------------------------- *)

\* Type invariant; a call never runs past its requests, and the lock is held
\* by a call, never by one that has returned.
TypeOK ==
    /\ drive \in [RegisteredEndpoints -> [target: Nat, started: BOOLEAN]]
    /\ lock \in Callers \union {"nobody"} /\ faults \in 0..MaxFaults
    /\ lock # "nobody" => call[lock].pc \notin {"idle", "acquire"}
    /\ \A c \in Callers :
         /\ call[c].pc \in {"idle", "acquire", "release", "target", "start",
                            "zero", "halt", "undo_zero", "undo_halt",
                            "rollback_zero", "rollback_halt"}
         /\ call[c].result \in {"FAILURE", "PARTIAL", "SUCCESS"}
         /\ call[c].applied \subseteq RegisteredEndpoints
         /\ call[c].index \in 0..Len(call[c].requests)
         /\ call[c].undone \in 0..call[c].index
=============================================================================
