----------------------------- MODULE ManualDrive -----------------------------
(***************************************************************************)
(* The wheels as all their writers see them.  The composed application     *)
(* port (robot_composition) calls the coordinator and, once the lock is    *)
(* back, has robot_control record what succeeded.  ENABLE, MOVE_VEL and    *)
(* the preparation of an OTA update go around the coordinator: they write  *)
(* to the drives through robot_control and svd48 with no lock at all.      *)
(*                                                                         *)
(* A fresh telemetry is taken as the present speed.  The kinematics and    *)
(* the steering servos of MOVE_VEL, and CLEAR_FAULT, are left out.         *)
(***************************************************************************)
EXTENDS ActuationCoordinator, Functions

CONSTANTS
    Operators,  \* the callers that also use the facade: the gateway's task
    Moves       \* the wheel speeds that MOVE_VEL can ask for

ASSUME ManualAssumption ==
    Operators \subseteq Callers /\ Moves \subseteq [RegisteredEndpoints -> Nat]

VARIABLES
    last_command, \* robot_control's record of the wheel speeds
    manual,       \* what each caller does outside the coordinator
    touched       \* history: the wheels changed since the caller began, or
                  \* since it zeroed them, by somebody the lock does not keep out

manualVars == <<vars, last_command, manual, touched>>

AtRest == [e \in RegisteredEndpoints |-> 0]
Nothing == [pc |-> "idle", kind |-> "none", requests |-> <<>>, index |-> 0,
            ok |-> TRUE, zeroed |-> TRUE, stopped |-> TRUE]

ManualInit ==
    /\ Init /\ last_command = AtRest
    /\ manual = [c \in Callers |-> Nothing] /\ touched = [c \in Callers |-> {}]

Busy(c) == call[c].pc # "idle" \/ manual[c].pc # "idle"
Afresh(c) == touched' = [touched EXCEPT ![c] = {}]

\* What one step of c changes is touched for everybody else who is busy, unless
\* both go through the coordinator; c answers again for the wheels it zeroes.
Touches(c, zeroed) ==
    LET changed == {e \in RegisteredEndpoints : drive'[e] # drive[e]}
    IN  touched' = [w \in Callers |->
            IF w = c THEN touched[w] \ zeroed
            ELSE IF \/ manual[w].pc \notin {"idle", "download"}
                    \/ call[w].pc # "idle" /\ manual[c].pc # "idle"
            THEN touched[w] \cup changed ELSE touched[w]]

(* ------------------- through the application port --------------------- *)

CoordinatedCall(c) ==
    /\ manual[c].pc = "idle" /\ (ApplyVelocity(c) \/ StopEndpoint(c) \/ StopAll(c))
    /\ UNCHANGED <<last_command, manual, touched>>

CoordinatedStep(c) ==
    /\ \/ (Acquire(c) \/ WriteTarget(c) \/ WriteStart(c)
             \/ WriteHalt(c)) /\ Touches(c, {})
       \/ WriteZero(c) /\ Touches(c, {stopping(c)})
       \/ AcquireTimesOut(c) /\ Afresh(c)
    /\ UNCHANGED <<last_command, manual>>

\* The coordinator has returned; the port goes on to record a success.
Return(c) ==
    /\ Release(c)
    /\ manual' = IF call[c].result # "SUCCESS" THEN manual
                 ELSE [manual EXCEPT ![c] = [Nothing EXCEPT
                         !.pc = "record", !.kind = call[c].kind,
                         !.requests = call[c].requests, !.index = 1]]
    /\ Afresh(c) /\ UNCHANGED last_command

(* ------------------------- around the coordinator --------------------- *)

Manual(o, kind, pc, requests) ==
    /\ ~Busy(o)
    /\ manual' = [manual EXCEPT ![o] = [Nothing EXCEPT
                    !.pc = pc, !.kind = kind, !.requests = requests, !.index = 1]]
    /\ UNCHANGED <<vars, last_command, touched>>

\* ENABLE n sets the speed of one motor to zero.
Enable(o) == \E e \in RegisteredEndpoints : Manual(o, "enable_one", "target", <<StopOf(e)>>)
EnableAll(o) == Manual(o, "enable_all", "target", everything)
MoveVel(o) == \E v \in Moves :
    Manual(o, "move", "target",
           [i \in DOMAIN Endpoints |-> [endpoint |-> Endpoints[i], rpm |-> v[Endpoints[i]]]])

asked(o) == manual[o].requests[manual[o].index]
last_asked(o) == manual[o].index = Len(manual[o].requests)

ManualWrite(o, registers, outcome, zeroed) ==
    /\ Write(asked(o).endpoint, registers, outcome)
    /\ Touches(o, zeroed) /\ UNCHANGED <<lock, call, last_command>>

\* Mutant: every wheel is started as soon as it has its target.
onward_wheel_by_wheel(o, next) ==
    IF last_asked(o) \/ manual[o].pc = "target" THEN [manual[o] EXCEPT !.pc = next]
    ELSE [manual[o] EXCEPT !.index = @ + 1]

\* The next wheel of this phase, or the first of the next phase.
onward(o, next) ==
    IF last_asked(o) THEN [manual[o] EXCEPT !.pc = next, !.index = 1]
    ELSE [manual[o] EXCEPT !.index = @ + 1]

\* stop_all_after_failure, or the stop of the one wheel
failed(o) == [manual[o] EXCEPT !.pc = "zero", !.ok = FALSE, !.index = 1]

SetTarget(o) ==
    /\ manual[o].pc = "target"
    /\ \E outcome \in Outcome :
         /\ ManualWrite(o, [drive[asked(o).endpoint] EXCEPT !.target = asked(o).rpm],
                        outcome, {})
         /\ manual' = [manual EXCEPT ![o] = IF outcome = "acknowledged"
                                            THEN onward(o, "start") ELSE failed(o)]
    /\ UNCHANGED missed

\* enable_prepared_targets
Start(o) ==
    /\ manual[o].pc = "start"
    /\ \E outcome \in Outcome :
         /\ ManualWrite(o, [drive[asked(o).endpoint] EXCEPT !.started = TRUE], outcome, {})
         /\ manual' = [manual EXCEPT ![o] = IF outcome = "acknowledged"
                                            THEN onward(o, "record") ELSE failed(o)]
    /\ UNCHANGED missed

\* svd48_stop_motor of one wheel after the other, whatever they answer.
StopZero(o) ==
    /\ manual[o].pc = "zero"
    /\ \E outcome \in Outcome :
         /\ ManualWrite(o, [drive[asked(o).endpoint] EXCEPT !.target = 0], outcome,
                        {asked(o).endpoint})
         /\ manual' = [manual EXCEPT ![o].pc = "halt",
                                     ![o].zeroed = outcome = "acknowledged"]
         /\ missed' = [missed EXCEPT ![o].reached = outcome # "lost",
                                     ![o].endpoints = @ \ {asked(o).endpoint}]

\* Mutant: a preparation goes on with a wheel that did not stop.
all_stopped_anyway(o, stopped) == TRUE

all_stopped(o, stopped) == manual[o].stopped /\ stopped

\* The commands for all motors record all of them; a lone wheel's stop that
\* follows a failure is not recorded.
about_all(o) ==
    \/ manual[o].kind \in {"enable_all", "move", "update"}
    \/ manual[o].kind = "stop" /\ Len(manual[o].requests) = Len(Endpoints)

stop_next_wheel(o, stopped) ==
    LET recorded == all_stopped(o, stopped) /\ about_all(o)
    IN  [onward(o, IF recorded THEN "record" ELSE "answer")
           EXCEPT !.pc = IF last_asked(o) THEN @ ELSE "zero",
                  !.stopped = all_stopped(o, stopped)]

StopHalt(o) ==
    /\ manual[o].pc = "halt"
    /\ \E outcome \in Outcome :
         LET stopped == manual[o].zeroed /\ outcome = "acknowledged"
         IN  /\ ManualWrite(o, [drive[asked(o).endpoint] EXCEPT !.started = FALSE],
                            outcome, {})
             /\ manual' = [manual EXCEPT ![o] =
                             IF manual[o].kind = "update" /\ stopped
                             THEN [@ EXCEPT !.pc = "note"] ELSE stop_next_wheel(o, stopped)]
             /\ missed' = [missed EXCEPT ![o].endpoints =
                             @ \cup IF outcome = "lost" /\ ~missed[o].reached
                                    THEN {asked(o).endpoint} ELSE {}]

\* robot_control_stop_motor, which records the wheel it has stopped
Note(o) ==
    /\ manual[o].pc = "note"
    /\ last_command' = [last_command EXCEPT ![asked(o).endpoint] = 0]
    /\ manual' = [manual EXCEPT ![o] = stop_next_wheel(o, TRUE)]
    /\ UNCHANGED <<vars, touched>>

\* What is recorded of all motors: the command, or the stop that followed it.
commanded(o) ==
    IF ~manual[o].ok \/ manual[o].kind = "update" THEN AtRest
    ELSE [e \in RegisteredEndpoints |->
            (CHOOSE r \in Range(manual[o].requests) : r.endpoint = e).rpm]

Record(c) ==
    /\ manual[c].pc = "record"
    /\ \/ /\ about_all(c) /\ last_command' = commanded(c)
          /\ manual' = [manual EXCEPT ![c].pc = IF manual[c].kind = "update"
                                                THEN "restart" ELSE "answer"]
       \/ /\ ~about_all(c)
          /\ last_command' = [last_command EXCEPT ![asked(c).endpoint] = asked(c).rpm]
          /\ manual' = [manual EXCEPT ![c] = onward(c, "answer")]
    /\ UNCHANGED <<vars, touched>>

Answer(c) ==
    /\ manual[c].pc = "answer" /\ manual' = [manual EXCEPT ![c] = Nothing]
    /\ missed' = [missed EXCEPT ![c] = [reached |-> FALSE, endpoints |-> {}]]
    /\ Afresh(c) /\ UNCHANGED <<drive, lock, call, faults, last_command>>

(* ----------------------------- OTA update ----------------------------- *)

\* robot_control_is_safe_for_ota; telemetry that is offline or stale is skipped.
is_safe_for_ota(fresh) == last_command = AtRest /\ \A e \in fresh : Speed(e) = 0

OtaUpdate(o) ==
    /\ \E fresh \in SUBSET RegisteredEndpoints : is_safe_for_ota(fresh)
    /\ Manual(o, "update", "download", <<>>)

\* The stops of some of the wheels, in the registry's order.
place(e) == CHOOSE i \in DOMAIN Endpoints : Endpoints[i] = e
stops_of(wheels) ==
    {s \in [1..Cardinality(wheels) -> {StopOf(e) : e \in wheels}] :
        \A i, j \in DOMAIN s : i < j => place(s[i].endpoint) < place(s[j].endpoint)}

\* robot_control_prepare_for_ota stops the motors that are online or commanded.
PrepareForOta(o) ==
    /\ manual[o].pc = "download"
    /\ \E online \in SUBSET RegisteredEndpoints :
         \E stops \in stops_of(online \cup {e \in RegisteredEndpoints : last_command[e] # 0}) :
             manual' = [manual EXCEPT ![o].pc = IF stops = <<>> THEN "record" ELSE "zero",
                                      ![o].requests = stops]
    /\ UNCHANGED <<vars, last_command, touched>>

\* The download, or the boot partition, fails.
GiveUp(o) ==
    /\ manual[o].pc \in {"download", "restart"}
    /\ manual' = [manual EXCEPT ![o] = Nothing]
    /\ Afresh(o) /\ UNCHANGED <<vars, last_command>>

\* The controller restarts, whatever the other tasks do; the drives do not.
\* The boot stop is the first call of the new composition.
Restart(o) ==
    /\ manual[o].pc = "restart"
    /\ call' = [c \in Callers |->
                  IF c # o THEN Idle
                  ELSE [Idle EXCEPT !.pc = "acquire", !.kind = "stop", !.requests = everything]]
    /\ lock' = "nobody" /\ last_command' = AtRest
    /\ manual' = [c \in Callers |-> Nothing] /\ touched' = [c \in Callers |-> {}]
    /\ missed' = [c \in Callers |-> [reached |-> FALSE, endpoints |-> {}]]
    /\ UNCHANGED <<drive, faults>>

ManualStep(c) ==
    \/ SetTarget(c) \/ Start(c) \/ StopZero(c) \/ StopHalt(c) \/ Note(c) \/ Record(c)
    \/ Answer(c) \/ PrepareForOta(c) \/ GiveUp(c) \/ Restart(c)

ManualNext ==
    \/ \E c \in Callers : CoordinatedCall(c) \/ CoordinatedStep(c) \/ Return(c) \/ ManualStep(c)
    \/ \E o \in Operators : Enable(o) \/ EnableAll(o) \/ MoveVel(o) \/ OtaUpdate(o)

ManualSpec == ManualInit /\ [][ManualNext]_manualVars

(* ----------------------------- properties ----------------------------- *)

\* Type invariant; no phase runs past its requests, and nobody is in a
\* coordinated call and around the coordinator at once.
ManualTypeOK ==
    /\ TypeOK
    /\ last_command \in [RegisteredEndpoints -> Nat]
    /\ touched \in [Callers -> SUBSET RegisteredEndpoints]
    /\ \A c \in Callers :
         /\ manual[c].pc \in {"idle", "target", "start", "zero", "halt", "note", "record",
                              "answer", "download", "restart"}
         /\ manual[c].index \in 0..(Len(manual[c].requests) + 1)
         /\ call[c].pc # "idle" => manual[c].pc = "idle"

\* A coordinated call that answers SUCCESS leaves every endpoint it names at
\* the speed it asked for, whatever the other callers of the coordinator tried
\* meanwhile: only the facade can have changed it.
SuccessIsExact ==
    \A c \in Callers : call[c].pc = "release" /\ call[c].result = "SUCCESS" =>
        \A i \in 1..Len(call[c].requests) :
            LET r == call[c].requests[i]
            IN  Speed(r.endpoint) = r.rpm \/ r.endpoint \in touched[c]

\* A coordinated stop (the boot stop after an update too) leaves no endpoint it
\* names turning, unless both the zero and the STOP written to it were lost or
\* the facade wrote it since: one endpoint that fails does not keep the others
\* turning.
StopReachesEverything ==
    \A c \in Callers : call[c].pc = "release" /\ call[c].kind = "stop" =>
        \A i \in 1..Len(call[c].requests) :
            LET e == call[c].requests[i].endpoint
            IN  Speed(e) = 0 \/ e \in missed[c].endpoints \cup touched[c]

\* "If either required endpoint cannot be applied, the coordinator stops any
\* already-applied endpoint": an apply that fails at a required endpoint
\* leaves neither that endpoint nor those before it turning, with the same two
\* exceptions.
FailedApplyStops ==
    \A c \in Callers :
        (/\ call[c].pc = "release" /\ call[c].kind = "apply"
         /\ call[c].result # "SUCCESS" /\ request(c).endpoint \in Required) =>
        \A e \in call[c].applied \union {request(c).endpoint} :
            Speed(e) = 0 \/ e \in missed[c].endpoints \cup touched[c]

\* A MOVE_VEL or ENABLE that fails at any wheel, in any phase, leaves none of
\* its wheels turning, unless both writes of the fail-stop of that wheel were
\* lost or somebody moved it after its zero.
FailedMoveStops ==
    \A o \in Callers : manual[o].pc = "answer" /\ ~manual[o].ok =>
        \A r \in Range(manual[o].requests) :
            Speed(r.endpoint) = 0 \/ r.endpoint \in missed[o].endpoints \cup touched[o]

\* ENABLE and MOVE_VEL start a wheel only when every wheel of the command holds
\* its target (the wheels start together, and ENABLE moves nothing), unless
\* somebody else wrote that wheel meanwhile.
StartsArePrepared ==
    \A o \in Callers : manual[o].pc = "start" =>
        \A r \in Range(manual[o].requests) :
            drive[r.endpoint].target = r.rpm \/ r.endpoint \in touched[o]

\* The callers' state is consistent and no wheel is started early.
StartsAreInStep == ManualTypeOK /\ StartsArePrepared

\* Whatever fails, in whichever call or command, the wheels it set turning are
\* stopped again.
FailuresStop == StopReachesEverything /\ FailedApplyStops /\ FailedMoveStops

\* Before the boot partition changes for an update, every wheel that answers or
\* was commanded is at rest, unless somebody moved it after its zero.
UpdateFindsRest ==
    \A o \in Callers : manual[o].pc = "restart" =>
        \A r \in Range(manual[o].requests) :
            Speed(r.endpoint) = 0 \/ r.endpoint \in touched[o]
==============================================================================
