---------------------------- MODULE RobotSafety ----------------------------
(***************************************************************************)
(* components/robot_safety/robot_safety.c: the safety task.  Every period  *)
(* it samples the RC receiver, feeds the RC/LAN interlock, looks for motor *)
(* faults, publishes its status under a lock it may fail to take, and      *)
(* stops all endpoints, repeatedly, while a hazard lasts.                  *)
(*                                                                         *)
(* The receiver (components/ibus_receiver) and the motor telemetry are the *)
(* environment.  One tick is one period of the task; TickType_t wraps.     *)
(***************************************************************************)
EXTENDS RcLanInterlockModel, Integers

CONSTANTS
    StopOnRcLoss,      \* config.stop_on_rc_loss
    StopOnMotorFault,  \* config.stop_on_motor_fault
    StaleTimeout,      \* the receiver's stale_timeout_ms, in ticks
    LossTimeout,       \* config.rc_loss_timeout_ms, in ticks
    StopRepeat,        \* config.stop_repeat_ms, in ticks
    TickCounter,       \* the modulus of TickType_t
    Pulses,            \* the pulses the receiver's frames carry
    MaxAge,            \* bound: frame ages from here on are alike
    FramesPerTick,     \* bound: frames accepted between two samples
    MaxStopTime        \* bound: how long a stop_all call takes, in ticks

ASSUME SafetyConfig ==
    /\ StopOnRcLoss \in BOOLEAN /\ StopOnMotorFault \in BOOLEAN
    /\ {StaleTimeout, LossTimeout, FramesPerTick, MaxStopTime, MaxAge,
        TickCounter} \subseteq Nat
    /\ StopRepeat \in Nat \ {0} /\ Pulses \subseteq Pulse
    /\ TickCounter > StopRepeat + MaxStopTime + 1
    /\ MaxAge > StaleTimeout /\ MaxAge >= LossTimeout

VARIABLES
    receiver,        \* last accepted frame: sequence, pulse, age in ticks
    arrived,         \* frames accepted since the last sample
    motor_fault,     \* an online, fresh motor reports an error code
    tick,            \* xTaskGetTickCount()
    pc,              \* where the task is in its loop
    interlock,       \* handle->rc_lan_interlock
    rc_signal_seen, rc_loss_active, motor_fault_active, last_stop_tick,
    status,          \* handle->status, what other tasks see
    run,             \* history: agreeing new frames in a row, as sampled
    waiting          \* history: ticks a hazard has gone on without a stop

environment == <<receiver, arrived, motor_fault>>
locals == <<rc_signal_seen, rc_loss_active, motor_fault_active>>
vars == <<environment, tick, pc, interlock, locals, last_stop_tick, status,
          run, waiting>>

NeverSeen == [sequence |-> 0, pulse |-> "absent", age |-> MaxAge]

NoRun == [pulse |-> "absent", frames |-> 0]

\* What robot_safety_init computes from an observation of no signal.
Init ==
    /\ receiver = NeverSeen /\ arrived = 0 /\ motor_fault = FALSE
    /\ tick = 0 /\ pc = "sample"
    /\ interlock = update(interlock_init,
                          [signal_valid |-> FALSE, valid_frame_sequence |-> 0,
                           pulse |-> "absent"])
    /\ rc_signal_seen = FALSE /\ rc_loss_active = FALSE
    /\ motor_fault_active = FALSE /\ last_stop_tick = 0
    /\ status = [task_running |-> FALSE, rc_loss_active |-> FALSE,
                 motor_fault_active |-> FALSE, priority_epoch |-> 0,
                 lan_control_allowed |-> lan_allowed(interlock)]
    /\ run = NoRun /\ waiting = 0

(* ---------------------------- environment ----------------------------- *)

\* The receiver accepts a frame; the sequence is bounded by Counter.
AcceptFrame(pulse) ==
    /\ arrived < FramesPerTick /\ receiver.sequence < Counter - 1
    /\ receiver' = [sequence |-> receiver.sequence + 1, pulse |-> pulse,
                    age |-> 0]
    /\ arrived' = arrived + 1
    /\ UNCHANGED <<motor_fault, tick, pc, interlock, locals, last_stop_tick,
                   status, run, waiting>>

MotorChanges ==
    /\ motor_fault' = ~motor_fault
    /\ UNCHANGED <<receiver, arrived, tick, pc, interlock, locals,
                   last_stop_tick, status, run, waiting>>

(* ------------------------------ the task ------------------------------ *)

\* ibus_receiver_get_status, which may fail to take the receiver's lock.
receiver_status(ok) ==
    IF ok THEN [signal_valid |-> receiver.age <= StaleTimeout,
                valid_frame_sequence |-> receiver.sequence,
                pulse |-> receiver.pulse]
    ELSE [signal_valid |-> FALSE, valid_frame_sequence |-> 0,
          pulse |-> "absent"]

\* History: the new frames in a row that ask for one side, as sampled.
RunAfter(o) ==
    LET heard == o.signal_valid /\ o.pulse # "absent"
        before == IF heard /\ o.pulse = run.pulse THEN run.frames ELSE 0
        counted == IF is_valid_new_frame(interlock, o) THEN 1 ELSE 0
    IN  IF ~heard THEN NoRun
        ELSE [pulse |-> o.pulse,
              frames |-> IF before = ConfirmFrames THEN before
                         ELSE before + counted]

\* Sample the receiver and the motors; the interlock moves.
Sample ==
    /\ pc = "sample" /\ pc' = "record"
    /\ \E ok \in BOOLEAN :
         LET o == receiver_status(ok) IN
         /\ interlock' = update(interlock, o)
         /\ rc_signal_seen' = (rc_signal_seen \/ o.signal_valid)
         /\ rc_loss_active' = (/\ ok /\ rc_signal_seen' /\ ~o.signal_valid
                               /\ receiver.age >= LossTimeout)
         /\ run' = RunAfter(o)
    /\ motor_fault_active' = (StopOnMotorFault /\ motor_fault)
    /\ arrived' = 0
    /\ UNCHANGED <<receiver, motor_fault, tick, last_stop_tick, status,
                   waiting>>

\* record_status gives up when it cannot take the lock in time.
Record ==
    /\ pc = "record" /\ pc' = "stop"
    /\ \E locked \in BOOLEAN :
         status' = IF locked
                   THEN [task_running |-> TRUE,
                         rc_loss_active |-> rc_loss_active,
                         motor_fault_active |-> motor_fault_active,
                         priority_epoch |-> interlock.priority_epoch,
                         lan_control_allowed |-> lan_allowed(interlock)]
                   ELSE status
    /\ UNCHANGED <<environment, tick, interlock, locals, last_stop_tick, run,
                   waiting>>

Hazard == (StopOnRcLoss /\ rc_loss_active) \/ motor_fault_active

\* Mutant: the elapsed time is not computed modulo the tick counter.
stop_due_signed == last_stop_tick = 0 \/ tick - last_stop_tick >= StopRepeat

\* A stop is repeated every stop_repeat_ms; 0 stands for "never stopped".
stop_due ==
    \/ last_stop_tick = 0
    \/ (tick - last_stop_tick) % TickCounter >= StopRepeat

Older(age, ticks) == IF age + ticks > MaxAge THEN MaxAge ELSE age + ticks

\* Stop all endpoints when it is due; the call takes its time.
RequestStop ==
    /\ pc = "stop" /\ Hazard /\ stop_due /\ pc' = "sleep"
    /\ \E d \in 0..MaxStopTime :
         /\ tick' = (tick + d) % TickCounter
         /\ receiver' = [receiver EXCEPT !.age = Older(@, d)]
         /\ waiting' = d
    /\ last_stop_tick' = tick
    /\ UNCHANGED <<arrived, motor_fault, interlock, locals, status, run>>

NoStop ==
    /\ pc = "stop" /\ ~(Hazard /\ stop_due) /\ pc' = "sleep"
    /\ waiting' = IF Hazard THEN waiting ELSE 0
    /\ UNCHANGED <<environment, tick, interlock, locals, last_stop_tick,
                   status, run>>

\* vTaskDelayUntil: the next period.
Wake ==
    /\ pc = "sleep" /\ pc' = "sample"
    /\ tick' = (tick + 1) % TickCounter
    /\ receiver' = [receiver EXCEPT !.age = Older(@, 1)]
    /\ waiting' = IF Hazard THEN waiting + 1 ELSE 0
    /\ UNCHANGED <<arrived, motor_fault, interlock, locals, last_stop_tick,
                   status, run>>

Next ==
    \/ \E pulse \in Pulses : AcceptFrame(pulse)
    \/ MotorChanges
    \/ Sample \/ Record \/ RequestStop \/ NoStop \/ Wake

Spec == Init /\ [][Next]_vars

(* ----------------------------- properties ----------------------------- *)

\* The interlock, the task's locals and the status keep their types; the
\* count of confirmations stays below what commits.
TypeOK ==
    /\ interlock \in Interlock
    /\ interlock.candidate_valid_frames < ConfirmFrames
    /\ receiver \in [sequence: 0..(Counter - 1), pulse: Pulse, age: 0..MaxAge]
    /\ tick \in 0..(TickCounter - 1) /\ last_stop_tick \in 0..(TickCounter - 1)
    /\ pc \in {"sample", "record", "stop", "sleep"}
    /\ {rc_signal_seen, rc_loss_active, motor_fault_active, motor_fault}
           \subseteq BOOLEAN
    /\ status \in [task_running: BOOLEAN, rc_loss_active: BOOLEAN,
                   motor_fault_active: BOOLEAN,
                   priority_epoch: 0..(Counter - 1),
                   lan_control_allowed: BOOLEAN]
    /\ run \in [pulse: Pulse, frames: 0..ConfirmFrames] /\ arrived \in 0..FramesPerTick

\* While the receiver is heard, the authority passes from one operator to
\* the other only on ConfirmFrames distinct frames in a row that ask for it:
\* neither a noisy frame nor a cached one read again is enough.
OneFrameIsNotEnough ==
    [][(/\ lan_allowed(interlock') # lan_allowed(interlock)
        /\ interlock.state \notin Lost /\ interlock'.state \notin Lost)
           => run'.frames >= ConfirmFrames]_vars

\* The interlock keeps its types, and commits on confirmed frames only.
InterlockHolds == []TypeOK /\ OneFrameIsNotEnough

\* While a hazard lasts a stop is requested at least every StopRepeat ticks,
\* through the wrap of the tick counter and however long a call takes.
StopIsTimely ==
    [][(NoStop /\ Hazard) => waiting < StopRepeat]_vars
=============================================================================
