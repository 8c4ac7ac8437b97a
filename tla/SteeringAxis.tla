----------------------------- MODULE SteeringAxis -----------------------------
(***************************************************************************)
(* The steering axis: as5600_device reads the angle of the wheel, the      *)
(* steering task feeds it through steering_position_endpoint_adapter to    *)
(* steering_position_controller, which drives the wheel's motor with three *)
(* kinds of pulses.  Position requests, stops and references come from     *)
(* other tasks, between the polls and the ticks of the steering task.      *)
(*                                                                         *)
(* Angles are whole steps; the sensor sees them modulo Cycle.  A driven    *)
(* wheel moves at most one step in a time unit, which is a period of the   *)
(* task.  Timestamps are counted as ages and the time left to deadlines.   *)
(* The angle's correction table is a bijection and is left out, as is the  *)
(* strength of the pulses.                                                 *)
(***************************************************************************)
EXTENDS Integers

CONSTANTS
    Cycle,             \* steps of a turn
    MaxPosition,       \* the axis moves within 0..MaxPosition
    MaxRawStep,        \* max_raw_circular_step_counts
    ReacquireError,    \* ... in steps; the arrival error is 0
    StableSamples, ReacquireSamples,
    StaleTimeout, FaultTimeout, CommandTtl, MoveTimeout, ReversalSettle,
    SensorPeriod,      \* telemetry_period_ms of the sensor
    WriteFailures,     \* PWM writes that may fail
    Pushes,            \* steps the wheel at rest may be pushed
    Magnets            \* what the sensor may say of its magnet

ASSUME AxisAssumption ==
    /\ Cycle \in Nat \ {0} /\ MaxPosition \in 1..(Cycle \div 2)
    /\ MaxRawStep \in Nat /\ 0 < MaxRawStep /\ MaxRawStep < Cycle \div 2
    /\ ReacquireError \in Nat \ {0} /\ StableSamples \in Nat \ {0} /\ ReacquireSamples \in Nat \ {0}
    /\ StaleTimeout \in Nat \ {0} /\ FaultTimeout \in Nat /\ FaultTimeout > StaleTimeout
    /\ CommandTtl \in Nat \ {0} /\ MoveTimeout \in Nat \ {0} /\ ReversalSettle \in Nat
    /\ SensorPeriod \in Nat \ {0} /\ WriteFailures \in Nat /\ Pushes \in Nat
    /\ Magnets \subseteq {"GOOD", "WEAK", "BAD"}

VARIABLES
    wheel,    \* where the wheel is
    pulse,    \* what the PWM puts out
    sensor,   \* the device's snapshot
    last_raw, \* the adapter's last_raw_angle, or None
    c,        \* the controller
    phase,    \* the steering task is about to "POLL" or "TICK", or sleeps
    next_poll, write_failures, pushes,
    \* history
    sampled_wheel, \* where the wheel was when the controller's latest sample was taken
    last_pulse, rest, \* the last drive, and the time since
    target_age,    \* time since the target was last changed
    driving        \* periods the wheel has been driven in a row; 2: or more

history == <<sampled_wheel, last_pulse, rest, target_age, driving>>
axisVars == <<wheel, pulse, sensor, last_raw, c, phase, next_poll, write_failures, pushes,
              history>>

None == -1
cap(n, most) == IF n > most THEN most ELSE n
less(n) == IF n = 0 THEN 0 ELSE n - 1
magnitude(n) == IF n < 0 THEN -n ELSE n

cyclic(angle) == angle % Cycle
\* signed_cyclic_delta_deg and raw_circular_delta
signed_delta(newer, older) ==
    LET d == newer - older
    IN  CASE d > Cycle \div 2 -> d - Cycle
          [] d < -(Cycle \div 2) -> d + Cycle
          [] d \in -(Cycle \div 2) .. Cycle \div 2 -> d

-----------------------------------------------------------------------------
(* as5600_device.                                                          *)

NoSample == [valid |-> FALSE, raw |-> 0, age |-> 0, last_poll |-> "NOT_READY",
             magnet |-> "BAD", diagnostics |-> "DUE", wheel |-> 0]

sensor_stale(s) == ~s.valid \/ s.age > StaleTimeout

\* finish_failed_poll keeps the sample; finish_sample stamps it.  The
\* diagnostics are read once, with the first sample.
as5600_device_poll(answered, magnet, diagnosed) ==
    IF ~answered THEN [sensor EXCEPT !.last_poll = "FAILED"]
    ELSE LET due == sensor.diagnostics = "DUE"
         IN  [valid |-> TRUE, raw |-> cyclic(wheel), age |-> 0, magnet |-> magnet,
              last_poll |-> IF due /\ ~diagnosed THEN "PARTIAL" ELSE "OK",
              diagnostics |-> IF due THEN (IF diagnosed THEN "VALID" ELSE "FAILED")
                              ELSE sensor.diagnostics,
              wheel |-> wheel]

-----------------------------------------------------------------------------
(* steering_position_endpoint_adapter: what the controller is told.        *)

\* A weak magnet is permitted, while reads succeed.
permitted_weak(s) == s.magnet = "WEAK" /\ s.last_poll = "OK"
usable(s) ==
    /\ ~sensor_stale(s) /\ s.last_poll = "OK" /\ s.diagnostics # "FAILED"
    /\ s.magnet = "GOOD" \/ permitted_weak(s)
immediate_fault(s) ==
    /\ ~sensor_stale(s)
    /\ \/ s.magnet = "BAD" \/ s.diagnostics = "FAILED" \/ s.last_poll = "PARTIAL"
       \/ s.magnet = "WEAK" /\ ~permitted_weak(s)

\* Mutant: the angle may have jumped.
raw_step_is_accepted_always(raw) == raw >= 0

raw_step_is_accepted(raw) ==
    last_raw = None \/ magnitude(signed_delta(raw, last_raw)) <= MaxRawStep
jumps(s) == usable(s) /\ ~raw_step_is_accepted(s.raw)

\* sample_from_snapshot and raw_jump_fault_sample; a missing magnet, which is
\* what the snapshot says before the first sample, is a hard fault.
Sample(s) == [valid |-> usable(s) /\ ~jumps(s),
              hard |-> immediate_fault(s) \/ jumps(s) \/ s.magnet = "BAD"]

-----------------------------------------------------------------------------
(* steering_position_controller.                                           *)

controller_init ==
    [homed |-> FALSE, state |-> "UNHOMED", fault |-> "NONE", target_active |-> FALSE,
     at_target |-> FALSE, target |-> 0, command_left |-> 0, move_left |-> 0,
     stable |-> 0, reacquire |-> 0, position |-> 0, latest |-> 0, age |-> 0,
     known |-> TRUE, output |-> "NEUTRAL", neutral_age |-> 0, last_direction |-> "NONE"]

clear_target(k) ==
    [k EXCEPT !.target_active = FALSE, !.at_target = FALSE, !.stable = 0, !.reacquire = 0,
              !.command_left = 0, !.move_left = 0]
\* Mutant: the target stays active.
set_fault_keeps_target(k, fault) == [k EXCEPT !.state = "FAULT", !.fault = fault]

set_fault(k, fault) == [clear_target(k) EXCEPT !.state = "FAULT", !.fault = fault]
has_fault(k) == k.fault # "NONE"

fresh(k) == k.age <= StaleTimeout
faulted_by_age(k) == k.age >= FaultTimeout

is_non_neutral(k) == ~k.known \/ k.output # "NEUTRAL"
writes_neutral(k, force) == force \/ is_non_neutral(k)

\* Mutant: the transition to neutral is not recorded.
wrote_neutral_unrecorded(k) == [k EXCEPT !.known = TRUE, !.output = "NEUTRAL"]

wrote_neutral(k) ==
    [k EXCEPT !.known = TRUE, !.output = "NEUTRAL",
              !.neutral_age = IF is_non_neutral(k) THEN 0 ELSE @]

\* command_neutral: ok is what the PWM answers if it is written.
command_neutral(k, force, ok) ==
    IF ~writes_neutral(k, force) THEN k
    ELSE IF ok THEN wrote_neutral(k)
    ELSE [set_fault(k, "OUTPUT") EXCEPT !.known = FALSE]

\* The controller becomes k by way of a neutral command.
GoNeutral(k, force, ok) ==
    /\ c' = command_neutral(k, force, ok)
    /\ pulse' = IF writes_neutral(k, force) /\ ok THEN "NEUTRAL" ELSE pulse
    /\ write_failures' =
           IF writes_neutral(k, force) /\ ~ok THEN write_failures + 1 ELSE write_failures

MayFail(ok) == ok \/ write_failures < WriteFailures

is_newer(k, s) == s.age < k.age
\* accept_new_sample; what is accepted before the reference is replaced by it
accepted(k, s) ==
    IF k.homed /\ Sample(s).valid /\ is_newer(k, s)
    THEN [k EXCEPT !.position = @ + signed_delta(s.raw, k.latest),
                   !.latest = s.raw, !.age = s.age]
    ELSE k

in_bounds(k) == k.position \in 0..MaxPosition
distance(k) == k.target - k.position
direction(k) == IF distance(k) > 0 THEN "POSITIVE" ELSE "NEGATIVE"

reversal_settle_required(k) ==
    /\ ReversalSettle > 0
    /\ k.last_direction \notin {"NONE", direction(k)}
    /\ is_non_neutral(k) \/ k.neutral_age < ReversalSettle

\* Each part of tick is an alternative that the guards before it leave.
NeedsNoTracking(k, s, ok) ==
    \/ has_fault(k) /\ GoNeutral(k, FALSE, ok)
    \/ ~has_fault(k) /\ Sample(s).hard /\ GoNeutral(set_fault(k, "SENSOR_HEALTH"), TRUE, ok)
    \/ /\ ~has_fault(k) /\ ~Sample(s).hard
       /\ \/ ~k.homed /\ GoNeutral(k, FALSE, ok)
          \/ /\ k.homed /\ faulted_by_age(k) /\ ~fresh(k)
             /\ GoNeutral(set_fault(k, "SENSOR_TIMEOUT"), TRUE, ok)
          \/ /\ k.homed /\ ~faulted_by_age(k) /\ ~fresh(k)
             /\ GoNeutral([k EXCEPT !.state = "SENSOR_STALE"], FALSE, ok)
          \/ /\ k.homed /\ fresh(k) /\ ~in_bounds(k)
             /\ GoNeutral(set_fault(k, "POSITION_OUT_OF_RANGE"), TRUE, ok)
          \/ /\ k.homed /\ fresh(k) /\ in_bounds(k) /\ ~k.target_active
             /\ GoNeutral([k EXCEPT !.state = "IDLE"], FALSE, ok)

tracks(k, s) ==
    ~has_fault(k) /\ ~Sample(s).hard /\ k.homed /\ fresh(k) /\ in_bounds(k) /\ k.target_active

command_expired(k) == k.command_left = 0
move_timed_out(k) == ~k.at_target /\ k.move_left = 0

Expire(k, ok) ==
    \/ /\ command_expired(k)
       /\ GoNeutral([clear_target(k) EXCEPT !.state = "COMMAND_EXPIRED"], TRUE, ok)
    \/ /\ ~command_expired(k) /\ move_timed_out(k)
       /\ GoNeutral(set_fault(k, "MOVE_TIMEOUT"), TRUE, ok)

\* The reacquisition counts samples, not ticks.
evidence(k, new) == IF new THEN cap(k.reacquire + 1, ReacquireSamples) ELSE k.reacquire
near(k) == magnitude(distance(k)) <= ReacquireError
keeps_holding(k, new) == k.at_target /\ (near(k) \/ evidence(k, new) < ReacquireSamples)

Hold(k, new, ok) ==
    /\ keeps_holding(k, new)
    /\ GoNeutral([k EXCEPT !.state = "HOLDING_TARGET",
                           !.reacquire = IF near(k) THEN 0 ELSE evidence(k, new)], FALSE, ok)

released(k) == [k EXCEPT !.at_target = FALSE, !.stable = 0, !.reacquire = 0]
searching(k) == IF k.at_target THEN released(k) ELSE k

Arrive(k, new, ok) ==
    LET n == IF new THEN cap(k.stable + 1, StableSamples) ELSE k.stable
        arrived == n >= StableSamples
    IN  /\ distance(k) = 0
        /\ GoNeutral([k EXCEPT !.stable = n, !.at_target = arrived,
                      !.state = IF arrived THEN "HOLDING_TARGET" ELSE "WAITING_STABLE"], FALSE, ok)

Settle(k, ok) ==
    /\ distance(k) # 0 /\ reversal_settle_required(k)
    /\ GoNeutral([k EXCEPT !.stable = 0, !.state = "REVERSAL_SETTLING"], FALSE, ok)

\* write_pulse is skipped when the pulse is the one put out already; a failed
\* one is followed by a neutral one, whose result, after, is not looked at.
Drive(k, ok, after) ==
    /\ distance(k) # 0 /\ ~reversal_settle_required(k)
    /\ IF ok
       THEN /\ c' = [k EXCEPT !.stable = 0, !.state = "TRACKING", !.known = TRUE,
                              !.output = direction(k), !.last_direction = direction(k)]
            /\ pulse' = direction(k) /\ UNCHANGED write_failures
       ELSE /\ c' = LET f == set_fault(k, "OUTPUT")
                    IN  [f EXCEPT !.known = after, !.output = IF after THEN "NEUTRAL" ELSE @]
            /\ pulse' = IF after THEN "NEUTRAL" ELSE pulse
            /\ write_failures' = write_failures + 1

Track(k, new, ok, after) ==
    \/ Hold(k, new, ok)
    \/ /\ ~keeps_holding(k, new)
       /\ \/ Arrive(searching(k), new, ok)
          \/ Settle(searching(k), ok)
          \/ Drive(searching(k), ok, after)

-----------------------------------------------------------------------------
(* steering_service_task.                                                  *)

NoteRest ==
    /\ last_pulse' = IF pulse' = "NEUTRAL" THEN last_pulse ELSE pulse'
    /\ rest' = IF pulse' = "NEUTRAL" THEN rest ELSE 0

PollSensor(answered, magnet, diagnosed) ==
    /\ phase = "POLL"
    /\ phase' = "TICK"
    /\ IF next_poll = 0
       THEN /\ sensor' = as5600_device_poll(answered, magnet, diagnosed)
            /\ next_poll' = SensorPeriod
       ELSE UNCHANGED <<sensor, next_poll>>
    /\ UNCHANGED <<wheel, pulse, last_raw, c, write_failures, pushes, history>>

\* steering_position_endpoint_adapter_tick
TickAxis(ok, after) ==
    /\ phase = "TICK" /\ MayFail(ok)
    /\ phase' = "SLEEP"
    /\ last_raw' = IF usable(sensor) /\ ~jumps(sensor) THEN sensor.raw ELSE last_raw
    /\ LET k   == accepted(c, sensor)
           new == c.homed /\ Sample(sensor).valid /\ is_newer(c, sensor)
       IN  /\ \/ NeedsNoTracking(k, sensor, ok)
              \/ tracks(k, sensor) /\ Expire(k, ok)
              \/ /\ tracks(k, sensor) /\ ~command_expired(k) /\ ~move_timed_out(k)
                 /\ Track(k, new, ok, after)
           /\ sampled_wheel' = IF new THEN sensor.wheel ELSE sampled_wheel
    /\ NoteRest
    /\ UNCHANGED <<wheel, sensor, next_poll, pushes, target_age, driving>>

-----------------------------------------------------------------------------
(* The calls of other tasks, through the coordinator.                      *)

\* steering_position_controller_set_target, with a target within bounds
SetTarget(t, ok) ==
    /\ MayFail(ok)
    /\ ~has_fault(c) /\ c.homed
    /\ LET refresh == c.target_active /\ c.target = t
           k == [c EXCEPT !.target = t, !.target_active = TRUE, !.command_left = CommandTtl]
       IN  \/ ~fresh(c) /\ GoNeutral([c EXCEPT !.state = "SENSOR_STALE"], TRUE, ok)
                        /\ UNCHANGED target_age
           \/ /\ fresh(c) /\ refresh
              /\ ok /\ c' = k /\ UNCHANGED <<pulse, write_failures, target_age>>
           \/ /\ fresh(c) /\ ~refresh
              /\ GoNeutral(IF ok THEN [k EXCEPT !.move_left = MoveTimeout, !.at_target = FALSE,
                                                !.stable = 0, !.reacquire = 0,
                                                !.state = "TRACKING"]
                                 ELSE c, TRUE, ok)
              /\ target_age' = 0
    /\ NoteRest
    /\ UNCHANGED <<wheel, sensor, last_raw, phase, next_poll, pushes, sampled_wheel, driving>>

\* steering_position_controller_stop
StopAxis(ok) ==
    /\ MayFail(ok)
    /\ LET k == clear_target(c)
       IN  GoNeutral([k EXCEPT !.state = IF has_fault(k) THEN "FAULT"
                                         ELSE IF k.homed THEN "IDLE" ELSE "UNHOMED"], TRUE, ok)
    /\ NoteRest
    /\ UNCHANGED <<wheel, sensor, last_raw, phase, next_poll, pushes, sampled_wheel, target_age,
                   driving>>

\* steering_position_endpoint_adapter_set_reference, at any time and of a moving
\* wheel too: the operator names the angle at which the sample was taken.
SetReference(ok) ==
    /\ MayFail(ok)
    /\ usable(sensor) /\ ~has_fault(c) /\ sensor.wheel \in 0..MaxPosition
    /\ LET k == clear_target([c EXCEPT !.homed = TRUE, !.position = sensor.wheel,
                                       !.latest = sensor.raw, !.age = sensor.age,
                                       !.state = "IDLE"])
       IN  IF ok THEN /\ GoNeutral(k, TRUE, ok)
                      /\ last_raw' = sensor.raw /\ sampled_wheel' = sensor.wheel
           ELSE GoNeutral(c, TRUE, ok) /\ UNCHANGED <<last_raw, sampled_wheel>>
    /\ NoteRest
    /\ UNCHANGED <<wheel, sensor, phase, next_poll, pushes, target_age, driving>>

-----------------------------------------------------------------------------
(* Time and the wheel.                                                     *)

Driven == CASE pulse = "NEUTRAL" -> {0} [] pulse = "POSITIVE" -> {0, 1} [] pulse = "NEGATIVE" -> {0, -1}
Moves == Driven \cup (IF pulse = "NEUTRAL" /\ pushes < Pushes THEN {-1, 1} ELSE {})

\* The task sleeps a period; deadlines are absolute, ages saturate.
Advance(step) ==
    /\ phase = "SLEEP" /\ phase' = "POLL"
    /\ wheel' = wheel + step
    /\ pushes' = IF step \in Driven THEN pushes ELSE pushes + 1
    /\ sensor' = [sensor EXCEPT !.age = cap(@ + 1, FaultTimeout + 1)]
    /\ c' = [c EXCEPT !.age = cap(@ + 1, FaultTimeout + 1), !.command_left = less(@),
                      !.move_left = less(@), !.neutral_age = cap(@ + 1, ReversalSettle)]
    /\ next_poll' = less(next_poll)
    /\ rest' = IF pulse = "NEUTRAL" THEN cap(rest + 1, ReversalSettle) ELSE 0
    /\ target_age' = cap(target_age + 1, MoveTimeout + 1)
    /\ driving' = IF pulse = "NEUTRAL" THEN 0 ELSE cap(driving + 1, 2)
    /\ UNCHANGED <<pulse, last_raw, write_failures, sampled_wheel, last_pulse>>

AxisInit ==
    /\ wheel \in 0..MaxPosition /\ pulse = "NEUTRAL" /\ sensor = NoSample /\ last_raw = None
    /\ c = controller_init /\ phase = "POLL" /\ next_poll = 0 /\ write_failures = 0 /\ pushes = 0
    /\ sampled_wheel = 0 /\ last_pulse = "NONE" /\ rest = 0
    /\ target_age = 0 /\ driving = 0

PollSome == \E answered, diagnosed \in BOOLEAN, magnet \in Magnets :
                PollSensor(answered, magnet, diagnosed)
TickSome == \E ok, after \in BOOLEAN : TickAxis(ok, after)
AdvanceSome == \E step \in Moves : Advance(step)
SteeringTask == PollSome \/ TickSome \/ AdvanceSome
Calls == \E ok \in BOOLEAN :
             StopAxis(ok) \/ SetReference(ok) \/ \E t \in 0..MaxPosition : SetTarget(t, ok)

AxisNext == SteeringTask \/ Calls
AxisSpec == AxisInit /\ [][AxisNext]_axisVars

-----------------------------------------------------------------------------
(* Properties.                                                             *)

AxisTypeOK ==
    /\ wheel \in Int /\ pulse \in {"NEUTRAL", "POSITIVE", "NEGATIVE"}
    /\ last_raw \in 0..Cycle - 1 \cup {None} /\ phase \in {"POLL", "TICK", "SLEEP"}
    /\ sensor.raw \in 0..Cycle - 1 /\ sensor.age \in 0..FaultTimeout + 1
    /\ c.stable \in 0..StableSamples /\ c.reacquire \in 0..ReacquireSamples
    /\ c.target_active => c.homed /\ c.fault = "NONE"
    /\ c.known => c.output = pulse

\* The unwrapped position is where the wheel was at the controller's latest
\* sample, until a fault ends its use: reads that fail, stale sensors and the
\* turn's end never cost or add a turn (accept_sample, raw_step_is_accepted and
\* the stale-neutral rule).
PositionIsTrue ==
    [][c'.homed /\ c.fault = "NONE" => c'.position = sampled_wheel']_axisVars

\* The wheel is driven on a recent sample, a lease in force and for no longer
\* than the move timeout after its target changed, whatever refreshes it and
\* whatever fails, unless the PWM itself refused to stop.  A wheel that was
\* pushed off its target later than that is driven for one period, after which
\* the move has timed out.
DriveIsFed ==
    pulse # "NEUTRAL" /\ c.known =>
        /\ c.age <= StaleTimeout + 1
        /\ phase = "SLEEP" => c.command_left > 0
        /\ target_age <= MoveTimeout \/ driving <= 1

\* A drive against the last one waits until the wheel rested for the settling time.
ReversalSettles ==
    [][pulse' \notin {"NEUTRAL", last_pulse} /\ last_pulse # "NONE"
           => rest >= ReversalSettle]_axisVars

\* Every tick of an axis in fault leaves the wheel at rest or finds that the
\* PWM does not take the neutral pulse: a write that failed is tried again.
FaultRests ==
    [][phase = "TICK" /\ phase' = "SLEEP" /\ has_fault(c') =>
           pulse' = "NEUTRAL" \/ write_failures' > write_failures]_axisVars

\* A wheel comes to rest before it is reversed, and when its axis faults.
DriveRests == ReversalSettles /\ FaultRests

\* The axis's state is consistent, and a drive is fed by samples and leases.
AxisHolds == AxisTypeOK /\ DriveIsFed
=============================================================================
