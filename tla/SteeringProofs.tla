---------------------------- MODULE SteeringProofs ----------------------------
(***************************************************************************)
(* Proofs about SteeringAxis, for every axis, policy and time-out: what    *)
(* drives is fed, and what reverses or faults has rested.  That the        *)
(* unwrapped position is the wheel's needs a wheel that turns no further   *)
(* than half a turn before a silent sensor is a fault (TurnIsSlow).        *)
(***************************************************************************)
EXTENDS SteeringAxis, TLAPS

(* ------------------------ angles within a turn -------------------------- *)

\* A number is a multiple and a remainder.
LEMMA Division ==
    ASSUME NEW n \in Nat \ {0}, NEW a \in Int
    PROVE  /\ a \div n \in Int /\ (a % n) \in 0..(n - 1)
           /\ a = (a \div n) * n + (a % n)
  OBVIOUS

\* An angle is a whole number of turns and what the sensor sees.
LEMMA Turns ==
    ASSUME AxisAssumption, NEW a \in Int
    PROVE  cyclic(a) \in 0..(Cycle - 1) /\ \E q \in Int : a = q * Cycle + cyclic(a)
  <1>1. Cycle \in Nat \ {0}
    BY DEF AxisAssumption
  <1> QED BY <1>1, Division DEF cyclic

\* The difference of two numbers, multiple by multiple.
LEMMA DifferenceOf ==
    ASSUME NEW n \in Nat \ {0}, NEW qa \in Int, NEW qb \in Int, NEW ra \in Int, NEW rb \in Int,
           NEW a \in Int, NEW b \in Int, a = qa * n + ra, b = qb * n + rb
    PROVE  a - b = (qa - qb) * n + (ra - rb)
  OBVIOUS

\* A whole number of turns is none, or at least one.
LEMMA WholeTurns ==
    ASSUME NEW k \in Int, NEW n \in Nat \ {0}
    PROVE  k * n \in Int /\ (k >= 2 => k * n >= 2 * n) /\ (k <= -2 => k * n <= -2 * n)
  <1>1. k * n \in Int
    OBVIOUS
  <1>2. k >= 2 => (k - 2) * n >= 0
    OBVIOUS
  <1>3. k <= -2 => (-2 - k) * n >= 0
    OBVIOUS
  <1>4. (k - 2) * n = k * n - 2 * n /\ (-2 - k) * n = -2 * n - k * n
    OBVIOUS
  <1> QED BY <1>1, <1>2, <1>3, <1>4

\* Two angles no more than half a turn apart: the difference of what the sensor
\* sees of them is theirs, if it is less than half a turn.
LEMMA TurnIsKnown ==
    ASSUME AxisAssumption, NEW a \in Int, NEW b \in Int,
           a - b <= Cycle \div 2, b - a <= Cycle \div 2,
           magnitude(signed_delta(cyclic(a), cyclic(b))) < Cycle \div 2
    PROVE  signed_delta(cyclic(a), cyclic(b)) = a - b
  <1>1. Cycle \in Nat \ {0}
    BY DEF AxisAssumption
  <1>2. PICK H \in Nat : H = Cycle \div 2 /\ 2 * H <= Cycle /\ Cycle <= 2 * H + 1
    BY <1>1
  <1>3. PICK ra \in 0..(Cycle - 1), qa \in Int : ra = cyclic(a) /\ a = qa * Cycle + ra
    BY Turns
  <1>4. PICK rb \in 0..(Cycle - 1), qb \in Int : rb = cyclic(b) /\ b = qb * Cycle + rb
    BY Turns
  <1>5. PICK d \in Int : d = ra - rb
    BY <1>1, <1>3, <1>4
  <1>6. PICK k \in Int : k = qa - qb
    OBVIOUS
  <1>7. PICK t \in Int : t = k * Cycle
    BY <1>1, WholeTurns
  <1>8. a - b = (qa - qb) * Cycle + (ra - rb)
    <2>1. ra \in Int /\ rb \in Int
      BY <1>1, <1>3, <1>4
    <2> QED BY <1>1, <1>3, <1>4, <2>1, DifferenceOf
  <1>9. a - b = t + d
    BY <1>5, <1>6, <1>7, <1>8
  <1>10. d > -Cycle /\ d < Cycle /\ a - b \in Int /\ a - b <= H /\ a - b >= -H
    <2>1. ra \in Int /\ 0 <= ra /\ ra < Cycle
      BY <1>1, <1>3
    <2>2. rb \in Int /\ 0 <= rb /\ rb < Cycle
      BY <1>1, <1>4
    <2>3. Cycle \in Int /\ d > -Cycle /\ d < Cycle
      BY <1>1, <1>5, <2>1, <2>2
    <2> QED BY <1>2, <2>3
  <1>11. k \in {-1, 0, 1}
    <2>1. ~(k >= 2)
      <3>1. k >= 2 => t >= 2 * Cycle
        BY <1>1, <1>7, WholeTurns
      <3> QED BY <1>1, <1>2, <1>9, <1>10, <3>1
    <2>2. ~(k <= -2)
      <3>1. k <= -2 => t <= -2 * Cycle
        BY <1>1, <1>7, WholeTurns
      <3> QED BY <1>1, <1>2, <1>9, <1>10, <3>1
    <2> QED BY <2>1, <2>2
  <1>12. signed_delta(ra, rb) = IF d > H THEN d - Cycle ELSE IF d < -H THEN d + Cycle ELSE d
    BY <1>1, <1>2, <1>5 DEF signed_delta
  <1>13. magnitude(signed_delta(ra, rb)) < H
    BY <1>2, <1>3, <1>4
  <1>14. t = IF k = 0 THEN 0 ELSE IF k = 1 THEN Cycle ELSE -Cycle
    BY <1>1, <1>7, <1>11
  <1>15. signed_delta(ra, rb) = t + d
    BY <1>1, <1>2, <1>9, <1>10, <1>11, <1>12, <1>13, <1>14 DEF magnitude
  <1> QED BY <1>3, <1>4, <1>9, <1>15

(* --------------------------- the invariant ------------------------------ *)

Pulses == {"NEUTRAL", "POSITIVE", "NEGATIVE"}
States == {"UNHOMED", "FAULT", "SENSOR_STALE", "IDLE", "COMMAND_EXPIRED", "HOLDING_TARGET",
           "WAITING_STABLE", "REVERSAL_SETTLING", "TRACKING"}
FaultNames == {"NONE", "OUTPUT", "SENSOR_HEALTH", "SENSOR_TIMEOUT", "POSITION_OUT_OF_RANGE",
               "MOVE_TIMEOUT"}
Controller ==
    [homed : BOOLEAN, state : States, fault : FaultNames, target_active : BOOLEAN,
     at_target : BOOLEAN, target : Int, command_left : Nat, move_left : Nat,
     stable : 0..StableSamples, reacquire : 0..ReacquireSamples, position : Int, latest : Int,
     age : 0..(FaultTimeout + 1), known : BOOLEAN, output : Pulses, neutral_age : Nat,
     last_direction : Pulses \cup {"NONE"}]
Snapshot ==
    [valid : BOOLEAN, raw : 0..(Cycle - 1), age : 0..(FaultTimeout + 1),
     last_poll : {"NOT_READY", "FAILED", "PARTIAL", "OK"}, magnet : Magnets \cup {"BAD"},
     diagnostics : {"DUE", "VALID", "FAILED"}, wheel : Int]

\* What the controller k knows of the pulse p that is put out.
Output(k, p) ==
    /\ k.known => k.output = p
    /\ k.target_active => k.homed /\ k.fault = "NONE"
    /\ k.at_target => p = "NEUTRAL"
    /\ p # "NEUTRAL" /\ k.known => k.target_active /\ ~k.at_target

TypeInv ==
    /\ wheel \in Int /\ sampled_wheel \in Int /\ pulse \in Pulses
    /\ c \in Controller /\ sensor \in Snapshot
    /\ last_raw \in 0..(Cycle - 1) \cup {None} /\ phase \in {"POLL", "TICK", "SLEEP"}
    /\ write_failures \in Nat /\ rest \in Nat /\ target_age \in Nat /\ driving \in 0..2
    /\ last_pulse \in Pulses \cup {"NONE"}

OutputInv == Output(c, pulse)

\* Whatever drives was found fed at the last tick.
Fed ==
    /\ pulse # "NEUTRAL" /\ c.known =>
         /\ c.age <= StaleTimeout + 1
         /\ phase = "SLEEP" =>
              /\ c.age <= StaleTimeout /\ c.command_left > 0
              /\ c.move_left > 0 \/ driving = 0
         /\ target_age <= MoveTimeout \/ driving <= 1
    /\ c.target_active /\ c.move_left > 0 => target_age + c.move_left = MoveTimeout
    /\ c.at_target /\ phase # "SLEEP" => driving = 0

\* The controller's rest is no longer than that of the wheel.
RestIsReal ==
    /\ c.last_direction = last_pulse
    /\ pulse # "NEUTRAL" => last_pulse = pulse
    /\ c.fault = "NONE" /\ c.known /\ c.output = "NEUTRAL" => c.neutral_age <= rest
    /\ rest <= ReversalSettle

\* The wheel moves at most one step in a unit of time: since the sample that
\* the controller took last, and from that sample to the sensor's.
Tracked ==
    c.homed /\ c.fault = "NONE" =>
        /\ c.position = sampled_wheel
        /\ c.latest = cyclic(sampled_wheel) /\ last_raw = c.latest
        /\ c.age <= FaultTimeout /\ (phase = "SLEEP" => c.age < FaultTimeout)
        /\ wheel - sampled_wheel \in (-c.age)..c.age
        /\ sensor.valid => /\ sensor.age <= c.age
                           /\ sensor.wheel - sampled_wheel \in (sensor.age - c.age)..(c.age - sensor.age)

\* The sensor's sample is of the wheel, and of where it was.
SampleIsReal ==
    sensor.valid =>
        /\ sensor.raw = cyclic(sensor.wheel)
        /\ sensor.age <= FaultTimeout => wheel - sensor.wheel \in (-sensor.age)..sensor.age

(* --------------------- the controller's operations ---------------------- *)

\* A controller that the step may leave behind by way of a neutral pulse: what
\* it knows of the output, of its target and of the rest is true.
Ready(k) ==
    /\ k \in Controller
    /\ k.known => k.output = pulse
    /\ k.target_active => k.homed /\ k.fault = "NONE"
    /\ k.last_direction = last_pulse
    /\ k.fault = "NONE" /\ k.known /\ k.output = "NEUTRAL" => k.neutral_age <= rest

\* The move's time left and the age of its target make up the move timeout.
Timed(k, age) == k.target_active /\ k.move_left > 0 => age + k.move_left = MoveTimeout

\* The difference of two angles is a number of steps.
LEMMA DeltaIsInt ==
    ASSUME AxisAssumption, NEW a \in Int, NEW b \in Int
    PROVE  signed_delta(a, b) \in Int
  <1>1. PICK H \in Nat : H = Cycle \div 2
    BY DEF AxisAssumption
  <1>2. PICK d \in Int : d = a - b
    OBVIOUS
  <1>3. Cycle \in Nat
    BY DEF AxisAssumption
  <1>4. signed_delta(a, b) = IF d > H THEN d - Cycle ELSE IF d < -H THEN d + Cycle ELSE d
    BY <1>1, <1>2, <1>3 DEF signed_delta
  <1> QED BY <1>2, <1>3, <1>4

\* A sample changes what the controller knows of the wheel, and nothing else: a
\* controller stays ready.
LEMMA AcceptedSample ==
    ASSUME AxisAssumption, NEW k, Ready(k), sensor \in Snapshot
    PROVE  LET d == accepted(k, sensor)
           IN  /\ Ready(d) /\ d.age <= k.age
               /\ d.homed = k.homed /\ d.fault = k.fault /\ d.target_active = k.target_active
               /\ d.at_target = k.at_target /\ d.target = k.target /\ d.stable = k.stable
               /\ d.command_left = k.command_left /\ d.move_left = k.move_left
               /\ d.reacquire = k.reacquire /\ d.last_direction = k.last_direction
  <1>1. sensor.raw \in Int /\ sensor.age \in 0..(FaultTimeout + 1)
    BY DEF Snapshot, AxisAssumption
  <1>2. k \in Controller /\ k.latest \in Int /\ k.position \in Int /\ k.age \in 0..(FaultTimeout + 1)
    BY DEF Controller, Ready
  <1>3. signed_delta(sensor.raw, k.latest) \in Int
    BY <1>1, <1>2, DeltaIsInt
  <1>4. CASE k.homed /\ Sample(sensor).valid /\ is_newer(k, sensor)
    <2>1. accepted(k, sensor) = [k EXCEPT !.position = k.position + signed_delta(sensor.raw, k.latest),
                                          !.latest = sensor.raw, !.age = sensor.age]
      BY <1>2, <1>4 DEF accepted, Controller
    <2>2. PICK p \in Int : p = k.position + signed_delta(sensor.raw, k.latest)
      BY <1>2, <1>3
    <2>3. PICK r \in Int, a \in 0..(FaultTimeout + 1) : r = sensor.raw /\ a = sensor.age
      BY <1>1
    <2>4. accepted(k, sensor) = [k EXCEPT !.position = p, !.latest = r, !.age = a]
      BY <2>1, <2>2, <2>3
    <2>5. a <= k.age
      BY <1>1, <1>2, <1>4, <2>3 DEF is_newer, AxisAssumption
    <2>6. [k EXCEPT !.position = p, !.latest = r, !.age = a] \in Controller
      BY <1>2 DEF Controller
    <2>7. LET d == [k EXCEPT !.position = p, !.latest = r, !.age = a]
          IN  /\ d.age = a /\ d.known = k.known /\ d.output = k.output /\ d.neutral_age = k.neutral_age
              /\ d.homed = k.homed /\ d.fault = k.fault /\ d.target_active = k.target_active
              /\ d.at_target = k.at_target /\ d.target = k.target /\ d.stable = k.stable
              /\ d.command_left = k.command_left /\ d.move_left = k.move_left
              /\ d.reacquire = k.reacquire /\ d.last_direction = k.last_direction
      BY <1>2 DEF Controller
    <2> QED BY <2>4, <2>5, <2>6, <2>7 DEF Ready
  <1>5. CASE ~(k.homed /\ Sample(sensor).valid /\ is_newer(k, sensor))
    <2>1. accepted(k, sensor) = k
      BY <1>5 DEF accepted
    <2>2. k.age <= k.age
      BY <1>2 DEF AxisAssumption
    <2> QED BY <1>2, <2>1, <2>2
  <1> QED BY <1>4, <1>5

\* The end of a target leaves the rest of the controller.
LEMMA ClearedTarget ==
    ASSUME AxisAssumption, NEW k \in Controller
    PROVE  LET d == clear_target(k)
           IN  /\ d \in Controller /\ ~d.target_active /\ ~d.at_target
               /\ d.homed = k.homed /\ d.fault = k.fault /\ d.position = k.position
               /\ d.latest = k.latest /\ d.age = k.age /\ d.last_direction = k.last_direction
               /\ d.known = k.known /\ d.output = k.output /\ d.neutral_age = k.neutral_age
  <1>1. 0 \in 0..StableSamples /\ 0 \in 0..ReacquireSamples
    BY DEF AxisAssumption
  <1>2. clear_target(k) \in Controller
    BY <1>1 DEF Controller, clear_target
  <1> QED BY <1>2 DEF Controller, clear_target

\* A fault clears the target.
LEMMA FaultIsReady ==
    ASSUME AxisAssumption, NEW k, Ready(k), NEW fault \in FaultNames \ {"NONE"}
    PROVE  LET d == set_fault(k, fault)
           IN  /\ Ready(d) /\ d.fault = fault /\ ~d.target_active /\ ~d.at_target
               /\ d.homed = k.homed /\ d.position = k.position /\ d.latest = k.latest
               /\ d.age = k.age /\ d.known = k.known /\ d.output = k.output
               /\ d.last_direction = k.last_direction
  <1>1. k \in Controller
    BY DEF Ready
  <1>2. PICK g : g = clear_target(k)
    OBVIOUS
  <1>3. set_fault(k, fault) = [g EXCEPT !.state = "FAULT", !.fault = fault]
    BY <1>2 DEF set_fault
  <1>4. /\ g \in Controller /\ ~g.target_active /\ ~g.at_target
        /\ g.homed = k.homed /\ g.fault = k.fault /\ g.position = k.position
        /\ g.latest = k.latest /\ g.age = k.age /\ g.last_direction = k.last_direction
        /\ g.known = k.known /\ g.output = k.output /\ g.neutral_age = k.neutral_age
    BY <1>1, <1>2, ClearedTarget
  <1>5. [g EXCEPT !.state = "FAULT", !.fault = fault] \in Controller
    BY <1>4 DEF Controller, States
  <1> QED BY <1>3, <1>4, <1>5 DEF Ready, Controller

\* So does the end of a move, with another state.
LEMMA ClearedIsReady ==
    ASSUME AxisAssumption, NEW k, Ready(k), NEW state \in States
    PROVE  LET d == [clear_target(k) EXCEPT !.state = state]
           IN  /\ Ready(d) /\ ~d.target_active /\ ~d.at_target /\ d.fault = k.fault
               /\ d.homed = k.homed /\ d.position = k.position /\ d.latest = k.latest
               /\ d.age = k.age
  <1>1. k \in Controller
    BY DEF Ready
  <1>2. PICK g : g = clear_target(k)
    OBVIOUS
  <1>3. /\ g \in Controller /\ ~g.target_active /\ ~g.at_target
        /\ g.homed = k.homed /\ g.fault = k.fault /\ g.position = k.position
        /\ g.latest = k.latest /\ g.age = k.age /\ g.last_direction = k.last_direction
        /\ g.known = k.known /\ g.output = k.output /\ g.neutral_age = k.neutral_age
    BY <1>1, <1>2, ClearedTarget
  <1>4. [g EXCEPT !.state = state] \in Controller
    BY <1>3 DEF Controller
  <1> QED BY <1>2, <1>3, <1>4 DEF Ready, Controller

\* What a neutral command leaves of the controller.
LEMMA NeutralCommand ==
    ASSUME AxisAssumption, NEW k, Ready(k), NEW force \in BOOLEAN, NEW ok \in BOOLEAN
    PROVE  LET d == command_neutral(k, force, ok)
           IN  /\ d \in Controller
               /\ d.homed = k.homed /\ d.position = k.position /\ d.latest = k.latest
               /\ d.age = k.age /\ d.last_direction = k.last_direction
               /\ writes_neutral(k, force) /\ ~ok =>
                      ~d.known /\ has_fault(d) /\ ~d.target_active /\ ~d.at_target
               /\ ~writes_neutral(k, force) => d = k /\ d.known /\ d.output = "NEUTRAL"
               /\ writes_neutral(k, force) /\ ok =>
                      /\ d.known /\ d.output = "NEUTRAL"
                      /\ d.fault = k.fault /\ d.target_active = k.target_active
                      /\ d.at_target = k.at_target /\ d.move_left = k.move_left
                      /\ d.command_left = k.command_left /\ d.target = k.target
                      /\ d.neutral_age = IF is_non_neutral(k) THEN 0 ELSE k.neutral_age
  <1>1. k \in Controller
    BY DEF Ready
  <1>2. CASE ~writes_neutral(k, force)
    BY <1>1, <1>2 DEF command_neutral, writes_neutral, is_non_neutral, Controller
  <1>3. CASE writes_neutral(k, force) /\ ok
    <2>1. command_neutral(k, force, ok) = wrote_neutral(k)
      BY <1>3 DEF command_neutral
    <2>2. PICK n \in Nat : n = IF is_non_neutral(k) THEN 0 ELSE k.neutral_age
      BY <1>1 DEF Controller
    <2>3. PICK d : d = [k EXCEPT !.known = TRUE, !.output = "NEUTRAL", !.neutral_age = n]
      OBVIOUS
    <2>4. command_neutral(k, force, ok) = d
      BY <1>1, <2>1, <2>2, <2>3 DEF wrote_neutral, Controller
    <2>5. d \in Controller
      BY <1>1, <2>2, <2>3 DEF Controller, Pulses
    <2>6. /\ d.known /\ d.output = "NEUTRAL" /\ d.neutral_age = n
          /\ d.homed = k.homed /\ d.position = k.position /\ d.latest = k.latest
          /\ d.age = k.age /\ d.last_direction = k.last_direction
          /\ d.fault = k.fault /\ d.target_active = k.target_active
          /\ d.at_target = k.at_target /\ d.move_left = k.move_left
          /\ d.command_left = k.command_left /\ d.target = k.target
      BY <1>1, <2>3 DEF Controller
    <2> QED BY <1>3, <2>2, <2>4, <2>5, <2>6
  <1>4. CASE writes_neutral(k, force) /\ ~ok
    <2>1. command_neutral(k, force, ok) = [set_fault(k, "OUTPUT") EXCEPT !.known = FALSE]
      BY <1>4 DEF command_neutral
    <2>2. PICK g : g = set_fault(k, "OUTPUT")
      OBVIOUS
    <2>3. /\ g \in Controller /\ g.fault # "NONE" /\ ~g.target_active /\ ~g.at_target
          /\ g.homed = k.homed /\ g.position = k.position /\ g.latest = k.latest
          /\ g.age = k.age /\ g.output = k.output /\ g.last_direction = k.last_direction
      BY <2>2, FaultIsReady DEF Ready, FaultNames, has_fault
    <2> QED BY <1>4, <2>1, <2>2, <2>3 DEF Controller, has_fault
  <1> QED BY <1>2, <1>3, <1>4

(* ------------------- a step by way of a neutral pulse -------------------- *)

\* What a step that commands a neutral pulse for the controller k leaves behind:
\* the wheel at rest, or an output fault and one more failed write.
CameToRest(k) ==
    /\ c' \in Controller /\ Output(c', pulse') /\ pulse' \in Pulses /\ write_failures' \in Nat
    /\ \/ pulse' = "NEUTRAL"
       \/ pulse' = pulse /\ ~c'.known /\ write_failures' > write_failures
    /\ RestIsReal' /\ last_pulse' = last_pulse /\ rest' \in Nat
    /\ c'.homed = k.homed /\ c'.position = k.position /\ c'.latest = k.latest /\ c'.age = k.age
    /\ c'.fault = "NONE" => k.fault = "NONE"
    /\ c'.target_active => k.target_active /\ c'.move_left = k.move_left
    /\ c'.at_target => k.at_target

\* A neutral command brings the wheel to rest, or counts a failure.
LEMMA NeutralStep ==
    ASSUME AxisAssumption, TypeInv, RestIsReal, NEW k, Ready(k),
           NEW force \in BOOLEAN, NEW ok \in BOOLEAN, GoNeutral(k, force, ok), NoteRest
    PROVE  CameToRest(k)
  <1> DEFINE d == command_neutral(k, force, ok)
  <1>1. /\ k \in Controller
        /\ k.known => k.output = pulse
        /\ k.target_active => k.homed /\ k.fault = "NONE"
        /\ k.last_direction = last_pulse
        /\ k.fault = "NONE" /\ k.known /\ k.output = "NEUTRAL" => k.neutral_age <= rest
    BY DEF Ready
  <1>2. /\ pulse \in Pulses /\ write_failures \in Nat /\ rest \in Nat
        /\ pulse # "NEUTRAL" => last_pulse = pulse
        /\ rest <= ReversalSettle /\ ReversalSettle \in Nat
    BY DEF TypeInv, RestIsReal, AxisAssumption
  <1>3. /\ d \in Controller
        /\ d.homed = k.homed /\ d.position = k.position /\ d.latest = k.latest
        /\ d.age = k.age /\ d.last_direction = k.last_direction
        /\ writes_neutral(k, force) /\ ~ok =>
               ~d.known /\ has_fault(d) /\ ~d.target_active /\ ~d.at_target
        /\ ~writes_neutral(k, force) => d = k /\ d.known /\ d.output = "NEUTRAL"
        /\ writes_neutral(k, force) /\ ok =>
               /\ d.known /\ d.output = "NEUTRAL"
               /\ d.fault = k.fault /\ d.target_active = k.target_active
               /\ d.at_target = k.at_target /\ d.move_left = k.move_left
               /\ d.command_left = k.command_left /\ d.target = k.target
               /\ d.neutral_age = IF is_non_neutral(k) THEN 0 ELSE k.neutral_age
    BY NeutralCommand
  <1>4. c' = d
    BY DEF GoNeutral
  <1> HIDE DEF d
  <1>5. CASE writes_neutral(k, force) /\ ~ok
    <2>1. pulse' = pulse /\ write_failures' = write_failures + 1
      BY <1>5 DEF GoNeutral
    <2>2. last_pulse' = last_pulse /\ rest' \in {rest, 0}
      BY <1>2, <2>1 DEF NoteRest
    <2>3. ~c'.known /\ c'.fault # "NONE" /\ ~c'.target_active /\ ~c'.at_target
      BY <1>3, <1>4, <1>5 DEF has_fault
    <2>4. RestIsReal'
      BY <1>1, <1>2, <1>3, <1>4, <2>1, <2>2, <2>3 DEF RestIsReal
    <2>5. Output(c', pulse')
      BY <2>3 DEF Output
    <2>6. rest' \in Nat /\ write_failures' \in Nat /\ write_failures' > write_failures
      BY <1>2, <2>1, <2>2
    <2> QED BY <1>2, <1>3, <1>4, <2>1, <2>2, <2>3, <2>4, <2>5, <2>6 DEF CameToRest
  <1>6. CASE ~(writes_neutral(k, force) /\ ~ok)
    <2>1. /\ d.known /\ d.output = "NEUTRAL" /\ d.fault = k.fault
          /\ d.target_active = k.target_active /\ d.at_target = k.at_target
          /\ d.move_left = k.move_left
      BY <1>3, <1>6
    <2>2. pulse' = "NEUTRAL" /\ write_failures' = write_failures
      BY <1>1, <1>3, <1>6 DEF GoNeutral
    <2>3. last_pulse' = last_pulse /\ rest' = rest
      BY <2>2 DEF NoteRest
    <2>4. d.fault = "NONE" => d.neutral_age <= rest'
      <3>1. CASE is_non_neutral(k) /\ writes_neutral(k, force)
        BY <1>2, <1>3, <1>6, <2>3, <3>1
      <3>2. CASE ~is_non_neutral(k)
        BY <1>1, <1>3, <1>6, <2>1, <2>3, <3>2 DEF is_non_neutral
      <3> QED BY <3>1, <3>2 DEF writes_neutral
    <2>5. RestIsReal'
      BY <1>1, <1>2, <1>3, <1>4, <2>2, <2>3, <2>4 DEF RestIsReal
    <2>6. Output(c', pulse')
      BY <1>1, <1>3, <1>4, <2>1, <2>2 DEF Output
    <2>7. /\ pulse' \in Pulses /\ write_failures' \in Nat /\ rest' \in Nat
          /\ c'.fault = "NONE" => k.fault = "NONE"
      BY <1>2, <1>4, <2>1, <2>2, <2>3 DEF Pulses
    <2>8. /\ c'.target_active => k.target_active /\ c'.move_left = k.move_left
          /\ c'.at_target => k.at_target
      BY <1>4, <2>1
    <2>9. /\ c' \in Controller /\ c'.homed = k.homed /\ c'.position = k.position
          /\ c'.latest = k.latest /\ c'.age = k.age
      BY <1>3, <1>4
    <2> QED BY <2>2, <2>3, <2>5, <2>6, <2>7, <2>8, <2>9 DEF CameToRest
  <1> QED BY <1>5, <1>6

\* The controller itself is ready for a neutral command.
LEMMA ControllerIsReady ==
    ASSUME TypeInv, OutputInv, RestIsReal
    PROVE  Ready(c)
  BY DEF TypeInv, OutputInv, Output, RestIsReal, Ready

\* What comes to rest needs no feeding.
LEMMA RestIsFed ==
    ASSUME NEW k, CameToRest(k), c'.target_active => Timed(k, target_age'),
           k.at_target /\ phase' # "SLEEP" => driving' = 0
    PROVE  OutputInv' /\ Fed'
  <1>1. /\ pulse' # "NEUTRAL" => ~c'.known
        /\ c'.target_active => k.target_active /\ c'.move_left = k.move_left
        /\ c'.at_target => k.at_target
        /\ Output(c', pulse')
    BY DEF CameToRest
  <1>2. OutputInv'
    BY <1>1 DEF OutputInv
  <1>3. c'.target_active /\ c'.move_left > 0 => target_age' + c'.move_left = MoveTimeout
    BY <1>1 DEF Timed
  <1>4. c'.at_target /\ phase' # "SLEEP" => driving' = 0
    BY <1>1
  <1>5. ~(pulse' # "NEUTRAL" /\ c'.known)
    BY <1>1
  <1> QED BY <1>2, <1>3, <1>4, <1>5 DEF Fed

(* ------------------------------- the tick -------------------------------- *)

\* What a tick leaves of the controller k, which took the sensor's sample.
Ticked(k) ==
    /\ c' \in Controller /\ pulse' \in Pulses /\ write_failures' \in Nat /\ rest' \in Nat
    /\ last_pulse' \in Pulses \cup {"NONE"}
    /\ OutputInv' /\ Fed' /\ RestIsReal'
    /\ c'.homed = k.homed /\ c'.position = k.position /\ c'.latest = k.latest /\ c'.age = k.age
    /\ c'.fault = "NONE" => k.fault = "NONE" /\ (k.homed => k.age < FaultTimeout)
    /\ c'.fault # "NONE" => pulse' = "NEUTRAL" \/ write_failures' > write_failures
    /\ pulse' \notin {"NEUTRAL", last_pulse} /\ last_pulse # "NONE" => rest >= ReversalSettle

\* A tick that ends with a neutral command for m.
LEMMA NeutralTick ==
    ASSUME AxisAssumption, TypeInv, RestIsReal, NEW k, NEW m, Ready(m),
           NEW force \in BOOLEAN, NEW ok \in BOOLEAN, GoNeutral(m, force, ok), NoteRest,
           phase' = "SLEEP", target_age' = target_age, Timed(m, target_age),
           m.homed = k.homed, m.position = k.position, m.latest = k.latest, m.age = k.age,
           m.fault = "NONE" => k.fault = "NONE" /\ (k.homed => k.age < FaultTimeout)
    PROVE  Ticked(k)
  <1>1. CameToRest(m)
    BY NeutralStep
  <1>2. OutputInv' /\ Fed'
    <2>1. Timed(m, target_age')
      OBVIOUS
    <2> QED BY <1>1, <2>1, RestIsFed
  <1>3. /\ c' \in Controller /\ pulse' \in Pulses /\ write_failures' \in Nat
        /\ \/ pulse' = "NEUTRAL"
           \/ pulse' = pulse /\ ~c'.known /\ write_failures' > write_failures
        /\ RestIsReal' /\ last_pulse' = last_pulse /\ rest' \in Nat
        /\ c'.homed = m.homed /\ c'.position = m.position /\ c'.latest = m.latest /\ c'.age = m.age
        /\ c'.fault = "NONE" => m.fault = "NONE"
    BY <1>1 DEF CameToRest
  <1>4. last_pulse \in Pulses \cup {"NONE"} /\ (pulse # "NEUTRAL" => last_pulse = pulse)
    BY DEF TypeInv, RestIsReal
  <1>5. pulse' \notin {"NEUTRAL", last_pulse} /\ last_pulse # "NONE" => rest >= ReversalSettle
    BY <1>3, <1>4
  <1>6. c'.fault # "NONE" => pulse' = "NEUTRAL" \/ write_failures' > write_failures
    BY <1>3
  <1> QED BY <1>2, <1>3, <1>4, <1>5, <1>6 DEF Ticked

\* Faults, stale samples and an axis with no target bring the wheel to rest.
LEMMA NoTrackingTick ==
    ASSUME AxisAssumption, TypeInv, RestIsReal, NEW k, Ready(k), Timed(k, target_age),
           NEW ok \in BOOLEAN, NEW s, NeedsNoTracking(k, s, ok), NoteRest,
           phase' = "SLEEP", target_age' = target_age
    PROVE  Ticked(k)
  <1>1. k \in Controller /\ k.age \in Int /\ k.fault \in FaultNames
    BY DEF Ready, Controller, AxisAssumption
  <1>2. StaleTimeout \in Nat /\ FaultTimeout \in Nat /\ FaultTimeout > StaleTimeout
    BY DEF AxisAssumption
  <1>3. ASSUME NEW fault \in FaultNames \ {"NONE"}, GoNeutral(set_fault(k, fault), TRUE, ok)
        PROVE  Ticked(k)
    <2>1. PICK m : m = set_fault(k, fault)
      OBVIOUS
    <2>2. /\ Ready(m) /\ m.fault = fault /\ ~m.target_active
          /\ m.homed = k.homed /\ m.position = k.position /\ m.latest = k.latest /\ m.age = k.age
      BY <2>1, FaultIsReady
    <2>3. GoNeutral(m, TRUE, ok)
      BY <1>3, <2>1
    <2>4. Timed(m, target_age) /\ m.fault # "NONE"
      BY <2>2 DEF Timed
    <2> QED BY <2>2, <2>3, <2>4, NeutralTick
  <1>4. ASSUME NEW state \in States, GoNeutral([k EXCEPT !.state = state], FALSE, ok),
               k.fault = "NONE", k.age < FaultTimeout
        PROVE  Ticked(k)
    <2>1. PICK m : m = [k EXCEPT !.state = state]
      OBVIOUS
    <2>2. /\ m \in Controller /\ m.fault = k.fault
          /\ m.homed = k.homed /\ m.position = k.position /\ m.latest = k.latest /\ m.age = k.age
          /\ m.known = k.known /\ m.output = k.output /\ m.target_active = k.target_active
          /\ m.last_direction = k.last_direction /\ m.neutral_age = k.neutral_age
          /\ m.move_left = k.move_left
      BY <1>1, <2>1 DEF Controller
    <2>3. Ready(m) /\ Timed(m, target_age)
      BY <2>2 DEF Ready, Timed
    <2>4. GoNeutral(m, FALSE, ok)
      BY <1>4, <2>1
    <2> QED BY <1>4, <2>2, <2>3, <2>4, NeutralTick
  <1>5. ASSUME GoNeutral(k, FALSE, ok), k.fault # "NONE" \/ ~k.homed
        PROVE  Ticked(k)
    BY <1>5, NeutralTick
  <1>6. CASE has_fault(k) /\ GoNeutral(k, FALSE, ok)
    BY <1>5, <1>6 DEF has_fault
  <1>7. CASE ~has_fault(k) /\ Sample(s).hard /\ GoNeutral(set_fault(k, "SENSOR_HEALTH"), TRUE, ok)
    BY <1>3, <1>7 DEF FaultNames
  <1>8. CASE ~k.homed /\ GoNeutral(k, FALSE, ok)
    BY <1>5, <1>8
  <1>9. CASE /\ k.homed /\ faulted_by_age(k) /\ ~fresh(k)
             /\ GoNeutral(set_fault(k, "SENSOR_TIMEOUT"), TRUE, ok)
    BY <1>3, <1>9 DEF FaultNames
  <1>10. CASE /\ ~has_fault(k) /\ k.homed /\ ~faulted_by_age(k) /\ ~fresh(k)
              /\ GoNeutral([k EXCEPT !.state = "SENSOR_STALE"], FALSE, ok)
    <2>1. k.fault = "NONE" /\ k.age < FaultTimeout
      BY <1>1, <1>2, <1>10 DEF has_fault, faulted_by_age
    <2> QED BY <1>4, <1>10, <2>1 DEF States
  <1>11. CASE /\ k.homed /\ fresh(k) /\ ~in_bounds(k)
              /\ GoNeutral(set_fault(k, "POSITION_OUT_OF_RANGE"), TRUE, ok)
    BY <1>3, <1>11 DEF FaultNames
  <1>12. CASE /\ ~has_fault(k) /\ k.homed /\ fresh(k) /\ in_bounds(k) /\ ~k.target_active
              /\ GoNeutral([k EXCEPT !.state = "IDLE"], FALSE, ok)
    <2>1. k.fault = "NONE" /\ k.age < FaultTimeout
      BY <1>1, <1>2, <1>12 DEF has_fault, fresh
    <2> QED BY <1>4, <1>12, <2>1 DEF States
  <1> QED BY <1>6, <1>7, <1>8, <1>9, <1>10, <1>11, <1>12 DEF NeedsNoTracking

\* An axis that tracks is homed, without fault and fed with fresh samples.
LEMMA TrackingIsFresh ==
    ASSUME AxisAssumption, NEW k \in Controller, NEW s, tracks(k, s)
    PROVE  /\ k.fault = "NONE" /\ k.homed /\ k.target_active
           /\ k.age <= StaleTimeout /\ k.age < FaultTimeout
  <1>1. k.age \in Int /\ StaleTimeout \in Nat /\ FaultTimeout \in Nat /\ FaultTimeout > StaleTimeout
    BY DEF Controller, AxisAssumption
  <1> QED BY <1>1 DEF tracks, has_fault, fresh

\* The end of a lease or of a move brings the wheel to rest.
LEMMA ExpireTick ==
    ASSUME AxisAssumption, TypeInv, RestIsReal, NEW k, Ready(k),
           NEW ok \in BOOLEAN, NEW s, tracks(k, s), Expire(k, ok), NoteRest,
           phase' = "SLEEP", target_age' = target_age
    PROVE  Ticked(k)
  <1>1. k \in Controller /\ k.fault = "NONE" /\ k.age < FaultTimeout
    BY TrackingIsFresh DEF Ready
  <1>2. CASE GoNeutral([clear_target(k) EXCEPT !.state = "COMMAND_EXPIRED"], TRUE, ok)
    <2>1. PICK m : m = [clear_target(k) EXCEPT !.state = "COMMAND_EXPIRED"]
      OBVIOUS
    <2>2. "COMMAND_EXPIRED" \in States
      BY DEF States
    <2>3. /\ Ready(m) /\ ~m.target_active /\ m.fault = k.fault
          /\ m.homed = k.homed /\ m.position = k.position /\ m.latest = k.latest /\ m.age = k.age
      BY <2>1, <2>2, ClearedIsReady
    <2>4. Timed(m, target_age)
      BY <2>3 DEF Timed
    <2>5. GoNeutral(m, TRUE, ok)
      BY <1>2, <2>1
    <2> QED BY <1>1, <2>3, <2>4, <2>5, NeutralTick
  <1>3. CASE GoNeutral(set_fault(k, "MOVE_TIMEOUT"), TRUE, ok)
    <2>1. PICK m : m = set_fault(k, "MOVE_TIMEOUT")
      OBVIOUS
    <2>2. "MOVE_TIMEOUT" \in FaultNames \ {"NONE"}
      BY DEF FaultNames
    <2>3. /\ Ready(m) /\ m.fault = "MOVE_TIMEOUT" /\ ~m.target_active
          /\ m.homed = k.homed /\ m.position = k.position /\ m.latest = k.latest /\ m.age = k.age
      BY <2>1, <2>2, FaultIsReady
    <2>4. Timed(m, target_age) /\ m.fault # "NONE"
      BY <2>3 DEF Timed
    <2>5. GoNeutral(m, TRUE, ok)
      BY <1>3, <2>1
    <2> QED BY <2>3, <2>4, <2>5, NeutralTick
  <1> QED BY <1>2, <1>3 DEF Expire

\* A tick that changes what the controller counts, and commands a neutral pulse.
LEMMA CountingTick ==
    ASSUME AxisAssumption, TypeInv, RestIsReal, NEW k, Ready(k), Timed(k, target_age),
           NEW s, tracks(k, s), NEW ok \in BOOLEAN, NEW m,
           NEW state \in States, NEW stable \in 0..StableSamples,
           NEW reacquire \in 0..ReacquireSamples, NEW at \in BOOLEAN,
           m = [k EXCEPT !.state = state, !.stable = stable, !.reacquire = reacquire,
                         !.at_target = at],
           GoNeutral(m, FALSE, ok), NoteRest, phase' = "SLEEP", target_age' = target_age
    PROVE  Ticked(k)
  <1>1. k \in Controller /\ k.fault = "NONE" /\ k.age < FaultTimeout
    BY TrackingIsFresh DEF Ready
  <1>2. /\ Ready(m) /\ m.fault = k.fault /\ m.homed = k.homed /\ m.position = k.position
        /\ m.latest = k.latest /\ m.age = k.age /\ m.target_active = k.target_active
        /\ m.move_left = k.move_left
    BY DEF Ready, Controller
  <1>3. Timed(m, target_age)
    BY <1>2 DEF Timed
  <1> QED BY <1>1, <1>2, <1>3, NeutralTick

\* The direction of a drive is one of two.
LEMMA DirectionIsPulse ==
    ASSUME NEW k
    PROVE  direction(k) \in Pulses /\ direction(k) # "NEUTRAL"
  BY DEF direction, Pulses

\* A drive is fed by a fresh sample and a lease, within the move timeout or for
\* the first period after a hold, and reverses none but a rested wheel; one that
\* fails is a fault.
LEMMA DriveTick ==
    ASSUME AxisAssumption, TypeInv, OutputInv, Fed, RestIsReal, phase = "TICK",
           NEW k, Ready(k), Timed(k, target_age), k.at_target = c.at_target,
           NEW s, tracks(k, s), ~command_expired(k), ~move_timed_out(k),
           NEW ok \in BOOLEAN, NEW after \in BOOLEAN, Drive(searching(k), ok, after), NoteRest,
           phase' = "SLEEP", target_age' = target_age, driving' = driving
    PROVE  Ticked(k)
  <1>1. k \in Controller /\ k.fault = "NONE" /\ k.homed /\ k.target_active
        /\ k.age <= StaleTimeout /\ k.age < FaultTimeout
    BY TrackingIsFresh DEF Ready
  <1>2. /\ k.age \in Int /\ k.command_left \in Nat /\ k.move_left \in Nat /\ k.neutral_age \in Nat
        /\ StaleTimeout \in Nat /\ MoveTimeout \in Nat /\ ReversalSettle \in Nat
        /\ 0 \in 0..StableSamples /\ 0 \in 0..ReacquireSamples
    BY <1>1 DEF Controller, AxisAssumption
  <1>3. PICK m : m = searching(k)
    OBVIOUS
  <1>4. /\ m \in Controller /\ Ready(m) /\ ~m.at_target
        /\ m.homed = k.homed /\ m.fault = k.fault /\ m.position = k.position
        /\ m.latest = k.latest /\ m.age = k.age /\ m.target_active = k.target_active
        /\ m.command_left = k.command_left /\ m.move_left = k.move_left
    <2>1. CASE k.at_target
      <3>1. m = [k EXCEPT !.at_target = FALSE, !.stable = 0, !.reacquire = 0]
        BY <1>3, <2>1 DEF searching, released
      <3>2. m \in Controller
        BY <1>1, <1>2, <3>1 DEF Controller
      <3>3. /\ m.homed = k.homed /\ m.fault = k.fault /\ m.position = k.position
            /\ m.latest = k.latest /\ m.age = k.age /\ m.target_active = k.target_active
            /\ m.command_left = k.command_left /\ m.move_left = k.move_left
            /\ m.known = k.known /\ m.output = k.output /\ m.neutral_age = k.neutral_age
            /\ m.last_direction = k.last_direction /\ ~m.at_target
        BY <1>1, <3>1 DEF Controller
      <3> QED BY <3>2, <3>3 DEF Ready
    <2>2. CASE ~k.at_target
      BY <1>1, <1>3, <2>2 DEF searching
    <2> QED BY <2>1, <2>2
  <1>5. /\ k.move_left > 0 \/ driving = 0
        /\ target_age <= MoveTimeout \/ driving <= 1
        /\ k.command_left > 0
    <2>1. k.move_left > 0 => target_age + k.move_left = MoveTimeout
      BY <1>1 DEF Timed
    <2>2. target_age \in Nat /\ driving \in 0..2
      BY DEF TypeInv
    <2>3. k.at_target => driving = 0
      BY DEF Fed
    <2>4. ~k.at_target => k.move_left > 0
      BY <1>2 DEF move_timed_out
    <2>5. k.command_left > 0
      BY <1>2 DEF command_expired
    <2> QED BY <1>2, <2>1, <2>2, <2>3, <2>4, <2>5
  <1>6. /\ pulse \in Pulses /\ write_failures \in Nat /\ rest \in Nat /\ rest <= ReversalSettle
        /\ last_pulse \in Pulses \cup {"NONE"} /\ (pulse # "NEUTRAL" => last_pulse = pulse)
    BY DEF TypeInv, RestIsReal
  <1>7. Drive(m, ok, after)
    BY <1>3
  <1>8. CASE ok
    <2>1. PICK p \in Pulses : p = direction(m) /\ p # "NEUTRAL"
      BY DirectionIsPulse
    <2>2. /\ c' = [m EXCEPT !.stable = 0, !.state = "TRACKING", !.known = TRUE,
                            !.output = p, !.last_direction = p]
          /\ pulse' = p /\ write_failures' = write_failures /\ ~reversal_settle_required(m)
      BY <1>7, <1>8, <2>1 DEF Drive
    <2>3. c' \in Controller
      BY <1>2, <1>4, <2>1, <2>2 DEF Controller, States
    <2>4. /\ c'.known /\ c'.output = p /\ c'.last_direction = p /\ ~c'.at_target
          /\ c'.homed = m.homed /\ c'.fault = m.fault /\ c'.position = m.position
          /\ c'.latest = m.latest /\ c'.age = m.age /\ c'.target_active = m.target_active
          /\ c'.command_left = m.command_left /\ c'.move_left = m.move_left
      BY <1>4, <2>2 DEF Controller
    <2>5. last_pulse' = p /\ rest' = 0
      BY <2>1, <2>2 DEF NoteRest
    <2>6. OutputInv'
      BY <1>1, <1>4, <2>1, <2>2, <2>4 DEF OutputInv, Output
    <2>7. RestIsReal'
      BY <1>2, <2>1, <2>2, <2>4, <2>5 DEF RestIsReal
    <2>8. Fed'
      <3>1. c'.age <= StaleTimeout /\ c'.age <= StaleTimeout + 1
        BY <1>1, <1>2, <1>4, <2>4
      <3>2. c'.command_left > 0 /\ (c'.move_left > 0 \/ driving' = 0)
        BY <1>4, <1>5, <2>4
      <3>3. target_age' <= MoveTimeout \/ driving' <= 1
        BY <1>5
      <3>4. c'.target_active /\ c'.move_left > 0 => target_age' + c'.move_left = MoveTimeout
        BY <1>4, <2>4 DEF Timed
      <3> QED BY <2>4, <3>1, <3>2, <3>3, <3>4 DEF Fed
    <2>9. last_pulse # "NONE" /\ p # last_pulse => rest >= ReversalSettle
      <3>1. ReversalSettle > 0 => \/ m.last_direction \in {"NONE", p}
                                  \/ m.known /\ m.output = "NEUTRAL" /\ m.neutral_age >= ReversalSettle
        <4>1. m.neutral_age \in Nat
          BY <1>4 DEF Controller
        <4> QED BY <1>2, <2>1, <2>2, <4>1 DEF reversal_settle_required, is_non_neutral
      <3>2. /\ m.last_direction = last_pulse
            /\ m.known /\ m.output = "NEUTRAL" => m.neutral_age <= rest
        BY <1>1, <1>4 DEF Ready
      <3>3. m.neutral_age \in Nat
        BY <1>4 DEF Controller
      <3> QED BY <1>2, <1>6, <3>1, <3>2, <3>3
    <2>10. c'.fault = "NONE"
      BY <1>1, <1>4, <2>4
    <2>11. pulse' \notin {"NEUTRAL", last_pulse} /\ last_pulse # "NONE" => rest >= ReversalSettle
      BY <2>2, <2>9
    <2>12. pulse' \in Pulses /\ write_failures' \in Nat /\ rest' \in Nat
           /\ last_pulse' \in Pulses \cup {"NONE"}
      BY <1>6, <2>1, <2>2, <2>5
    <2> QED BY <1>1, <1>4, <2>3, <2>4, <2>6, <2>7, <2>8, <2>10, <2>11, <2>12 DEF Ticked
  <1>9. CASE ~ok
    <2>1. PICK f : f = set_fault(m, "OUTPUT")
      OBVIOUS
    <2>2. "OUTPUT" \in FaultNames \ {"NONE"}
      BY DEF FaultNames
    <2>3. /\ Ready(f) /\ f.fault = "OUTPUT" /\ ~f.target_active /\ ~f.at_target
          /\ f.homed = m.homed /\ f.position = m.position /\ f.latest = m.latest
          /\ f.age = m.age /\ f.output = m.output /\ f.last_direction = m.last_direction
      BY <1>4, <2>1, <2>2, FaultIsReady
    <2>4. PICK o : o = IF after THEN "NEUTRAL" ELSE f.output
      OBVIOUS
    <2>5. f \in Controller /\ o \in Pulses
      BY <2>3, <2>4 DEF Ready, Controller, Pulses
    <2>6. /\ c' = [f EXCEPT !.known = after, !.output = o]
          /\ pulse' = (IF after THEN "NEUTRAL" ELSE pulse)
          /\ write_failures' = write_failures + 1
      BY <1>7, <1>9, <2>1, <2>4, <2>5 DEF Drive, Controller
    <2>7. /\ c' \in Controller /\ c'.known = after /\ c'.output = o /\ c'.fault = "OUTPUT"
          /\ ~c'.target_active /\ ~c'.at_target
          /\ c'.homed = f.homed /\ c'.position = f.position /\ c'.latest = f.latest
          /\ c'.age = f.age /\ c'.last_direction = f.last_direction
      BY <2>3, <2>5, <2>6 DEF Controller
    <2>8. last_pulse' = last_pulse /\ rest' \in {rest, 0}
      BY <1>6, <2>6 DEF NoteRest
    <2>9. OutputInv'
      BY <2>4, <2>6, <2>7 DEF OutputInv, Output
    <2>10. RestIsReal'
      <3>1. f.last_direction = last_pulse
        BY <2>3 DEF Ready
      <3>2. pulse' # "NEUTRAL" => last_pulse' = pulse'
        BY <1>6, <2>6, <2>8
      <3>3. rest' <= ReversalSettle
        BY <1>2, <1>6, <2>8
      <3> QED BY <2>7, <2>8, <3>1, <3>2, <3>3 DEF RestIsReal
    <2>11. Fed'
      <3>1. ~(pulse' # "NEUTRAL" /\ c'.known)
        BY <2>6, <2>7
      <3> QED BY <2>7, <3>1 DEF Fed
    <2>12. /\ pulse' \in Pulses /\ write_failures' \in Nat /\ rest' \in Nat
           /\ last_pulse' \in Pulses \cup {"NONE"} /\ write_failures' > write_failures
           /\ (pulse' \notin {"NEUTRAL", last_pulse} => FALSE)
      BY <1>6, <2>6, <2>8 DEF Pulses
    <2>13. c'.fault # "NONE"
      BY <2>7
    <2>14. c'.homed = k.homed /\ c'.position = k.position /\ c'.latest = k.latest /\ c'.age = k.age
      BY <1>4, <2>3, <2>7
    <2> QED BY <2>7, <2>9, <2>10, <2>11, <2>12, <2>13, <2>14 DEF Ticked
  <1> QED BY <1>8, <1>9

\* Holding, arriving and settling count samples and command a neutral pulse.
LEMMA TrackTick ==
    ASSUME AxisAssumption, TypeInv, OutputInv, Fed, RestIsReal, phase = "TICK",
           NEW k, Ready(k), Timed(k, target_age), k.at_target = c.at_target,
           NEW s, tracks(k, s), ~command_expired(k), ~move_timed_out(k), NEW new \in BOOLEAN,
           NEW ok \in BOOLEAN, NEW after \in BOOLEAN, Track(k, new, ok, after), NoteRest,
           phase' = "SLEEP", target_age' = target_age, driving' = driving
    PROVE  Ticked(k)
  <1>1. /\ k \in Controller /\ k.stable \in 0..StableSamples /\ k.reacquire \in 0..ReacquireSamples
        /\ k.at_target \in BOOLEAN /\ k.target_active \in BOOLEAN
        /\ StableSamples \in Nat \ {0} /\ ReacquireSamples \in Nat \ {0}
    BY DEF Ready, Controller, AxisAssumption
  <1>2. 0 \in 0..StableSamples /\ 0 \in 0..ReacquireSamples
    BY <1>1
  <1>3. CASE Hold(k, new, ok)
    <2>1. PICK n : n = IF near(k) THEN 0 ELSE evidence(k, new)
      OBVIOUS
    <2>2. n \in 0..ReacquireSamples
      BY <1>1, <1>2, <2>1 DEF evidence, cap
    <2>3. PICK m : m = [k EXCEPT !.state = "HOLDING_TARGET", !.stable = k.stable,
                                 !.reacquire = n, !.at_target = k.at_target]
      OBVIOUS
    <2>4. m = [k EXCEPT !.state = "HOLDING_TARGET",
                        !.reacquire = IF near(k) THEN 0 ELSE evidence(k, new)]
      BY <1>1, <2>1, <2>3 DEF Controller
    <2>5. GoNeutral(m, FALSE, ok)
      BY <1>3, <2>4 DEF Hold
    <2>6. "HOLDING_TARGET" \in States
      BY DEF States
    <2> QED BY <1>1, <2>2, <2>3, <2>5, <2>6, CountingTick
  <1>4. PICK r, at, st : /\ r \in 0..ReacquireSamples /\ at \in BOOLEAN /\ st \in 0..StableSamples
                         /\ searching(k) = [k EXCEPT !.at_target = at, !.stable = st, !.reacquire = r]
    <2>1. CASE k.at_target
      BY <1>2, <2>1 DEF searching, released
    <2>2. CASE ~k.at_target
      <3>1. searching(k) = [k EXCEPT !.at_target = k.at_target, !.stable = k.stable,
                                     !.reacquire = k.reacquire]
        BY <1>1, <2>2 DEF searching, Controller
      <3> QED BY <1>1, <3>1
    <2> QED BY <2>1, <2>2
  <1>5. PICK q : q = searching(k)
    OBVIOUS
  <1>6. q.stable = st /\ q.reacquire = r /\ q.at_target = at
    BY <1>1, <1>4, <1>5 DEF Controller
  <1>7. CASE Arrive(q, new, ok)
    <2>1. PICK n : n = IF new THEN cap(q.stable + 1, StableSamples) ELSE q.stable
      OBVIOUS
    <2>2. n \in 0..StableSamples
      BY <1>1, <1>4, <1>6, <2>1 DEF cap
    <2>3. PICK arrived \in BOOLEAN : arrived = (n >= StableSamples)
      <3>1. (n >= StableSamples) \in BOOLEAN
        BY <1>1, <2>2, SMT
      <3> QED BY <3>1
    <2>4. PICK state \in States : state = IF arrived THEN "HOLDING_TARGET" ELSE "WAITING_STABLE"
      BY DEF States
    <2>5. PICK m : m = [k EXCEPT !.state = state, !.stable = n, !.reacquire = r,
                                 !.at_target = arrived]
      OBVIOUS
    <2>6. m = [q EXCEPT !.stable = n, !.at_target = arrived, !.state = state]
      BY <1>1, <1>4, <1>5, <2>5 DEF Controller
    <2>7. GoNeutral([q EXCEPT !.stable = n, !.at_target = arrived, !.state = state], FALSE, ok)
      BY <1>7, <2>1, <2>3, <2>4 DEF Arrive
    <2>8. GoNeutral(m, FALSE, ok)
      BY <2>6, <2>7
    <2> QED BY <1>4, <2>2, <2>3, <2>4, <2>5, <2>8, CountingTick
  <1>8. CASE Settle(q, ok)
    <2>1. PICK m : m = [k EXCEPT !.state = "REVERSAL_SETTLING", !.stable = 0, !.reacquire = r,
                                 !.at_target = at]
      OBVIOUS
    <2>2. m = [q EXCEPT !.stable = 0, !.state = "REVERSAL_SETTLING"]
      BY <1>1, <1>4, <1>5, <2>1 DEF Controller
    <2>3. GoNeutral(m, FALSE, ok)
      BY <1>8, <2>2 DEF Settle
    <2>4. "REVERSAL_SETTLING" \in States
      BY DEF States
    <2> QED BY <1>2, <1>4, <2>1, <2>3, <2>4, CountingTick
  <1>9. CASE Drive(q, ok, after)
    BY <1>5, <1>9, DriveTick
  <1> QED BY <1>3, <1>5, <1>7, <1>8, <1>9 DEF Track

\* The controller that takes the sensor's sample at a tick.
LEMMA TickOfController ==
    ASSUME AxisAssumption, TypeInv, OutputInv, Fed, RestIsReal,
           NEW ok \in BOOLEAN, NEW after \in BOOLEAN, TickAxis(ok, after)
    PROVE  \E k : k = accepted(c, sensor) /\ Ready(k) /\ Ticked(k)
  <1>1. Ready(c) /\ sensor \in Snapshot
    BY ControllerIsReady DEF TypeInv
  <1>2. PICK c0 : c0 = c
    OBVIOUS
  <1>3. PICK k : k = accepted(c0, sensor)
    OBVIOUS
  <1>4. /\ Ready(k) /\ k.target_active = c0.target_active
        /\ k.at_target = c0.at_target /\ k.move_left = c0.move_left
    BY <1>1, <1>2, <1>3, AcceptedSample
  <1>5. Timed(k, target_age)
    BY <1>2, <1>4 DEF Timed, Fed
  <1>6. PICK new \in BOOLEAN : new = (c.homed /\ Sample(sensor).valid /\ is_newer(c, sensor))
    OBVIOUS
  <1>7. /\ \/ NeedsNoTracking(k, sensor, ok)
           \/ tracks(k, sensor) /\ Expire(k, ok)
           \/ /\ tracks(k, sensor) /\ ~command_expired(k) /\ ~move_timed_out(k)
              /\ Track(k, new, ok, after)
        /\ NoteRest /\ phase = "TICK" /\ phase' = "SLEEP"
        /\ target_age' = target_age /\ driving' = driving
    BY <1>2, <1>3, <1>6 DEF TickAxis
  <1>8. PICK s : s = sensor
    OBVIOUS
  <1>9. CASE NeedsNoTracking(k, s, ok)
    BY <1>2, <1>3, <1>4, <1>5, <1>7, <1>9, NoTrackingTick
  <1>10. CASE tracks(k, s) /\ Expire(k, ok)
    BY <1>2, <1>3, <1>4, <1>7, <1>10, ExpireTick
  <1>11. CASE tracks(k, s) /\ ~command_expired(k) /\ ~move_timed_out(k) /\ Track(k, new, ok, after)
    BY <1>2, <1>3, <1>4, <1>5, <1>7, <1>11, TrackTick
  <1> QED BY <1>7, <1>8, <1>9, <1>10, <1>11

(* ------------------- the invariant, action by action --------------------- *)

DriveInv == TypeInv /\ OutputInv /\ Fed /\ RestIsReal

\* What an action makes of a drive: no reversal before the wheel has rested, and
\* no tick of a faulted axis that neither rests the wheel nor fails to.
RestsInStep ==
    /\ pulse' \notin {"NEUTRAL", last_pulse} /\ last_pulse # "NONE" => rest >= ReversalSettle
    /\ phase = "TICK" /\ phase' = "SLEEP" /\ has_fault(c') =>
           pulse' = "NEUTRAL" \/ write_failures' > write_failures

\* The controller keeps what it knows of the wheel, and its faults.
Keeps(k) ==
    /\ c'.homed = k.homed /\ c'.position = k.position /\ c'.latest = k.latest /\ c'.age = k.age
    /\ c'.fault = "NONE" => k.fault = "NONE"

\* The axis starts at rest, with no reference.
LEMMA InitDrive ==
    ASSUME AxisAssumption, AxisInit
    PROVE  DriveInv
  <1>1. /\ 0 \in 0..StableSamples /\ 0 \in 0..ReacquireSamples /\ 0 \in 0..(FaultTimeout + 1)
        /\ 0 \in 0..(Cycle - 1) /\ ReversalSettle \in Nat /\ MaxPosition \in Nat
        /\ MoveTimeout \in Nat
    BY DEF AxisAssumption
  <1>2. c = controller_init /\ pulse = "NEUTRAL" /\ last_pulse = "NONE" /\ rest = 0
    BY DEF AxisInit
  <1>3. controller_init \in Controller
    BY <1>1 DEF controller_init, Controller, States, FaultNames, Pulses
  <1>4. NoSample \in Snapshot
    BY <1>1 DEF NoSample, Snapshot
  <1>5. TypeInv
    BY <1>1, <1>2, <1>3, <1>4 DEF AxisInit, TypeInv, Pulses
  <1>6. OutputInv
    BY <1>2 DEF OutputInv, Output, controller_init
  <1>7. Fed
    BY <1>2 DEF Fed, controller_init
  <1>8. RestIsReal
    BY <1>1, <1>2 DEF RestIsReal, controller_init
  <1> QED BY <1>5, <1>6, <1>7, <1>8 DEF DriveInv

\* A poll changes the sensor's snapshot and the task's phase.
LEMMA PollDrive ==
    ASSUME AxisAssumption, DriveInv, NEW answered \in BOOLEAN, NEW diagnosed \in BOOLEAN,
           NEW magnet \in Magnets, PollSensor(answered, magnet, diagnosed)
    PROVE  DriveInv' /\ RestsInStep
  <1>1. /\ phase = "POLL" /\ phase' = "TICK"
        /\ UNCHANGED <<wheel, pulse, last_raw, c, write_failures, sampled_wheel, last_pulse, rest,
                       target_age, driving>>
        /\ sensor' \in {sensor, as5600_device_poll(answered, magnet, diagnosed)}
    BY DEF PollSensor, history
  <1>2. sensor \in Snapshot /\ wheel \in Int /\ pulse \in Pulses
        /\ (pulse # "NEUTRAL" => last_pulse = pulse)
    BY DEF DriveInv, TypeInv, RestIsReal
  <1>3. cyclic(wheel) \in 0..(Cycle - 1) /\ 0 \in 0..(FaultTimeout + 1)
    BY <1>2, Turns DEF AxisAssumption
  <1>4. as5600_device_poll(answered, magnet, diagnosed) \in Snapshot
    <2>1. CASE ~answered
      <3>1. as5600_device_poll(answered, magnet, diagnosed) = [sensor EXCEPT !.last_poll = "FAILED"]
        BY <2>1 DEF as5600_device_poll
      <3> QED BY <1>2, <3>1 DEF Snapshot
    <2>2. CASE answered
      <3>1. PICK p : p = IF sensor.diagnostics = "DUE" /\ ~diagnosed THEN "PARTIAL" ELSE "OK"
        OBVIOUS
      <3>2. PICK g : g = IF sensor.diagnostics = "DUE"
                         THEN (IF diagnosed THEN "VALID" ELSE "FAILED") ELSE sensor.diagnostics
        OBVIOUS
      <3>3. p \in {"NOT_READY", "FAILED", "PARTIAL", "OK"} /\ g \in {"DUE", "VALID", "FAILED"}
        BY <1>2, <3>1, <3>2 DEF Snapshot
      <3>4. as5600_device_poll(answered, magnet, diagnosed) =
              [valid |-> TRUE, raw |-> cyclic(wheel), age |-> 0, magnet |-> magnet,
               last_poll |-> p, diagnostics |-> g, wheel |-> wheel]
        BY <2>2, <3>1, <3>2 DEF as5600_device_poll
      <3> QED BY <1>2, <1>3, <3>3, <3>4 DEF Snapshot
    <2> QED BY <2>1, <2>2
  <1>5. TypeInv'
    BY <1>1, <1>2, <1>4 DEF DriveInv, TypeInv
  <1>6. OutputInv' /\ RestIsReal'
    BY <1>1 DEF DriveInv, OutputInv, RestIsReal
  <1>7. Fed'
    <2>1. c.at_target => driving = 0
      BY <1>1 DEF DriveInv, Fed
    <2> QED BY <1>1, <2>1 DEF DriveInv, Fed
  <1>8. RestsInStep
    BY <1>1, <1>2 DEF RestsInStep
  <1> QED BY <1>5, <1>6, <1>7, <1>8 DEF DriveInv

\* A tick leaves what Ticked says.
LEMMA TickDrive ==
    ASSUME AxisAssumption, DriveInv, NEW ok \in BOOLEAN, NEW after \in BOOLEAN,
           TickAxis(ok, after)
    PROVE  DriveInv' /\ RestsInStep
  <1>1. PICK k : Ticked(k)
    BY TickOfController DEF DriveInv
  <1>2. /\ phase' = "SLEEP"
        /\ UNCHANGED <<wheel, sensor, target_age, driving>>
        /\ last_raw' \in {last_raw, sensor.raw}
        /\ sampled_wheel' \in {sampled_wheel, sensor.wheel}
    BY DEF TickAxis
  <1>3. sensor.raw \in 0..(Cycle - 1) /\ sensor.wheel \in Int
    BY DEF DriveInv, TypeInv, Snapshot
  <1>4. last_raw' \in 0..(Cycle - 1) \cup {None} /\ sampled_wheel' \in Int
    BY <1>2, <1>3 DEF DriveInv, TypeInv
  <1>5. TypeInv'
    BY <1>1, <1>2, <1>4 DEF DriveInv, TypeInv, Ticked
  <1>6. RestsInStep
    BY <1>1 DEF Ticked, RestsInStep, has_fault
  <1> QED BY <1>1, <1>5, <1>6 DEF Ticked, DriveInv

\* A call that commands a neutral pulse, and what it leaves to the task.
LEMMA NeutralCall ==
    ASSUME AxisAssumption, DriveInv, NEW k, Ready(k), NEW force \in BOOLEAN, NEW ok \in BOOLEAN,
           GoNeutral(k, force, ok), NoteRest, target_age' \in Nat,
           ok \/ ~force => Timed(k, target_age'), k.at_target => c.at_target,
           UNCHANGED <<wheel, sensor, phase, driving>>,
           last_raw' \in 0..(Cycle - 1) \cup {None}, sampled_wheel' \in Int
    PROVE  DriveInv' /\ RestsInStep /\ Keeps(k)
  <1>1. CameToRest(k)
    BY NeutralStep DEF DriveInv
  <1>2. c'.target_active => Timed(k, target_age')
    <2>1. CASE ok \/ ~force
      BY <2>1
    <2>2. CASE ~ok /\ force
      <3>1. PICK d : d = command_neutral(k, force, ok)
        OBVIOUS
      <3>2. c' = d
        BY <3>1 DEF GoNeutral
      <3>3. ~d.target_active
        BY <2>2, <3>1, NeutralCommand DEF writes_neutral
      <3> QED BY <3>2, <3>3
    <2> QED BY <2>1, <2>2
  <1>3. k.at_target /\ phase' # "SLEEP" => driving' = 0
    BY DEF DriveInv, Fed
  <1>4. OutputInv' /\ Fed'
    BY <1>1, <1>2, <1>3, RestIsFed
  <1>5. /\ c' \in Controller /\ pulse' \in Pulses /\ write_failures' \in Nat /\ rest' \in Nat
        /\ last_pulse' = last_pulse /\ RestIsReal'
        /\ pulse' = "NEUTRAL" \/ pulse' = pulse
    BY <1>1 DEF CameToRest
  <1>6. TypeInv'
    BY <1>5 DEF DriveInv, TypeInv
  <1>7. RestsInStep
    <2>1. pulse # "NEUTRAL" => last_pulse = pulse
      BY DEF DriveInv, RestIsReal
    <2>2. phase' = phase
      OBVIOUS
    <2> QED BY <1>5, <2>1, <2>2 DEF RestsInStep
  <1>8. Keeps(k)
    BY <1>1 DEF CameToRest, Keeps
  <1> QED BY <1>4, <1>5, <1>6, <1>7, <1>8 DEF DriveInv

\* A stop clears the target.
LEMMA StopDrive ==
    ASSUME AxisAssumption, DriveInv, NEW ok \in BOOLEAN, StopAxis(ok)
    PROVE  DriveInv' /\ RestsInStep /\ Keeps(c)
  <1>1. PICK c0 : c0 = c
    OBVIOUS
  <1>2. Ready(c0)
    BY <1>1, ControllerIsReady DEF DriveInv
  <1>3. PICK g : g = clear_target(c0)
    OBVIOUS
  <1>4. PICK state \in States : state = IF has_fault(g) THEN "FAULT"
                                        ELSE IF g.homed THEN "IDLE" ELSE "UNHOMED"
    BY DEF States
  <1>5. PICK m : m = [g EXCEPT !.state = state]
    OBVIOUS
  <1>6. /\ Ready(m) /\ ~m.target_active /\ ~m.at_target /\ m.fault = c0.fault
        /\ m.homed = c0.homed /\ m.position = c0.position /\ m.latest = c0.latest /\ m.age = c0.age
    BY <1>2, <1>3, <1>5, ClearedIsReady
  <1>7. /\ GoNeutral(m, TRUE, ok) /\ NoteRest
        /\ UNCHANGED <<wheel, sensor, last_raw, phase, sampled_wheel, target_age, driving>>
    BY <1>1, <1>3, <1>4, <1>5 DEF StopAxis
  <1>8. Timed(m, target_age')
    BY <1>6 DEF Timed
  <1>9. /\ target_age' \in Nat /\ last_raw' \in 0..(Cycle - 1) \cup {None} /\ sampled_wheel' \in Int
    BY <1>7 DEF DriveInv, TypeInv
  <1>10. DriveInv' /\ RestsInStep /\ Keeps(m)
    BY <1>6, <1>7, <1>8, <1>9, NeutralCall
  <1> QED BY <1>1, <1>6, <1>10 DEF Keeps

\* So does a reference.
LEMMA ReferenceDrive ==
    ASSUME AxisAssumption, DriveInv, NEW ok \in BOOLEAN, SetReference(ok)
    PROVE  /\ DriveInv' /\ RestsInStep
           /\ IF ok THEN /\ c'.homed /\ c'.position = sensor.wheel /\ c'.latest = sensor.raw
                         /\ c'.age = sensor.age
              ELSE Keeps(c)
  <1>1. PICK c0 : c0 = c
    OBVIOUS
  <1>2. Ready(c0) /\ c0 \in Controller
    BY <1>1, ControllerIsReady DEF DriveInv, Ready
  <1>3. /\ sensor.raw \in 0..(Cycle - 1) /\ sensor.age \in 0..(FaultTimeout + 1)
        /\ sensor.wheel \in Int /\ Cycle \in Nat /\ target_age \in Nat
    BY DEF DriveInv, TypeInv, Snapshot, AxisAssumption
  <1>4. /\ NoteRest
        /\ UNCHANGED <<wheel, sensor, phase, target_age, driving>>
    BY DEF SetReference
  <1>5. CASE ok
    <2>1. PICK w \in Int, r \in Int, a \in 0..(FaultTimeout + 1) :
              w = sensor.wheel /\ r = sensor.raw /\ a = sensor.age
      BY <1>3
    <2>2. PICK g : g = [c0 EXCEPT !.homed = TRUE, !.position = w, !.latest = r, !.age = a,
                                  !.state = "IDLE"]
      OBVIOUS
    <2>3. g \in Controller
      BY <1>2, <2>1, <2>2 DEF Controller, States
    <2>4. /\ g.homed /\ g.position = w /\ g.latest = r /\ g.age = a
          /\ g.fault = c0.fault /\ g.known = c0.known /\ g.output = c0.output
          /\ g.last_direction = c0.last_direction /\ g.neutral_age = c0.neutral_age
      BY <1>2, <2>2 DEF Controller
    <2>5. PICK m : m = clear_target(g)
      OBVIOUS
    <2>6. /\ m \in Controller /\ ~m.target_active /\ ~m.at_target
          /\ m.homed = g.homed /\ m.position = g.position /\ m.latest = g.latest /\ m.age = g.age
          /\ m.fault = g.fault /\ m.last_direction = g.last_direction
          /\ m.known = g.known /\ m.output = g.output /\ m.neutral_age = g.neutral_age
      BY <2>3, <2>5, ClearedTarget
    <2>7. Ready(m)
      BY <1>2, <2>4, <2>6 DEF Ready
    <2>8. GoNeutral(m, TRUE, ok) /\ last_raw' = sensor.raw /\ sampled_wheel' = sensor.wheel
      BY <1>1, <1>5, <2>1, <2>2, <2>5 DEF SetReference
    <2>9. Timed(m, target_age')
      BY <2>6 DEF Timed
    <2>10. DriveInv' /\ RestsInStep /\ Keeps(m)
      BY <1>3, <1>4, <2>6, <2>7, <2>8, <2>9, NeutralCall
    <2> QED BY <1>5, <2>1, <2>4, <2>6, <2>10 DEF Keeps
  <1>6. CASE ~ok
    <2>1. GoNeutral(c0, TRUE, ok) /\ last_raw' = last_raw /\ sampled_wheel' = sampled_wheel
      BY <1>1, <1>6 DEF SetReference
    <2>2. last_raw' \in 0..(Cycle - 1) \cup {None} /\ sampled_wheel' \in Int
      BY <2>1 DEF DriveInv, TypeInv
    <2>3. DriveInv' /\ RestsInStep /\ Keeps(c0)
      BY <1>1, <1>2, <1>3, <1>4, <1>6, <2>1, <2>2, NeutralCall
    <2> QED BY <1>1, <1>6, <2>3
  <1> QED BY <1>5, <1>6

\* A target: a refresh extends the lease of a drive and leaves the rest, a new
\* one starts from a neutral pulse with all of its move's time.
LEMMA TargetDrive ==
    ASSUME AxisAssumption, DriveInv, NEW t \in 0..MaxPosition, NEW ok \in BOOLEAN, SetTarget(t, ok)
    PROVE  DriveInv' /\ RestsInStep /\ Keeps(c)
  <1>1. PICK c0 : c0 = c
    OBVIOUS
  <1>2. Ready(c0) /\ c0 \in Controller /\ c0.homed /\ c0.fault = "NONE"
    BY <1>1, ControllerIsReady DEF DriveInv, Ready, SetTarget, has_fault
  <1>3. /\ t \in Int /\ CommandTtl \in Nat \ {0} /\ MoveTimeout \in Nat
        /\ 0 \in 0..StableSamples /\ 0 \in 0..ReacquireSamples
        /\ ReversalSettle \in Nat /\ target_age \in Nat
    BY DEF AxisAssumption, DriveInv, TypeInv
  <1>4. PICK k : k = [c0 EXCEPT !.target = t, !.target_active = TRUE, !.command_left = CommandTtl]
    OBVIOUS
  <1>5. /\ k \in Controller /\ k.target_active /\ k.command_left > 0
        /\ k.homed = c0.homed /\ k.fault = c0.fault /\ k.known = c0.known /\ k.output = c0.output
        /\ k.last_direction = c0.last_direction /\ k.neutral_age = c0.neutral_age
        /\ k.at_target = c0.at_target /\ k.move_left = c0.move_left /\ k.age = c0.age
        /\ k.position = c0.position /\ k.latest = c0.latest
    <2>1. k \in Controller
      BY <1>2, <1>3, <1>4 DEF Controller
    <2>2. k.command_left = CommandTtl /\ CommandTtl > 0
      BY <1>2, <1>3, <1>4 DEF Controller
    <2>3. /\ k.target_active
          /\ k.homed = c0.homed /\ k.fault = c0.fault /\ k.known = c0.known /\ k.output = c0.output
          /\ k.last_direction = c0.last_direction /\ k.neutral_age = c0.neutral_age
          /\ k.at_target = c0.at_target /\ k.move_left = c0.move_left /\ k.age = c0.age
          /\ k.position = c0.position /\ k.latest = c0.latest
      BY <1>2, <1>4 DEF Controller
    <2> QED BY <2>1, <2>2, <2>3
  <1>6. /\ NoteRest
        /\ UNCHANGED <<wheel, sensor, last_raw, phase, sampled_wheel, driving>>
        /\ last_raw' \in 0..(Cycle - 1) \cup {None} /\ sampled_wheel' \in Int
    BY DEF SetTarget, DriveInv, TypeInv
  <1>7. CASE GoNeutral([c EXCEPT !.state = "SENSOR_STALE"], TRUE, ok) /\ UNCHANGED target_age
    <2>1. PICK m : m = [c0 EXCEPT !.state = "SENSOR_STALE"]
      OBVIOUS
    <2>2. /\ m \in Controller /\ m.homed = c0.homed /\ m.fault = c0.fault /\ m.known = c0.known
          /\ m.output = c0.output /\ m.last_direction = c0.last_direction
          /\ m.neutral_age = c0.neutral_age /\ m.at_target = c0.at_target
          /\ m.move_left = c0.move_left /\ m.target_active = c0.target_active
          /\ m.position = c0.position /\ m.latest = c0.latest /\ m.age = c0.age
      BY <1>2, <2>1 DEF Controller, States
    <2>3. Ready(m)
      BY <1>2, <2>2 DEF Ready
    <2>4. Timed(m, target_age')
      BY <1>1, <1>7, <2>2 DEF Timed, DriveInv, Fed
    <2>5. GoNeutral(m, TRUE, ok)
      BY <1>1, <1>7, <2>1
    <2>6. m.at_target => c.at_target
      BY <1>1, <2>2
    <2>7. target_age' \in Nat
      BY <1>3, <1>7
    <2>8. DriveInv' /\ RestsInStep /\ Keeps(m)
      BY <1>6, <2>3, <2>4, <2>5, <2>6, <2>7, NeutralCall
    <2> QED BY <1>1, <2>2, <2>8 DEF Keeps
  <1>8. CASE /\ fresh(c) /\ c.target_active /\ c' = k
             /\ UNCHANGED <<pulse, write_failures, target_age>>
    <2>1. /\ pulse \in Pulses /\ rest \in Nat /\ last_pulse \in Pulses \cup {"NONE"}
          /\ (pulse # "NEUTRAL" => last_pulse = pulse) /\ rest <= ReversalSettle
      BY DEF DriveInv, TypeInv, RestIsReal
    <2>2. last_pulse' = last_pulse /\ rest' = (IF pulse = "NEUTRAL" THEN rest ELSE 0)
      BY <1>6, <1>8, <2>1 DEF NoteRest
    <2>3. TypeInv'
      BY <1>5, <1>6, <1>8, <2>1, <2>2 DEF DriveInv, TypeInv
    <2>4. OutputInv'
      BY <1>1, <1>2, <1>5, <1>8 DEF DriveInv, OutputInv, Output
    <2>5. Fed'
      BY <1>1, <1>5, <1>6, <1>8 DEF DriveInv, Fed
    <2>6. RestIsReal'
      BY <1>1, <1>2, <1>3, <1>5, <1>8, <2>1, <2>2 DEF DriveInv, RestIsReal, Ready
    <2>7. RestsInStep
      BY <1>6, <1>8, <2>1 DEF RestsInStep
    <2>8. Keeps(c)
      BY <1>1, <1>2, <1>5, <1>8 DEF Keeps
    <2> QED BY <2>3, <2>4, <2>5, <2>6, <2>7, <2>8 DEF DriveInv
  <1>9. CASE /\ ok /\ target_age' = 0
             /\ GoNeutral([k EXCEPT !.move_left = MoveTimeout, !.at_target = FALSE,
                                    !.stable = 0, !.reacquire = 0, !.state = "TRACKING"], TRUE, ok)
    <2>1. PICK m : m = [k EXCEPT !.move_left = MoveTimeout, !.at_target = FALSE,
                                 !.stable = 0, !.reacquire = 0, !.state = "TRACKING"]
      OBVIOUS
    <2>2. m \in Controller
      BY <1>3, <1>5, <2>1 DEF Controller, States
    <2>3. /\ m.homed = k.homed /\ m.fault = k.fault /\ m.known = k.known
          /\ m.output = k.output /\ m.last_direction = k.last_direction
          /\ m.neutral_age = k.neutral_age /\ ~m.at_target /\ m.move_left = MoveTimeout
          /\ m.position = k.position /\ m.latest = k.latest /\ m.age = k.age
      BY <1>5, <2>1 DEF Controller
    <2>4. Ready(m)
      BY <1>2, <1>5, <2>2, <2>3 DEF Ready
    <2>5. Timed(m, target_age') /\ target_age' \in Nat
      BY <1>3, <1>9, <2>3 DEF Timed
    <2>6. GoNeutral(m, TRUE, ok)
      BY <1>9, <2>1
    <2>7. DriveInv' /\ RestsInStep /\ Keeps(m)
      BY <1>6, <2>3, <2>4, <2>5, <2>6, NeutralCall
    <2> QED BY <1>1, <1>5, <2>3, <2>7 DEF Keeps
  <1>10. CASE ~ok /\ target_age' = 0 /\ GoNeutral(c0, TRUE, ok)
    <2>1. target_age' \in Nat
      BY <1>10
    <2>2. DriveInv' /\ RestsInStep /\ Keeps(c0)
      BY <1>1, <1>2, <1>6, <1>10, <2>1, NeutralCall
    <2> QED BY <1>1, <2>2
  <1>11. k = [c EXCEPT !.target = t, !.target_active = TRUE, !.command_left = CommandTtl]
    BY <1>1, <1>4
  <1>12. \/ GoNeutral([c EXCEPT !.state = "SENSOR_STALE"], TRUE, ok) /\ UNCHANGED target_age
         \/ /\ fresh(c) /\ c.target_active /\ c' = k
            /\ UNCHANGED <<pulse, write_failures, target_age>>
         \/ /\ target_age' = 0
            /\ GoNeutral(IF ok THEN [k EXCEPT !.move_left = MoveTimeout, !.at_target = FALSE,
                                              !.stable = 0, !.reacquire = 0, !.state = "TRACKING"]
                               ELSE c0, TRUE, ok)
    BY <1>1, <1>11 DEF SetTarget
  <1> QED BY <1>7, <1>8, <1>9, <1>10, <1>12

\* Time passes: what drives was fed at the tick, and the rest grows with that of
\* the controller.
LEMMA AdvanceDrive ==
    ASSUME AxisAssumption, DriveInv, NEW step \in Moves, Advance(step)
    PROVE  DriveInv' /\ RestsInStep
  <1>1. /\ phase = "SLEEP" /\ phase' = "POLL" /\ wheel' = wheel + step
        /\ sensor' = [sensor EXCEPT !.age = cap(sensor.age + 1, FaultTimeout + 1)]
        /\ UNCHANGED <<pulse, last_raw, write_failures, sampled_wheel, last_pulse>>
        /\ rest' = (IF pulse = "NEUTRAL" THEN cap(rest + 1, ReversalSettle) ELSE 0)
        /\ target_age' = cap(target_age + 1, MoveTimeout + 1)
        /\ driving' = (IF pulse = "NEUTRAL" THEN 0 ELSE cap(driving + 1, 2))
    <2>1. sensor \in Snapshot
      BY DEF DriveInv, TypeInv
    <2> QED BY <2>1 DEF Advance, Snapshot
  <1>2. /\ c \in Controller /\ sensor \in Snapshot /\ pulse \in Pulses /\ wheel \in Int
        /\ rest \in Nat /\ target_age \in Nat /\ driving \in 0..2
        /\ rest <= ReversalSettle /\ (pulse # "NEUTRAL" => last_pulse = pulse)
        /\ c.last_direction = last_pulse
        /\ c.fault = "NONE" /\ c.known /\ c.output = "NEUTRAL" => c.neutral_age <= rest
    BY DEF DriveInv, TypeInv, RestIsReal
  <1>3. /\ ReversalSettle \in Nat /\ FaultTimeout \in Nat /\ StaleTimeout \in Nat
        /\ MoveTimeout \in Nat
    BY DEF AxisAssumption
  <1>4. /\ c.age \in 0..(FaultTimeout + 1) /\ c.command_left \in Nat /\ c.move_left \in Nat
        /\ c.neutral_age \in Nat /\ sensor.age \in 0..(FaultTimeout + 1)
    BY <1>2 DEF Controller, Snapshot
  <1>5. PICK a \in 0..(FaultTimeout + 1), l \in Nat, m \in Nat, n \in Nat, b \in 0..(FaultTimeout + 1) :
            /\ a = cap(c.age + 1, FaultTimeout + 1) /\ l = less(c.command_left)
            /\ m = less(c.move_left) /\ n = cap(c.neutral_age + 1, ReversalSettle)
            /\ b = cap(sensor.age + 1, FaultTimeout + 1)
    <2>1. /\ cap(c.age + 1, FaultTimeout + 1) \in 0..(FaultTimeout + 1)
          /\ cap(sensor.age + 1, FaultTimeout + 1) \in 0..(FaultTimeout + 1)
          /\ less(c.command_left) \in Nat /\ less(c.move_left) \in Nat
          /\ cap(c.neutral_age + 1, ReversalSettle) \in Nat
      BY <1>3, <1>4 DEF cap, less
    <2> QED BY <2>1
  <1>6. c' = [c EXCEPT !.age = a, !.command_left = l, !.move_left = m, !.neutral_age = n]
    BY <1>2, <1>5 DEF Advance, Controller
  <1>7. c' \in Controller
    BY <1>2, <1>6 DEF Controller
  <1>8. /\ c'.age = a /\ c'.command_left = l /\ c'.move_left = m /\ c'.neutral_age = n
        /\ c'.homed = c.homed /\ c'.fault = c.fault /\ c'.known = c.known
        /\ c'.output = c.output /\ c'.last_direction = c.last_direction
        /\ c'.at_target = c.at_target /\ c'.target_active = c.target_active
    BY <1>2, <1>6 DEF Controller
  <1>9. sensor' \in Snapshot
    <2>1. sensor' = [sensor EXCEPT !.age = b]
      BY <1>1, <1>5
    <2> QED BY <1>2, <2>1 DEF Snapshot
  <1>10. step \in Int
    <2>1. Driven \subseteq {0, 1, -1}
      <3>1. pulse = "NEUTRAL" \/ pulse = "POSITIVE" \/ pulse = "NEGATIVE"
        BY <1>2 DEF Pulses
      <3> QED BY <3>1 DEF Driven
    <2>2. step \in {0, 1, -1}
      BY <2>1 DEF Moves
    <2> QED BY <2>2
  <1>11. /\ rest' \in Nat /\ target_age' \in Nat /\ driving' \in 0..2 /\ wheel' \in Int
         /\ rest' <= ReversalSettle
    BY <1>1, <1>2, <1>3, <1>10 DEF cap
  <1>12. TypeInv'
    BY <1>1, <1>7, <1>9, <1>11 DEF DriveInv, TypeInv
  <1>13. Output(c, pulse)
    BY DEF DriveInv, OutputInv
  <1>14. OutputInv'
    BY <1>1, <1>8, <1>13 DEF OutputInv, Output
  <1>15. c.target_active /\ c.move_left > 0 => target_age + c.move_left = MoveTimeout
    BY DEF DriveInv, Fed
  <1>16. Fed'
    <2>1. ASSUME pulse # "NEUTRAL", c.known
          PROVE  a <= StaleTimeout + 1 /\ (target_age' <= MoveTimeout \/ driving' <= 1)
      <3>1. c.age <= StaleTimeout /\ (c.move_left > 0 \/ driving = 0)
        BY <1>1, <2>1 DEF DriveInv, Fed
      <3>2. c.target_active
        BY <1>13, <2>1 DEF Output
      <3>3. a <= StaleTimeout + 1
        BY <1>3, <1>4, <1>5, <3>1 DEF cap
      <3>4. c.move_left > 0 => target_age' <= MoveTimeout
        BY <1>1, <1>2, <1>3, <1>4, <1>15, <3>2 DEF cap
      <3>5. driving = 0 => driving' <= 1
        BY <1>1 DEF cap
      <3> QED BY <3>1, <3>3, <3>4, <3>5
    <2>2. c.target_active /\ m > 0 => target_age' + m = MoveTimeout
      BY <1>1, <1>2, <1>3, <1>4, <1>5, <1>15 DEF cap, less
    <2>3. c.at_target => driving' = 0
      BY <1>1, <1>13 DEF Output
    <2> QED BY <1>1, <1>8, <2>1, <2>2, <2>3 DEF Fed
  <1>17. RestIsReal'
    <2>1. c.fault = "NONE" /\ c.known /\ c.output = "NEUTRAL" => n <= rest'
      <3>1. c.known /\ c.output = "NEUTRAL" => pulse = "NEUTRAL"
        BY <1>13 DEF Output
      <3> QED BY <1>1, <1>2, <1>3, <1>4, <1>5, <3>1 DEF cap
    <2> QED BY <1>1, <1>2, <1>8, <1>11, <2>1 DEF RestIsReal
  <1>18. RestsInStep
    BY <1>1, <1>2 DEF RestsInStep
  <1> QED BY <1>12, <1>14, <1>16, <1>17, <1>18 DEF DriveInv

\* Every step keeps the invariant and rests the wheel as it should.
LEMMA NextDrive ==
    ASSUME AxisAssumption, DriveInv, [AxisNext]_axisVars
    PROVE  DriveInv' /\ (RestsInStep \/ UNCHANGED axisVars)
  <1>1. CASE PollSome
    BY <1>1, PollDrive DEF PollSome
  <1>2. CASE TickSome
    BY <1>2, TickDrive DEF TickSome
  <1>3. CASE AdvanceSome
    BY <1>3, AdvanceDrive DEF AdvanceSome
  <1>4. CASE Calls
    BY <1>4, StopDrive, ReferenceDrive, TargetDrive DEF Calls
  <1>5. CASE UNCHANGED axisVars
    <2>1. TypeInv'
      BY <1>5 DEF axisVars, history, DriveInv, TypeInv
    <2>2. OutputInv'
      BY <1>5 DEF axisVars, history, DriveInv, OutputInv
    <2>3. Fed'
      BY <1>5 DEF axisVars, history, DriveInv, Fed
    <2>4. RestIsReal'
      BY <1>5 DEF axisVars, history, DriveInv, RestIsReal
    <2> QED BY <1>5, <2>1, <2>2, <2>3, <2>4 DEF DriveInv
  <1> QED BY <1>1, <1>2, <1>3, <1>4, <1>5 DEF AxisNext, SteeringTask

\* The axis's state is consistent, and whatever drives the wheel is fed: with a
\* sample no older than the stale timeout, by a lease in force, and for no
\* longer than the move timeout after its target changed.
THEOREM AxisAlwaysHolds ==
    ASSUME AxisAssumption
    PROVE  AxisSpec => []AxisHolds
  <1>1. AxisInit => DriveInv
    BY InitDrive
  <1>2. DriveInv /\ [AxisNext]_axisVars => DriveInv'
    BY NextDrive
  <1>3. DriveInv => AxisHolds
    <2>1. ASSUME DriveInv PROVE AxisTypeOK
      <3>1. TypeInv /\ c \in Controller /\ sensor \in Snapshot /\ Output(c, pulse)
        BY <2>1 DEF DriveInv, TypeInv, OutputInv
      <3>2. /\ sensor.raw \in 0..Cycle - 1 /\ sensor.age \in 0..FaultTimeout + 1
            /\ c.stable \in 0..StableSamples /\ c.reacquire \in 0..ReacquireSamples
        BY <3>1 DEF Controller, Snapshot
      <3>3. (c.target_active => c.homed /\ c.fault = "NONE") /\ (c.known => c.output = pulse)
        BY <3>1 DEF Output
      <3> QED BY <3>1, <3>2, <3>3 DEF AxisTypeOK, TypeInv, Pulses
    <2>2. ASSUME DriveInv PROVE DriveIsFed
      BY <2>2 DEF DriveInv, Fed, DriveIsFed
    <2> QED BY <2>1, <2>2 DEF AxisHolds
  <1> QED BY <1>1, <1>2, <1>3, PTL DEF AxisSpec

\* A wheel rests for the settling time before it is reversed, and each tick of a
\* faulted axis rests it or finds that the PWM refuses.
THEOREM DriveAlwaysRests ==
    ASSUME AxisAssumption
    PROVE  AxisSpec => DriveRests
  <1>1. AxisInit => DriveInv
    BY InitDrive
  <1>2. DriveInv /\ [AxisNext]_axisVars => DriveInv'
    BY NextDrive
  <1>3. DriveInv /\ [AxisNext]_axisVars =>
            [pulse' \notin {"NEUTRAL", last_pulse} /\ last_pulse # "NONE"
                 => rest >= ReversalSettle]_axisVars
    BY NextDrive DEF RestsInStep
  <1>4. DriveInv /\ [AxisNext]_axisVars =>
            [phase = "TICK" /\ phase' = "SLEEP" /\ has_fault(c') =>
                 pulse' = "NEUTRAL" \/ write_failures' > write_failures]_axisVars
    BY NextDrive DEF RestsInStep
  <1>5. AxisSpec => ReversalSettles
    BY <1>1, <1>2, <1>3, PTL DEF AxisSpec, ReversalSettles
  <1>6. AxisSpec => FaultRests
    BY <1>1, <1>2, <1>4, PTL DEF AxisSpec, FaultRests
  <1> QED BY <1>5, <1>6 DEF DriveRests

(* ----------------------- the wheel is where it is ------------------------ *)

TrackInv == DriveInv /\ Tracked /\ SampleIsReal

\* The sensor cannot be silent for as long as the wheel needs for half a turn.
TurnIsSlow == FaultTimeout <= Cycle \div 2

\* What a step makes of the controller's position.
PositionInStep == c'.homed /\ c.fault = "NONE" => c'.position = sampled_wheel'

\* An axis with no reference has no position to be true.
LEMMA InitTracked ==
    ASSUME AxisAssumption, AxisInit
    PROVE  Tracked /\ SampleIsReal
  BY DEF AxisInit, Tracked, SampleIsReal, controller_init, NoSample

\* A step that keeps the wheel, the sensor's sample and the controller's
\* knowledge of them keeps them true.
LEMMA TrackedIsKept ==
    ASSUME Tracked, SampleIsReal, Keeps(c), phase' = phase,
           UNCHANGED <<wheel, sensor, last_raw, sampled_wheel>>
    PROVE  Tracked' /\ SampleIsReal' /\ PositionInStep
  <1>1. SampleIsReal'
    BY DEF SampleIsReal
  <1>2. Tracked'
    BY DEF Tracked, Keeps
  <1>3. PositionInStep
    BY DEF PositionInStep, Tracked, Keeps
  <1> QED BY <1>1, <1>2, <1>3

\* A poll samples the wheel where it is.
LEMMA PollTracked ==
    ASSUME AxisAssumption, TrackInv, NEW answered \in BOOLEAN, NEW diagnosed \in BOOLEAN,
           NEW magnet \in Magnets, PollSensor(answered, magnet, diagnosed)
    PROVE  Tracked' /\ SampleIsReal' /\ PositionInStep
  <1>1. /\ phase = "POLL" /\ phase' = "TICK"
        /\ wheel' = wheel /\ c' = c /\ sampled_wheel' = sampled_wheel /\ last_raw' = last_raw
        /\ sensor' \in {sensor, as5600_device_poll(answered, magnet, diagnosed)}
    BY DEF PollSensor, history
  <1>2. /\ c \in Controller /\ sensor \in Snapshot /\ wheel \in Int /\ sampled_wheel \in Int
        /\ Tracked /\ SampleIsReal
    BY DEF TrackInv, DriveInv, TypeInv
  <1>3. c.age \in Nat /\ FaultTimeout \in Nat
    BY <1>2 DEF Controller, AxisAssumption
  <1>4. PositionInStep
    BY <1>1, <1>2 DEF PositionInStep, Tracked
  <1>5. CASE sensor' = sensor \/ ~answered
    <2>1. /\ sensor'.valid = sensor.valid /\ sensor'.raw = sensor.raw /\ sensor'.age = sensor.age
          /\ sensor'.wheel = sensor.wheel
      BY <1>1, <1>2, <1>5 DEF as5600_device_poll, Snapshot
    <2>2. SampleIsReal'
      BY <1>1, <1>2, <2>1 DEF SampleIsReal
    <2>3. Tracked'
      BY <1>1, <1>2, <2>1 DEF Tracked
    <2> QED BY <1>4, <2>2, <2>3
  <1>6. CASE sensor' = as5600_device_poll(answered, magnet, diagnosed) /\ answered
    <2>1. sensor'.raw = cyclic(wheel) /\ sensor'.age = 0 /\ sensor'.wheel = wheel
      BY <1>6 DEF as5600_device_poll
    <2>2. SampleIsReal'
      BY <1>1, <1>2, <1>3, <2>1 DEF SampleIsReal
    <2>3. Tracked'
      <3>1. ASSUME c.homed, c.fault = "NONE"
            PROVE  /\ sensor'.age <= c.age
                   /\ sensor'.wheel - sampled_wheel
                          \in (sensor'.age - c.age)..(c.age - sensor'.age)
        <4>1. wheel - sampled_wheel \in (-c.age)..c.age
          BY <1>2, <3>1 DEF Tracked
        <4> QED BY <1>2, <1>3, <2>1, <4>1
      <3> QED BY <1>1, <1>2, <3>1 DEF Tracked
    <2> QED BY <1>4, <2>2, <2>3
  <1> QED BY <1>1, <1>5, <1>6

\* Time: the wheel moves at most one step, and every age grows by one.
LEMMA AdvanceTracked ==
    ASSUME AxisAssumption, TrackInv, NEW step \in Moves, Advance(step)
    PROVE  Tracked' /\ SampleIsReal' /\ PositionInStep
  <1>1. /\ c \in Controller /\ sensor \in Snapshot /\ wheel \in Int /\ sampled_wheel \in Int
        /\ pulse \in Pulses /\ Tracked /\ SampleIsReal
    BY DEF TrackInv, DriveInv, TypeInv
  <1>2. step \in {0, 1, -1}
    <2>1. pulse = "NEUTRAL" \/ pulse = "POSITIVE" \/ pulse = "NEGATIVE"
      BY <1>1 DEF Pulses
    <2>2. Driven \subseteq {0, 1, -1}
      BY <2>1 DEF Driven
    <2> QED BY <2>2 DEF Moves
  <1>3. /\ phase = "SLEEP" /\ phase' = "POLL" /\ wheel' = wheel + step
        /\ sampled_wheel' = sampled_wheel /\ last_raw' = last_raw
        /\ c'.homed = c.homed /\ c'.fault = c.fault /\ c'.position = c.position
        /\ c'.latest = c.latest /\ c'.age = cap(c.age + 1, FaultTimeout + 1)
        /\ sensor'.valid = sensor.valid /\ sensor'.raw = sensor.raw
        /\ sensor'.wheel = sensor.wheel /\ sensor'.age = cap(sensor.age + 1, FaultTimeout + 1)
    BY <1>1 DEF Advance, Controller, Snapshot
  <1>4. c.age \in Nat /\ sensor.age \in Nat /\ FaultTimeout \in Nat /\ sensor.wheel \in Int
    BY <1>1 DEF Controller, Snapshot, AxisAssumption
  <1>5. PositionInStep
    BY <1>1, <1>3 DEF PositionInStep, Tracked
  <1>6. SampleIsReal'
    <2>1. ASSUME sensor.valid, sensor'.age <= FaultTimeout
          PROVE  wheel' - sensor.wheel \in (-sensor'.age)..sensor'.age
      <3>1. sensor'.age = sensor.age + 1 /\ sensor.age <= FaultTimeout
        BY <1>3, <1>4, <2>1 DEF cap
      <3>2. wheel - sensor.wheel \in (-sensor.age)..sensor.age
        BY <1>1, <2>1, <3>1 DEF SampleIsReal
      <3> QED BY <1>1, <1>2, <1>3, <1>4, <3>1, <3>2
    <2> QED BY <1>1, <1>3, <2>1 DEF SampleIsReal
  <1>7. Tracked'
    <2>1. ASSUME c.homed, c.fault = "NONE"
          PROVE  /\ c'.age <= FaultTimeout
                 /\ wheel' - sampled_wheel \in (-c'.age)..c'.age
                 /\ sensor.valid => /\ sensor'.age <= c'.age
                                    /\ sensor.wheel - sampled_wheel
                                           \in (sensor'.age - c'.age)..(c'.age - sensor'.age)
      <3>1. /\ c.age < FaultTimeout /\ wheel - sampled_wheel \in (-c.age)..c.age
            /\ sensor.valid => /\ sensor.age <= c.age
                               /\ sensor.wheel - sampled_wheel
                                      \in (sensor.age - c.age)..(c.age - sensor.age)
        BY <1>1, <1>3, <2>1 DEF Tracked
      <3>2. c'.age = c.age + 1
        BY <1>3, <1>4, <3>1 DEF cap
      <3>3. sensor.valid => sensor'.age = sensor.age + 1
        BY <1>3, <1>4, <3>1 DEF cap
      <3> QED BY <1>1, <1>2, <1>3, <1>4, <3>1, <3>2, <3>3
    <2>2. phase' # "SLEEP"
      BY <1>3
    <2> QED BY <1>1, <1>3, <2>1, <2>2 DEF Tracked
  <1> QED BY <1>5, <1>6, <1>7

\* A sample that a homed axis accepts tells by how much the wheel has turned.
LEMMA AcceptedIsTrue ==
    ASSUME AxisAssumption, TurnIsSlow, TrackInv, c.homed, c.fault = "NONE",
           usable(sensor), ~jumps(sensor)
    PROVE  signed_delta(sensor.raw, c.latest) = sensor.wheel - sampled_wheel
  <1>1. /\ c \in Controller /\ sensor \in Snapshot /\ sampled_wheel \in Int
        /\ Tracked /\ SampleIsReal
    BY DEF TrackInv, DriveInv, TypeInv
  <1>2. /\ Cycle \in Nat \ {0} /\ FaultTimeout \in Nat /\ MaxRawStep < Cycle \div 2
        /\ FaultTimeout <= Cycle \div 2 /\ MaxRawStep \in Nat /\ Cycle \div 2 \in Nat
    BY DEF AxisAssumption, TurnIsSlow
  <1>3. PICK a \in Int, b \in Int : a = sensor.wheel /\ b = sampled_wheel
    BY <1>1 DEF Snapshot
  <1>4. sensor.valid
    BY DEF usable, sensor_stale
  <1>5. /\ sensor.raw = cyclic(a) /\ c.latest = cyclic(b) /\ last_raw = cyclic(b)
        /\ c.age <= FaultTimeout /\ sensor.age <= c.age
        /\ a - b \in (sensor.age - c.age)..(c.age - sensor.age)
    BY <1>1, <1>3, <1>4 DEF Tracked, SampleIsReal
  <1>6. c.age \in Nat /\ sensor.age \in Nat
    BY <1>1, <1>2 DEF Controller, Snapshot
  <1>7. a - b <= Cycle \div 2 /\ b - a <= Cycle \div 2
    BY <1>2, <1>3, <1>5, <1>6
  <1>8. cyclic(a) \in Int /\ cyclic(b) \in Nat
    <2>1. cyclic(a) \in 0..(Cycle - 1) /\ cyclic(b) \in 0..(Cycle - 1)
      BY Turns
    <2> QED BY <1>2, <2>1
  <1>9. magnitude(signed_delta(cyclic(a), cyclic(b))) <= MaxRawStep
    <2>1. raw_step_is_accepted(sensor.raw)
      BY DEF jumps
    <2>2. last_raw # None
      BY <1>5, <1>8 DEF None
    <2> QED BY <1>5, <2>1, <2>2 DEF raw_step_is_accepted
  <1>10. signed_delta(cyclic(a), cyclic(b)) \in Int
    BY <1>8, DeltaIsInt
  <1>11. magnitude(signed_delta(cyclic(a), cyclic(b))) < Cycle \div 2
    <2>1. PICK d \in Int : d = signed_delta(cyclic(a), cyclic(b))
      BY <1>10
    <2>2. magnitude(d) <= MaxRawStep /\ magnitude(d) \in Int
      BY <1>9, <2>1 DEF magnitude
    <2>3. magnitude(d) < Cycle \div 2
      BY <1>2, <2>2
    <2> QED BY <2>1, <2>3
  <1>12. signed_delta(cyclic(a), cyclic(b)) = a - b
    BY <1>3, <1>7, <1>11, TurnIsKnown
  <1> QED BY <1>3, <1>5, <1>12

\* A tick takes the sensor's sample, or has it already.
LEMMA TickTracked ==
    ASSUME AxisAssumption, TurnIsSlow, TrackInv, NEW ok \in BOOLEAN, NEW after \in BOOLEAN,
           TickAxis(ok, after)
    PROVE  Tracked' /\ SampleIsReal' /\ PositionInStep
  <1>1. /\ c \in Controller /\ sensor \in Snapshot /\ wheel \in Int /\ sampled_wheel \in Int
        /\ Tracked /\ SampleIsReal /\ DriveInv
    BY DEF TrackInv, DriveInv, TypeInv
  <1>2. PICK k : k = accepted(c, sensor) /\ Ready(k) /\ Ticked(k)
    BY <1>1, TickOfController DEF DriveInv
  <1>3. /\ c'.homed = k.homed /\ c'.position = k.position /\ c'.latest = k.latest /\ c'.age = k.age
        /\ c'.fault = "NONE" => k.fault = "NONE" /\ (k.homed => k.age < FaultTimeout)
    BY <1>2 DEF Ticked
  <1>4. /\ phase' = "SLEEP" /\ wheel' = wheel /\ sensor' = sensor
        /\ last_raw' = (IF usable(sensor) /\ ~jumps(sensor) THEN sensor.raw ELSE last_raw)
    BY DEF TickAxis
  <1>5. SampleIsReal'
    BY <1>1, <1>4 DEF SampleIsReal
  <1>6. k.homed = c.homed /\ k.fault = c.fault
    BY <1>1, <1>2, AcceptedSample, ControllerIsReady DEF DriveInv, accepted, Controller
  <1>7. /\ c.age \in Nat /\ sensor.age \in Nat /\ FaultTimeout \in Nat /\ sensor.wheel \in Int
    BY <1>1 DEF Controller, Snapshot, AxisAssumption
  <1>8. ASSUME c.homed, c.fault = "NONE"
        PROVE  /\ k.position = sampled_wheel' /\ k.latest = cyclic(sampled_wheel')
               /\ last_raw' = k.latest /\ k.age <= FaultTimeout
               /\ wheel - sampled_wheel' \in (-k.age)..k.age
               /\ sensor.valid => /\ sensor.age <= k.age
                                  /\ sensor.wheel - sampled_wheel'
                                         \in (sensor.age - k.age)..(k.age - sensor.age)
    <2>1. /\ c.position = sampled_wheel /\ c.latest = cyclic(sampled_wheel) /\ last_raw = c.latest
          /\ c.age <= FaultTimeout /\ wheel - sampled_wheel \in (-c.age)..c.age
          /\ sensor.valid => /\ sensor.age <= c.age
                             /\ sensor.wheel - sampled_wheel
                                    \in (sensor.age - c.age)..(c.age - sensor.age)
      BY <1>1, <1>8 DEF Tracked
    <2>2. Sample(sensor).valid => usable(sensor) /\ ~jumps(sensor) /\ sensor.valid
      BY DEF Sample, usable, sensor_stale
    <2>3. CASE Sample(sensor).valid /\ is_newer(c, sensor)
      <3>1. /\ k.position = c.position + signed_delta(sensor.raw, c.latest)
            /\ k.latest = sensor.raw /\ k.age = sensor.age
        BY <1>1, <1>2, <1>8, <2>3 DEF accepted, Controller
      <3>2. sampled_wheel' = sensor.wheel /\ last_raw' = sensor.raw
        BY <1>4, <1>8, <2>2, <2>3 DEF TickAxis
      <3>3. signed_delta(sensor.raw, c.latest) = sensor.wheel - sampled_wheel
        BY <1>8, <2>2, <2>3, AcceptedIsTrue
      <3>4. k.position = sensor.wheel
        BY <1>1, <1>7, <2>1, <3>1, <3>3
      <3>5. sensor.raw = cyclic(sensor.wheel) /\ sensor.age <= FaultTimeout
            /\ wheel - sensor.wheel \in (-sensor.age)..sensor.age
        <4>1. sensor.age <= FaultTimeout
          BY <1>7, <2>1, <2>2, <2>3
        <4> QED BY <1>1, <2>2, <2>3, <4>1 DEF SampleIsReal
      <3>6. sensor.wheel - sensor.wheel \in (sensor.age - sensor.age)..(sensor.age - sensor.age)
        BY <1>7
      <3> QED BY <1>7, <3>1, <3>2, <3>4, <3>5, <3>6
    <2>4. CASE ~(Sample(sensor).valid /\ is_newer(c, sensor))
      <3>1. k = c /\ sampled_wheel' = sampled_wheel
        BY <1>2, <2>4 DEF accepted, TickAxis
      <3>2. usable(sensor) /\ ~jumps(sensor) => sensor.raw = c.latest
        <4>1. ASSUME usable(sensor), ~jumps(sensor)
              PROVE  sensor.raw = c.latest
          <5>1. Sample(sensor).valid /\ sensor.valid
            BY <4>1 DEF Sample, usable, sensor_stale
          <5>2. sensor.age = c.age
            BY <1>7, <2>1, <2>4, <5>1 DEF is_newer
          <5>3. sensor.wheel = sampled_wheel
            BY <1>1, <1>7, <2>1, <5>1, <5>2
          <5> QED BY <1>1, <2>1, <5>1, <5>3 DEF SampleIsReal
        <4> QED BY <4>1
      <3>3. last_raw' = c.latest
        BY <1>4, <2>1, <3>2
      <3> QED BY <2>1, <3>1, <3>3
    <2> QED BY <2>3, <2>4
  <1>9. Tracked'
    BY <1>3, <1>4, <1>6, <1>8 DEF Tracked
  <1>10. PositionInStep
    BY <1>3, <1>6, <1>8 DEF PositionInStep
  <1> QED BY <1>5, <1>9, <1>10

\* The operator's reference is where the wheel was at the sample.
LEMMA ReferenceTracked ==
    ASSUME AxisAssumption, TrackInv, NEW ok \in BOOLEAN, SetReference(ok)
    PROVE  Tracked' /\ SampleIsReal' /\ PositionInStep
  <1>1. /\ c \in Controller /\ sensor \in Snapshot /\ wheel \in Int /\ sampled_wheel \in Int
        /\ Tracked /\ SampleIsReal /\ DriveInv
    BY DEF TrackInv, DriveInv, TypeInv
  <1>2. phase' = phase /\ wheel' = wheel /\ sensor' = sensor
    BY DEF SetReference
  <1>3. CASE ok
    <2>1. /\ c'.homed /\ c'.position = sensor.wheel /\ c'.latest = sensor.raw
          /\ c'.age = sensor.age
      BY <1>1, <1>3, ReferenceDrive
    <2>2. last_raw' = sensor.raw /\ sampled_wheel' = sensor.wheel
      BY <1>3 DEF SetReference
    <2>3. sensor.valid /\ sensor.age <= StaleTimeout
      BY <1>1 DEF SetReference, usable, sensor_stale, Snapshot, AxisAssumption
    <2>4. /\ sensor.age \in Nat /\ StaleTimeout \in Nat /\ FaultTimeout \in Nat
          /\ StaleTimeout < FaultTimeout /\ sensor.wheel \in Int
      BY <1>1 DEF Snapshot, AxisAssumption
    <2>5. sensor.age <= FaultTimeout /\ sensor.age < FaultTimeout
      BY <2>3, <2>4
    <2>6. /\ sensor.raw = cyclic(sensor.wheel)
          /\ wheel - sensor.wheel \in (-sensor.age)..sensor.age
      BY <1>1, <2>3, <2>5 DEF SampleIsReal
    <2>7. sensor.wheel - sensor.wheel \in (sensor.age - sensor.age)..(sensor.age - sensor.age)
      BY <2>4
    <2>8. Tracked'
      BY <1>2, <2>1, <2>2, <2>3, <2>4, <2>5, <2>6, <2>7 DEF Tracked
    <2>9. SampleIsReal'
      BY <1>1, <1>2 DEF SampleIsReal
    <2>10. PositionInStep
      BY <2>1, <2>2 DEF PositionInStep
    <2> QED BY <2>8, <2>9, <2>10
  <1>4. CASE ~ok
    <2>1. Keeps(c)
      BY <1>1, <1>4, ReferenceDrive
    <2>2. UNCHANGED <<wheel, sensor, last_raw, sampled_wheel>>
      BY <1>2, <1>4 DEF SetReference
    <2> QED BY <1>1, <1>2, <2>1, <2>2, TrackedIsKept
  <1> QED BY <1>3, <1>4

\* Every step keeps the position true.
LEMMA NextTracked ==
    ASSUME AxisAssumption, TurnIsSlow, TrackInv, [AxisNext]_axisVars
    PROVE  TrackInv' /\ (PositionInStep \/ UNCHANGED axisVars)
  <1>1. DriveInv'
    BY NextDrive DEF TrackInv
  <1>2. DriveInv /\ Tracked /\ SampleIsReal
    BY DEF TrackInv
  <1>3. CASE PollSome
    BY <1>1, <1>3, PollTracked DEF PollSome, TrackInv
  <1>4. CASE TickSome
    BY <1>1, <1>4, TickTracked DEF TickSome, TrackInv
  <1>5. CASE AdvanceSome
    BY <1>1, <1>5, AdvanceTracked DEF AdvanceSome, TrackInv
  <1>6. CASE Calls
    <2>1. PICK ok \in BOOLEAN :
              StopAxis(ok) \/ SetReference(ok) \/ \E t \in 0..MaxPosition : SetTarget(t, ok)
      BY <1>6 DEF Calls
    <2>2. CASE StopAxis(ok)
      <3>1. Keeps(c)
        BY <1>2, <2>2, StopDrive
      <3>2. phase' = phase /\ UNCHANGED <<wheel, sensor, last_raw, sampled_wheel>>
        BY <2>2 DEF StopAxis
      <3> QED BY <1>1, <1>2, <3>1, <3>2, TrackedIsKept DEF TrackInv
    <2>3. CASE SetReference(ok)
      BY <1>1, <2>3, ReferenceTracked DEF TrackInv
    <2>4. CASE \E t \in 0..MaxPosition : SetTarget(t, ok)
      <3>1. PICK t \in 0..MaxPosition : SetTarget(t, ok)
        BY <2>4
      <3>2. Keeps(c)
        BY <1>2, <3>1, TargetDrive
      <3>3. phase' = phase /\ UNCHANGED <<wheel, sensor, last_raw, sampled_wheel>>
        BY <3>1 DEF SetTarget
      <3> QED BY <1>1, <1>2, <3>2, <3>3, TrackedIsKept DEF TrackInv
    <2> QED BY <2>1, <2>2, <2>3, <2>4
  <1>7. CASE UNCHANGED axisVars
    <2>1. Tracked' /\ SampleIsReal'
      BY <1>2, <1>7 DEF axisVars, history, Tracked, SampleIsReal
    <2> QED BY <1>1, <1>7, <2>1 DEF TrackInv
  <1> QED BY <1>3, <1>4, <1>5, <1>6, <1>7 DEF AxisNext, SteeringTask

\* The unwrapped position is where the wheel was at the controller's latest
\* sample, if a sensor is silent for less than half a turn before it is a fault:
\* no turn is gained or lost however polls fail, samples age and references are
\* set anew.
THEOREM PositionAlwaysTrue ==
    ASSUME AxisAssumption, TurnIsSlow
    PROVE  AxisSpec => PositionIsTrue
  <1>1. AxisInit => TrackInv
    BY InitDrive, InitTracked DEF TrackInv
  <1>2. TrackInv /\ [AxisNext]_axisVars => TrackInv'
    BY NextTracked
  <1>3. TrackInv /\ [AxisNext]_axisVars =>
            [c'.homed /\ c.fault = "NONE" => c'.position = sampled_wheel']_axisVars
    BY NextTracked DEF PositionInStep
  <1> QED BY <1>1, <1>2, <1>3, PTL DEF AxisSpec, PositionIsTrue
=============================================================================
