-------------------------- MODULE RobotComposition --------------------------
(***************************************************************************)
(* The life of a robot_composition: init builds the parts of the profile   *)
(* one after another, start begins the devices and creates the two service *)
(* tasks, stop brings the outputs to rest and collects the tasks, and the  *)
(* cleanup (deinit, or a failed init) destroys the parts.  The owner (main) *)
(* makes one call at a time; the poll task and the steering task run beside *)
(* it and may still be inside a part when the owner gives up waiting.      *)
(***************************************************************************)
EXTENDS RobotProfile

CONSTANTS Profiles,      \* the tables a build may select
          Failures,      \* bound: output writes and allocations that fail
          Calls          \* bound: calls of the owner after init

ASSUME ProfilesAreTables == Profiles \subseteq robot_profile_t

Tasks == {"poll", "steering"}
\* Leaving: running and task are cleared, the semaphore is not yet given.
Phases == {"none", "created", "running", "leaving", "left"}

\* The sections of robot_composition_init, in its order, and the passes of
\* cleanup_runtime, in its order, each over the slots of a section.
Sections == {"buses", "devices", "endpoints", "frames", "legacy", "lock"}
Order == [buses |-> 1, devices |-> 2, endpoints |-> 3, frames |-> 4, legacy |-> 5, lock |-> 6]
Passes == {"legacy", "wheels", "observations", "devices", "uarts", "i2cs", "lock"}
PassOrder == [legacy |-> 1, wheels |-> 2, observations |-> 3, devices |-> 4,
              uarts |-> 5, i2cs |-> 6, lock |-> 7]
SectionOf == [legacy |-> "legacy", wheels |-> "endpoints", observations |-> "endpoints",
              devices |-> "devices", uarts |-> "buses", i2cs |-> "buses", lock |-> "lock"]

VARIABLES profile,                             \* the tables of this build
          built,                               \* the slots in use, by section
          begun, constructed, started,
          phase, asked,                        \* the records of the two tasks
          target, output,                      \* what is asked of an output, what it does
          pc, section, step_at,                  \* the owner's call, its loop and its index
          back, first_error, answer, failures, calls

lifeVars == <<profile, built, begun, constructed, started, phase, asked, target, output,
              pc, section, step_at, back, first_error, answer, failures, calls>>
-----------------------------------------------------------------------------
\* What a driver's devices are, and the endpoints that move or report.
DevicesOf(driver) == {d \in DOMAIN profile.devices : profile.devices[d].driver = driver}
EndpointsOf(driver) ==
    {e \in DOMAIN profile.endpoints : has_device(profile, profile.endpoints[e].device, driver)}
Wheels       == EndpointsOf("svd48")
Positions    == EndpointsOf("steering")
Observations == EndpointsOf("as5600")
Outputs      == Wheels \cup Positions

bus_is_referenced(b) ==
    \E d \in DOMAIN profile.devices : profile.devices[d].bus = profile.buses[b].id
\* The drivers whose devices are built on the slot of their bus.
OnBus == {"svd48", "as5600"}
BusesOf(type) == {b \in DOMAIN profile.buses : profile.buses[b].type = type}
\* A bus that some device names and that no transport can serve.
incompatible(b) == bus_is_referenced(b) /\ b \notin BusesOf("uart") \cup BusesOf("i2c") \cup BusesOf("pwm")

\* The slots of a section, and those that a whole composition uses: a bus
\* nobody names and a PWM bus are passed over, and the legacy view is of the
\* wheels.
SlotsOf == [buses |-> Len(profile.buses), devices |-> Len(profile.devices),
          endpoints |-> Len(profile.endpoints), frames |-> Len(profile.axes),
          legacy |-> 1, lock |-> 1]
Whole == [buses     |-> {b \in BusesOf("uart") \cup BusesOf("i2c") : bus_is_referenced(b)},
          devices   |-> DOMAIN profile.devices,
          endpoints |-> DOMAIN profile.endpoints,
          frames    |-> DOMAIN profile.axes,
          legacy    |-> IF Wheels # {} THEN {1} ELSE {},
          lock      |-> {1}]
Nothing == [s \in Sections |-> {}]

\* What lives in a slot and goes with it: the position endpoint in its
\* controller's, the reference frame of an axis in its observation's.
HeldBy(d)   == {e \in Positions : profile.endpoints[e].device = profile.devices[d].id}
FramesOf(e) == {a \in DOMAIN profile.axes : profile.axes[a].observation = profile.endpoints[e].id}
\* The positions that a PWM drives.
DrivenBy(d) == {e \in Positions : \E a \in DOMAIN profile.axes :
                   /\ profile.axes[a].actuator = profile.endpoints[e].id
                   /\ profile.axes[a].pwm = profile.devices[d].id}

\* The slots a pass of the cleanup is about.
Taken == [legacy |-> {1}, wheels |-> Wheels, observations |-> Observations,
          devices |-> DOMAIN profile.devices, uarts |-> BusesOf("uart"),
          i2cs |-> BusesOf("i2c"), lock |-> {1}]

HasTask(t) == IF t = "poll" THEN DevicesOf("svd48") # {} ELSE DevicesOf("as5600") # {}
\* The devices a task touches in a pass of its loop.
TaskUses(t) == IF t = "poll" THEN DevicesOf("svd48")
               ELSE DevicesOf("as5600") \cup DevicesOf("steering") \cup DevicesOf("pwm_motor_mode")

\* Mutant: the running flag and the handle alone are asked.
quiesced_by_flag(t) == phase[t] \in {"none", "leaving", "left"}

\* Nothing of the task's record is set any more.
quiesced(t) == phase[t] = "none"
FailMore == failures < Failures
-----------------------------------------------------------------------------
LifeInit ==
  /\ profile \in Profiles
  /\ built = Nothing /\ begun = {} /\ constructed = FALSE /\ started = FALSE
  /\ phase = [t \in Tasks |-> "none"] /\ asked = [t \in Tasks |-> FALSE]
  /\ target = [e \in Outputs |-> FALSE] /\ output = [e \in Outputs |-> "rest"]
  /\ pc = "preflight" /\ section = "none" /\ step_at = 0
  /\ back = "owner" /\ first_error = FALSE
  /\ answer = "none" /\ failures = 0 /\ calls = 0

tasks == <<phase, asked>>
outputs == <<target, output>>
loop == <<section, step_at>>

Return(result) ==
  pc' = "idle" /\ back' = "owner" /\ answer' = result
EndLoop == section' = "none" /\ step_at' = 0

\* robot_composition_init: nothing is built of a profile that is refused.
preflight ==
  /\ pc = "preflight"
  /\ IF robot_composition_preflight(profile)
       THEN pc' = "building" /\ section' = "buses" /\ step_at' = 1 /\ UNCHANGED <<back, answer>>
       ELSE Return("invalid") /\ UNCHANGED loop
  /\ UNCHANGED <<profile, built, begun, constructed, started, tasks, outputs, first_error,
                 failures, calls>>

\* fail_after_cleanup and robot_composition_deinit: a stop comes first when
\* anything may be live.  A failed init has nothing to stop.
cleanup_runtime(reason) ==
  /\ back' = reason
  /\ IF started \/ \E t \in Tasks : ~quiesced(t)
       THEN pc' = "stopping" /\ EndLoop
       ELSE pc' = "destroying" /\ section' = "legacy" /\ step_at' = SlotsOf["legacy"]

\* One slot of a section is filled, or passed over,
construct ==
  /\ pc = "building" /\ step_at <= SlotsOf[section]
  /\ section = "buses" => ~incompatible(step_at)
  /\ built' = [built EXCEPT ![section] = @ \cup (Whole[section] \cap {step_at})]
  /\ step_at' = step_at + 1
  /\ UNCHANGED <<profile, begun, constructed, started, tasks, outputs, pc, section, back,
                 first_error, answer, failures, calls>>

\* or cannot be.  The frames only point to what is there.
construct_fails ==
  /\ pc = "building" /\ step_at <= SlotsOf[section]
  /\ \/ section = "buses" /\ incompatible(step_at) /\ UNCHANGED failures
     \/ /\ section # "frames" /\ step_at \in Whole[section] /\ FailMore
        /\ failures' = failures + 1
  /\ cleanup_runtime("failed_init")
  /\ UNCHANGED <<profile, built, begun, constructed, started, tasks, outputs, first_error,
                 answer, calls>>

\* The next section, or the end of robot_composition_init.
section_done ==
  /\ pc = "building" /\ step_at > SlotsOf[section]
  /\ IF section = "lock" THEN constructed' = TRUE /\ Return("ok") /\ EndLoop
     ELSE /\ \E s \in Sections : Order[s] = Order[section] + 1 /\ section' = s
          /\ step_at' = 1
          /\ UNCHANGED <<constructed, pc, back, answer>>
  /\ UNCHANGED <<profile, built, begun, started, tasks, outputs, first_error, failures, calls>>

Owner(op) ==
  /\ pc = "idle" /\ calls < Calls
  /\ calls' = calls + 1
  /\ pc' = op

robot_composition_start ==
  /\ constructed
  /\ UNCHANGED <<profile, built, begun, constructed, started, tasks, outputs, loop,
                 first_error, failures>>
  /\ CASE started -> Owner("idle") /\ Return("ok")
       [] ~started /\ \E t \in Tasks : ~quiesced(t) -> Owner("idle") /\ Return("invalid")
       [] OTHER -> Owner("starting") /\ back' = "start" /\ UNCHANGED answer

\* The devices begin, in profile order; then the tasks are created.
start_devices ==
  /\ pc = "starting"
  /\ begun' = DOMAIN profile.devices /\ pc' = "start_poll"
  /\ UNCHANGED <<profile, built, constructed, started, tasks, outputs, loop, back,
                 first_error, answer, failures, calls>>

task_start(t, here, next) ==
  /\ pc = here
  /\ IF ~HasTask(t) THEN pc' = next /\ UNCHANGED <<phase, failures>>
     ELSE \/ /\ phase' = [phase EXCEPT ![t] = "created"] /\ pc' = next
             /\ UNCHANGED failures
          \/ /\ FailMore /\ failures' = failures + 1
             /\ pc' = "stopping" /\ UNCHANGED phase
  /\ UNCHANGED <<profile, built, begun, constructed, started, asked, outputs, loop, back,
                 first_error, answer, calls>>

finish_start ==
  /\ pc = "started"
  /\ started' = TRUE /\ Return("ok")
  /\ UNCHANGED <<profile, built, begun, constructed, tasks, outputs, loop, first_error,
                 failures, calls>>

robot_composition_stop ==
  /\ constructed
  /\ Owner("stopping") /\ back' = "owner"
  /\ UNCHANGED <<profile, built, begun, constructed, started, tasks, outputs, loop, first_error,
                 answer, failures>>

robot_composition_deinit ==
  /\ pc = "idle" /\ calls < Calls
  /\ calls' = calls + 1
  /\ cleanup_runtime("deinit")
  /\ UNCHANGED <<profile, built, begun, constructed, started, tasks, outputs, first_error,
                 answer, failures>>
-----------------------------------------------------------------------------
\* An output is asked to rest: its target is withdrawn even when the write fails.
Settle(set, lost) ==
  /\ lost \subseteq set
  /\ lost # {} => FailMore
  /\ failures' = failures + (IF lost # {} THEN 1 ELSE 0)
  /\ target' = [e \in Outputs |-> IF e \in set THEN FALSE ELSE target[e]]
  /\ output' = [e \in Outputs |-> IF e \in set \ lost THEN "rest" ELSE output[e]]

\* actuation_coordinator_stop_all, before any task is collected.
stop_outputs ==
  /\ pc = "stopping"
  /\ \E lost \in SUBSET Outputs :
       Settle(Outputs, lost) /\ first_error' = (lost # {})
  /\ pc' = "collect_steering"
  /\ UNCHANGED <<profile, built, begun, constructed, started, tasks, loop, back, answer, calls>>

\* The semaphore cannot be taken in time: nothing further is touched, and the
\* cleanup that called preserves every part.
give_up ==
  /\ Return("timeout")
  /\ UNCHANGED phase

\* svd48_poll_task_stop and steering_task_stop: ask, then take the completion
\* semaphore or time out.
task_stop(t, here, next) ==
  /\ pc = here
  /\ IF quiesced(t)
       THEN pc' = next /\ UNCHANGED <<phase, asked, back, answer>>
       ELSE \/ /\ ~asked[t]
               /\ asked' = [asked EXCEPT ![t] = TRUE]
               /\ UNCHANGED <<phase, pc, back, answer>>
            \/ /\ asked[t] /\ phase[t] = "left"
               /\ phase' = [phase EXCEPT ![t] = "none"]
               /\ asked' = [asked EXCEPT ![t] = FALSE]
               /\ pc' = next /\ UNCHANGED <<back, answer>>
            \/ /\ asked[t] /\ phase[t] # "left"
               /\ give_up /\ UNCHANGED asked
  /\ UNCHANGED <<profile, built, begun, constructed, started, outputs, loop, first_error,
                 failures, calls>>

\* Mutant: only the last step's error is answered.
error_of_last(lost) == lost # {}

\* robot_composition_stop keeps the first error of its sequence.
error_of(lost) == first_error \/ lost # {}

\* The factories' stop in reverse profile order: the controller and the PWM
\* each write neutral once more; the drives' stop only marks the slot.
factories_stop ==
  /\ pc = "stop_devices"
  /\ \E lost \in SUBSET Positions :
        /\ Settle(Positions, lost)
        /\ first_error' = error_of(lost)
        /\ CASE back = "owner" -> Return(IF error_of(lost) THEN "fail" ELSE "ok") /\ UNCHANGED loop
             [] back = "start" -> Return("fail") /\ UNCHANGED loop
             [] OTHER -> /\ pc' = "destroying" /\ section' = "legacy" /\ step_at' = SlotsOf["legacy"]
                         /\ UNCHANGED <<back, answer>>
  /\ begun' = {} /\ started' = FALSE
  /\ UNCHANGED <<profile, built, constructed, tasks, calls>>

\* One slot of a pass of cleanup_runtime, the last one first; a PWM goes back
\* to neutral, then its pin is released.
destroy ==
  /\ pc = "destroying" /\ step_at > 0
  /\ LET gone == Taken[section] \cap {step_at}
     IN built' = CASE section = "devices" ->
                        [built EXCEPT !.devices = @ \ gone, !.endpoints = @ \ HeldBy(step_at)]
                   [] section = "observations" ->
                        [built EXCEPT !.endpoints = @ \ gone, !.frames = @ \ FramesOf(step_at)]
                   [] OTHER -> [built EXCEPT ![SectionOf[section]] = @ \ gone]
  /\ output' = [e \in Outputs |-> IF section = "devices" /\ e \in DrivenBy(step_at)
                                   /\ step_at \in built.devices
                                 THEN "rest" ELSE output[e]]
  /\ step_at' = step_at - 1
  /\ UNCHANGED <<profile, begun, constructed, started, tasks, target, pc, section, back,
                 first_error, answer, failures, calls>>

\* The next pass, or the end of the cleanup.
pass_done ==
  /\ pc = "destroying" /\ step_at = 0
  /\ IF section = "lock"
       THEN /\ constructed' = FALSE /\ EndLoop
            /\ Return(IF back = "deinit" THEN "void" ELSE "fail")
       ELSE /\ \E p \in Passes :
                  /\ PassOrder[p] = PassOrder[section] + 1
                  /\ section' = p /\ step_at' = SlotsOf[SectionOf[p]]
            /\ UNCHANGED <<constructed, pc, back, answer>>
  /\ UNCHANGED <<profile, built, begun, started, tasks, outputs, first_error, failures, calls>>
-----------------------------------------------------------------------------
\* The first instruction of a created task.
task_runs(t) ==
  /\ phase[t] = "created"
  /\ phase' = [phase EXCEPT ![t] = "running"]
  /\ UNCHANGED <<profile, built, begun, constructed, started, asked, outputs, pc, loop, back,
                 first_error, answer, failures, calls>>

\* A pass of the steering loop drives an active target and holds neutral
\* otherwise; a pass of the poll loop only reads.
steering_tick ==
  /\ phase["steering"] = "running"
  /\ DevicesOf("steering") \subseteq begun
  /\ output' = [e \in Outputs |-> IF e \notin Positions THEN output[e]
                                 ELSE IF target[e] THEN "moving" ELSE "rest"]
  /\ output' # output
  /\ UNCHANGED <<profile, built, begun, constructed, started, tasks, target, pc, loop, back,
                 first_error, answer, failures, calls>>

\* The loop sees stop_requested, clears its record, and gives the semaphore.
task_leaves(t) ==
  /\ phase' = [phase EXCEPT ![t] = IF phase[t] = "running" THEN "leaving" ELSE "left"]
  /\ \/ phase[t] = "running" /\ asked[t]
     \/ phase[t] = "leaving"
  /\ UNCHANGED <<profile, built, begun, constructed, started, asked, outputs, pc, loop, back,
                 first_error, answer, failures, calls>>

\* A motion source moves an output through the application port while the
\* composition is started and main is not in a call.
command(e) ==
  /\ started /\ pc = "idle" /\ answer = "ok"
  /\ target' = [target EXCEPT ![e] = TRUE]
  /\ output' = IF e \in Wheels THEN [output EXCEPT ![e] = "moving"] ELSE output
  /\ <<target', output'>> # <<target, output>>
  /\ answer' = "none"
  /\ UNCHANGED <<profile, built, begun, constructed, started, tasks, pc, loop, back,
                 first_error, failures, calls>>

LifeNext ==
  \/ preflight \/ construct \/ construct_fails \/ section_done
  \/ robot_composition_start \/ robot_composition_stop \/ robot_composition_deinit
  \/ start_devices
  \/ task_start("poll", "start_poll", "start_steering")
  \/ task_start("steering", "start_steering", "started")
  \/ finish_start
  \/ stop_outputs
  \/ task_stop("steering", "collect_steering", "collect_poll")
  \/ task_stop("poll", "collect_poll", "stop_devices")
  \/ factories_stop \/ destroy \/ pass_done
  \/ \E t \in Tasks : task_runs(t) \/ task_leaves(t)
  \/ steering_tick
  \/ \E e \in Outputs : command(e)

LifeSpec == LifeInit /\ [][LifeNext]_lifeVars
-----------------------------------------------------------------------------
LifeTypeOK ==
  /\ profile \in Profiles
  /\ built \in [Sections -> SUBSET Nat] /\ \A s \in Sections : built[s] \subseteq Whole[s]
  /\ begun \subseteq DOMAIN profile.devices
  /\ constructed \in BOOLEAN /\ started \in BOOLEAN
  /\ phase \in [Tasks -> Phases] /\ asked \in [Tasks -> BOOLEAN]
  /\ target \in [Outputs -> BOOLEAN] /\ output \in [Outputs -> {"rest", "moving"}]

\* A controller is listed after the PWM and the sensor it works with, as the
\* shipped profile lists it; the validation does not ask for it.
ListedAfterItsParts(c) ==
  \A a \in DOMAIN profile.axes, d \in DOMAIN profile.devices :
     /\ profile.axes[a].controller = profile.devices[c].id
     /\ profile.devices[d].id \in {profile.axes[a].pwm, profile.axes[a].sensor}
     => d < c

\* What a slot points to is there: the bus of a device, the device of an
\* endpoint, both ends of a reference frame, and the devices of the legacy view.
PointsToBuilt ==
  /\ \A d \in built.devices :
        profile.devices[d].driver \in OnBus =>
           \E b \in built.buses : profile.buses[b].id = profile.devices[d].bus
  /\ \A e \in built.endpoints :
        \E d \in built.devices : profile.devices[d].id = profile.endpoints[e].device
  /\ \A a \in built.frames :
        \A id \in {profile.axes[a].actuator, profile.axes[a].observation} :
           \E e \in built.endpoints : profile.endpoints[e].id = id
  /\ built.legacy # {} => DevicesOf("svd48") \subseteq built.devices

\* A position endpoint is driven through a PWM and a sensor that are there.
\* While the parts are destroyed nothing calls it any more, and the order of
\* the list decides: where its controller comes last they outlive it.
DrivesThroughBuilt ==
  \A e \in built.endpoints \cap Positions, a \in DOMAIN profile.axes, c \in built.devices :
     /\ profile.axes[a].actuator = profile.endpoints[e].id
     /\ profile.axes[a].controller = profile.devices[c].id
     /\ pc = "destroying" => ListedAfterItsParts(c)
     => \A id \in {profile.axes[a].pwm, profile.axes[a].sensor} :
           \E d \in built.devices : profile.devices[d].id = id

\* No part is destroyed under a task that may still be inside it, nor before a
\* part that points to it: an uncollected task keeps every dependency, whatever
\* call timed out.
NothingDangles ==
  /\ \A t \in Tasks : phase[t] \in {"created", "running", "leaving"} =>
        TaskUses(t) \subseteq built.devices /\ (t = "steering" => Positions \subseteq built.endpoints)
  /\ PointsToBuilt /\ DrivesThroughBuilt

\* A stop that answers success means it: the outputs are at rest, no target is
\* held and no task is left, although one error of many must be remembered
\* through the whole sequence.
SuccessIsRest ==
  pc = "idle" /\ answer = "ok" /\ ~started =>
    /\ \A e \in Outputs : output[e] = "rest" /\ ~target[e]
    /\ \A t \in Tasks : quiesced(t)

\* A call of the owner leaves either a whole composition or nothing.
NoHalfComposition ==
  pc = "idle" => built \in {Nothing, Whole}

\* At every step of every call what is built holds together.
CompositionHolds == NothingDangles /\ NoHalfComposition
=============================================================================
