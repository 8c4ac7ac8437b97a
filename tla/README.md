# Verification of the control plane of sistema-motriz-rs485

These TLA+ modules model the firmware that drives a differential robot from an
ESP32: who may drive (an RC pilot, a LAN client, a serial operator), how their
requests reach the wheels and the steering servo, what stops them, what the
robot believes about its drives, and how the firmware starts, updates itself and
finds its network. TLC checks every module on small instances; TLAPS proves, for
every value of their constants, the safety of the command authority, the robot's
state machine, the RC/LAN interlock and its stop loop, the PPM decoder, the
health of the drives' links and the firmware's update. `PROJECT.json` maps each
definition to the lines it translates, and lists the runs, the hazards, the
mutants that show each property can fail, and the theorems.

Paths below are relative to `src/`; `components/` is left out where the
component's name says it.

## 1. The system

    PPM edges -> ppm_decoder -\
    i-BUS bytes ------------> ibus_receiver ----+--> robot_safety (interlock, stop loop)
                                                |        | status: lan_allowed, epoch
                                                v        v
    UDP -----> control_lan ----events----+   ppm_motion_source
                                         v        | events
    serial --> serial_gateway -STOP-> motion_application <-+
                   |    |             (command_authority, robot_kinematics)
                   |    | STOP ALL, bench         | plans
                   |    v                         v
                   |  robot_control    actuation_coordinator -> channel adapters -> svd48 device
                   |    | ENABLE, MOVE_VEL        |                                   |  ^
                   |    +--- svd48 (no lock) -----|-----------------------------------+  | polls
                   |                              +-> steering adapter -> controller     |
                   |                                        ^ angle   | PWM     svd48_poll_service
                   |                                     as5600       v              |
                   v                                               wheel     bus_transport -> RS485
    ota_manager, ota_announce <-> wifi_manager <-> config_manager

| component | state it keeps | operations | runs in |
|---|---|---|---|
| `command_authority` | a mailbox per source, epoch, revisions, barrier, output | init, publish, arbitrate, stop | its caller (pure functions) |
| `motion_application` | active stream and source, retired streams, state; three event slots, pending plans | publish, emergency submit, one cycle every 20 ms, execute, record, start, deinit | its task (priority 9) and, under its lock, every client |
| `ppm_motion_source` | phase of the neutral-stick handshake, stream nonce, last frame | a step every 20 ms | its task (8) |
| `control_lan` | active stream, last sequence, authority epoch | authority check, receive, ARM/COMMAND/STOP | its task (5) |
| `robot_safety` | RC/LAN interlock, loss and fault flags, published status | sample, record, stop while a hazard lasts, every 20 ms | its task (9) |
| `ppm_decoder` | last edge, the frame being assembled, last valid frame | rising edge, status | an interrupt, and its readers |
| `ibus_receiver` | the frame being assembled, last accepted channels | receive bytes, accept a frame, change mode, status | its task (5) |
| `actuation_coordinator` | a lock | apply, stop one, stop all, with rollback | whoever calls |
| `robot_control`, `svd48` legacy driver | mirror of the last command | ENABLE, MOVE_VEL, stops, preparation of an update | the gateway's task, no lock |
| `svd48` device and channel adapter | drive registers, last observations, health of the link | target, START, STOP, polls, with retries | whoever calls; the poll task (8) |
| `svd48_poll_service`, `communication_quality` | next poll and failures of each drive; counters of good and failed polls | poll what is due, back off | the poll task |
| `bus_transport`, `rs485_transport` | one lock, the UART's receive buffer | transact: flush, send, receive or time out | whoever calls |
| `steering_position_controller` and adapter, AS5600 sensor | unwrapped angle, target and lease, rest and fault state; sensor age | target, stop, reference, a poll and a tick every 10 ms | its task (8), and callers |
| `robot_profile` | the tables of buses, devices, endpoints and steering axes, immutable | validate | main, when a composition is built |
| `robot_composition`, `robot_driver_factory` | the slots in use of each section, what is begun and started; two task records | init, start, stop, deinit | main |
| `robot_state` | state, inhibits of each source, gate epoch | requests, reports, snapshots | any task (not started by the firmware yet) |
| `ota_manager`, `ota_announce` | the operation lock, slots, automatic-check settings and back-off | check, download, verify, select, confirm, roll back | two installers' tasks, the check task |
| `wifi_manager` | state, retries, pause, timer generation | connect, disconnect, events, time-outs, supervisor | event task, timer tasks, supervisor, console |
| `maintenance_lan`, `config_manager`, `serial_gateway` | session, flash, current command | text commands | tasks 2-6 |

`main/main.c` joins them with callbacks (`motion_safety_gate`, the authority
status that `control_lan` reads, the priority that `ppm_motion_source` reads,
the publication of LAN events), starts them in a fixed order, confirms a new
image after the last of them and rolls it back when a critical one fails.

What makes this system hard:

* **Interleaving.** Two tasks of the highest priority, three publishers and a
  serial console share one application. The driver is called without the
  application's lock, so a stop may be taken while a speed is on its way; the
  legacy facade drives the same wheels without the coordinator's lock.
* **Stale readings.** The safety gate, the interlock's status, the RC frame, the
  application's status, the automatic check's switch and a robot-state snapshot
  are each read before they are used, by tasks with periods of their own.
* **Lost, late and repeated calls.** UDP packets are lost, repeated and
  reordered; `publish` gives up when the lock is busy (a STOP too); a register
  write may be executed although its answer was lost; an answer may come after
  its request timed out; a connection timeout may race the connection.
* **Expiry and wrapping.** Leases end by time; frame sequences, epochs,
  microseconds, ticks, angles and 64-bit revisions wrap or run out.
* **Partial failure and restarts.** One wheel of a pair takes its speed and the
  other does not; a task does not end in time; one of ten start-up stages
  fails; the power fails in the middle of an update.

What makes each part correct, in a sentence: the authority never lets one
source drive on another's grant, nor a command count twice; the application
never leaves turning wheels unanswered for, and stops them when asked, when the
gate closes and when its clients fall silent; the PPM source never lets sticks
held off neutral start the robot; the LAN ingress never lets an old stream
resume after a takeover; the interlock moves on confirmed frames only; both
receivers publish what was sent or nothing; the coordinator's answer says what
the wheels do; a drive's health is earned by polls of that drive; the unwrapped
angle is the wheel's; a composition is whole or absent, and what a task uses
stays; an image that does not start is replaced by one that does.

## 2. Modules

| module | models | role |
|---|---|---|
| `CommandAuthorityModel` | `command_authority/command_authority_model.c` | the pure functions, as operators on a record |
| `CommandAuthority` | its callers | the state machine around it: publishers, arbitration, stops, late clock readings |
| `CommandAuthorityLemmas` | | lemmas about the pure functions, for both modules that hold such a struct |
| `CommandAuthorityProofs` | | theorems about `CommandAuthority` |
| `MotionApplicationModel` | `motion_application/motion_application_model.c` | pure functions; extends `CommandAuthorityModel` |
| `MotionApplicationService` | `motion_application/motion_application_service.c`, `motion_safety_gate`, the serial STOP ALL | the task, its slots and plans, its clients, the actuation port |
| `MotionLease` | what `motion_application` promises its clients | abstract specification: three slots, one lease |
| `MotionLeaseRefinement` | | `MotionApplicationService` implements `MotionLease` |
| `MotionApplicationProofs` | | theorems about the service and the refinement |
| `PpmMotionSource` | `ppm_motion_source/ppm_motion_model.c`, `ppm_motion_source.c` | the handshake, composed with `MotionLease` |
| `ControlLan` | `control_lan/control_lan.c`, the callbacks of `main.c` | the LAN task, composed with `MotionLease` |
| `ClientProofs` | | theorems about `PpmMotionSource` and `ControlLan` |
| `RcLanInterlockModel` | `robot_safety/robot_safety_rc_lan_interlock_model.c` | pure functions |
| `RobotSafety` | `robot_safety/robot_safety.c` | the safety task around the interlock |
| `PpmDecoder` | `ppm_decoder/ppm_decoder_model.c`, `ppm_decoder.c` | the interrupt, and a reader's clock and snapshot |
| `IbusReceiver` | `ibus_receiver/ibus_receiver.c` | the receive task's frame assembly, the line, mode changes |
| `BusExchange` | `rs485_transport`, `bus_transport`, `svd48/svd48_device.c` | one request and its answers on the bus: lock, flush, retries, validation |
| `WireProofs` | | theorems about `RobotSafety`, the interlock, `PpmDecoder` and `BusExchange` |
| `ActuationCoordinator` | `actuation_coordinator.c`, the channel adapter, the device's writes | calls under a lock, made of register writes |
| `ManualDrive` | `robot_control.c`, `svd48/svd48.c`, the composed application port | extends `ActuationCoordinator` with the facade that goes around its lock, and with updates |
| `ManualDriveProofs` | | theorems about `ManualDrive` and the coordinator in it |
| `SteeringAxis` | `steering_position_controller`, its endpoint adapter, `as5600_device.c`, the steering task | the closed loop with a wheel that is driven, pushed and measured |
| `SteeringProofs` | | theorems about `SteeringAxis` |
| `CommunicationQuality` | `communication_quality_model.c` | pure functions |
| `DriveObservation` | `svd48/svd48_poll_service.c`, `svd48_device.c` | the poll task, its back-off and the health of each link |
| `RobotState` | `robot_state_model.c`, `robot_state_service.c` | state machine, inhibits and gate epoch |
| `RobotProfile` | `robot_profile.c`, `robot_driver_factory.c`, the factories' `validate` | pure: the tables, what is asked of their references, the preflight |
| `RobotComposition` (extends it) | `robot_composition.c`, `svd48_poll_task.c` | the slots of buses, devices, endpoints, frames, legacy view and lock; construction, start, stop, teardown, and the two tasks beside them |
| `RuntimeProofs` | | theorems about `DriveObservation`, its link model, `RobotState`, `RobotComposition`, `OtaAutoCheck` and what they are together (`MCRuntime`), and about `FirmwareUpdate`, `WifiManager` and both together (`MCServices`) |
| `FirmwareUpdate` | `ota_manager.c`, `ota_announce.c`, the gateway's OTA_UPDATE, `main.c` | slots, installers, start-up stages, confirmation, rollback |
| `WifiManager` | `wifi_manager.c`, `config_manager.c` | station, events, time-outs, supervisor, console |
| `OtaAutoCheck` | `ota_manager.c`, `config_manager.c`, `serial_gateway.c` | the automatic check, its switch, interval and back-off |
| `MC*` | | constants for TLC; `MCWires`, `MCRuntime` and `MCServices` hold several parts each |

`MCWires`, `MCRuntime` and `MCServices` check models that share no state in one
run each. A variable `focus`, fixed in the initial state, says which part a
behaviour is about; the other parts rest in a fixed initial state, and the
fairness of a part is conjoined with its focus. Each part keeps a specification
of its own (`BusSpec`, `StateSpec`, `LifeSpec`, ...), which the proofs use.

How state and steps correspond to the code:

* A C struct is a record with the code's field names; a pure function is an
  operator from the record to the record it leaves. `publish_verdict` is the
  chain of early returns of `command_authority_model_publish`, in its order.
* A critical section is one action. `MotionApplicationService` separates
  `BeginCycle` (the gate is read without the lock), `Cycle` (the locked part),
  `Execute` (the driver runs without the lock) and `Record` (the lock again);
  everybody else runs in between. `ControlLan` separates the reading of the
  status (`CheckLoop`, `CheckPacket`) from the decision (`Handle`) and the
  publication (`Submit`); `PpmMotionSource` separates `Step`, where an event is
  made from a frame, from `PublishOutput`, where it is published or dropped.
* An event carries the time its client stamped (`Publish(r, at)`): the service
  stamps nothing, and the LAN task gives a whole burst the time of its first
  packet, so that `at` may lie up to `MaxLag` in the past, and before a STOP
  that is already published.
* A reader of `PpmDecoder` reads the clock (`ReadClock`) and takes its snapshot
  later (`Snapshot`), up to `MaxWait` after it; edges come in between.
* Where the code gives up after waiting for a lock, the action has both
  outcomes: the event handlers and the time-out of `WifiManager`, every section
  under `state_lock` in `OtaAutoCheck`, the status that `PpmMotionSource` reads.
* A register write with its retries is one step with three outcomes in
  `ActuationCoordinator`: acknowledged, executed without an answer, lost.
  `BusExchange` looks inside: attempts, flush, late answers, exceptions, noise.
* In `ManualDrive` every write of the facade is a step of its own, between
  which the coordinator's callers run. A restart lasts as long as it likes for
  the drives, which keep turning, and begins with the boot stop.
* In `SteeringAxis` the task is about to poll the sensor, to tick the
  controller, or sleeps; position requests, stops and references come in
  between. Angles are whole steps; the sensor sees them modulo `Cycle`.
* In `RobotComposition` the owner makes one call at a time, one slot or one task
  per step: `construct` goes through the sections of `robot_composition_init`
  (a slot that the tables do not use is passed over), `destroy` through the
  passes of `cleanup_runtime`, each from its last slot to its first. A
  construction that fails goes to the same cleanup. The tasks leave in two steps
  (record cleared, semaphore given), and a join that times out may be followed
  by another call.
* In `FirmwareUpdate` an installer waits for the lock, checks, downloads,
  verifies, stops the motors, selects the slot and restarts; the power may fail
  before any of these; an image may be one that does not start.
* In `WifiManager` and `OtaAutoCheck` reading a setting, acting on it and
  storing the result are separate steps wherever the code releases the lock.

What is abstracted. A body velocity is one integer axis, or `NonFinite`; wheel
speeds are the same number unless kinematics refuses it (`Infeasible`). Sticks
are neutral or not; a CH5 pulse is on one side of its threshold or absent. LAN
packets are those that parse and authenticate. A bus frame is a record that
names its registers, which the driver's checks do not look at because a Modbus
answer to a read does not hold them. An i-BUS byte is a number below 16 and a
frame has two channels; header, checksum and byte order are the code's. An image
is its build number, whether it starts, and whether its digest was compared.
Names, texts, status copies for display and diagnostic counters are left out.
Variables declared as history (`accepted`, `grants`, `driver`, `stop_failed`,
`overruled`, `rested`, `renewed`, `dropped`, `run`, `waiting`, `pulses`,
`silence`, `waited`, `missed`, `lost_record`, `touched`, `disturbed`,
`goods_since`, `stale_checks`, and `history` of `SteeringAxis`) record what
happened for the properties and guard no step of the code.

## 3. Runs

Bounds are CONSTANTs of the modules, set in the `.cfg` files. A property named
below is often the conjunction of several; each module states and comments them
one by one.

**`authority`** - source 2 goes through three streams (the history holds one),
is refused, withdraws and releases the deadman; source 3, of higher priority,
competes; a stop may come at any instant; callers read the clock up to 1 ms
late, so that the regression checks of every entry point fire. `U64Max = 3`
exhausts epochs, revisions and timestamps inside the run. The smallest behaviour
behind each property (grant, switch, second grant, replay through a retired
stream, loss of a moving source) fits; the mutants show it.

**`motion_serial`** - one LAN operator arms, drives and stops and falls silent
after instant 1 (`LastPublish`), so that the liveness properties have something
to say; the serial operator stops everything at any time, the gate opens and
closes, deinit comes at any time. Stamps are of the present here (`MaxLag = 0`):
an older one only ends its lease sooner, and `motion_operators` has the older
ones. Shows: turning wheels are watched or a STOP is on its way, and no APPLY
waits behind a STOP (`WheelsAreCovered`, where an emergency stop overtakes an
APPLY in flight); wheels come to rest after silence, after the gate closes,
after a STOP and at shutdown (`ComesToRest`); every step is a step of
`MotionLease` (`ImplementsLease`).

**`motion_operators`** - the RC pilot and the LAN client arm, drive and stop
through the same slots, and one actuation call fails, at any time. Shows:
turning wheels are answered for, and by a stream that was armed and commanded by
publications after the last published STOP, although clients stamp up to `MaxLag
= 1` earlier (`WheelsAnswerToFreshIntent`); the shared slots still implement
`MotionLease` - the specification the client modules are composed with -, one
stream never takes over wheels another one turned, and after a STOP that the
driver failed nothing drives until one succeeded (`LeaseIsShared`). Emergency
stops and failures are in one run each: together they exceed what TLC does in
minutes.

**`wires`** - four parts.
*The RC source* against `MotionLease`: another client publishes STOP and ARM, the
application loses or disarms leases at any time, publications are dropped, the
receiver's signal and the gate flicker; three frame numbers and two streams,
both wrapping. Sticks off neutral drive only after a neutral frame sampled since
the source's own last STOP (`HandshakeAfterOwnStop`).
*The PPM decoder*: edges at every distance of a clock of modulus 8, frames of
three channels, a pulse count that saturates at five. Channels are replaced all
at once by exactly the pulses between two sync gaps (`FramesAreWhole`), and a
reader sees the signal as valid exactly when the last frame was recent at its
reading of the clock and none came in before its snapshot, until the counter has
gone round (`AgeIsTrue`); both are also proved. A frame that does come in between
(`MaxWait = 2`) has an age below zero, and a fresh signal counts as lost for that
one reading: `ppm_motion_source` then publishes a STOP and asks for the
handshake again, and the interlock goes to `PPM_LOST`.
*The i-BUS receiver*: bytes lost or changed once every `ErrorGap = 3` frames,
mode changes at any byte, values that look like headers. Published channels are
those of the frame on the line (`ChannelsWereSent`), and the signal survives one
error although the task looks for a header between frames only
(`SignalSurvives`). A mode change forgets the last frame, so that the signal is
invalid at once and until the next good frame, which is as close. With errors
closer together the frame after the lost one may be lost too, so that no
patience would do: `ErrorGap` is the line's promise.
*The bus*: one drive, the poll, the motion task and maintenance, one retry; an
answer is lost, damaged, an exception, or up to one exchange late. A write that
is acknowledged is in the register (`AcknowledgedWriteHolds`), and what the link
takes for feedback was read as such (`FeedbackIsItsOwn`); both are also
proved. Its two exceptions are
named in the property because the code has them: a late answer of a
two-register read is accepted as that of the next read of two registers, so that
after maintenance's READ_REG or a late poll one value may stand in another's
place until the next poll. Writes of several registers are acknowledged without
their values, and general register writes are not modelled.

**`lan`** - packets of two streams in any order and number, dropped events, a
status that moves once between two readings, an epoch of modulus 2 (it wraps
but cannot wrap between two readings: `LanConfig`). Shows: a command that
drives came after an ARM admitted since the last takeover (`NoSilentResume`); a
blocked client loses its lease even if it sends nothing (`BlockedLanStops`); no
lease outlives the stream the ingress watches unless an event was dropped
(`LeaseIsWatched`) - then it is left to expire, which `motion_serial` covers.

**`safety`** - frames of both sides and without the channel, up to two between
two samples, failed locks, loss of signal, motor faults, a stop call that takes
a tick, a tick counter of modulus 5. `ConfirmFrames = 3` as on the robot. The
frame sequence is bounded by 7: two transitions of three confirmations each.
Shows: while the receiver is heard the authority moves after three distinct
agreeing frames only (`InterlockHolds`), and a lasting hazard is stopped at least
every `StopRepeat` ticks (`StopIsTimely`). Both are also proved.

**`actuation`** - the motion task drives a pair of wheels through the
coordinator; the console drives one wheel, stops, updates, and goes around the
coordinator with ENABLE and MOVE_VEL; two register writes or readings fail.
Shows: SUCCESS means every wheel has its speed unless the facade changed it
since (`SuccessIsExact`); a call or command that fails leaves no wheel it set
turning but one both of whose stop writes were lost (`FailuresStop`); the facade
starts a wheel only when all wheels of the command hold their targets
(`StartsAreInStep`); before the boot partition changes the wheels are at rest
unless somebody moved them after their zero (`UpdateFindsRest`). The exceptions
"somebody else" are the races the facade really has: `touched` records them, and
docs/SAFETY.md:127 and 151-162 list the facade as a bypass.

**`steering`** - a wheel of eight steps a turn that may be driven, pushed
by hand and measured late or not at all, a PWM that refuses one pulse, requests
and references at any time, of a moving wheel too: a reference names the angle at
which the sample was taken. Shows: the unwrapped position is the wheel's at the
last sample (`PositionIsTrue`: no turn is ever gained or lost, although the
sensor knows the angle within a turn only); the drive is fed by a recent sample,
a lease in force and within the move timeout (`DriveIsFed`, in `AxisHolds`);
reversals pass through rest and a faulted axis rests or keeps trying
(`DriveRests`). All three are also proved. The run's times (stale after 2, fault
after 4) let the wheel turn half a turn between two samples and no more, which is
the case the jump limit decides and the bound of the proof.

**`runtime`** - four parts.
*Drives*: two drives on one bus, one of which may fall silent at any read and
come back; ages up to the offline age. A link that was bad is healthy only after
two complete polls in a row (`RecoveryIsConfirmed`, also proved), the mute
drive's time-outs do not make the other one stale, thanks to the back-off
(`OthersStayFresh`, also proved: several mute drives polled one after the other
might), and a
drive that answers from some time on is healthy again and again
(`PolledLinkRecovers`).
*State*: two inhibit sources, three inhibits of different classes, gate epochs
up to two. `StateIsExact`, which is also proved (section 4).
*Life*: seven tables - the two shipped ones (`Rafa`, `Bench`), both together, the
bench listed the other way round, one whose bus has the id 65535 that stands for
no bus (the controller then seems to name it, and an init that the preflight
accepted ends in the cleanup), and two that are refused -, two failures, four
calls. What is built holds together at every step of every call
(`CompositionIsWhole`, also proved): a slot points to slots that are there, a call
leaves a whole composition or nothing, no task loses what it may still use. One
thing is weaker than it might be: the validation lets a steering controller be
listed before the PWM and the sensor it works with (`ListedAfterItsParts`). The
cleanup, which destroys in reverse, then takes those first; nothing calls the
controller any more, and `steering_pwm_output` looks at `used` before it writes.
So during a cleanup `DrivesThroughBuilt` is asked only of the usual order.
A stop that answers success means rest (`SuccessIsRest`, also proved), although
an error of any step must be remembered to the end. The model
commands the endpoints only between two calls of the owner: a command in the
middle of a stop is outside it.
*Automatic check*: two intervals, commands and forced checks at any time, and any
section that may not get `state_lock`. At most the one check under way is made
after OFF (`OneCheckAfterOff`, in `CompositionIsWhole`, also proved); while ON,
checks go on for ever, and after OFF the manager's copy follows
(`ChecksFollowSwitch`). The record of a check that does not get the lock leaves
`auto_checking` set and ends the periodic checks until the next OFF: the code does
so, and `ChecksGoOn` speaks of behaviours where the records get through from some
time on.

**`services`** - two parts.
*Update*: three builds that may not start - the third reuses the slot of a
confirmed one, which two do not reach -, two installers, power failures at every
step, the test modes of the rollback. The running image has the digest that a
manifest announced and there is one to go back to, a confirmed image that runs
starts, a start-up that gives up leaves nothing half up (`UpdateIsSafe`, also
proved); builds go down by rollback only (`OlderOnlyByRollback`, also proved) and
an image that does not start is replaced (`OnlyGoodUpdatesStay`). The model assumes that
an installation's last steps (select, restart) are not overtaken by a whole
download of the other installer, which takes seconds longer than they do
(`InstallIsQuick`). A boot state that `app_main` cannot read counts as confirmed: such
a start neither confirms nor rolls back an image on trial, and the next reset takes
it back.
*Wi-Fi*: one network, one retry, three undelivered events, two console
commands, which is what clearing the credentials and setting them again takes.
Whatever raced, a station that has credentials, is not paused, has its access
point and whose handlers get the lock is connected again and again
(`ReachesNetwork`), with one exception, `Nameless`: after WIFI_CLEAR while
connected, WIFI_SET, and a disconnection that is handled only then, the handle is
FAILED without a name, `wifi_manager_get_status` copies the stored name only in
UNCONFIGURED (`wifi_manager.c:618`), and the supervisor, which wants a name
(`wifi_manager.c:351`), idles although credentials and access point are there.
CONNECTED is believed of a dead link only while its event waits, or after its
handler gave up waiting for the lock (`ConnectedIsTrue`): the code then believes
it until the next event.
`ServicesAreSound`, the invariant of both parts, is also proved.

Two runs end in a counterexample, each to a sentence of the documentation:

* **`motion_emergency`** (`LeaseIsNewerThanStop`) - docs/SAFETY.md:73 says that
  STOP evicts older pending intent. A published STOP does; the emergency stop
  of the serial STOP ALL goes through `motion_application_service_submit`,
  which leaves the slots alone, so that an ARM published before it is granted
  after it.
* **`ppm_external_stop`** (`HandshakeAfterAnyStop`) - docs/SAFETY.md:101 says an
  external STOP requires the neutral handshake again. The task may have made an
  ARM from an earlier neutral frame and publish it after the STOP.

Divergences that were observed while modelling and have no run of their own; the
models do what the code does:

* docs/SAFETY.md:91 says a candidate never changes authority; after `PPM_LOST`,
  when LAN is allowed, one frame makes a candidate and LAN is blocked
  (`robot_safety_rc_lan_interlock_model.c:138`). `InterlockHolds` speaks of a
  receiver that is heard.
* docs/ARCHITECTURE.md:285 says the lack of accepted frames follows the age
  deadline; the age is a 32-bit difference of microseconds (`ppm_decoder_model.c:91`),
  so that after 71.6 minutes of silence the signal is valid again. `AgeIsTrue`
  ends there.
* docs/SAFETY.md:94 says a malformed frame changes nothing; an interval of
  implausible length is skipped, and its frame is published if the plausible
  ones add up.
* docs/API.md:622 says fault paths retire the stream; an actuation call that
  fails leaves it active in FAULT until somebody stops (`Fault` of `MotionLease`).
* docs/SAFETY.md:189-190 says three failures degrade a link; while a recovery is
  pending it stays SUSPECT (`communication_quality_model.c:30-32`).
* The steering adapter's comment calls a failed read no hard fault; the read that
  fails on an axis permitted to run with a weak magnet is one at once.
* docs/ARCHITECTURE.md:493-495 says a timed-out stop must be collected before a
  start; `robot_composition_start` answers OK because `started` is still set
  (`robot_composition.c:2767`).

**Deadlock** is checked in the runs of the components that never stop (`wires`,
`ppm_external_stop`, `lan`, `safety`, `actuation`, `steering`). It is not in
those whose bounded clocks, requests, calls, epochs or builds are used up
(`authority`, the three `motion` runs, `runtime`, `services`).

**Fairness.** `MotionApplicationService` assumes that its task takes steps (it
has the highest application priority, its waits have a period and every call it
makes is bounded) and that time passes. `ControlLan` assumes that its task does
(the socket has a receive timeout) and that the application runs its cycle.
`DriveObservation` assumes that the poll task goes on: its reads end with the
bus timeouts and its sleeps with a period. `FirmwareUpdate` assumes that the
start-up goes on to its end and that every wait of an installer has a timeout;
`WifiManager` that the event, timeout, supervisor and console tasks run and that
the radio answers a request one way or the other; `OtaAutoCheck` that both tasks
run, that time passes and - strongly - that the stored settings are readable
again and again and that the task, which tries in every turn, gets `state_lock`
again and again. Clients, operators, gates, power, access points and networks
are never assumed to do anything.

## 4. Proofs

`CommandAuthorityProofs` proves, for any width of the counters, any ttl, limits
and history capacity and any set of requests:

| theorem | statement |
|---|---|
| `TypeCorrect` | every field keeps its type, every counter its width |
| `BarrierHolds` | authority rests on a command published and received after the last switch or stop |
| `OutputIsAuthorised` | a nonzero output is held only under authority |
| `EpochFences` | within one epoch only one source and one of its streams ever holds authority |
| `ReplayIsRefused` | no source gets the same stream and sequence accepted twice |
| `HandoverAlwaysClean` | a source takes over only through a stop, and losing one that was moving is a fault |

Assumptions: `ConfigIsValid` is what `command_authority_model_init` checks;
`CallerAssumption` gives requests and bounds their types. TLC evaluates both in
the run `authority`.

None of these invariants is inductive alone. `IInv` has three parts. `Sound`, of
the struct only: its type; the selected source has published; revisions never
run ahead of the publication counter; what a grant rests on; an output needs a
grant. `AcceptedOK`, of the mailboxes and the history of accepted commands
(`ReplayWindow`, a definition that serves the proof): an accepted pair belongs to
the stream a mailbox holds, at or below its sequence, or to a retired stream, and
the stream held is not retired; without it nothing forbids a stream from coming
back. `GrantsOK`, of epochs: no grant is of a later epoch, and one of the present
epoch is of the source and stream selected now - and since a switch that finds
the epoch exhausted selects nobody, the counter's end does not break it. For each
of publish, arbitrate and stop, lemmas say which fields the function leaves alone
(`StopFields`, `SwitchFields`, `ArbitrateFields`, `PublishFields`), then that
`Sound` is kept (`StopSound`, `ArbitrateSound`, `PublishSound`), then `IInv`
(`StopIInv`, `ArbitrateIInv`, `PublishIInv`). `ReplayIsRefused` and
`HandoverAlwaysClean` are action properties proved from `IInv` of the step's
first state. The lemmas about the functions themselves are in
`CommandAuthorityLemmas`, because the motion service holds such a struct too.

`MotionApplicationProofs` proves of the motion service, for any width of the
clock, any requests, any number of failing actuation calls and with or without a
serial operator, that turning wheels are answered for (`WheelsCovered`), that
the stream in force was armed, and its commands published, after the last
published stop (`FreshIntentDrives`), and that the service implements
`MotionLease` and hands wheels over at rest only (`LeaseSharing`). Freshness is
the order of publications, under one lock: it does not rest on the clients'
stamps, of which the proof only needs that they are not in the future. So what
`PpmMotionSource` and `ControlLan` are composed with is what the service does,
whatever the constants. `IInv` adds to the properties what relates the slots,
the plan and the lease at each program point: no slot holds an event that a
published stop overruled (`NothingWaitsOverruled`); after a stop that the driver
failed no plan but a stop is executed (`FailedStopBlocks`); the plan being
executed is the one the model computed and has the model's stream, unless a stop
overtook it; wheels that turn were driven by the holder of the lease.
`Continues` and `Withdrawn` sum up the model's functions - one outcome keeps the
holder, the other ends the lease with a stop - so that neither the invariant nor
the refinement has to look into `command_authority` again; `CycleResult` says it
of a whole cycle. In the refinement every critical section maps to a step of
`MotionLease` or a stutter (`PublishRefines`, `CycleRefines`, `RecordRefines`).
`NonzeroStreams`, what the model's own argument check refuses, is its only
additional assumption; TLC evaluates it in the run of the refinement.

`ManualDriveProofs` proves the four properties of the run `actuation`
(`AlwaysInStep`, `SuccessAlwaysExact`, `FailuresAlwaysStop`,
`UpdateAlwaysAtRest`) for any callers, any registry, any requests and any number
of register writes that are lost or executed without an answer. `DriveInv` says,
for every caller and program counter, what its writes have achieved so far: the
wheels before the one it has come to turn as asked (`ApplyWork`), rest again
(`RollbackWork`, `StopWork`) or have their targets (`TargetWork`) - each unless
a caller the lock does not keep out wrote the wheel since, or both writes of its
stop were lost, which the history variables remember. `ZeroHolds` carries a
lost STOP that a zero made good from one write to the next. Each step is proved
twice: for the caller that takes it, and for every other caller, whose wheels
it may only touch while it holds the lock or by marking them as touched. The proof
needs that no call names an endpoint twice, and showed that the model allowed
more than the code does: the kinematics refuse a profile with two motors of one
actuator (`robot_kinematics.c:56`) and the registry a second endpoint of one
identifier (`robot_capabilities.c:134`). `RequestSeqs` and `CoordinatorAssumption` now
say so.

`RuntimeProofs` proves the safety that the four parts of the run `runtime`
check. For any inhibit sources, any reported inhibits and any
bound of the epoch, `StateSpec` keeps `StateTypeOK` and `StateIsExact`
(`StateTypeCorrect`, `StateAlwaysExact`): the active mask is the union of what
the sources hold; no state stands against an inhibit that trips it; and if the
gate's epoch is that of a snapshot which allowed motion, motion is still allowed,
whatever was raised and lifted in between. `StateIsExact` alone is not
inductive: a snapshot from the future would match an epoch that is yet to come.
`StateInv` adds `SnapshotIsPast`. `AggregateOfPublished` and `UnionOfReported`
carry the mask through a publication and a report, `RaisedGate` says that
whatever takes an authorisation to move away raises the epoch, and one lemma per
operation gives the step. `RobotStateAssumption` is the only assumption,
which TLC evaluates in the run `runtime`.

Of the drives' links it proves `RecoveryIsConfirmed` (`RecoveryAlwaysConfirmed`)
for any number of drives, any policy that `PolicyAssumption` admits and any
periods (`PollingAssumption`). The invariant `DriveInv` is about the two counts
that run side by side: while fewer polls than asked for were complete since the
link was last bad, it is still bad or its recovery is pending with a count not
ahead of the real one (`Confirmed`). `AgedLink`, `GoodPoll` and `FailedPoll`
carry it through time and polls. `OthersStayFresh` (`OthersAlwaysFresh`) is about
the schedule: until its poll is due, a drive's age and the time to that poll add
up to no more than a period; once it is due, its age is that of the period and
one whole poll, all of whose eight reads time out, of each drive whose turn comes
before its own (`FreshInv`, `turns`). The hypothesis of the theorem is that this
fits the stale age, `Period + 8 * (Drives - 1) <= StaleAge`: 30 ms and 800 ms of
the other drive's time-outs, against 1000 ms, for the two drives of a bus
(`robot_profile.c:55`). A bus of three drives would rest on the back-off alone.

Of the composition it proves `SuccessIsRest` (`SuccessAlwaysRest`) for any
profile, and any lost writes and tasks that do not end. `LifeInv` follows one
sequence from its first step to its answer: from the moment the outputs have been
stopped no target is held, and an output that goes on is remembered in
`first_error` (`StopIsRemembered`); the tasks are collected one after the other
and none is created meanwhile (`TasksAreCollected`); a new composition is at rest
(`NewIsAtRest`).

That what is built holds together (`CompositionAlwaysHolds` of the composition,
`CompositionAlwaysWhole` of the whole run) is proved for any set of tables,
accepted or not, any failures and any calls; `ProfilesAreTables` is the
assumption, which TLC evaluates in the run `runtime`. `CompositionHolds` is far
from inductive, because it does not say how far a call has come. `PartsInv` adds
that: a new composition fills its sections in order (`FilledInOrder`), a cleanup
has left nothing behind that one of its passes has been over (`EmptiedInOrder`),
between the two it is whole or nothing, as `constructed` says (`WholeOrNothing`),
and whoever is alive lives in a whole one (`LivesInWhole`). From the validation
the proof takes two facts: `AcceptedResolves`, that every reference of accepted
tables names a row that the composition builds, and `KindsAreApart`, that no
endpoint is of two drivers, so that the passes over wheels, observations and
devices empty the endpoints between them (`PassesHaveEmptied`). While a section
is filled what it points to was filled before; while a pass empties one, what
points to it was emptied before (`DestroyTakes`, `DevicesPassHolds`).

`WireProofs` proves `InterlockHolds` and `StopIsTimely`
(`InterlockAlwaysHolds`, `StopAlwaysTimely`) for any number of confirmations,
time-outs, periods and counter widths that `InterlockConfig` and `SafetyConfig`
admit (a stop call and a repetition period fit the tick counter; the frame
counter does not wrap within a behaviour). That authority moves on confirmed
frames only says nothing of the frames before: `InterlockInv` adds that the
counted frames are a run of agreeing frames that really came and that the frame
last seen, when it is read again, says what it said (`CountIsReal`); that the
interlock has seen no frame the receiver has not (`SeenIsPast`); and which state
is committed (`StateIsCommitted`, `OffIsDisabled`). `UpdateResult` sums up one
update as one of three outcomes, and `SampleStep` is the only step that needs
it. For the stop loop `StopInv` relates the history variable `waiting` to the
difference of the wrapping ticks, which never comes near a whole turn while the
task sleeps with a hazard.

It also proves `FramesAreWhole` (`FramesAlwaysWhole`) under
`DecoderConfig`, what the decoder's configuration check accepts. `WholeInv` says
what the frame under assembly is: the plausible pulses since the gap, or, of a
frame too long, their beginning and a saturating count that gives it away.
`AgeAlwaysTrue` proves `AgeIsTrue` for any clock, whatever edges come between a
reader's clock and its snapshot. Its hypotheses are that the silence is no longer
than a turn of the counter (`MaxSilence <= Wrap`; beyond it the code's age is
wrong, section 3), and that a reader does not wait for the rest of a turn
(`MaxWait + stale_timeout < Wrap`: an hour, of a task that is one critical section
away). The arithmetic of a turn too far
and below zero, which both parts need, comes first in the module.

Of the bus it proves both properties (`FeedbackAlwaysItsOwn`,
`AcknowledgedWriteAlwaysHolds`) for any drives, retries and cycle of the slow
reads, whatever is lost, late, garbled or written by the other tasks. `BusInv`
says of every frame that is still on its way or in the receive buffer whose it
may be. An answer that is not late is to the request of the bus's holder, and
while nobody holds it all are late (`LateIsKnown`); so at the end of an exchange
at most the answers to that exchange are left. From this follows that an echo a
write may meet is of a write after which nothing came (`EchoIsTrue`), that the
read of the speed can meet a late position, which has another length, or a
maintenance read, and nothing else (`SpeedMeets`), and that a poll whose primary
reads went well so far finds no answer to a read but its own (`PollIsAlone`);
`OverIsOwn` adds up what it has kept. Reads that the poll was refused the bus for
need no argument of their own, because the poll has then failed. The proof showed
that `judged` was written with overlapping cases, of which TLC takes the first
and TLA+ any; it is a chain of conditions now, like `transact`.

Of updates `RuntimeProofs` proves `UpdateIsSafe` (`UpdateAlwaysSafe`) for any number
of builds (`MaxBuildAssumption`), with power failures between any two steps.
`UpdateInv` adds to it what the other slot holds: while an image is on trial, the
confirmed, verified and starting image, which no installer may touch
(`TrialCanReturn`); while an installer is past verification, what it verified or
nothing (`InstalledIsVerified`); a spare slot that is selected waits for a
restart or was given up (`SelectedIsKnown`); and during the start-up, no more
than the stages passed (`StartIsOrderly`). Finding it corrected the property: a
*confirmed image starts* was first stated of both slots and held in TLC with two
builds only - a slot keeps the mark of its former, confirmed image until it is
selected. `InstallIsQuick` stays an assumption of the model.

That the build of the running image goes down only when an image is given up
(`UpdatesOnlyRise`) is an action property of the same model. The manifest is
compared with the running image once, long before the restart, and the lock that
kept the other installer out is given back in between. `BuildsRise` says why this
is enough: no step but a reset changes the running image, and a reset ends all
installers; so the image an installer works on stays newer, and what lies in the
spare slot while one installs is newer or erased. Which slot a reset takes, and
that the image it leaves for an older one is marked invalid or aborted, follows
from `SelectedIsKnown` and the mark of the image on trial.

Of the other two services it proves the invariants. `ConnectedAlwaysTrue` is for any
networks, retries, commands and length of the queue of events:
`LastEventIsTrue` says that the last event that waits tells how the link is, so
that an address that is handled with nothing behind it is still held, and whoever
drops the link puts an event behind it. `OneCheckAtMost` is for any intervals and
back-off: once a check has been made after OFF, the task is in that check or on
the way to its sleep, or it has read the switch as off (`StaleCheckEnds`), and
nothing but the next ON leads it to another. `ServicesAlwaysSound` states the
invariants of both parts of the run `services`, and `CompositionAlwaysWhole` that of
the check in `runtime`.

`SteeringProofs` proves the three properties of the steering axis. `AxisHolds` and
`DriveRests` (`AxisAlwaysHolds`, `DriveAlwaysRests`) hold for any axis, policy and
time-outs that `AxisAssumption` admits, which is what `init` and the adapter check.
Every part of a tick but the drive itself ends in a neutral command, so one lemma
(`NeutralStep`) says what such a command leaves - the wheel at rest, or an output
fault, an unknown output and one more failed write - and each action only has to
show that the controller it commands it for is `Ready`. `DriveInv` is what makes
this inductive: an axis that holds its target is at rest, and has not been driven
since the last tick; what is driven at the end of a tick has a fresh sample, a
lease, and time left for its move or no period of driving behind it (`Fed`); the
time left and the age of the target add up to the move time-out; and the rest
that the controller counts is no longer than that of the wheel, unless the output
is unknown or the axis faulted (`RestIsReal`).

`PositionIsTrue` (`PositionAlwaysTrue`) needs a hypothesis about the wheel:
between two samples it turns no further than half a turn, or no arithmetic can
tell which way it went. `TurnIsSlow` says that a silent sensor is a fault before
that, `FaultTimeout <= Cycle \div 2` in steps of the fastest wheel; in the
profile, half a turn within the 400 ms of `sensor_fault_after_ms`
(`robot_profile.c:316`), 75 turns a minute, against a wheel that is given 45 s for
at most half a turn. It is the worst case: a stale sample stops the drive sooner,
and only a wheel that somebody else turns could use the rest. `Tracked` bounds how
far the wheel is from where it was sampled by the age of the sample, and how far
the sensor's sample is from the controller's by the difference of their ages, so
that a difference of readings below half a turn, which the jump limit ensures, is
the difference of the angles (`TurnIsKnown`, `AcceptedIsTrue`); a sample that is
not newer is the one the controller has. The hypothesis is not needed for the
other two theorems.

`ClientProofs` proves of the two clients, composed with `MotionLease`, what the
runs `lan` and `wires` check. For the LAN task (`LanLeaseWatched`,
`LanNeverResumes`), for any streams, any packets in any order and any counter:
`LanInv` says of whatever could still drive whose it is. An ARM that waits and a
LAN lease are of the stream in force, unless a stop for them waits or an event was
dropped (`ArmIsOwn`, `LeaseIsOwn`); an ARM about to be submitted finds no other
stream in force (`ArmFindsRoom`). The epochs carry the rest: the epoch of the
stream in force lies at most as many takeovers back as the status moved since the
task's last reading, and if none, the stream was armed after the last one
(`StreamIsRecent`, `ArmIsRecent`). So a stream with an old epoch is found out at
the next reading, because the epoch cannot come round to it within
`MovesPerRead < EpochCounter` takeovers; that bound is the one assumption about
the counters, 2^32 in the code. What follows is that every command in the
application's slot was received after the ARM that counts (`CommandsAreMarked`).
For the pilot (`PilotShakesHands`), `PilotRested` says that whatever may lead to a
movement - an ARM computed but not published, one in its slot, the lease unless a
stop waits - rests on a neutral frame since the source's own last stop, and
`PhaseHasStream` what the phases say of the stream's number. The
proof needs a nonzero stream to exist at all, which `PpmConfig` now says
(`StreamCounter > 1`, 2^64 in the code).

Only model-checked: the i-BUS receiver and all liveness - fairness and ENABLED are
out of the prover's reach, as is induction over data. What is said of i-BUS rests
on the sums of the few values of its run: a 16-bit sum does not tell every pair of
frames apart, so that for arbitrary values it need not hold.

## 5. Not modelled, and next

Left out for good: floating-point kinematics, the pins, rates, limits, names,
calibrations and geometry of the profile tables, PWM and bit-banged I2C output,
text parsing and printing, the maintenance session's sockets, the Python tools
and tests. `PROJECT.json` lists every component with its reason. What the
modelled components leave out:

* timestamps of LAN packets in `ControlLan` (the lag of a burst is in
  `MotionApplicationService`) and of the safety status (`record_status` gives up after
  10 ms, `robot_safety.c:53`), because no model composes these tasks with time;
  `last_stop_tick` is set even when the stop failed (`robot_safety.c:175`);
* start and deinit of the safety, LAN, PPM and i-BUS tasks: `robot_safety.c:244`
  polls a flag its task sets when it first runs, and `ibus_receiver.c:420` waits
  30 ms for a task that may read for 20 ms and wait for a lock for 100 ms;
  `RobotComposition` has the join that the other tasks use;
* diagnostics of single registers, CLEAR_FAULT, and the configuration of the
  drives.

What would come next: a composition of the safety task, both clients and the
lease with time (a takeover by the pilot within bounded time, stale status).
