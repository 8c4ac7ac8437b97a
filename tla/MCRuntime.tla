------------------------------ MODULE MCRuntime ------------------------------
(***************************************************************************)
(* What runs beside the motion path: the polling of the drives and what it *)
(* says of their links, the robot's state, the life of the composition     *)
(* that holds drives and tasks together, and the periodic update check.    *)
(* Their models share no state; aspect says which one a behaviour is       *)
(* about, and the fairness of the polling or of the check counts while it  *)
(* is the one.  The others rest where they began.                          *)
(***************************************************************************)
EXTENDS DriveObservation, RobotState, RobotComposition, OtaAutoCheck

VARIABLE aspect

Bus(i, t) == [id |-> i, type |-> t]
Device(i, t, b) == [id |-> i, driver |-> t, bus |-> b, channels |-> max_channels(t)]
Endpoint(i, d, c) == [id |-> i, device |-> d, channel |-> c]
Axis == [controller |-> 3, pwm |-> 1, sensor |-> 2, actuator |-> 1, observation |-> 2]
Pwm == Device(1, "pwm_motor_mode", 1)
Sensor == Device(2, "as5600", 2)
Controller == Device(3, "steering", NO_BUS)

\* The shipped tables: Rafa's drive with its two wheels, and the steering bench.
Rafa == [buses |-> <<Bus(1, "uart"), Bus(2, "gpio")>>, devices |-> <<Device(1, "svd48", 1)>>,
         endpoints |-> <<Endpoint(1, 1, 0), Endpoint(2, 1, 1)>>, axes |-> <<>>]
Bench == [buses |-> <<Bus(1, "pwm"), Bus(2, "i2c")>>, devices |-> <<Pwm, Sensor, Controller>>,
          endpoints |-> <<Endpoint(1, 3, 0), Endpoint(2, 2, 0)>>, axes |-> <<Axis>>]

\* Both together; the bench listed the other way round; a bus whose id is the
\* one that stands for no bus, which the controller then seems to name; and
\* tables that are refused: a missing sensor, a driver that nothing builds.
Both == [buses |-> Bench.buses \o <<Bus(3, "uart")>>,
         devices |-> <<Device(4, "svd48", 3)>> \o Bench.devices,
         endpoints |-> Bench.endpoints \o <<Endpoint(3, 4, 0)>>, axes |-> <<Axis>>]
Reversed == [Bench EXCEPT !.devices = <<Controller, Sensor, Pwm>>,
                          !.endpoints = <<Endpoint(2, 2, 0), Endpoint(1, 3, 0)>>]
Misread == [Bench EXCEPT !.buses = <<Bus(NO_BUS, "gpio")>> \o @]
Sensorless == [Bench EXCEPT !.devices = <<Pwm, Controller>>]
Servo == [Bench EXCEPT !.devices = @ \o <<Device(4, "pwm_servo", 1)>>]
MCProfiles == {Rafa, Bench, Both, Reversed, Misread, Sensorless, Servo}

runtimeVars == <<driveVars, stateVars, lifeVars, checkVars, aspect>>

Aspect(a) == aspect = a /\ UNCHANGED aspect

RuntimeInit ==
    /\ aspect \in {"drives", "state", "life", "check"}
    /\ DriveInit /\ StateInit /\ LifeInit /\ CheckInit
    /\ aspect # "life" => profile = Rafa
    /\ aspect # "check" => ~cfg_enabled /\ cfg_interval = InitialBackoff /\ ~online

RuntimeNext ==
    \/ Aspect("drives") /\ DriveNext /\ UNCHANGED <<stateVars, lifeVars, checkVars>>
    \/ Aspect("state") /\ StateNext /\ UNCHANGED <<driveVars, lifeVars, checkVars>>
    \/ Aspect("life") /\ LifeNext /\ UNCHANGED <<driveVars, stateVars, checkVars>>
    \/ Aspect("check") /\ CheckNext /\ UNCHANGED <<driveVars, stateVars, lifeVars>>

RuntimeSpec ==
    /\ RuntimeInit /\ [][RuntimeNext]_runtimeVars
    /\ WF_driveVars(aspect = "drives" /\ PollingTask)
    /\ WF_checkVars(aspect = "check" /\ TaskStep)
    /\ WF_checkVars(aspect = "check" /\ OperatorStep)
    /\ WF_checkVars(aspect = "check" /\ Clock)
    /\ SF_checkVars(aspect = "check" /\ TaskReadsSettings(TRUE))
    /\ SF_checkVars(aspect = "check" /\ TaskEnables(TRUE, TRUE))

\* Every part keeps its types and bounds; what is built holds together at every
\* step of every call; and no more than one check is made after OFF.
CompositionIsWhole ==
    /\ DriveTypeOK /\ StateTypeOK /\ LifeTypeOK /\ CheckTypeOK
    /\ CompositionHolds /\ OneCheckAfterOff

\* LinkRecovers, where the polling task runs: a drive that answers from some
\* time on is healthy again and again.
PolledLinkRecovers == aspect = "drives" => LinkRecovers
=============================================================================
