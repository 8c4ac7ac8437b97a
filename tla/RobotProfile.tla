---------------------------- MODULE RobotProfile ----------------------------
(***************************************************************************)
(* The tables a robot is composed from, and what is asked of them before   *)
(* anything is built: robot_profile_validate looks at the references       *)
(* between the tables, robot_composition_preflight at the factories that   *)
(* would have to build them.  Pins, rates, limits, names, calibrations and *)
(* the geometry of the application are left out, and so are the sizes of   *)
(* the static storage: no reference depends on them.                       *)
(***************************************************************************)
EXTENDS Integers, Sequences

BusTypes == {"uart", "i2c", "pwm", "gpio", "can"}
Drivers  == {"svd48", "pwm_motor_mode", "as5600", "steering",
             "pwm_servo", "magnetic_encoder"}
NO_BUS   == 65535

\* DRIVERS: the bus a driver is on and the channels of its devices.
bus_type == [svd48 |-> "uart", pwm_motor_mode |-> "pwm", as5600 |-> "i2c",
             steering |-> "none", pwm_servo |-> "pwm", magnetic_encoder |-> "i2c"]
max_channels(driver) == IF driver = "svd48" THEN 2 ELSE 1

\* EXECUTABLE_FACTORIES: the drivers that can be built.  A motor-mode PWM has
\* no capability of its own, so no endpoint can name it.
Executable == {"svd48", "pwm_motor_mode", "as5600", "steering"}

robot_profile_t ==
    [buses     : Seq([id : Nat, type : BusTypes]),
     devices   : Seq([id : Nat, driver : Drivers, bus : Nat, channels : Nat]),
     endpoints : Seq([id : Nat, device : Nat, channel : Nat]),
     axes      : Seq([controller : Nat, pwm : Nat, sensor : Nat,
                      actuator : Nat, observation : Nat])]
-----------------------------------------------------------------------------
\* The device of a driver that an id names, and the endpoint of a device.
has_device(p, id, driver) ==
    \E d \in DOMAIN p.devices : p.devices[d].id = id /\ p.devices[d].driver = driver
has_endpoint(p, id, device) ==
    \E e \in DOMAIN p.endpoints : p.endpoints[e].id = id /\ p.endpoints[e].device = device

distinct_ids(table) ==
    /\ \A i \in DOMAIN table : table[i].id # 0
    /\ \A i, j \in DOMAIN table : table[i].id = table[j].id => i = j

\* A device of a driver with a bus names one of that type, any other none.
device_is_valid(p, device) ==
    /\ device.channels \in 1..max_channels(device.driver)
    /\ IF bus_type[device.driver] = "none" THEN device.bus = NO_BUS
       ELSE /\ device.bus # NO_BUS
            /\ \E b \in DOMAIN p.buses :
                  p.buses[b].id = device.bus /\ p.buses[b].type = bus_type[device.driver]

\* An endpoint names a channel of a device, and no other endpoint names it.
endpoints_are_valid(p) ==
    /\ \A e \in DOMAIN p.endpoints : \E d \in DOMAIN p.devices :
          /\ p.devices[d].id = p.endpoints[e].device
          /\ p.endpoints[e].channel < p.devices[d].channels
    /\ \A e, f \in DOMAIN p.endpoints :
          /\ p.endpoints[e].device = p.endpoints[f].device
          /\ p.endpoints[e].channel = p.endpoints[f].channel
          => e = f

steering_axis_is_valid(p, axis) ==
    /\ has_device(p, axis.controller, "steering")
    /\ has_device(p, axis.pwm, "pwm_motor_mode")
    /\ has_device(p, axis.sensor, "as5600")
    /\ has_endpoint(p, axis.actuator, axis.controller)
    /\ has_endpoint(p, axis.observation, axis.sensor)

\* No two axes share a part.
axes_are_distinct(p) ==
    \A a, b \in DOMAIN p.axes :
        \/ a = b
        \/ \A part \in {"controller", "pwm", "sensor", "actuator", "observation"} :
              p.axes[a][part] # p.axes[b][part]

robot_profile_validate(p) ==
    /\ distinct_ids(p.buses) /\ distinct_ids(p.devices) /\ distinct_ids(p.endpoints)
    /\ \A d \in DOMAIN p.devices : device_is_valid(p, p.devices[d])
    /\ endpoints_are_valid(p)
    /\ \A a \in DOMAIN p.axes : steering_axis_is_valid(p, p.axes[a])
    /\ axes_are_distinct(p)
-----------------------------------------------------------------------------
\* The factories' validate: a drive has both its channels, and each part of a
\* steering axis has its axis.
svd48_factory_validate(device) == device.channels = 2
pwm_motor_factory_validate(p, device) == \E a \in DOMAIN p.axes : p.axes[a].pwm = device.id
as5600_factory_validate(p, device) == \E a \in DOMAIN p.axes : p.axes[a].sensor = device.id
steering_factory_validate(p, device) == \E a \in DOMAIN p.axes : p.axes[a].controller = device.id

factory_validate(p, device) ==
    \/ device.driver = "svd48" /\ svd48_factory_validate(device)
    \/ device.driver = "pwm_motor_mode" /\ pwm_motor_factory_validate(p, device)
    \/ device.driver = "as5600" /\ as5600_factory_validate(p, device)
    \/ device.driver = "steering" /\ steering_factory_validate(p, device)

robot_composition_preflight(p) ==
    /\ robot_profile_validate(p)
    /\ p.endpoints # <<>>
    /\ \A d \in DOMAIN p.devices :
          p.devices[d].driver \in Executable /\ factory_validate(p, p.devices[d])
    /\ \A e \in DOMAIN p.endpoints : ~has_device(p, p.endpoints[e].device, "pwm_motor_mode")
=============================================================================
