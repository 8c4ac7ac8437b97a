------------------------------ MODULE RobotState ------------------------------
(***************************************************************************)
(* The operational state of the robot: robot_state_model's state machine   *)
(* under robot_state_service, which adds one inhibit slot per source, the  *)
(* gate epoch and a mutex.  The mutex is awaited forever and held for one  *)
(* operation, so that each operation is one step.  A task may keep a       *)
(* snapshot for any time and compare its epoch before it acts.             *)
(*                                                                         *)
(* Inhibit masks are sets.  The revision number and the name functions are *)
(* left out.                                                               *)
(***************************************************************************)
EXTENDS Naturals

CONSTANTS
    Sources,   \* robot_state_inhibit_source_t, with "BOOT"
    Reported,  \* the inhibits that the sources publish and report
    MaxEpoch   \* bound of gate_epoch, a 64-bit counter that never ends in practice

KnownInhibits == {
    "RC_INVALID", "DEADMAN_INACTIVE", "CONTROLLER_OFFLINE", "CONTROLLER_STALE",
    "MOTOR_FAULT", "ESTOP_ACTIVE", "PROFILE_INVALID", "AUTHORITY_MISSING",
    "AUTHORITY_LEASE_EXPIRED", "STOP_UNCONFIRMED", "MOTION_DETECTED", "PARTIAL_APPLY",
    "CONFIG_OUTCOME_UNKNOWN", "SELF_TEST_FAILED"}

ASSUME RobotStateAssumption ==
    /\ "BOOT" \in Sources
    /\ Reported \subseteq KnownInhibits
    /\ MaxEpoch \in Nat

ArmBlockers == KnownInhibits
MaintenanceTrips == {"MOTOR_FAULT", "ESTOP_ACTIVE", "MOTION_DETECTED", "PARTIAL_APPLY",
                     "CONFIG_OUTCOME_UNKNOWN"}
MaintenanceEntryBlockers == MaintenanceTrips \cup {"STOP_UNCONFIRMED", "SELF_TEST_FAILED"}
OtaTrips == {"MOTOR_FAULT", "ESTOP_ACTIVE", "MOTION_DETECTED"}
OtaEntryBlockers == MaintenanceEntryBlockers \cup {"CONTROLLER_OFFLINE", "CONTROLLER_STALE"}
FaultAckBlockers == OtaEntryBlockers \cup {"PROFILE_INVALID"}

OperationalState == {"BOOTING", "DISARMED", "ARMED", "FAULTED", "MAINTENANCE", "OTA"}

VARIABLES
    state, active_inhibits, latched_faults, \* robot_state_model_t
    source_inhibits, gate_epoch,            \* robot_state_service_t
    snapshot                                \* the snapshot a task holds

stateModel == <<state, active_inhibits, latched_faults>>
stateVars  == <<stateModel, source_inhibits, gate_epoch, snapshot>>

Snapshot == [state : OperationalState, active : SUBSET KnownInhibits,
             latched : SUBSET KnownInhibits, epoch : 0..MaxEpoch]

-----------------------------------------------------------------------------
\* Mutant: what a source publishes replaces what the others hold.
aggregate_inhibits_of_one(source, inhibits) == inhibits

\* The service's aggregate over the slots, with one of them replaced.
aggregate_inhibits(source, inhibits) ==
    UNION {IF s = source THEN inhibits ELSE source_inhibits[s] : s \in Sources}

trip_inhibits_for_state(st) ==
    CASE st = "ARMED"       -> ArmBlockers
      [] st = "MAINTENANCE" -> MaintenanceTrips
      [] st = "OTA"         -> OtaTrips
      [] OTHER              -> {}

\* complete_operation, for an operation whose actions stop the robot or revoke
\* its authority, or for a DISARM that changes nothing
invalidate_gate == gate_epoch < MaxEpoch /\ gate_epoch' = gate_epoch + 1
keep_gate == UNCHANGED gate_epoch

\* finish with EMERGENCY_STOP | REVOKE_AUTHORITY
Fault(causes) ==
    /\ state' = "FAULTED"
    /\ latched_faults' = latched_faults \cup causes
    /\ invalidate_gate

\* The model's own operations: boot_complete, set_inhibits and report_fault.
\* A fault may be reported at any time, also before boot_complete.
complete_boot(failures) ==
    LET causes == failures \cup (active_inhibits \cap {"SELF_TEST_FAILED"})
    IN  /\ state = "BOOTING"
        /\ IF causes = {}
           THEN state' = "DISARMED" /\ keep_gate /\ UNCHANGED <<active_inhibits, latched_faults>>
           ELSE Fault(causes) /\ active_inhibits' = active_inhibits \cup causes

set_inhibits(active) ==
    LET trips == active \cap trip_inhibits_for_state(state)
    IN  /\ active_inhibits' = active
        /\ IF trips = {} THEN keep_gate /\ UNCHANGED <<state, latched_faults>> ELSE Fault(trips)

add_fault(causes) ==
    /\ causes # {}
    /\ Fault(causes)
    /\ active_inhibits' = active_inhibits \cup causes

\* The service keeps the slot of the source that the operation came from: a
\* published mask replaces it, a failure or a fault is added to it.
boot_complete(failures) ==
    /\ complete_boot(failures)
    /\ source_inhibits' = [source_inhibits EXCEPT !["BOOT"] = @ \cup failures]
    /\ UNCHANGED snapshot

publish_inhibits(source, inhibits) ==
    /\ set_inhibits(aggregate_inhibits(source, inhibits))
    /\ source_inhibits' = [source_inhibits EXCEPT ![source] = inhibits]
    /\ UNCHANGED snapshot

report_fault(source, causes) ==
    /\ add_fault(causes)
    /\ source_inhibits' = [source_inhibits EXCEPT ![source] = @ \cup causes]
    /\ UNCHANGED snapshot

\* An exclusive state is entered from DISARMED, with nothing latched and none
\* of its blockers active.
may_enter(blockers) ==
    /\ state = "DISARMED" /\ latched_faults = {}
    /\ active_inhibits \cap blockers = {}

Become(st) ==
    /\ state' = st
    /\ UNCHANGED <<active_inhibits, latched_faults, source_inhibits, snapshot>>

\* The only transition with no action for the caller
request_arm == may_enter(ArmBlockers) /\ Become("ARMED") /\ keep_gate

\* Accepted while DISARMED as well, when it only moves the epoch
request_disarm == state \in {"ARMED", "DISARMED"} /\ Become("DISARMED") /\ invalidate_gate

request_maintenance ==
    may_enter(MaintenanceEntryBlockers) /\ Become("MAINTENANCE") /\ invalidate_gate

close_maintenance == state = "MAINTENANCE" /\ Become("DISARMED") /\ invalidate_gate

request_ota == may_enter(OtaEntryBlockers) /\ Become("OTA") /\ invalidate_gate

acknowledge_fault ==
    /\ state = "FAULTED"
    /\ active_inhibits \cap FaultAckBlockers = {}
    /\ state' = "DISARMED" /\ latched_faults' = {}
    /\ invalidate_gate
    /\ UNCHANGED <<active_inhibits, source_inhibits, snapshot>>

\* robot_state_service_get_snapshot
current == [state |-> state, active |-> active_inhibits,
            latched |-> latched_faults, epoch |-> gate_epoch]
get_snapshot == snapshot' = current /\ UNCHANGED <<stateModel, source_inhibits, gate_epoch>>

\* authorize with the state and the mask of motion
authorize_motion(m) ==
    m.state = "ARMED" /\ m.latched = {} /\ m.active \cap ArmBlockers = {}

-----------------------------------------------------------------------------
StateInit ==
    /\ state = "BOOTING" /\ active_inhibits = {} /\ latched_faults = {}
    /\ source_inhibits = [s \in Sources |-> {}]
    /\ gate_epoch = 0
    /\ snapshot = current

StateNext ==
    \/ \E failures \in SUBSET Reported : boot_complete(failures)
    \/ \E s \in Sources, mask \in SUBSET Reported :
           publish_inhibits(s, mask) \/ report_fault(s, mask)
    \/ request_arm \/ request_disarm
    \/ request_maintenance \/ close_maintenance \/ request_ota
    \/ acknowledge_fault
    \/ get_snapshot

StateSpec == StateInit /\ [][StateNext]_stateVars

-----------------------------------------------------------------------------
StateTypeOK ==
    /\ state \in OperationalState
    /\ active_inhibits \subseteq KnownInhibits /\ latched_faults \subseteq KnownInhibits
    /\ source_inhibits \in [Sources -> SUBSET KnownInhibits]
    /\ gate_epoch \in 0..MaxEpoch
    /\ snapshot \in Snapshot

\* The model's mask is what the sources say together, whichever of them
\* published, reported or failed at boot last: no source can lift another's
\* inhibit, and none stays that nobody holds (robot_state_service.c:91-223).
AggregateIsExact == active_inhibits = UNION {source_inhibits[s] : s \in Sources}

\* A state is never held against an inhibit that trips it, and it is FAULTED
\* exactly while a fault is latched (robot_state_model.c:117-366).
StateMatchesInhibits ==
    /\ active_inhibits \cap trip_inhibits_for_state(state) = {}
    /\ latched_faults # {} <=> state = "FAULTED"

\* A task that was authorised to move by an older snapshot is authorised still
\* if the epoch has not moved since (robot_state_service.c:12-14, 56-71).
GateFencesMotion ==
    snapshot.epoch = gate_epoch /\ authorize_motion(snapshot) => authorize_motion(current)

\* What the robot is allowed follows, at every step, from what its parts report,
\* and a permission given earlier is worth no more than the present one.
StateIsExact == AggregateIsExact /\ StateMatchesInhibits /\ GateFencesMotion
=============================================================================
