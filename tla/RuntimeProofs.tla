---------------------------- MODULE RuntimeProofs -----------------------------
(*****************************************************************************)
(* Proofs about the running system: RobotState, for every set of sources and *)
(* selection of inhibits; DriveObservation, for any number of drives and any *)
(* policy of ages and counts; RobotComposition, for every set of tables;     *)
(* OtaAutoCheck, for any intervals and back-off, and the four side by side;  *)
(* FirmwareUpdate, for any number of builds; WifiManager, for any networks   *)
(* and retries; and the two services together.                               *)
(*****************************************************************************)
EXTENDS MCRuntime, MCServices, TLAPS

(* ---------------------- what the robot is allowed ----------------------- *)

\* What one source says is part of what all say together.
LEMMA TypedAggregate ==
    ASSUME StateTypeOK, NEW source, NEW mask \in SUBSET KnownInhibits
    PROVE  aggregate_inhibits(source, mask) \subseteq KnownInhibits
  BY DEF aggregate_inhibits, StateTypeOK

\* A reported mask holds known inhibits only.
LEMMA ReportedIsKnown == ASSUME NEW mask \in SUBSET Reported PROVE mask \subseteq KnownInhibits
  BY RobotStateAssumption

\* Publishing replaces the slot that the aggregate was computed with.
LEMMA AggregateOfPublished ==
    ASSUME StateTypeOK, NEW source \in Sources, NEW mask
    PROVE  aggregate_inhibits(source, mask) =
             UNION {[source_inhibits EXCEPT ![source] = mask][s] : s \in Sources}
  <1>1. \A s \in Sources : [source_inhibits EXCEPT ![source] = mask][s] =
                             IF s = source THEN mask ELSE source_inhibits[s]
    BY DEF StateTypeOK
  <1> QED BY <1>1 DEF aggregate_inhibits

\* Adding causes to one slot and to the model's mask keeps them equal.
LEMMA UnionOfReported ==
    ASSUME StateTypeOK, AggregateIsExact, NEW source \in Sources, NEW mask,
           source_inhibits' = [source_inhibits EXCEPT ![source] = @ \cup mask],
           active_inhibits' = active_inhibits \cup mask
    PROVE  AggregateIsExact'
  <1>1. \A s \in Sources : source_inhibits'[s] =
                             IF s = source THEN source_inhibits[s] \cup mask ELSE source_inhibits[s]
    BY DEF StateTypeOK
  <1>2. \A x : x \in active_inhibits' <=> \E s \in Sources : x \in source_inhibits'[s]
    <2>1. \A x : x \in active_inhibits <=> \E s \in Sources : x \in source_inhibits[s]
      BY DEF AggregateIsExact
    <2> QED BY <2>1, <1>1
  <1> QED BY <1>2 DEF AggregateIsExact

\* The inductive invariant: the snapshot is never from a later epoch.
SnapshotIsPast == snapshot.epoch <= gate_epoch

StateInv ==
    /\ StateTypeOK
    /\ AggregateIsExact
    /\ StateMatchesInhibits
    /\ GateFencesMotion
    /\ SnapshotIsPast

\* current is a snapshot.
LEMMA CurrentType == StateTypeOK => current \in Snapshot
  BY DEF StateTypeOK, current, Snapshot

\* The initial state satisfies the inductive invariant.
LEMMA StateInitInv == StateInit => StateInv
  <1> SUFFICES ASSUME StateInit PROVE StateInv
    OBVIOUS
  <1>1. StateTypeOK
    BY RobotStateAssumption DEF StateInit, StateTypeOK, Snapshot, OperationalState, current
  <1>2. AggregateIsExact
    BY DEF StateInit, AggregateIsExact
  <1>3. StateMatchesInhibits
    BY DEF StateInit, StateMatchesInhibits, trip_inhibits_for_state
  <1>4. GateFencesMotion /\ SnapshotIsPast
    BY DEF StateInit, GateFencesMotion, SnapshotIsPast, current, authorize_motion
  <1> QED BY <1>1, <1>2, <1>3, <1>4 DEF StateInv

\* A step that raises the epoch and keeps the snapshot leaves it behind.
LEMMA RaisedGate ==
    ASSUME StateTypeOK, SnapshotIsPast, invalidate_gate, UNCHANGED snapshot
    PROVE  GateFencesMotion' /\ SnapshotIsPast' /\ gate_epoch' \in 0..MaxEpoch
  <1>1. /\ snapshot.epoch \in Nat /\ gate_epoch \in Nat /\ gate_epoch < MaxEpoch
        /\ gate_epoch' = gate_epoch + 1 /\ snapshot' = snapshot
    BY RobotStateAssumption DEF StateTypeOK, Snapshot, invalidate_gate
  <1>2. snapshot'.epoch < gate_epoch'
    BY <1>1 DEF SnapshotIsPast
  <1>3. gate_epoch' \in 0..MaxEpoch
    BY <1>1, RobotStateAssumption
  <1>4. snapshot'.epoch # gate_epoch' /\ snapshot'.epoch <= gate_epoch'
    BY <1>1, <1>2
  <1> QED BY <1>3, <1>4 DEF GateFencesMotion, SnapshotIsPast

\* boot_complete, with and without a failure
LEMMA BootStep ==
    ASSUME StateInv, NEW found \in SUBSET Reported, boot_complete(found)
    PROVE  StateInv'
  <1> DEFINE causes == found \cup (active_inhibits \cap {"SELF_TEST_FAILED"})
  <1>1. found \subseteq KnownInhibits /\ causes \subseteq KnownInhibits
    BY ReportedIsKnown DEF StateInv, StateTypeOK
  <1>2. source_inhibits' \in [Sources -> SUBSET KnownInhibits]
    BY <1>1, RobotStateAssumption DEF boot_complete, complete_boot, StateInv, StateTypeOK
  <1>3. CASE causes = {}
    <2>1. /\ state' = "DISARMED" /\ found = {}
          /\ UNCHANGED <<active_inhibits, latched_faults, gate_epoch, snapshot>>
      BY <1>3 DEF boot_complete, complete_boot, keep_gate
    <2>2. StateTypeOK'
      BY <2>1, <1>2 DEF StateInv, StateTypeOK, OperationalState
    <2>0. "BOOT" \in Sources
      BY RobotStateAssumption
    <2>6. /\ source_inhibits' = [source_inhibits EXCEPT !["BOOT"] = @ \cup found]
          /\ active_inhibits' = active_inhibits \cup found
      BY <2>1 DEF boot_complete, complete_boot
    <2>3. AggregateIsExact'
      BY <2>0, <2>1, <2>6, UnionOfReported DEF StateInv
    <2>4. StateMatchesInhibits'
      BY <2>1 DEF boot_complete, complete_boot, StateInv, StateMatchesInhibits,
                  trip_inhibits_for_state
    <2>5. GateFencesMotion' /\ SnapshotIsPast'
      BY <2>1 DEF boot_complete, complete_boot, StateInv, GateFencesMotion, SnapshotIsPast,
                  authorize_motion, current
    <2> QED BY <2>2, <2>3, <2>4, <2>5 DEF StateInv
  <1>4. CASE causes # {}
    <2>1. /\ state' = "FAULTED" /\ latched_faults' = latched_faults \cup causes
          /\ active_inhibits' = active_inhibits \cup causes
          /\ invalidate_gate /\ UNCHANGED snapshot
      BY <1>4 DEF boot_complete, complete_boot, Fault
    <2>2. GateFencesMotion' /\ SnapshotIsPast' /\ gate_epoch' \in 0..MaxEpoch
      BY <2>1, RaisedGate DEF StateInv
    <2>3. StateTypeOK'
      BY <2>1, <2>2, <1>1, <1>2 DEF StateInv, StateTypeOK, OperationalState
    <2>0. "BOOT" \in Sources
      BY RobotStateAssumption
    <2>4. /\ source_inhibits' = [source_inhibits EXCEPT !["BOOT"] = @ \cup found]
          /\ active_inhibits' = active_inhibits \cup found
      BY <2>1 DEF boot_complete, complete_boot
    <2>5. AggregateIsExact'
      BY <2>0, <2>4, UnionOfReported DEF StateInv
    <2>6. StateMatchesInhibits'
      BY <2>1, <1>4 DEF StateMatchesInhibits, trip_inhibits_for_state
    <2> QED BY <2>2, <2>3, <2>5, <2>6 DEF StateInv
  <1> QED BY <1>3, <1>4

\* publish_inhibits: the new aggregate trips the state or leaves it.
LEMMA PublishStep ==
    ASSUME StateInv, NEW source \in Sources, NEW mask \in SUBSET Reported,
           publish_inhibits(source, mask)
    PROVE  StateInv'
  <1> DEFINE active == aggregate_inhibits(source, mask)
             trips  == active \cap trip_inhibits_for_state(state)
  <1>1. mask \subseteq KnownInhibits /\ active \subseteq KnownInhibits
    BY ReportedIsKnown, TypedAggregate DEF StateInv
  <1>2. /\ active_inhibits' = active
        /\ source_inhibits' = [source_inhibits EXCEPT ![source] = mask]
        /\ UNCHANGED snapshot
    BY DEF publish_inhibits, set_inhibits
  <1>3. source_inhibits' \in [Sources -> SUBSET KnownInhibits]
    BY <1>1, <1>2 DEF StateInv, StateTypeOK
  <1>4. AggregateIsExact'
    BY <1>2, AggregateOfPublished DEF StateInv, AggregateIsExact
  <1>5. CASE trips = {}
    <2>1. UNCHANGED <<state, latched_faults, gate_epoch>>
      BY <1>5 DEF publish_inhibits, set_inhibits, keep_gate
    <2>2. StateTypeOK'
      BY <2>1, <1>1, <1>2, <1>3 DEF StateInv, StateTypeOK
    <2>3. StateMatchesInhibits'
      BY <2>1, <1>2, <1>5 DEF StateInv, StateMatchesInhibits, trip_inhibits_for_state
    <2>4. state = "ARMED" => active \cap ArmBlockers = {}
      BY <1>5 DEF trip_inhibits_for_state
    <2>5. authorize_motion(current) => authorize_motion(current)'
      BY <2>1, <2>4, <1>2 DEF authorize_motion, current
    <2>6. GateFencesMotion' /\ SnapshotIsPast'
      BY <2>1, <2>5, <1>2 DEF StateInv, GateFencesMotion, SnapshotIsPast, authorize_motion
    <2> QED BY <2>2, <2>3, <2>6, <1>4 DEF StateInv
  <1>6. CASE trips # {}
    <2> HIDE DEF active
    <2>1. state' = "FAULTED" /\ latched_faults' = latched_faults \cup trips /\ invalidate_gate
      BY <1>6 DEF publish_inhibits, set_inhibits, Fault, active
    <2>2. GateFencesMotion' /\ SnapshotIsPast' /\ gate_epoch' \in 0..MaxEpoch
      BY <2>1, <1>2, RaisedGate DEF StateInv
    <2>3. StateTypeOK'
      BY <2>1, <2>2, <1>1, <1>2, <1>3 DEF StateInv, StateTypeOK, OperationalState
    <2>4. StateMatchesInhibits'
      BY <2>1, <1>6 DEF StateMatchesInhibits, trip_inhibits_for_state
    <2> QED BY <2>2, <2>3, <2>4, <1>4 DEF StateInv
  <1> QED BY <1>5, <1>6

\* report_fault: always a fault
LEMMA ReportStep ==
    ASSUME StateInv, NEW source \in Sources, NEW causes \in SUBSET Reported,
           report_fault(source, causes)
    PROVE  StateInv'
  <1>1. /\ causes # {} /\ state' = "FAULTED" /\ latched_faults' = latched_faults \cup causes
        /\ active_inhibits' = active_inhibits \cup causes
        /\ source_inhibits' = [source_inhibits EXCEPT ![source] = @ \cup causes]
        /\ invalidate_gate /\ UNCHANGED snapshot
    BY DEF report_fault, add_fault, Fault
  <1>2. GateFencesMotion' /\ SnapshotIsPast' /\ gate_epoch' \in 0..MaxEpoch
    BY <1>1, RaisedGate DEF StateInv
  <1>3. source_inhibits' \in [Sources -> SUBSET KnownInhibits]
    BY <1>1, ReportedIsKnown DEF StateInv, StateTypeOK
  <1>4. StateTypeOK'
    BY <1>1, <1>2, <1>3, ReportedIsKnown DEF StateInv, StateTypeOK, OperationalState
  <1>5. AggregateIsExact'
    BY <1>1, UnionOfReported DEF StateInv
  <1>6. StateMatchesInhibits'
    BY <1>1 DEF StateMatchesInhibits, trip_inhibits_for_state
  <1> QED BY <1>2, <1>4, <1>5, <1>6 DEF StateInv

\* request_arm: the only transition that authorises motion
LEMMA ArmStep == ASSUME StateInv, request_arm PROVE StateInv'
  <1>1. /\ state' = "ARMED" /\ latched_faults = {} /\ active_inhibits \cap ArmBlockers = {}
        /\ UNCHANGED <<active_inhibits, latched_faults, source_inhibits, gate_epoch, snapshot>>
    BY DEF request_arm, may_enter, Become, keep_gate
  <1>2. StateTypeOK' /\ AggregateIsExact'
    BY <1>1 DEF StateInv, StateTypeOK, AggregateIsExact, OperationalState
  <1>3. StateMatchesInhibits'
    BY <1>1 DEF StateInv, StateMatchesInhibits, trip_inhibits_for_state, request_arm, may_enter
  <1>4. GateFencesMotion' /\ SnapshotIsPast'
    BY <1>1 DEF StateInv, GateFencesMotion, SnapshotIsPast, authorize_motion, current,
                request_arm, may_enter
  <1> QED BY <1>2, <1>3, <1>4 DEF StateInv

\* A transition that asks for a stop, to a state that nothing active trips
LEMMA StoppingStep ==
    ASSUME StateInv, NEW st \in OperationalState \ {"FAULTED"},
           state' = st, latched_faults' = {}, invalidate_gate,
           UNCHANGED <<active_inhibits, source_inhibits, snapshot>>,
           active_inhibits \cap trip_inhibits_for_state(st) = {}
    PROVE  StateInv'
  <1>1. GateFencesMotion' /\ SnapshotIsPast' /\ gate_epoch' \in 0..MaxEpoch
    BY RaisedGate DEF StateInv
  <1>2. StateTypeOK' /\ AggregateIsExact'
    BY <1>1 DEF StateInv, StateTypeOK, AggregateIsExact
  <1>3. StateMatchesInhibits'
    BY DEF StateMatchesInhibits, trip_inhibits_for_state
  <1> QED BY <1>1, <1>2, <1>3 DEF StateInv

\* A request to disarm keeps the invariant,
LEMMA DisarmStep == ASSUME StateInv, request_disarm PROVE StateInv'
  <1>1. latched_faults = {}
    BY DEF StateInv, StateMatchesInhibits, request_disarm
  <1> QED
    BY <1>1, StoppingStep
       DEF request_disarm, Become, trip_inhibits_for_state, OperationalState

\* as do one for maintenance,
LEMMA MaintenanceStep == ASSUME StateInv, request_maintenance PROVE StateInv'
  <1>1. active_inhibits \cap trip_inhibits_for_state("MAINTENANCE") = {}
    BY DEF request_maintenance, may_enter, trip_inhibits_for_state, MaintenanceEntryBlockers
  <1> QED
    BY <1>1, StoppingStep DEF request_maintenance, may_enter, Become, OperationalState

\* its end,
LEMMA CloseMaintenanceStep == ASSUME StateInv, close_maintenance PROVE StateInv'
  <1>1. latched_faults = {}
    BY DEF StateInv, StateMatchesInhibits, close_maintenance
  <1> QED
    BY <1>1, StoppingStep
       DEF close_maintenance, Become, trip_inhibits_for_state, OperationalState

\* one for an update,
LEMMA OtaStep == ASSUME StateInv, request_ota PROVE StateInv'
  <1>1. active_inhibits \cap trip_inhibits_for_state("OTA") = {}
    BY DEF request_ota, may_enter, trip_inhibits_for_state, OtaTrips, OtaEntryBlockers,
           MaintenanceEntryBlockers, MaintenanceTrips
  <1> QED
    BY <1>1, StoppingStep DEF request_ota, may_enter, Become, OperationalState

\* the acknowledgement of a fault,
LEMMA AcknowledgeStep == ASSUME StateInv, acknowledge_fault PROVE StateInv'
  BY StoppingStep DEF acknowledge_fault, trip_inhibits_for_state, OperationalState

\* and the taking of a snapshot.
LEMMA SnapshotStep == ASSUME StateInv, get_snapshot PROVE StateInv'
  <1>1. /\ snapshot' = current /\ current' = current
        /\ UNCHANGED <<stateModel, source_inhibits, gate_epoch>>
    BY DEF get_snapshot, current, stateModel
  <1>2. StateTypeOK'
    BY <1>1, CurrentType DEF StateInv, StateTypeOK, stateModel
  <1>3. AggregateIsExact' /\ StateMatchesInhibits'
    BY <1>1 DEF StateInv, AggregateIsExact, StateMatchesInhibits, stateModel
  <1>4. GateFencesMotion'
    BY <1>1 DEF GateFencesMotion, authorize_motion
  <1>5. SnapshotIsPast'
    BY <1>1, RobotStateAssumption DEF SnapshotIsPast, current, StateInv, StateTypeOK
  <1> QED BY <1>2, <1>3, <1>4, <1>5 DEF StateInv

\* A step that changes nothing keeps it,
LEMMA StutterStep == ASSUME StateInv, UNCHANGED stateVars PROVE StateInv'
  BY DEF StateInv, stateVars, stateModel, StateTypeOK, AggregateIsExact, StateMatchesInhibits,
         GateFencesMotion, SnapshotIsPast, current, authorize_motion

\* and so does every step.
LEMMA StateNextInv == StateInv /\ [StateNext]_stateVars => StateInv'
  <1> SUFFICES ASSUME StateInv, [StateNext]_stateVars PROVE StateInv'
    OBVIOUS
  <1>1. CASE \E found \in SUBSET Reported : boot_complete(found)
    BY <1>1, BootStep
  <1>2. CASE \E s \in Sources, mask \in SUBSET Reported : publish_inhibits(s, mask)
    BY <1>2, PublishStep
  <1>3. CASE \E s \in Sources, mask \in SUBSET Reported : report_fault(s, mask)
    BY <1>3, ReportStep
  <1>4. CASE request_arm BY <1>4, ArmStep
  <1>5. CASE request_disarm BY <1>5, DisarmStep
  <1>6. CASE request_maintenance BY <1>6, MaintenanceStep
  <1>7. CASE close_maintenance BY <1>7, CloseMaintenanceStep
  <1>8. CASE request_ota BY <1>8, OtaStep
  <1>9. CASE acknowledge_fault BY <1>9, AcknowledgeStep
  <1>10. CASE get_snapshot BY <1>10, SnapshotStep
  <1>11. CASE UNCHANGED stateVars BY <1>11, StutterStep
  <1> QED
    BY <1>1, <1>2, <1>3, <1>4, <1>5, <1>6, <1>7, <1>8, <1>9, <1>10, <1>11 DEF StateNext

\* The inductive invariant holds in every reachable state.
THEOREM StateInvariance == StateSpec => []StateInv
  BY StateInitInv, StateNextInv, PTL DEF StateSpec

\* The service keeps its types, whatever the sources report and the owner asks.
THEOREM StateTypeCorrect == StateSpec => []StateTypeOK
  <1>1. StateInv => StateTypeOK BY DEF StateInv
  <1> QED BY <1>1, StateInvariance, PTL

\* What the robot is allowed follows from what its parts report: the mask it is
\* judged by is the union of what the sources hold (publish, report_fault and
\* boot_complete of robot_state_service), no state is held against an inhibit
\* that trips it and FAULTED is exactly the state with a latched fault
\* (robot_state_model), and an unmoved gate epoch proves that an old
\* authorisation to move still stands (complete_operation).
THEOREM StateAlwaysExact == StateSpec => []StateIsExact
  <1>1. StateInv => StateIsExact BY DEF StateInv, StateIsExact
  <1> QED BY <1>1, StateInvariance, PTL

(* ----------------------- the links of the drives ------------------------ *)

\* The bad states, in terms of the model's fields.
LEMMA BadState ==
    ASSUME NEW m \in Model
    PROVE  state_at(m) \in Bad <=>
             /\ m.has_last_good
             /\ \/ m.age > StaleAge
                \/ ~m.recovery_pending /\ m.consecutive_failures >= DegradedFailures
  BY PolicyAssumption DEF Model, Bad, state_at

\* A healthy link is not bad and has no recovery pending.
LEMMA HealthyState ==
    ASSUME NEW m \in Model, state_at(m) = "HEALTHY"
    PROVE  state_at(m) \notin Bad /\ ~m.recovery_pending
  BY PolicyAssumption DEF Model, Bad, state_at

\* The link m, with g complete polls since it was last bad, is bad still or
\* waits for the confirmation, unless g is enough.
Confirmed(m, g) ==
    g < RecoveryGoods =>
        state_at(m) \in Bad \/ (m.recovery_pending /\ m.consecutive_good <= g)

\* The polls that count after m was seen at the end of some time.
Counted(m, g) == IF state_at(m) \in Bad THEN 0 ELSE g

\* Time keeps a model's type, and makes no bad link better.
LEMMA AgedModel ==
    ASSUME NEW m \in Model, NEW t \in Nat
    PROVE  /\ aged(m, t) \in Model
           /\ state_at(m) \in Bad => state_at(aged(m, t)) \in Bad
           /\ aged(m, t).recovery_pending = m.recovery_pending
           /\ aged(m, t).consecutive_good = m.consecutive_good
  <1> DEFINE age == IF m.has_last_good THEN lower(m.age + t, OfflineAge + 1) ELSE 0
  <1>1. m.age \in 0..OfflineAge + 1 /\ OfflineAge \in Nat /\ m.age \in Nat
    BY PolicyAssumption DEF Model
  <1>2. age \in 0..OfflineAge + 1 /\ (m.has_last_good => age >= m.age)
    BY <1>1 DEF lower
  <1>3. aged(m, t) = [m EXCEPT !.age = age]
    BY DEF aged
  <1> HIDE DEF age
  <1>4. aged(m, t) \in Model
    BY <1>2, <1>3 DEF Model
  <1>5. /\ aged(m, t).age = age
        /\ aged(m, t).has_last_good = m.has_last_good
        /\ aged(m, t).recovery_pending = m.recovery_pending
        /\ aged(m, t).consecutive_good = m.consecutive_good
        /\ aged(m, t).consecutive_failures = m.consecutive_failures
    BY <1>3 DEF Model
  <1>6. state_at(m) \in Bad => state_at(aged(m, t)) \in Bad
    <2>1. StaleAge \in Nat /\ age \in Nat
      BY <1>1, <1>2, PolicyAssumption
    <2>2. state_at(m) \in Bad => m.has_last_good
      BY BadState
    <2>3. m.has_last_good /\ m.age > StaleAge => age > StaleAge
      BY <1>1, <1>2, <2>1
    <2> QED BY <1>4, <1>5, <2>2, <2>3, BadState
  <1> QED BY <1>4, <1>5, <1>6

\* Growing older keeps a link and the count of its good polls confirmed; a relapse starts the count again.
LEMMA AgedLink ==
    ASSUME NEW m \in Model, NEW t \in Nat, NEW g \in 0..RecoveryGoods, Confirmed(m, g)
    PROVE  /\ Counted(aged(m, t), g) \in 0..RecoveryGoods
           /\ Confirmed(aged(m, t), Counted(aged(m, t), g))
           /\ state_at(aged(m, t)) \in Bad => Counted(aged(m, t), g) = 0
  BY AgedModel, PolicyAssumption DEF Confirmed, Counted

\* A complete poll counts towards the confirmation, from one after a relapse.
LEMMA GoodPoll ==
    ASSUME NEW m \in Model, NEW g \in 0..RecoveryGoods, Confirmed(m, g),
           state_at(m) \in Bad => g = 0
    PROVE  /\ record_good(m) \in Model
           /\ lower(g + 1, RecoveryGoods) \in 0..RecoveryGoods
           /\ Confirmed(record_good(m), lower(g + 1, RecoveryGoods))
  <1> DEFINE relapsed == state_at(m) \in Bad
             pending == m.recovery_pending \/ relapsed
             good == lower((IF relapsed THEN 0 ELSE m.consecutive_good) + 1, RecoveryGoods)
  <1>1. record_good(m) = [has_last_good |-> TRUE, age |-> 0, consecutive_failures |-> 0,
                          consecutive_good |-> good,
                          recovery_pending |-> pending /\ good < RecoveryGoods]
    BY DEF record_good, Bad
  <1>2. /\ RecoveryGoods \in Nat \ {0} /\ OfflineAge \in Nat /\ DegradedFailures \in Nat
        /\ m.consecutive_good \in 0..RecoveryGoods /\ m.recovery_pending \in BOOLEAN
    BY PolicyAssumption DEF Model
  <1>3. good \in 0..RecoveryGoods
    BY <1>2 DEF lower
  <1>4. g < RecoveryGoods /\ ~relapsed => m.recovery_pending /\ m.consecutive_good <= g
    BY DEF Confirmed
  <1>5. ASSUME lower(g + 1, RecoveryGoods) < RecoveryGoods
        PROVE  pending /\ good < RecoveryGoods /\ good <= lower(g + 1, RecoveryGoods)
    <2>1. g + 1 < RecoveryGoods /\ lower(g + 1, RecoveryGoods) = g + 1
      BY <1>2, <1>5 DEF lower
    <2>2. CASE relapsed
      BY <2>1, <2>2, <1>2 DEF lower
    <2>3. CASE ~relapsed
      BY <2>1, <2>3, <1>2, <1>4 DEF lower
    <2> QED BY <2>2, <2>3
  <1> HIDE DEF good, pending
  <1>6. record_good(m) \in Model
    <2>1. (pending /\ good < RecoveryGoods) \in BOOLEAN
      OBVIOUS
    <2> QED BY <1>1, <1>2, <1>3, <2>1 DEF Model
  <1>7. /\ record_good(m).recovery_pending = (pending /\ good < RecoveryGoods)
        /\ record_good(m).consecutive_good = good
    BY <1>1
  <1>8. lower(g + 1, RecoveryGoods) \in 0..RecoveryGoods
    BY <1>2 DEF lower
  <1>9. Confirmed(record_good(m), lower(g + 1, RecoveryGoods))
    BY <1>5, <1>7 DEF Confirmed
  <1> QED BY <1>6, <1>8, <1>9

\* After a failed poll the complete polls begin anew unless the link is good still.
AfterFailure(m, g) == IF g < RecoveryGoods \/ state_at(record_failure(m)) \in Bad THEN 0 ELSE g

\* A failed poll keeps them confirmed.
LEMMA FailedPoll ==
    ASSUME NEW m \in Model, NEW g \in 0..RecoveryGoods, Confirmed(m, g)
    PROVE  /\ record_failure(m) \in Model
           /\ AfterFailure(m, g) \in 0..RecoveryGoods
           /\ Confirmed(record_failure(m), AfterFailure(m, g))
  <1> DEFINE n == lower(m.consecutive_failures + 1, DegradedFailures)
             f == record_failure(m)
  <1>1. /\ RecoveryGoods \in Nat \ {0} /\ DegradedFailures \in Nat /\ StaleAge \in Nat
        /\ m.consecutive_failures \in 0..DegradedFailures
    BY PolicyAssumption DEF Model
  <1>2. n \in 0..DegradedFailures /\ n >= m.consecutive_failures
    BY <1>1 DEF lower
  <1>3. f = [m EXCEPT !.consecutive_good = 0, !.consecutive_failures = n]
    BY DEF record_failure
  <1> HIDE DEF n
  <1>4. f \in Model
    <2>1. 0 \in 0..RecoveryGoods
      BY <1>1
    <2> HIDE DEF f
    <2> QED BY <1>2, <1>3, <2>1 DEF Model
  <1>5. /\ f.has_last_good = m.has_last_good /\ f.age = m.age
        /\ f.recovery_pending = m.recovery_pending
        /\ f.consecutive_good = 0 /\ f.consecutive_failures = n
    BY <1>3 DEF Model
  <1> HIDE DEF f
  <1>6. state_at(m) \in Bad => state_at(f) \in Bad
    <2>1. m.consecutive_failures >= DegradedFailures => n >= DegradedFailures
      BY <1>1, <1>2
    <2> QED BY <1>4, <1>5, <2>1, BadState
  <1>7. Confirmed(f, AfterFailure(m, g))
    <2>1. CASE state_at(f) \in Bad
      BY <2>1 DEF Confirmed
    <2>2. CASE state_at(f) \notin Bad /\ g < RecoveryGoods
      <3>1. m.recovery_pending
        BY <2>2, <1>6 DEF Confirmed
      <3> QED BY <3>1, <2>2, <1>5 DEF Confirmed, AfterFailure, f
    <2>3. CASE state_at(f) \notin Bad /\ ~(g < RecoveryGoods)
      BY <2>3 DEF Confirmed, AfterFailure, f
    <2> QED BY <2>1, <2>2, <2>3
  <1> QED BY <1>1, <1>4, <1>7 DEF AfterFailure, f

-----------------------------------------------------------------------------
\* The inductive invariant: beside the types, what the counter of complete
\* polls says of a link that is not trusted yet.
LinksAreConfirmed == \A d \in Drive : Confirmed(quality[d], goods_since[d])

DriveInv == DriveTypeOK /\ LinksAreConfirmed

\* The initial state satisfies the inductive invariant.
LEMMA DriveInitInv == DriveInit => DriveInv
  <1> SUFFICES ASSUME DriveInit PROVE DriveInv
    OBVIOUS
  <1>1. /\ RecoveryGoods \in Nat /\ OfflineAge \in Nat /\ DegradedFailures \in Nat
        /\ SlowDivider \in Nat \ {0} /\ Drives \in Nat \ {0}
    BY PolicyAssumption, PollingAssumption
  <1>2. communication_quality_model_init \in Model
    BY <1>1 DEF communication_quality_model_init, Model
  <1>3. DriveTypeOK
    BY <1>1, <1>2 DEF DriveInit, DriveTypeOK, SlowReads
  <1>4. LinksAreConfirmed
    BY <1>1 DEF DriveInit, LinksAreConfirmed, Confirmed
  <1> QED BY <1>3, <1>4 DEF DriveInv

\* When time passes every link's count follows its state.
LEMMA TimePasses ==
    ASSUME DriveInv, NEW t \in Nat, NEW d \in Drive
    PROVE  /\ later(t)[d] = aged(quality[d], t) /\ later(t)[d] \in Model
           /\ Unspoilt(t)[d] = Counted(aged(quality[d], t), goods_since[d])
           /\ Unspoilt(t)[d] \in 0..RecoveryGoods
           /\ Confirmed(later(t)[d], Unspoilt(t)[d])
           /\ state_at(later(t)[d]) \in Bad => Unspoilt(t)[d] = 0
           /\ sooner(t)[d] \in Nat
  <1>1. /\ quality[d] \in Model /\ goods_since[d] \in 0..RecoveryGoods /\ next_poll[d] \in Nat
        /\ Confirmed(quality[d], goods_since[d])
    BY DEF DriveInv, DriveTypeOK, LinksAreConfirmed
  <1>2. /\ later(t)[d] = aged(quality[d], t)
        /\ Unspoilt(t)[d] = Counted(aged(quality[d], t), goods_since[d])
    BY DEF later, Unspoilt, Counted
  <1>3. sooner(t)[d] \in Nat
    BY <1>1 DEF sooner
  <1> QED BY <1>1, <1>2, <1>3, AgedModel, AgedLink

\* The back-off after up to four failures is a number.
LEMMA DelayType == ASSUME NEW n \in 0..4 PROVE delay_after(n) \in Nat
  <1>1. Period \in Nat /\ BackoffBase \in Nat /\ BackoffMax \in Nat
    BY PollingAssumption
  <1>2. CASE n = 0
    BY <1>1, <1>2 DEF delay_after
  <1>3. CASE n \in 1..4
    <2> DEFINE factor == CASE n = 1 -> 1 [] n = 2 -> 2 [] n = 3 -> 4 [] n > 3 -> 8
    <2>1. factor \in 1..8
      BY <1>3
    <2> HIDE DEF factor
    <2>2. BackoffBase * factor \in Nat
      BY <1>1, <2>1
    <2>3. failure_backoff(n) = lower(BackoffBase * factor, BackoffMax)
      BY DEF failure_backoff, factor
    <2>4. failure_backoff(n) \in Nat
      BY <1>1, <2>2, <2>3 DEF lower
    <2> QED BY <1>1, <2>4 DEF delay_after
  <1> QED BY <1>2, <1>3

\* A poll, complete, partial or failed, keeps the invariant.
LEMMA PollStep ==
    ASSUME DriveInv, NEW p \in 0..PrimaryReads, NEW s \in 0..SlowReads, Poll(p, s)
    PROVE  DriveInv'
  <1> DEFINE t == poll_time(p, s)
             n == IF p + s = 0 THEN 0 ELSE lower(service_failures[cursor] + 1, 4)
             was == later(t)[cursor]
             g == Unspoilt(t)[cursor]
             now == finish_poll(was, p)
             good_count == CASE p = 0 -> lower(g + 1, RecoveryGoods)
                          [] p > 0 -> IF g < RecoveryGoods \/ state_at(now) \in Bad THEN 0 ELSE g
  <1>1. /\ cursor \in Drive /\ t \in Nat /\ p \in Nat /\ s \in 0..SlowReads
        /\ Drives \in Nat \ {0} /\ RecoveryGoods \in Nat \ {0} /\ SlowDivider \in Nat \ {0}
    BY PolicyAssumption, PollingAssumption DEF Poll, poll_time, PrimaryReads, SlowReads
  <1>2. /\ was \in Model /\ g \in 0..RecoveryGoods /\ Confirmed(was, g)
        /\ state_at(was) \in Bad => g = 0
    BY <1>1, TimePasses
  <1>3. /\ quality' = [later(t) EXCEPT ![cursor] = now]
        /\ lag' = [lag EXCEPT ![cursor] = IF p = 0 THEN s ELSE @]
        /\ service_failures' = [service_failures EXCEPT ![cursor] = n]
        /\ next_poll' = [sooner(t) EXCEPT ![cursor] = delay_after(n)]
        /\ poll_count' = [poll_count EXCEPT ![cursor] = (@ + 1) % SlowDivider]
        /\ cursor' = cursor + 1 /\ answers' = answers
    BY DEF Poll
  <1>4. quality'[cursor] = now
    BY <1>1, <1>3 DEF later
  <1>5. goods_since' = [Unspoilt(t) EXCEPT ![cursor] = good_count]
    BY <1>1, <1>4 DEF Poll, Unspoilt
  <1> HIDE DEF t
  <1>6. now \in Model /\ good_count \in 0..RecoveryGoods /\ Confirmed(now, good_count)
    <2>1. CASE p = 0
      <3>1. now = record_good(was) /\ good_count = lower(g + 1, RecoveryGoods)
        BY <2>1 DEF finish_poll
      <3> HIDE DEF was, g, now, good_count
      <3> QED BY <1>2, <3>1, GoodPoll
    <2>2. CASE p > 0
      <3>1. now = record_failure(was)
        BY <2>2 DEF finish_poll
      <3>2. good_count = AfterFailure(was, g)
        BY <2>2, <3>1 DEF AfterFailure
      <3> HIDE DEF was, g, now, good_count
      <3> QED BY <1>2, <3>1, <3>2, FailedPoll
    <2> QED BY <1>1, <2>1, <2>2
  <1>7. n \in 0..4
    <2>1. service_failures[cursor] \in 0..4
      BY <1>1 DEF DriveInv, DriveTypeOK
    <2> QED BY <2>1 DEF lower
  <1> HIDE DEF n, now, good_count, was, g
  <1>8. \A d \in Drive : /\ quality'[d] \in Model /\ goods_since'[d] \in 0..RecoveryGoods
                         /\ Confirmed(quality'[d], goods_since'[d])
                         /\ next_poll'[d] \in Nat
    <2> SUFFICES ASSUME NEW d \in Drive
                 PROVE  /\ quality'[d] \in Model /\ goods_since'[d] \in 0..RecoveryGoods
                        /\ Confirmed(quality'[d], goods_since'[d])
                        /\ next_poll'[d] \in Nat
      OBVIOUS
    <2>1. CASE d = cursor
      BY <1>1, <1>3, <1>5, <1>6, <1>7, <2>1, DelayType DEF later, sooner, Unspoilt
    <2>2. CASE d # cursor
      <3>1. /\ quality'[d] = later(t)[d] /\ goods_since'[d] = Unspoilt(t)[d]
            /\ next_poll'[d] = sooner(t)[d]
        BY <1>1, <1>3, <1>5, <2>2 DEF later, sooner, Unspoilt
      <3> QED BY <1>1, <3>1, TimePasses
    <2> QED BY <2>1, <2>2
  <1>9. /\ lag' \in [Drive -> 0..SlowReads] /\ answers' \in [Drive -> BOOLEAN]
        /\ service_failures' \in [Drive -> 0..4]
    BY <1>1, <1>3, <1>7 DEF DriveInv, DriveTypeOK
  <1>10. poll_count' \in [Drive -> 0..SlowDivider - 1] /\ cursor' \in 1..Drives + 1
    <2>1. poll_count[cursor] \in Nat
      BY <1>1 DEF DriveInv, DriveTypeOK
    <2>2. (poll_count[cursor] + 1) % SlowDivider \in 0..SlowDivider - 1
      BY <1>1, <2>1
    <2>3. cursor + 1 \in 1..Drives + 1
      BY <1>1 DEF Drive
    <2> QED BY <1>1, <1>3, <2>2, <2>3 DEF DriveInv, DriveTypeOK
  <1>11. /\ quality' = [d \in Drive |-> quality'[d]]
         /\ goods_since' = [d \in Drive |-> goods_since'[d]]
         /\ next_poll' = [d \in Drive |-> next_poll'[d]]
    BY <1>3, <1>5 DEF later, sooner, Unspoilt
  <1>12. /\ quality' \in [Drive -> Model] /\ goods_since' \in [Drive -> 0..RecoveryGoods]
         /\ next_poll' \in [Drive -> Nat]
    BY <1>8, <1>11
  <1> QED BY <1>8, <1>9, <1>10, <1>12 DEF DriveInv, DriveTypeOK, LinksAreConfirmed

\* So does the sleep of the poll task,
LEMMA SleepStep == ASSUME DriveInv, Sleep PROVE DriveInv'
  <1> DEFINE t == IF \E d \in Drive : poll_due(d) THEN 0 ELSE 1
  <1>1. /\ quality' = later(t) /\ next_poll' = sooner(t) /\ goods_since' = Unspoilt(t)
        /\ cursor' = 1 /\ UNCHANGED <<lag, poll_count, service_failures, answers>>
    BY DEF Sleep
  <1>2. t \in Nat
    OBVIOUS
  <1> HIDE DEF t
  <1>3. \A d \in Drive : /\ later(t)[d] \in Model /\ Unspoilt(t)[d] \in 0..RecoveryGoods
                         /\ Confirmed(later(t)[d], Unspoilt(t)[d]) /\ sooner(t)[d] \in Nat
    BY <1>2, TimePasses
  <1>4. /\ later(t) \in [Drive -> Model] /\ Unspoilt(t) \in [Drive -> 0..RecoveryGoods]
        /\ sooner(t) \in [Drive -> Nat]
    BY <1>3 DEF later, Unspoilt, sooner
  <1>5. 1 \in 1..Drives + 1
    BY PollingAssumption
  <1> QED BY <1>1, <1>3, <1>4, <1>5 DEF DriveInv, DriveTypeOK, LinksAreConfirmed

\* a drive that is not due yet,
LEMMA SkipStep == ASSUME DriveInv, SkipDrive PROVE DriveInv'
  <1>1. cursor' \in 1..Drives + 1
    BY PollingAssumption DEF SkipDrive, Drive
  <1>2. UNCHANGED <<quality, lag, poll_count, next_poll, service_failures, answers, goods_since>>
    BY DEF SkipDrive, device
  <1> QED BY <1>1, <1>2 DEF DriveInv, DriveTypeOK, LinksAreConfirmed

\* a drive that falls silent or comes back,
LEMMA FalterStep == ASSUME DriveInv, NEW d \in Drive, Falter(d) PROVE DriveInv'
  <1>1. /\ answers' = [answers EXCEPT ![d] = ~@]
        /\ UNCHANGED <<quality, lag, poll_count, next_poll, service_failures, cursor, goods_since>>
    BY DEF Falter, device, service
  <1>2. answers' \in [Drive -> BOOLEAN]
    BY <1>1 DEF DriveInv, DriveTypeOK
  <1> QED BY <1>1, <1>2 DEF DriveInv, DriveTypeOK, LinksAreConfirmed

\* and hence every step.
LEMMA DriveNextInv == DriveInv /\ [DriveNext]_driveVars => DriveInv'
  <1> SUFFICES ASSUME DriveInv, [DriveNext]_driveVars PROVE DriveInv'
    OBVIOUS
  <1>1. CASE SkipDrive BY <1>1, SkipStep
  <1>2. CASE PollSome BY <1>2, PollStep DEF PollSome
  <1>3. CASE Sleep BY <1>3, SleepStep
  <1>4. CASE \E d \in Drive : Falter(d) BY <1>4, FalterStep
  <1>5. CASE UNCHANGED driveVars
    BY <1>5 DEF driveVars, device, service, DriveInv, DriveTypeOK, LinksAreConfirmed
  <1> QED BY <1>1, <1>2, <1>3, <1>4, <1>5 DEF DriveNext, PollingTask

\* The inductive invariant holds in every reachable state.
THEOREM DriveInvariance == DriveSpec => []DriveInv
  BY DriveInitInv, DriveNextInv, PTL DEF DriveSpec

\* The records of polls, back-off and links keep their types.
THEOREM DriveTypeCorrect == DriveSpec => []DriveTypeOK
  <1>1. DriveInv => DriveTypeOK BY DEF DriveInv
  <1> QED BY <1>1, DriveInvariance, PTL

\* No link that was degraded, stale or offline is healthy before RecoveryGoods
\* complete polls in a row (communication_quality_model_record_good and
\* svd48_device's finish_poll), for any policy and however the polls of other
\* drives and their time-outs are interleaved.
THEOREM RecoveryAlwaysConfirmed == DriveSpec => []RecoveryIsConfirmed
  <1>1. DriveInv => RecoveryIsConfirmed
    <2> SUFFICES ASSUME DriveInv, NEW d \in Drive, state_at(quality[d]) = "HEALTHY"
                 PROVE  goods_since[d] = RecoveryGoods
      BY DEF RecoveryIsConfirmed
    <2>1. /\ quality[d] \in Model /\ goods_since[d] \in 0..RecoveryGoods
          /\ Confirmed(quality[d], goods_since[d]) /\ RecoveryGoods \in Nat
      BY PolicyAssumption DEF DriveInv, DriveTypeOK, LinksAreConfirmed
    <2>2. state_at(quality[d]) \notin Bad /\ ~quality[d].recovery_pending
      BY <2>1, HealthyState
    <2>3. ~(goods_since[d] < RecoveryGoods)
      BY <2>1, <2>2 DEF Confirmed
    <2> QED BY <2>1, <2>3
  <1> QED BY <1>1, DriveInvariance, PTL

\* The polls of other drives there may be from the time a drive is due to its poll.
turns(c, d) == IF c > d THEN c - 1 - d ELSE Drives - d + c - 1

\* What is known of a drive that answers is no older than the time since its
\* poll, and once it is due than the time-outs of those polled before it.
Fresh(d) ==
    /\ answers[d] /\ lag[d] = 0 /\ quality[d].consecutive_failures = 0
    /\ quality[d].has_last_good =>
         IF next_poll[d] > 0 THEN quality[d].age + next_poll[d] <= Period
         ELSE quality[d].age <= Period + 8 * turns(cursor, d)

FreshInv == \A d \in Drive \ MuteDrives : Fresh(d)

\* A link that grows older by t is older by at most t, and its counts stay.
LEMMA OlderModel ==
    ASSUME NEW m \in Model, NEW t \in Nat
    PROVE  /\ aged(m, t).has_last_good = m.has_last_good
           /\ aged(m, t).consecutive_failures = m.consecutive_failures
           /\ aged(m, t).age \in Nat
           /\ m.has_last_good => aged(m, t).age <= m.age + t
  <1> DEFINE age == IF m.has_last_good THEN lower(m.age + t, OfflineAge + 1) ELSE 0
  <1>1. m.age \in Nat /\ OfflineAge \in Nat
    BY PolicyAssumption DEF Model
  <1>2. age \in Nat /\ (m.has_last_good => age <= m.age + t)
    BY <1>1 DEF lower
  <1>3. aged(m, t) = [m EXCEPT !.age = age]
    BY DEF aged
  <1> HIDE DEF age
  <1> QED BY <1>2, <1>3 DEF Model

\* While a drive waits for its poll it stays fresh: each poll of another one
\* brings its turn nearer, and the task sleeps only when no drive is due.
LEMMA StaysFresh ==
    ASSUME DriveInv, DriveInv', NEW d \in Drive, Fresh(d), NEW t \in 0..8,
           quality'[d].has_last_good = quality[d].has_last_good,
           quality'[d].consecutive_failures = quality[d].consecutive_failures,
           quality[d].has_last_good => quality'[d].age <= quality[d].age + t,
           next_poll'[d] = IF next_poll[d] > t THEN next_poll[d] - t ELSE 0,
           answers'[d] = answers[d], lag'[d] = lag[d],
           \/ turns(cursor', d) = turns(cursor, d) + 1
           \/ t = 0 /\ turns(cursor', d) = turns(cursor, d)
           \/ t <= 1 /\ next_poll[d] > 0
    PROVE  Fresh(d)'
  <1>1. /\ next_poll[d] \in Nat /\ quality[d].age \in Nat /\ quality'[d].age \in Nat
        /\ Period \in Nat
    BY PollingAssumption DEF DriveInv, DriveTypeOK, Model
  <1>2. turns(cursor, d) \in Nat /\ turns(cursor', d) \in Nat
    <2>1. /\ Drives \in Nat /\ d \in 1..Drives
          /\ cursor \in 1..Drives + 1 /\ cursor' \in 1..Drives + 1
      BY PollingAssumption DEF DriveInv, DriveTypeOK, Drive
    <2> QED BY <2>1 DEF turns
  <1> DEFINE a == quality[d].age  b == quality'[d].age  n == next_poll[d]  m == next_poll'[d]
             p == turns(cursor, d)  q == turns(cursor', d)
  <1>3. ASSUME quality[d].has_last_good
        PROVE  IF m > 0 THEN b + m <= Period ELSE b <= Period + 8 * q
    <2>1. /\ b <= a + t /\ a \in Nat /\ b \in Nat /\ n \in Nat /\ p \in Nat /\ q \in Nat
          /\ m = IF n > t THEN n - t ELSE 0
          /\ IF n > 0 THEN a + n <= Period ELSE a <= Period + 8 * p
          /\ q = p + 1 \/ (t = 0 /\ q = p) \/ (t <= 1 /\ n > 0)
      BY <1>1, <1>2, <1>3 DEF Fresh
    <2> HIDE DEF a, b, n, m, p, q
    <2>2. CASE n > t
      BY <1>1, <2>1, <2>2
    <2>3. CASE n > 0 /\ ~(n > t)
      BY <1>1, <2>1, <2>3
    <2>4. CASE n = 0
      BY <1>1, <2>1, <2>4
    <2> QED BY <2>1, <2>2, <2>3, <2>4
  <1> QED BY <1>3 DEF Fresh

\* The polls begin with nothing known.
LEMMA FreshInit == DriveInit => FreshInv
  <1> SUFFICES ASSUME DriveInit, NEW d \in Drive \ MuteDrives PROVE Fresh(d)
    BY DEF FreshInv
  <1>1. quality[d] = communication_quality_model_init /\ lag[d] = 0 /\ answers[d]
    BY DEF DriveInit
  <1> QED BY <1>1 DEF Fresh, communication_quality_model_init

\* The poll of one drive keeps the others fresh, and makes it fresh itself when it answers.
LEMMA FreshPoll ==
    ASSUME DriveInv, DriveInv', FreshInv, NEW p \in 0..PrimaryReads, NEW s \in 0..SlowReads,
           Poll(p, s)
    PROVE  FreshInv'
  <1> SUFFICES ASSUME NEW d \in Drive \ MuteDrives PROVE Fresh(d)'
    BY DEF FreshInv
  <1> DEFINE t == poll_time(p, s)
             n == IF p + s = 0 THEN 0 ELSE lower(service_failures[cursor] + 1, 4)
             now == finish_poll(later(t)[cursor], p)
  <1>1. /\ cursor \in Drive /\ t \in 0..8 /\ p \in Nat /\ s \in Nat
        /\ Drives \in Nat \ {0} /\ Period \in Nat \ {0}
    BY PollingAssumption DEF Poll, poll_time, PrimaryReads, SlowReads
  <1>2. /\ quality' = [later(t) EXCEPT ![cursor] = now]
        /\ lag' = [lag EXCEPT ![cursor] = IF p = 0 THEN s ELSE @]
        /\ next_poll' = [sooner(t) EXCEPT ![cursor] = delay_after(n)]
        /\ cursor' = cursor + 1 /\ answers' = answers
        /\ answers[cursor] => p + s = 0
    BY DEF Poll
  <1>3. Fresh(d) /\ quality[d] \in Model
    BY DEF FreshInv, DriveInv, DriveTypeOK
  <1>4. CASE d = cursor
    <2>1. p = 0 /\ s = 0 /\ n = 0
      BY <1>1, <1>2, <1>3, <1>4 DEF Fresh
    <2>2. now = record_good(later(t)[cursor]) /\ delay_after(n) = Period
      BY <2>1 DEF finish_poll, delay_after
    <2> HIDE DEF t, n, now
    <2>3. quality'[d] = now /\ next_poll'[d] = Period /\ lag'[d] = 0
      BY <1>1, <1>2, <1>4, <2>1, <2>2 DEF later, sooner, DriveInv, DriveTypeOK
    <2>4. now.age = 0 /\ now.consecutive_failures = 0
      BY <2>2 DEF record_good
    <2> QED BY <1>1, <1>2, <1>3, <2>3, <2>4 DEF Fresh
  <1>5. CASE d # cursor
    <2> HIDE DEF t, n, now
    <2>1. /\ quality'[d] = aged(quality[d], t) /\ lag'[d] = lag[d]
          /\ next_poll'[d] = IF next_poll[d] > t THEN next_poll[d] - t ELSE 0
      BY <1>1, <1>2, <1>5 DEF later, sooner, DriveInv, DriveTypeOK
    <2>2. turns(cursor', d) = turns(cursor, d) + 1
      BY <1>1, <1>2, <1>5 DEF turns, Drive
    <2>3. /\ quality'[d].has_last_good = quality[d].has_last_good
          /\ quality'[d].consecutive_failures = quality[d].consecutive_failures
          /\ quality[d].has_last_good => quality'[d].age <= quality[d].age + t
      BY <1>1, <1>3, <2>1, OlderModel
    <2> QED BY <1>1, <1>2, <1>3, <2>1, <2>2, <2>3, StaysFresh
  <1> QED BY <1>4, <1>5

\* So does the sleep,
LEMMA FreshSleep == ASSUME DriveInv, DriveInv', FreshInv, Sleep PROVE FreshInv'
  <1> SUFFICES ASSUME NEW d \in Drive \ MuteDrives PROVE Fresh(d)'
    BY DEF FreshInv
  <1> DEFINE t == IF \E e \in Drive : poll_due(e) THEN 0 ELSE 1
  <1>1. /\ quality' = later(t) /\ next_poll' = sooner(t)
        /\ cursor = Drives + 1 /\ cursor' = 1 /\ UNCHANGED <<lag, answers>>
    BY DEF Sleep
  <1>2. t \in 0..8 /\ t <= 1 /\ (next_poll[d] = 0 => t = 0)
    BY DEF poll_due
  <1> HIDE DEF t
  <1>3. Fresh(d) /\ quality[d] \in Model /\ next_poll[d] \in Nat
    BY DEF FreshInv, DriveInv, DriveTypeOK
  <1>4. /\ quality'[d] = aged(quality[d], t)
        /\ next_poll'[d] = IF next_poll[d] > t THEN next_poll[d] - t ELSE 0
    BY <1>1 DEF later, sooner
  <1>5. turns(cursor', d) = turns(cursor, d)
    BY <1>1, PollingAssumption DEF turns, Drive
  <1>6. /\ quality'[d].has_last_good = quality[d].has_last_good
        /\ quality'[d].consecutive_failures = quality[d].consecutive_failures
        /\ quality[d].has_last_good => quality'[d].age <= quality[d].age + t
    BY <1>2, <1>3, <1>4, OlderModel
  <1> QED BY <1>1, <1>2, <1>3, <1>4, <1>5, <1>6, StaysFresh

\* and a drive that is passed over.
LEMMA FreshSkip == ASSUME DriveInv, DriveInv', FreshInv, SkipDrive PROVE FreshInv'
  <1> SUFFICES ASSUME NEW d \in Drive \ MuteDrives PROVE Fresh(d)'
    BY DEF FreshInv
  <1>1. /\ cursor \in Drive /\ next_poll[cursor] # 0 /\ cursor' = cursor + 1
        /\ UNCHANGED <<quality, lag, next_poll, answers>>
    BY DEF SkipDrive, device, poll_due
  <1>2. Fresh(d) /\ quality[d].age \in Nat /\ next_poll[d] \in Nat
    BY DEF FreshInv, DriveInv, DriveTypeOK, Model
  <1>3. d # cursor => turns(cursor', d) = turns(cursor, d) + 1
    BY <1>1, PollingAssumption DEF turns, Drive
  <1>4. 0 \in 0..8 /\ next_poll'[d] = IF next_poll[d] > 0 THEN next_poll[d] - 0 ELSE 0
    BY <1>1, <1>2
  <1>5. d = cursor => next_poll[d] > 0
    BY <1>1, <1>2
  <1>6. quality'[d].age <= quality[d].age + 0 /\ 0 <= 1
    BY <1>1, <1>2
  <1> QED BY <1>1, <1>2, <1>3, <1>4, <1>5, <1>6, StaysFresh

\* Fresh values make a healthy endpoint.
LEMMA FreshIsHealthy ==
    ASSUME Period + 8 * (Drives - 1) <= StaleAge, DriveInv, FreshInv
    PROVE  OthersStayFresh
  <1> SUFFICES ASSUME NEW d \in Drive \ MuteDrives, quality[d].has_last_good
               PROVE  endpoint_health(d) = "HEALTHY"
    BY DEF OthersStayFresh
  <1>1. /\ quality[d].age \in Nat /\ quality[d].recovery_pending \in BOOLEAN
        /\ next_poll[d] \in Nat /\ cursor \in 1..Drives + 1 /\ d \in 1..Drives
        /\ Drives \in Nat /\ Period \in Nat
        /\ StaleAge \in Nat /\ OfflineAge \in Nat /\ StaleAge < OfflineAge
        /\ DegradedFailures \in Nat \ {0}
    <2>1. quality[d] \in Model /\ next_poll[d] \in Nat /\ cursor \in 1..Drives + 1
      BY DEF DriveInv, DriveTypeOK
    <2>2. quality[d].age \in Nat /\ quality[d].recovery_pending \in BOOLEAN
      BY <2>1, PolicyAssumption DEF Model
    <2> QED BY <2>1, <2>2, PollingAssumption, PolicyAssumption DEF Drive
  <1>2. Fresh(d)
    BY DEF FreshInv
  <1>3. turns(cursor, d) \in Nat /\ turns(cursor, d) <= Drives - 1
    BY <1>1 DEF turns
  <1>4. quality[d].age <= StaleAge
    BY <1>1, <1>2, <1>3 DEF Fresh
  <1>5. state_at(quality[d]) \in {"SUSPECT", "HEALTHY"}
    <2>1. quality[d].consecutive_failures < DegradedFailures
      BY <1>1, <1>2 DEF Fresh
    <2>2. ~(quality[d].age > OfflineAge) /\ quality[d].age \notin StaleAge + 1 .. OfflineAge
      BY <1>1, <1>4
    <2> QED BY <1>1, <1>4, <2>1, <2>2 DEF state_at
  <1>6. velocity_age(d) = quality[d].age
    BY <1>1, <1>2 DEF velocity_age, Fresh
  <1>7. channel_health(d) = state_at(quality[d])
    BY <1>1, <1>4, <1>5, <1>6 DEF channel_health
  <1> QED BY <1>5, <1>7 DEF endpoint_health

\* One drive or several that do not answer cost the bus their time-outs, but
\* none that answers looks stale for it (svd48_poll_service_run_once,
\* svd48_device_poll), however often they falter - while a period and the
\* time-outs of one whole poll of every other drive fit the stale age, as 30 ms
\* and eight times 100 ms fit the 1000 ms of the profile's two drives.
THEOREM OthersAlwaysFresh ==
    ASSUME Period + 8 * (Drives - 1) <= StaleAge
    PROVE  DriveSpec => []OthersStayFresh
  <1>1. DriveInv /\ DriveInv' /\ FreshInv /\ [DriveNext]_driveVars => FreshInv'
    <2> SUFFICES ASSUME DriveInv, DriveInv', FreshInv, [DriveNext]_driveVars PROVE FreshInv'
      OBVIOUS
    <2>1. CASE SkipDrive BY <2>1, FreshSkip
    <2>2. CASE PollSome BY <2>2, FreshPoll DEF PollSome
    <2>3. CASE Sleep BY <2>3, FreshSleep
    <2>4. CASE \E d \in Drive : Falter(d)
      BY <2>4 DEF Falter, device, service, FreshInv, Fresh, turns, DriveInv, DriveTypeOK
    <2>5. CASE UNCHANGED driveVars
      BY <2>5 DEF driveVars, device, service, FreshInv, Fresh, turns
    <2> QED BY <2>1, <2>2, <2>3, <2>4, <2>5 DEF DriveNext, PollingTask
  <1>2. DriveInv /\ FreshInv => OthersStayFresh
    BY FreshIsHealthy
  <1> QED BY <1>1, <1>2, FreshInit, DriveInvariance, PTL DEF DriveSpec

(* ---------------------- the life of the composition --------------------- *)

AtRest == \A e \in Outputs : output[e] = "rest" /\ ~target[e]
Alone  == \A t \in Tasks : quiesced(t)

\* Where the owner is, and before the first call nothing has moved.
Places ==
    {"preflight", "building", "idle", "starting", "start_poll", "start_steering", "started", "stopping",
     "collect_steering", "collect_poll", "stop_devices", "destroying"}
NewIsAtRest == pc \in {"preflight", "building"} => AtRest /\ Alone

\* From the stop of the outputs on no target is held, and an output that goes
\* on is remembered as an error.
StopIsRemembered ==
    pc \in {"collect_steering", "collect_poll", "stop_devices"} =>
        \A e \in Outputs : ~target[e] /\ (first_error \/ output[e] = "rest")

\* The tasks are collected one after the other.
TasksAreCollected ==
    /\ pc \in {"collect_poll", "stop_devices"} => quiesced("steering")
    /\ pc = "stop_devices" => quiesced("poll")

LifeInv ==
    /\ phase \in [Tasks -> Phases] /\ target \in [Outputs -> BOOLEAN]
    /\ output \in [Outputs -> {"rest", "moving"}] /\ first_error \in BOOLEAN /\ pc \in Places
    /\ NewIsAtRest /\ StopIsRemembered /\ TasksAreCollected /\ SuccessIsRest

\* Whoever runs and whatever is lost, the outputs are those of the profile.
LEMMA OutputsAreThose == UNCHANGED profile => Outputs' = Outputs
  BY DEF Outputs, Wheels, Positions, EndpointsOf

\* The composition begins at rest.
LEMMA LifeInitInv == LifeInit => LifeInv
  BY DEF LifeInit, LifeInv, Phases, Places, NewIsAtRest, AtRest, Alone, quiesced,
         StopIsRemembered, TasksAreCollected, SuccessIsRest

\* A call of the owner that writes no output and collects no task keeps the
\* invariant where it answers success of a start only.
LEMMA QuietOwnerStep ==
    ASSUME LifeInv, UNCHANGED <<profile, phase, target, output, first_error>>,
           pc' \in Places \ {"preflight", "building", "collect_steering", "collect_poll", "stop_devices"},
           pc' = "idle" /\ answer' = "ok" => started'
    PROVE  LifeInv'
  <1>1. Outputs' = Outputs
    BY OutputsAreThose
  <1> QED BY <1>1 DEF LifeInv, NewIsAtRest, StopIsRemembered, TasksAreCollected, SuccessIsRest

\* A step of the init, whatever it builds, moves nothing,
LEMMA ConstructStep ==
    ASSUME LifeInv, preflight \/ construct \/ construct_fails \/ section_done
    PROVE  LifeInv'
  <1>1. /\ pc \in {"preflight", "building"}
        /\ UNCHANGED <<profile, started, phase, asked, target, output, first_error>>
        /\ pc' \in {"building", "idle", "stopping", "destroying"}
    BY DEF preflight, construct, construct_fails, section_done, tasks, outputs, cleanup_runtime,
           Return
  <1>2. AtRest /\ Alone /\ Outputs' = Outputs
    BY <1>1, OutputsAreThose DEF LifeInv, NewIsAtRest
  <1>3. AtRest' /\ Alone'
    BY <1>1, <1>2 DEF AtRest, Alone, quiesced
  <1> QED BY <1>1, <1>2, <1>3 DEF LifeInv, Places, NewIsAtRest, StopIsRemembered,
             TasksAreCollected, SuccessIsRest, AtRest, Alone

\* the owner starts, stops or tears down,
LEMMA OwnerStep ==
    ASSUME LifeInv, \/ robot_composition_start \/ robot_composition_stop
                    \/ robot_composition_deinit \/ start_devices \/ finish_start
    PROVE  LifeInv'
  <1>1. CASE robot_composition_start
    <2>1. /\ UNCHANGED <<profile, started, phase, target, output, first_error>>
          /\ \/ started /\ pc' = "idle"
             \/ pc' = "idle" /\ answer' = "invalid"
             \/ pc' = "starting"
      BY <1>1 DEF robot_composition_start, tasks, outputs, Owner, Return
    <2> QED BY <2>1, QuietOwnerStep DEF Places
  <1>2. CASE robot_composition_stop
    <2>1. UNCHANGED <<profile, phase, target, output, first_error>> /\ pc' = "stopping"
      BY <1>2 DEF robot_composition_stop, tasks, outputs, Owner
    <2> QED BY <2>1, QuietOwnerStep DEF Places
  <1>3. CASE robot_composition_deinit
    <2>1. /\ UNCHANGED <<profile, phase, target, output, first_error>>
          /\ pc' \in {"stopping", "destroying"}
      BY <1>3 DEF robot_composition_deinit, tasks, outputs, cleanup_runtime
    <2> QED BY <2>1, QuietOwnerStep DEF Places
  <1>4. CASE start_devices
    <2>1. UNCHANGED <<profile, phase, target, output, first_error>> /\ pc' = "start_poll"
      BY <1>4 DEF start_devices, tasks, outputs
    <2> QED BY <2>1, QuietOwnerStep DEF Places
  <1>5. CASE finish_start
    <2>1. /\ UNCHANGED <<profile, phase, target, output, first_error>>
          /\ pc' = "idle" /\ started'
      BY <1>5 DEF finish_start, tasks, outputs, Return
    <2> QED BY <2>1, QuietOwnerStep DEF Places
  <1> QED BY <1>1, <1>2, <1>3, <1>4, <1>5

\* a task is created, or the start turns into a stop,
LEMMA TaskStartStep ==
    ASSUME LifeInv, NEW t \in Tasks, NEW here \in {"start_poll", "start_steering"},
           NEW next \in {"start_steering", "started"}, task_start(t, here, next)
    PROVE  LifeInv'
  <1>1. /\ UNCHANGED <<profile, started, target, output, first_error>>
        /\ pc' \in {next, "stopping"}
        /\ phase' = phase \/ phase' = [phase EXCEPT ![t] = "created"]
    BY DEF task_start, outputs
  <1>2. phase' \in [Tasks -> Phases]
    BY <1>1 DEF LifeInv, Phases
  <1> QED BY <1>1, <1>2, OutputsAreThose DEF LifeInv, Places, NewIsAtRest, StopIsRemembered,
             TasksAreCollected, SuccessIsRest

\* an output that is asked to rest holds no target, and rests unless its write is lost,
LEMMA SettleResult ==
    ASSUME LifeInv, UNCHANGED profile, NEW S \in SUBSET Outputs, NEW lost, Settle(S, lost)
    PROVE  /\ target' \in [Outputs' -> BOOLEAN] /\ output' \in [Outputs' -> {"rest", "moving"}]
           /\ \A e \in Outputs : target'[e] = IF e \in S THEN FALSE ELSE target[e]
           /\ \A e \in Outputs : output'[e] = IF e \in S \ lost THEN "rest" ELSE output[e]
  BY OutputsAreThose DEF Settle, LifeInv

\* the outputs are stopped before any task is collected,
LEMMA StopOutputsStep == ASSUME LifeInv, stop_outputs PROVE LifeInv'
  <1>1. PICK lost \in SUBSET Outputs : Settle(Outputs, lost) /\ first_error' = (lost # {})
    BY DEF stop_outputs
  <1>2. pc' = "collect_steering" /\ UNCHANGED <<profile, started, phase, asked>>
    BY DEF stop_outputs, tasks
  <1>3. /\ target' \in [Outputs' -> BOOLEAN] /\ output' \in [Outputs' -> {"rest", "moving"}]
        /\ \A e \in Outputs : ~target'[e] /\ (e \in lost \/ output'[e] = "rest")
    BY <1>1, <1>2, SettleResult
  <1>4. StopIsRemembered'
    BY <1>1, <1>2, <1>3, OutputsAreThose DEF StopIsRemembered
  <1> QED BY <1>1, <1>2, <1>3, <1>4 DEF LifeInv, Places, NewIsAtRest, TasksAreCollected,
             SuccessIsRest

\* a task is collected, or the call gives up,
LEMMA TaskStopStep ==
    ASSUME LifeInv, NEW t \in Tasks, NEW here, NEW next,
           \/ t = "steering" /\ here = "collect_steering" /\ next = "collect_poll"
           \/ t = "poll" /\ here = "collect_poll" /\ next = "stop_devices",
           task_stop(t, here, next)
    PROVE  LifeInv'
  <1>1. /\ pc = here /\ UNCHANGED <<profile, started, target, output, first_error>>
        /\ \/ phase' = phase /\ pc' = next /\ quiesced(t)
           \/ phase' = phase /\ pc' = pc
           \/ phase' = [phase EXCEPT ![t] = "none"] /\ pc' = next
           \/ phase' = phase /\ pc' = "idle" /\ answer' = "timeout"
    BY DEF task_stop, outputs, give_up, Return
  <1>2. /\ phase \in [Tasks -> Phases] /\ phase' \in [Tasks -> Phases]
        /\ \A u \in Tasks : quiesced(u) => quiesced(u)'
        /\ pc' = next => quiesced(t)'
    BY <1>1 DEF LifeInv, Phases, quiesced
  <1>3. "steering" \in Tasks /\ "poll" \in Tasks
    BY DEF Tasks
  <1>4. TasksAreCollected'
    BY <1>1, <1>2, <1>3 DEF LifeInv, TasksAreCollected
  <1>5. StopIsRemembered'
    BY <1>1, OutputsAreThose DEF LifeInv, StopIsRemembered
  <1> QED BY <1>1, <1>2, <1>4, <1>5, OutputsAreThose DEF LifeInv, Places, NewIsAtRest,
             SuccessIsRest

\* the factories' stop answers for the whole sequence,
LEMMA FactoriesStopStep == ASSUME LifeInv, factories_stop PROVE LifeInv'
  <1>1. PICK lost \in SUBSET Positions :
          /\ Settle(Positions, lost) /\ first_error' = error_of(lost)
          /\ \/ pc' = "idle" /\ answer' = IF error_of(lost) THEN "fail" ELSE "ok"
             \/ pc' = "idle" /\ answer' = "fail"
             \/ pc' = "destroying"
    BY DEF factories_stop, Return
  <1>2. pc = "stop_devices" /\ UNCHANGED <<profile, phase, asked>>
    BY DEF factories_stop, tasks
  <1>3. /\ target' \in [Outputs' -> BOOLEAN] /\ output' \in [Outputs' -> {"rest", "moving"}]
        /\ \A e \in Outputs : target'[e] = IF e \in Positions THEN FALSE ELSE target[e]
        /\ \A e \in Outputs : output'[e] = IF e \in Positions \ lost THEN "rest" ELSE output[e]
    BY <1>1, <1>2, SettleResult DEF Outputs
  <1>4. /\ \A e \in Outputs : ~target[e] /\ (first_error \/ output[e] = "rest")
        /\ quiesced("steering") /\ quiesced("poll")
    BY <1>2 DEF LifeInv, StopIsRemembered, TasksAreCollected
  <1>5. ~error_of(lost) => AtRest' /\ Alone'
    BY <1>2, <1>3, <1>4, OutputsAreThose DEF error_of, AtRest, Alone, quiesced, Tasks
  <1>6. SuccessIsRest'
    BY <1>1, <1>5 DEF SuccessIsRest, AtRest, Alone
  <1>7. first_error' \in BOOLEAN /\ pc' \in Places /\ pc' \in {"idle", "destroying"}
    BY <1>1 DEF error_of, Places, LifeInv
  <1> QED BY <1>2, <1>3, <1>6, <1>7 DEF LifeInv, NewIsAtRest, StopIsRemembered,
             TasksAreCollected

\* a part is destroyed,
LEMMA DestroyStep == ASSUME LifeInv, destroy \/ pass_done PROVE LifeInv'
  <1>1. /\ pc' \in {"idle", "destroying"} /\ (pc' = "idle" => answer' # "ok")
        /\ UNCHANGED <<profile, phase, target, first_error>>
        /\ \/ output' = output
           \/ \E S : output' = [e \in Outputs |-> IF e \in S THEN "rest" ELSE output[e]]
    <2>1. CASE destroy
      <3> DEFINE S == {e \in Outputs : section = "devices" /\ e \in DrivenBy(step_at)
                                      /\ step_at \in built.devices}
      <3>1. output' = [e \in Outputs |-> IF e \in S THEN "rest" ELSE output[e]]
        BY <2>1 DEF destroy
      <3> HIDE DEF S
      <3> QED BY <2>1, <3>1 DEF destroy, tasks
    <2>2. CASE pass_done BY <2>2 DEF pass_done, Return, tasks, outputs
    <2> QED BY <2>1, <2>2
  <1>2. output' \in [Outputs -> {"rest", "moving"}]
    BY <1>1 DEF LifeInv
  <1> QED BY <1>1, <1>2, OutputsAreThose DEF LifeInv, Places, NewIsAtRest, StopIsRemembered,
             TasksAreCollected, SuccessIsRest

\* a task runs or leaves,
LEMMA TaskLifeStep ==
    ASSUME LifeInv, NEW t \in Tasks, task_runs(t) \/ task_leaves(t)
    PROVE  LifeInv'
  <1>1. /\ phase[t] # "none"
        /\ \E p \in Phases \ {"none"} : phase' = [phase EXCEPT ![t] = p]
        /\ UNCHANGED <<profile, started, target, output, pc, first_error, answer>>
    BY DEF task_runs, task_leaves, outputs, Phases
  <1>2. phase' \in [Tasks -> Phases] /\ \A u \in Tasks : quiesced(u) => quiesced(u)'
    BY <1>1 DEF LifeInv, quiesced
  <1>3. "steering" \in Tasks /\ "poll" \in Tasks /\ Outputs' = Outputs
    BY <1>1, OutputsAreThose DEF Tasks
  <1>4. NewIsAtRest' /\ SuccessIsRest'
    BY <1>1, <1>2, <1>3 DEF LifeInv, NewIsAtRest, SuccessIsRest, AtRest, Alone
  <1>5. StopIsRemembered' /\ TasksAreCollected'
    BY <1>1, <1>2, <1>3 DEF LifeInv, StopIsRemembered, TasksAreCollected
  <1> QED BY <1>1, <1>2, <1>3, <1>4, <1>5 DEF LifeInv

\* the steering loop drives what is asked of it,
LEMMA TickStep == ASSUME LifeInv, steering_tick PROVE LifeInv'
  <1>1. /\ phase["steering"] = "running"
        /\ output' = [e \in Outputs |-> IF e \notin Positions THEN output[e]
                                       ELSE IF target[e] THEN "moving" ELSE "rest"]
        /\ UNCHANGED <<profile, started, phase, target, pc, first_error, answer>>
    BY DEF steering_tick, tasks
  <1>2. /\ ~Alone /\ Alone' = Alone /\ Outputs' = Outputs
    BY <1>1, OutputsAreThose DEF Alone, quiesced, Tasks
  <1>3. /\ output' \in [Outputs -> {"rest", "moving"}]
        /\ \A e \in Outputs : ~target[e] /\ output[e] = "rest" => output'[e] = "rest"
    BY <1>1 DEF LifeInv
  <1>4. NewIsAtRest' /\ SuccessIsRest'
    BY <1>1, <1>2 DEF LifeInv, NewIsAtRest, SuccessIsRest, Alone
  <1>5. StopIsRemembered' /\ TasksAreCollected'
    BY <1>1, <1>2, <1>3 DEF LifeInv, StopIsRemembered, TasksAreCollected, quiesced
  <1> QED BY <1>1, <1>2, <1>3, <1>4, <1>5 DEF LifeInv

\* or somebody moves an output of the started composition.
LEMMA CommandStep == ASSUME LifeInv, NEW e \in Outputs, command(e) PROVE LifeInv'
  <1>1. /\ started /\ pc = "idle" /\ answer' = "none"
        /\ target' = [target EXCEPT ![e] = TRUE]
        /\ output' \in {output, [output EXCEPT ![e] = "moving"]}
        /\ UNCHANGED <<profile, phase, pc, first_error>>
    BY DEF command, tasks
  <1>2. target' \in [Outputs -> BOOLEAN] /\ output' \in [Outputs -> {"rest", "moving"}]
    BY <1>1 DEF LifeInv
  <1> QED BY <1>1, <1>2, OutputsAreThose DEF LifeInv, NewIsAtRest, StopIsRemembered,
             TasksAreCollected, SuccessIsRest

\* Every step keeps the invariant.
LEMMA LifeNextInv == LifeInv /\ [LifeNext]_lifeVars => LifeInv'
  <1> SUFFICES ASSUME LifeInv, [LifeNext]_lifeVars PROVE LifeInv'
    OBVIOUS
  <1>1. CASE preflight \/ construct \/ construct_fails \/ section_done BY <1>1, ConstructStep
  <1>2. CASE \/ robot_composition_start \/ robot_composition_stop
             \/ robot_composition_deinit \/ start_devices \/ finish_start
    BY <1>2, OwnerStep
  <1>3. CASE task_start("poll", "start_poll", "start_steering")
    BY <1>3, TaskStartStep DEF Tasks
  <1>4. CASE task_start("steering", "start_steering", "started")
    BY <1>4, TaskStartStep DEF Tasks
  <1>5. CASE stop_outputs BY <1>5, StopOutputsStep
  <1>6. CASE task_stop("steering", "collect_steering", "collect_poll")
    BY <1>6, TaskStopStep DEF Tasks
  <1>7. CASE task_stop("poll", "collect_poll", "stop_devices")
    BY <1>7, TaskStopStep DEF Tasks
  <1>8. CASE factories_stop BY <1>8, FactoriesStopStep
  <1>9. CASE destroy \/ pass_done BY <1>9, DestroyStep
  <1>10. CASE \E t \in Tasks : task_runs(t) \/ task_leaves(t) BY <1>10, TaskLifeStep
  <1>11. CASE steering_tick BY <1>11, TickStep
  <1>12. CASE \E e \in Outputs : command(e) BY <1>12, CommandStep
  <1>13. CASE UNCHANGED lifeVars
    <2>1. UNCHANGED <<profile, started, phase, target, output, pc, first_error, answer>>
      BY <1>13 DEF lifeVars
    <2> QED BY <2>1, OutputsAreThose DEF LifeInv, NewIsAtRest, AtRest, Alone, quiesced,
               StopIsRemembered, TasksAreCollected, SuccessIsRest
  <1> QED BY <1>1, <1>2, <1>3, <1>4, <1>5, <1>6, <1>7, <1>8, <1>9, <1>10, <1>11, <1>12, <1>13
          DEF LifeNext

\* A stop of the composition that answers success means rest: no output moves,
\* no target is held and no task is left (robot_composition_stop), for every
\* profile, whatever writes and allocations fail and whatever the tasks do
\* meanwhile.
THEOREM SuccessAlwaysRest == LifeSpec => []SuccessIsRest
  <1>1. LifeInv => SuccessIsRest BY DEF LifeInv
  <1> QED BY <1>1, LifeInitInv, LifeNextInv, PTL DEF LifeSpec

(* ---------------------- the parts of the composition -------------------- *)

\* A profile that was refused never builds anything.
Accepted == robot_composition_preflight(profile)
Slot(s) == IF constructed THEN Whole[s] ELSE {}

\* A new composition fills its sections one after the other,
FilledInOrder ==
    pc = "building" =>
        /\ section \in Sections /\ step_at \in 1..(SlotsOf[section] + 1)
        /\ \A s \in Sections :
              /\ Order[s] < Order[section] => built[s] = Whole[s]
              /\ s = section => built[s] = {i \in Whole[s] : i < step_at}
              /\ Order[s] > Order[section] => built[s] = {}

\* a cleanup leaves nothing behind that one of its passes has been over,
EmptiedInOrder ==
    pc = "destroying" =>
        /\ section \in Passes /\ step_at \in 0..SlotsOf[SectionOf[section]]
        /\ \A p \in Passes : \A i \in Taken[p] :
              \/ PassOrder[p] < PassOrder[section]
              \/ p = section /\ i > step_at
              => i \notin built[SectionOf[p]]

\* and between the two a composition is whole or nothing, as it says it is.
WholeOrNothing ==
    /\ pc \in {"preflight", "building"} => ~constructed
    /\ pc \notin {"building", "destroying"} => \A s \in Sections : built[s] = Slot(s)
    /\ pc \notin {"preflight", "building", "destroying", "idle"} => constructed
    /\ pc = "building" => Accepted
    /\ ~Accepted => ~constructed /\ \A s \in Sections : built[s] = {}

\* Whoever is alive lives in a whole composition.
LivesInWhole ==
    started \/ ~Alone => constructed /\ pc \notin {"preflight", "building", "destroying"}

Outside == pc # "destroying"

PartsInv ==
    /\ LifeTypeOK /\ WholeOrNothing /\ LivesInWhole
    /\ FilledInOrder /\ EmptiedInOrder
    /\ PointsToBuilt /\ DrivesThroughBuilt

\* The tables are sequences, and a section has the slots of its table.
LEMMA TablesAreTyped ==
    ASSUME profile \in Profiles
    PROVE  /\ profile.buses \in Seq([id : Nat, type : BusTypes])
           /\ profile.devices \in Seq([id : Nat, driver : Drivers, bus : Nat, channels : Nat])
           /\ profile.endpoints \in Seq([id : Nat, device : Nat, channel : Nat])
           /\ profile.axes \in Seq([controller : Nat, pwm : Nat, sensor : Nat,
                                   actuator : Nat, observation : Nat])
  BY ProfilesAreTables DEF robot_profile_t

\* What a whole composition fills of a section are slots of the section.
LEMMA SlotsAreTyped ==
    ASSUME profile \in Profiles
    PROVE  /\ \A s \in Sections : SlotsOf[s] \in Nat /\ Whole[s] \in SUBSET (1..SlotsOf[s])
           /\ Whole \in [Sections -> SUBSET Nat]
           /\ \A p \in Passes : SectionOf[p] \in Sections
  <1>1. /\ DOMAIN profile.buses = 1..Len(profile.buses) /\ Len(profile.buses) \in Nat
        /\ DOMAIN profile.devices = 1..Len(profile.devices) /\ Len(profile.devices) \in Nat
        /\ DOMAIN profile.endpoints = 1..Len(profile.endpoints) /\ Len(profile.endpoints) \in Nat
        /\ DOMAIN profile.axes = 1..Len(profile.axes) /\ Len(profile.axes) \in Nat
    BY TablesAreTyped
  <1>2. \A s \in Sections : SlotsOf[s] \in Nat /\ Whole[s] \in SUBSET (1..SlotsOf[s])
    BY <1>1 DEF Sections, SlotsOf, Whole, BusesOf
  <1>3. DOMAIN Whole = Sections /\ Whole = [s \in DOMAIN Whole |-> Whole[s]]
    BY DEF Whole, Sections
  <1>4. \A s \in Sections : Whole[s] \in SUBSET Nat
    BY <1>2
  <1> QED BY <1>2, <1>3, <1>4 DEF SectionOf, Passes, Sections

\* The references that an accepted profile resolves.
LEMMA AcceptedResolves ==
    ASSUME profile \in Profiles, Accepted
    PROVE  /\ \A d \in DOMAIN profile.devices :
                 profile.devices[d].driver \in OnBus =>
                    \E b \in Whole["buses"] : profile.buses[b].id = profile.devices[d].bus
           /\ \A e \in DOMAIN profile.endpoints : \E d \in DOMAIN profile.devices :
                 profile.devices[d].id = profile.endpoints[e].device
           /\ \A a \in DOMAIN profile.axes :
                 /\ \A id \in {profile.axes[a].actuator, profile.axes[a].observation} :
                       \E e \in DOMAIN profile.endpoints : profile.endpoints[e].id = id
                 /\ \A id \in {profile.axes[a].pwm, profile.axes[a].sensor} :
                       \E d \in DOMAIN profile.devices : profile.devices[d].id = id
  <1>1. robot_profile_validate(profile)
    BY DEF Accepted, robot_composition_preflight
  <1>2. ASSUME NEW d \in DOMAIN profile.devices,
               profile.devices[d].driver \in OnBus
        PROVE  \E b \in Whole["buses"] : profile.buses[b].id = profile.devices[d].bus
    <2>1. bus_type[profile.devices[d].driver] \in {"uart", "i2c"}
      BY <1>2 DEF bus_type, OnBus
    <2>2. PICK b \in DOMAIN profile.buses :
             /\ profile.buses[b].id = profile.devices[d].bus
             /\ profile.buses[b].type = bus_type[profile.devices[d].driver]
      BY <1>1, <2>1 DEF robot_profile_validate, device_is_valid
    <2>3. bus_is_referenced(b) /\ b \in BusesOf("uart") \cup BusesOf("i2c")
      BY <2>1, <2>2 DEF bus_is_referenced, BusesOf
    <2> QED BY <2>2, <2>3 DEF Whole
  <1>3. ASSUME NEW e \in DOMAIN profile.endpoints
        PROVE  \E d \in DOMAIN profile.devices : profile.devices[d].id = profile.endpoints[e].device
    BY <1>1 DEF robot_profile_validate, endpoints_are_valid
  <1>4. ASSUME NEW a \in DOMAIN profile.axes
        PROVE  /\ \A id \in {profile.axes[a].actuator, profile.axes[a].observation} :
                     \E e \in DOMAIN profile.endpoints : profile.endpoints[e].id = id
               /\ \A id \in {profile.axes[a].pwm, profile.axes[a].sensor} :
                     \E d \in DOMAIN profile.devices : profile.devices[d].id = id
    BY <1>1 DEF robot_profile_validate, steering_axis_is_valid, has_device, has_endpoint
  <1> QED BY <1>2, <1>3, <1>4

\* Every endpoint of an accepted profile is a wheel, a position or an
\* observation; the ends of an axis are those of its controller and its sensor.
LEMMA EndpointsHaveKinds ==
    ASSUME profile \in Profiles, Accepted, NEW e \in DOMAIN profile.endpoints
    PROVE  /\ e \in Wheels \cup Positions \cup Observations
           /\ \A a \in DOMAIN profile.axes :
                 /\ profile.axes[a].actuator = profile.endpoints[e].id =>
                       profile.endpoints[e].device = profile.axes[a].controller
                 /\ profile.axes[a].observation = profile.endpoints[e].id => e \in Observations
  <1>1. /\ robot_profile_validate(profile)
        /\ ~has_device(profile, profile.endpoints[e].device, "pwm_motor_mode")
        /\ \A d \in DOMAIN profile.devices : profile.devices[d].driver \in Executable
    BY DEF Accepted, robot_composition_preflight
  <1>2. PICK d \in DOMAIN profile.devices : profile.devices[d].id = profile.endpoints[e].device
    BY AcceptedResolves
  <1>3. profile.devices[d].driver \in {"svd48", "as5600", "steering"}
    BY <1>1, <1>2 DEF has_device, Executable
  <1>4. e \in Wheels \cup Positions \cup Observations
    BY <1>2, <1>3 DEF Wheels, Positions, Observations, EndpointsOf, has_device
  <1>5. ASSUME NEW id, NEW whose, has_endpoint(profile, id, whose), profile.endpoints[e].id = id
        PROVE  profile.endpoints[e].device = whose
    BY <1>1, <1>5 DEF has_endpoint, robot_profile_validate, distinct_ids
  <1>6. ASSUME NEW a \in DOMAIN profile.axes
        PROVE  /\ profile.axes[a].actuator = profile.endpoints[e].id =>
                     profile.endpoints[e].device = profile.axes[a].controller
               /\ profile.axes[a].observation = profile.endpoints[e].id => e \in Observations
    BY <1>1, <1>5 DEF robot_profile_validate, steering_axis_is_valid, Observations, EndpointsOf
  <1> QED BY <1>4, <1>6

\* A device is of one driver, so an endpoint is of one kind.
LEMMA KindsAreApart ==
    ASSUME profile \in Profiles, Accepted, NEW e \in DOMAIN profile.endpoints
    PROVE  /\ e \in Wheels => e \notin Positions /\ e \notin Observations
           /\ e \in Positions => e \notin Observations
           /\ \A a \in DOMAIN profile.axes :
                 /\ profile.axes[a].actuator = profile.endpoints[e].id => e \in Positions
                 /\ profile.axes[a].observation = profile.endpoints[e].id => e \in Observations
  <1>1. robot_profile_validate(profile)
    BY DEF Accepted, robot_composition_preflight
  <1>2. ASSUME NEW one, NEW two, NEW id,
               has_device(profile, id, one), has_device(profile, id, two)
        PROVE  one = two
    BY <1>1, <1>2 DEF has_device, robot_profile_validate, distinct_ids
  <1>3. ASSUME NEW a \in DOMAIN profile.axes,
               profile.axes[a].actuator = profile.endpoints[e].id
        PROVE  e \in Positions
    <2>1. profile.endpoints[e].device = profile.axes[a].controller
      BY <1>3, EndpointsHaveKinds
    <2>2. has_device(profile, profile.axes[a].controller, "steering")
      BY <1>1 DEF robot_profile_validate, steering_axis_is_valid
    <2> QED BY <2>1, <2>2 DEF Positions, EndpointsOf
  <1>4. /\ e \in Wheels => e \notin Positions /\ e \notin Observations
        /\ e \in Positions => e \notin Observations
    BY <1>2 DEF Wheels, Positions, Observations, EndpointsOf
  <1> QED BY <1>3, <1>4, EndpointsHaveKinds

\* What a section holds, the sections before it were whole: then everything
\* that is built points to what is built.
LEMMA OrderedHolds ==
    ASSUME profile \in Profiles, Accepted \/ \A s \in Sections : built[s] = {},
           \A s \in Sections : built[s] \subseteq Whole[s],
           built.devices # {} => built.buses = Whole.buses,
           built.endpoints # {} \/ built.legacy # {} => built.devices = Whole.devices,
           built.frames # {} => built.endpoints = Whole.endpoints
    PROVE  PointsToBuilt /\ DrivesThroughBuilt
  <1>1. CASE \A s \in Sections : built[s] = {}
    <2>1. built.devices = {} /\ built.endpoints = {} /\ built.frames = {} /\ built.legacy = {}
      BY <1>1 DEF Sections
    <2> QED BY <2>1 DEF PointsToBuilt, DrivesThroughBuilt
  <1>2. CASE Accepted
    <2>1. /\ built.devices \subseteq DOMAIN profile.devices /\ Whole.devices = DOMAIN profile.devices
          /\ built.endpoints \subseteq DOMAIN profile.endpoints
          /\ Whole.endpoints = DOMAIN profile.endpoints
          /\ built.frames \subseteq DOMAIN profile.axes
      BY DEF Sections, Whole
    <2>2. \A d \in built.devices :
             profile.devices[d].driver \in OnBus =>
                \E b \in built.buses : profile.buses[b].id = profile.devices[d].bus
      BY <1>2, <2>1, AcceptedResolves
    <2>3. \A e \in built.endpoints :
             \E d \in built.devices : profile.devices[d].id = profile.endpoints[e].device
      BY <1>2, <2>1, AcceptedResolves
    <2>4. \A a \in built.frames :
             \A id \in {profile.axes[a].actuator, profile.axes[a].observation} :
                \E e \in built.endpoints : profile.endpoints[e].id = id
      BY <1>2, <2>1, AcceptedResolves
    <2>5. built.legacy # {} => DevicesOf("svd48") \subseteq built.devices
      BY <2>1 DEF DevicesOf
    <2>6. DrivesThroughBuilt
      BY <1>2, <2>1, AcceptedResolves DEF DrivesThroughBuilt
    <2> QED BY <2>2, <2>3, <2>4, <2>5, <2>6 DEF PointsToBuilt
  <1> QED BY <1>1, <1>2

\* That is so outside the cleanup, whatever is built.
LEMMA OutsideItHolds ==
    LifeTypeOK /\ WholeOrNothing /\ FilledInOrder /\ Outside => PointsToBuilt /\ DrivesThroughBuilt
  <1> SUFFICES ASSUME LifeTypeOK, WholeOrNothing, FilledInOrder, pc # "destroying"
               PROVE  PointsToBuilt /\ DrivesThroughBuilt
    BY DEF Outside
  <1>1. /\ profile \in Profiles /\ \A s \in Sections : built[s] \subseteq Whole[s]
        /\ Accepted \/ \A s \in Sections : built[s] = {}
    BY DEF LifeTypeOK, WholeOrNothing
  <1>2. /\ built.devices # {} => built.buses = Whole.buses
        /\ built.endpoints # {} \/ built.legacy # {} => built.devices = Whole.devices
        /\ built.frames # {} => built.endpoints = Whole.endpoints
    <2>1. CASE pc = "building"
      BY <2>1 DEF FilledInOrder, Sections, Order
    <2>2. CASE pc # "building"
      <3>1. \A s \in Sections : built[s] = {} \/ built[s] = Whole[s]
        BY <2>2 DEF WholeOrNothing, Slot
      <3>2. (\A s \in Sections : built[s] = {}) \/ (\A s \in Sections : built[s] = Whole[s])
        BY <2>2 DEF WholeOrNothing, Slot
      <3> QED BY <3>2 DEF Sections
    <2> QED BY <2>1, <2>2
  <1> QED BY <1>1, <1>2, OrderedHolds

\* And so at the next state.
LEMMA OutsideItHoldsNext ==
    (LifeTypeOK /\ WholeOrNothing /\ FilledInOrder /\ Outside)' => (PointsToBuilt /\ DrivesThroughBuilt)'
  BY OutsideItHolds, PTL

\* The tables never change, nor does what is made of them.
LEMMA TablesStay ==
    UNCHANGED profile =>
        /\ Whole' = Whole /\ SlotsOf' = SlotsOf /\ Taken' = Taken /\ Accepted' = Accepted
        /\ Positions' = Positions
  BY DEF Whole, SlotsOf, Taken, Accepted, BusesOf, bus_is_referenced, Wheels, Positions,
         Observations, EndpointsOf

\* A step that builds and destroys nothing and leaves the cleanup alone keeps
\* what is built together.
LEMMA HoldsKept ==
    ASSUME PointsToBuilt, DrivesThroughBuilt, UNCHANGED <<profile, built>>,
           pc = "destroying" => pc' = "destroying"
    PROVE  PointsToBuilt' /\ DrivesThroughBuilt'
  <1>1. PointsToBuilt'
    BY DEF PointsToBuilt, DevicesOf
  <1>2. \A c : ListedAfterItsParts(c)' = ListedAfterItsParts(c)
    BY DEF ListedAfterItsParts
  <1>3. DrivesThroughBuilt'
    BY <1>2, TablesStay DEF DrivesThroughBuilt
  <1> QED BY <1>1, <1>3

\* Every step leaves the records of the tasks and of the outputs well formed.
LEMMA RecordsStep ==
    ASSUME LifeTypeOK, [LifeNext]_lifeVars
    PROVE  /\ UNCHANGED profile /\ asked' \in [Tasks -> BOOLEAN]
           /\ begun' \subseteq DOMAIN profile.devices
           /\ constructed' \in BOOLEAN /\ started' \in BOOLEAN
  <1> DEFINE Kept == /\ UNCHANGED profile
                     /\ \/ asked' = asked
                        \/ \E t \in Tasks, b \in BOOLEAN : asked' = [asked EXCEPT ![t] = b]
                     /\ begun' \in {begun, {}, DOMAIN profile.devices}
                     /\ constructed' \in {constructed, TRUE, FALSE}
                     /\ started' \in {started, TRUE, FALSE}
  <1>1. Kept
    <2>1. CASE preflight \/ construct \/ construct_fails \/ section_done
      BY <2>1 DEF preflight, construct, construct_fails, section_done, tasks
    <2>2. CASE robot_composition_start \/ robot_composition_stop \/ robot_composition_deinit
      BY <2>2 DEF robot_composition_start, robot_composition_stop, robot_composition_deinit,
                  tasks
    <2>3. CASE start_devices \/ finish_start
      BY <2>3 DEF start_devices, finish_start, tasks
    <2>4. ASSUME NEW t \in Tasks, NEW here, NEW next,
                 task_start(t, here, next) \/ task_stop(t, here, next)
          PROVE  Kept
      BY <2>4 DEF task_start, task_stop
    <2>5. CASE stop_outputs \/ factories_stop \/ destroy \/ pass_done
      BY <2>5 DEF stop_outputs, factories_stop, destroy, pass_done, tasks
    <2>6. CASE \E t \in Tasks : task_runs(t) \/ task_leaves(t)
      BY <2>6 DEF task_runs, task_leaves
    <2>7. CASE steering_tick \/ \E e \in Outputs : command(e)
      BY <2>7 DEF steering_tick, command, tasks
    <2>8. CASE UNCHANGED lifeVars
      BY <2>8 DEF lifeVars
    <2> HIDE DEF Kept
    <2> QED BY <2>1, <2>2, <2>3, <2>4, <2>5, <2>6, <2>7, <2>8 DEF LifeNext, Tasks
  <1> QED BY <1>1 DEF LifeTypeOK

\* So every step keeps the types where what is built stays part of the whole.
LEMMA TypesStep ==
    ASSUME LifeTypeOK, LifeInv', [LifeNext]_lifeVars, built' \in [Sections -> SUBSET Nat],
           \A s \in Sections : built'[s] \subseteq Whole[s]
    PROVE  LifeTypeOK'
  <1>1. UNCHANGED profile
    BY RecordsStep
  <1>2. Whole' = Whole
    BY <1>1, TablesStay
  <1> QED BY <1>1, <1>2, RecordsStep DEF LifeTypeOK, LifeInv

\* Before the first call nothing is built.
LEMMA PartsInitInv == LifeInit => PartsInv
  <1> SUFFICES ASSUME LifeInit PROVE PartsInv
    OBVIOUS
  <1>1. /\ profile \in Profiles /\ pc = "preflight" /\ ~constructed /\ ~started
        /\ \A s \in Sections : built[s] = {}
    BY DEF LifeInit, Nothing
  <1>2. Alone
    BY DEF LifeInit, Alone, quiesced
  <1>3. LifeTypeOK
    BY DEF LifeInit, LifeTypeOK, Nothing, Phases
  <1>4. WholeOrNothing /\ LivesInWhole /\ FilledInOrder /\ EmptiedInOrder
    BY <1>1, <1>2 DEF WholeOrNothing, Slot, LivesInWhole, FilledInOrder, EmptiedInOrder
  <1>5. PointsToBuilt /\ DrivesThroughBuilt
    BY <1>1, <1>3, <1>4, OutsideItHolds DEF Outside
  <1> QED BY <1>3, <1>4, <1>5 DEF PartsInv

\* A step that builds and destroys nothing, once the init is over, keeps the
\* invariant where it starts or tears down nothing that is not whole.
LEMMA QuietPartsStep ==
    ASSUME PartsInv, LifeInv', [LifeNext]_lifeVars, UNCHANGED <<built, constructed>>,
           pc \notin {"preflight", "building", "destroying"}, pc' \notin {"preflight", "building"},
           pc' \notin {"destroying", "idle"} => constructed,
           started' \/ ~Alone' => constructed /\ pc' # "destroying",
           EmptiedInOrder'
    PROVE  PartsInv'
  <1>1. /\ LifeTypeOK /\ UNCHANGED profile /\ built \in [Sections -> SUBSET Nat]
        /\ \A s \in Sections : built[s] \subseteq Whole[s]
    BY RecordsStep DEF PartsInv, LifeTypeOK
  <1>2. Whole' = Whole /\ Accepted' = Accepted
    BY <1>1, TablesStay
  <1>3. LifeTypeOK'
    BY <1>1, TypesStep
  <1>4. WholeOrNothing' /\ LivesInWhole' /\ FilledInOrder'
    BY <1>2 DEF PartsInv, WholeOrNothing, Slot, LivesInWhole, FilledInOrder
  <1>5. PointsToBuilt' /\ DrivesThroughBuilt'
    BY <1>1, HoldsKept DEF PartsInv
  <1> QED BY <1>3, <1>4, <1>5 DEF PartsInv

\* A cleanup that begins has nothing behind it.
LEMMA CleanupBegins ==
    ASSUME profile \in Profiles, UNCHANGED profile, section' = "legacy",
           step_at' = SlotsOf["legacy"]
    PROVE  EmptiedInOrder'
  <1>1. SlotsOf' = SlotsOf /\ Taken' = Taken
    BY TablesStay
  <1>2. step_at' = 1 /\ \A p \in Passes : PassOrder[p] >= PassOrder["legacy"]
    BY DEF SlotsOf, Passes, PassOrder
  <1>3. Taken["legacy"] = {1} /\ SlotsOf["legacy"] = 1 /\ SectionOf["legacy"] = "legacy"
    BY DEF Taken, SlotsOf, SectionOf
  <1>4. \A p \in Passes : PassOrder[p] \in Nat
    BY DEF Passes, PassOrder
  <1> QED BY <1>1, <1>2, <1>3, <1>4 DEF EmptiedInOrder, Passes

\* The owner starts, stops or tears down,
LEMMA OwnerPartsStep ==
    ASSUME PartsInv, LifeInv, LifeInv', [LifeNext]_lifeVars,
           \/ robot_composition_start \/ robot_composition_stop
           \/ robot_composition_deinit \/ start_devices \/ finish_start
    PROVE  PartsInv'
  <1>0. LivesInWhole /\ WholeOrNothing /\ profile \in Profiles
    BY DEF PartsInv, LifeTypeOK
  <1>1. CASE robot_composition_start
    <2>1. /\ UNCHANGED <<built, constructed, started, phase>>
          /\ constructed /\ pc = "idle" /\ pc' \in {"idle", "starting"}
      BY <1>1 DEF robot_composition_start, tasks, Owner, Return
    <2> QED BY <1>0, <2>1, QuietPartsStep DEF EmptiedInOrder, LivesInWhole, Alone, quiesced
  <1>2. CASE robot_composition_stop
    <2>1. /\ UNCHANGED <<built, constructed, started, phase>>
          /\ constructed /\ pc = "idle" /\ pc' = "stopping"
      BY <1>2 DEF robot_composition_stop, tasks, Owner
    <2> QED BY <1>0, <2>1, QuietPartsStep DEF EmptiedInOrder, LivesInWhole, Alone, quiesced
  <1>3. CASE robot_composition_deinit
    <2>1. /\ UNCHANGED <<profile, built, constructed, started, phase>> /\ pc = "idle"
          /\ \/ (started \/ ~Alone) /\ pc' = "stopping"
             \/ ~started /\ Alone /\ pc' = "destroying" /\ section' = "legacy"
                /\ step_at' = SlotsOf["legacy"]
      BY <1>3 DEF robot_composition_deinit, tasks, cleanup_runtime, Alone
    <2>2. EmptiedInOrder'
      <3>1. CASE pc' = "stopping" BY <3>1 DEF EmptiedInOrder
      <3>2. CASE pc' # "stopping" BY <1>0, <2>1, <3>2, CleanupBegins
      <3> QED BY <3>1, <3>2
    <2>3. Alone' = Alone
      BY <2>1 DEF Alone, quiesced
    <2> QED BY <1>0, <2>1, <2>2, <2>3, QuietPartsStep DEF LivesInWhole
  <1>4. CASE start_devices
    <2>1. /\ UNCHANGED <<built, constructed, started, phase>>
          /\ pc = "starting" /\ pc' = "start_poll"
      BY <1>4 DEF start_devices, tasks
    <2> QED BY <1>0, <2>1, QuietPartsStep
            DEF EmptiedInOrder, LivesInWhole, WholeOrNothing, Alone, quiesced
  <1>5. CASE finish_start
    <2>1. /\ UNCHANGED <<built, constructed, phase>> /\ pc = "started" /\ pc' = "idle"
      BY <1>5 DEF finish_start, tasks, Return
    <2> QED BY <1>0, <2>1, QuietPartsStep DEF EmptiedInOrder, WholeOrNothing
  <1> QED BY <1>1, <1>2, <1>3, <1>4, <1>5

\* a task is created or collected, or the outputs are stopped,
LEMMA TaskPartsStep ==
    ASSUME PartsInv, LifeInv', [LifeNext]_lifeVars,
           \/ \E t \in Tasks, here \in {"start_poll", "start_steering"},
                 next \in {"start_steering", "started"} : task_start(t, here, next)
           \/ \E t \in Tasks, here \in {"collect_steering", "collect_poll"},
                 next \in {"collect_poll", "stop_devices"} : task_stop(t, here, next)
           \/ stop_outputs
    PROVE  PartsInv'
  <1>1. /\ UNCHANGED <<built, constructed>>
        /\ pc \in {"start_poll", "start_steering", "collect_steering", "collect_poll", "stopping"}
        /\ pc' \in {"start_steering", "started", "stopping", "collect_steering", "collect_poll",
                    "stop_devices", "idle"}
    BY DEF task_start, task_stop, stop_outputs, give_up, Return
  <1>2. constructed
    BY <1>1 DEF PartsInv, WholeOrNothing
  <1> QED BY <1>1, <1>2, QuietPartsStep DEF EmptiedInOrder

\* the factories stop, all tasks collected,
LEMMA FactoriesPartsStep ==
    ASSUME PartsInv, LifeInv, LifeInv', [LifeNext]_lifeVars, factories_stop
    PROVE  PartsInv'
  <1>1. /\ UNCHANGED <<profile, built, constructed, phase>> /\ ~started' /\ pc = "stop_devices"
        /\ \/ pc' = "idle"
           \/ pc' = "destroying" /\ section' = "legacy" /\ step_at' = SlotsOf["legacy"]
    BY DEF factories_stop, tasks, Return
  <1>2. Alone'
    BY <1>1 DEF LifeInv, TasksAreCollected, Alone, quiesced, Tasks
  <1>3. EmptiedInOrder'
    <2>1. CASE pc' = "idle" BY <2>1 DEF EmptiedInOrder
    <2>2. CASE pc' # "idle" BY <1>1, <2>2, CleanupBegins DEF PartsInv, LifeTypeOK
    <2> QED BY <2>1, <2>2
  <1> QED BY <1>1, <1>2, <1>3, QuietPartsStep

\* or somebody who is alive goes on.
LEMMA AlivePartsStep ==
    ASSUME PartsInv, LifeInv', [LifeNext]_lifeVars,
           \/ \E t \in Tasks : task_runs(t) \/ task_leaves(t)
           \/ steering_tick
           \/ \E e \in Outputs : command(e)
    PROVE  PartsInv'
  <1>1. UNCHANGED <<built, constructed, pc>> /\ (started \/ ~Alone)
    <2>1. CASE \E t \in Tasks : task_runs(t) \/ task_leaves(t)
      BY <2>1 DEF task_runs, task_leaves, Alone, quiesced
    <2>2. CASE steering_tick
      BY <2>2 DEF steering_tick, Alone, quiesced, Tasks
    <2>3. CASE \E e \in Outputs : command(e)
      BY <2>3 DEF command
    <2> QED BY <2>1, <2>2, <2>3
  <1>2. constructed /\ pc \notin {"preflight", "building", "destroying"}
    BY <1>1 DEF PartsInv, LivesInWhole
  <1> QED BY <1>1, <1>2, QuietPartsStep DEF EmptiedInOrder

\* A step of the init has nobody alive beside it.
LEMMA InitPartsStep ==
    ASSUME PartsInv, LifeInv', [LifeNext]_lifeVars,
           pc \in {"preflight", "building"}, UNCHANGED <<phase, started>>,
           built' \in [Sections -> SUBSET Nat],
           \A s \in Sections : built'[s] \subseteq Whole[s],
           WholeOrNothing', FilledInOrder', EmptiedInOrder',
           pc' # "destroying" \/ UNCHANGED built
    PROVE  PartsInv'
  <1>1. /\ ~started /\ Alone /\ LifeTypeOK
    BY DEF PartsInv, LivesInWhole
  <1>2. LivesInWhole' /\ UNCHANGED profile
    BY <1>1, RecordsStep DEF LivesInWhole, Alone, quiesced
  <1>3. LifeTypeOK'
    BY <1>1, TypesStep
  <1>4. PointsToBuilt' /\ DrivesThroughBuilt'
    <2>1. CASE pc' # "destroying"
      BY <1>3, <2>1, OutsideItHoldsNext DEF Outside
    <2>2. CASE pc' = "destroying"
      BY <1>2, <2>2, HoldsKept DEF PartsInv
    <2> QED BY <2>1, <2>2
  <1> QED BY <1>2, <1>3, <1>4 DEF PartsInv

\* The init begins with the first section of an accepted profile,
LEMMA PreflightParts ==
    ASSUME PartsInv, LifeInv', [LifeNext]_lifeVars, preflight PROVE PartsInv'
  <1>1. /\ UNCHANGED <<profile, built, constructed, phase, started>> /\ pc = "preflight"
        /\ \/ Accepted /\ pc' = "building" /\ section' = "buses" /\ step_at' = 1
           \/ ~Accepted /\ pc' = "idle"
    BY DEF preflight, tasks, Return, Accepted
  <1>2. /\ LifeTypeOK /\ ~constructed /\ \A s \in Sections : built[s] = {}
    BY <1>1 DEF PartsInv, WholeOrNothing, Slot
  <1>3. /\ profile \in Profiles /\ built \in [Sections -> SUBSET Nat]
        /\ \A s \in Sections : built[s] \subseteq Whole[s]
    BY <1>2 DEF LifeTypeOK
  <1>4. Whole' = Whole /\ Accepted' = Accepted /\ SlotsOf' = SlotsOf
    BY <1>1, TablesStay
  <1>5. WholeOrNothing'
    BY <1>1, <1>2, <1>4 DEF WholeOrNothing, Slot
  <1>6. FilledInOrder'
    <2>1. \A s \in Sections : SlotsOf[s] \in Nat /\ Whole[s] \in SUBSET (1..SlotsOf[s])
      BY <1>3, SlotsAreTyped
    <2>2. /\ "buses" \in Sections /\ 1 \in 1..(SlotsOf["buses"] + 1)
          /\ \A i \in Whole["buses"] : ~(i < 1)
      BY <2>1 DEF Sections
    <2>3. \A s \in Sections : Order[s] >= Order["buses"] /\ Order[s] \in Nat
      BY DEF Sections, Order
    <2> QED BY <1>1, <1>2, <1>4, <2>2, <2>3 DEF FilledInOrder
  <1>7. EmptiedInOrder'
    BY <1>1 DEF EmptiedInOrder
  <1> QED BY <1>1, <1>3, <1>5, <1>6, <1>7, InitPartsStep

\* fills or passes over one slot of it after the other,
LEMMA ConstructParts ==
    ASSUME PartsInv, LifeInv', [LifeNext]_lifeVars, construct PROVE PartsInv'
  <1>1. /\ UNCHANGED <<profile, constructed, phase, started, pc, section>> /\ pc = "building"
        /\ step_at <= SlotsOf[section] /\ step_at' = step_at + 1
        /\ built' = [built EXCEPT ![section] = @ \cup (Whole[section] \cap {step_at})]
    BY DEF construct, tasks
  <1>2. /\ LifeTypeOK /\ ~constructed /\ Accepted
    BY <1>1 DEF PartsInv, WholeOrNothing
  <1>3. /\ profile \in Profiles /\ built \in [Sections -> SUBSET Nat]
        /\ \A s \in Sections : built[s] \subseteq Whole[s]
    BY <1>2 DEF LifeTypeOK
  <1>4. Whole' = Whole /\ Accepted' = Accepted /\ SlotsOf' = SlotsOf
    BY <1>1, TablesStay
  <1>5. \A s \in Sections : SlotsOf[s] \in Nat /\ Whole[s] \in SUBSET (1..SlotsOf[s])
    BY <1>3, SlotsAreTyped
  <1>6. /\ section \in Sections /\ step_at \in 1..(SlotsOf[section] + 1)
        /\ \A s \in Sections :
              /\ Order[s] < Order[section] => built[s] = Whole[s]
              /\ s = section => built[s] = {i \in Whole[s] : i < step_at}
              /\ Order[s] > Order[section] => built[s] = {}
    BY <1>1 DEF PartsInv, FilledInOrder
  <1>7. /\ \A s \in Sections \ {section} : built'[s] = built[s]
        /\ built'[section] = built[section] \cup (Whole[section] \cap {step_at})
        /\ built' \in [Sections -> SUBSET Nat]
    BY <1>1, <1>3, <1>5, <1>6
  <1>8. built'[section] = {i \in Whole[section] : i < step_at + 1}
    <2>1. /\ built[section] = {i \in Whole[section] : i < step_at} /\ step_at \in Nat
          /\ Whole[section] \subseteq Nat
      BY <1>5, <1>6
    <2>2. \A i \in Nat : i < step_at + 1 <=> i < step_at \/ i = step_at
      BY <2>1
    <2> QED BY <1>7, <2>1, <2>2
  <1>9. step_at' \in 1..(SlotsOf[section] + 1)
    BY <1>1, <1>5, <1>6
  <1>10. \A s \in Sections : ~(Order[s] < Order[s]) /\ ~(Order[s] > Order[s])
    BY DEF Sections, Order
  <1>11. FilledInOrder'
    BY <1>1, <1>4, <1>6, <1>7, <1>8, <1>9, <1>10 DEF FilledInOrder
  <1>12. WholeOrNothing' /\ EmptiedInOrder'
    BY <1>1, <1>2, <1>4 DEF WholeOrNothing, EmptiedInOrder
  <1>13. \A s \in Sections : built'[s] \subseteq Whole[s]
    BY <1>3, <1>7
  <1> QED BY <1>1, <1>7, <1>11, <1>12, <1>13, InitPartsStep

\* or turns back where it cannot,
LEMMA ConstructFailsParts ==
    ASSUME PartsInv, LifeInv', [LifeNext]_lifeVars, construct_fails PROVE PartsInv'
  <1>1. /\ LifeTypeOK /\ profile \in Profiles /\ built \in [Sections -> SUBSET Nat]
        /\ \A s \in Sections : built[s] \subseteq Whole[s]
        /\ pc = "building"
    BY DEF PartsInv, LifeTypeOK, construct_fails
  <1>2. ~started /\ Alone /\ Accepted /\ ~constructed
    BY <1>1 DEF PartsInv, LivesInWhole, WholeOrNothing
  <1>3. /\ UNCHANGED <<profile, built, constructed, phase, started>>
        /\ pc' = "destroying" /\ section' = "legacy" /\ step_at' = SlotsOf["legacy"]
    BY <1>2 DEF construct_fails, cleanup_runtime, tasks, Alone
  <1>4. EmptiedInOrder'
    BY <1>1, <1>3, CleanupBegins
  <1>5. Whole' = Whole /\ Accepted' = Accepted
    BY <1>3, TablesStay
  <1>6. WholeOrNothing' /\ FilledInOrder'
    BY <1>2, <1>3, <1>5 DEF WholeOrNothing, FilledInOrder
  <1> QED BY <1>1, <1>3, <1>4, <1>6, InitPartsStep

\* and goes on with the next section until the last one is done.
LEMMA SectionDoneParts ==
    ASSUME PartsInv, LifeInv', [LifeNext]_lifeVars, section_done PROVE PartsInv'
  <1>1. /\ UNCHANGED <<profile, built, phase, started>> /\ pc = "building"
        /\ step_at > SlotsOf[section]
        /\ \/ section = "lock" /\ constructed' /\ pc' = "idle"
           \/ /\ section # "lock" /\ pc' = "building" /\ step_at' = 1 /\ UNCHANGED constructed
              /\ \E s \in Sections : Order[s] = Order[section] + 1 /\ section' = s
    BY DEF section_done, tasks, Return
  <1>2. /\ LifeTypeOK /\ ~constructed /\ Accepted
    BY <1>1 DEF PartsInv, WholeOrNothing
  <1>3. /\ profile \in Profiles /\ built \in [Sections -> SUBSET Nat]
        /\ \A s \in Sections : built[s] \subseteq Whole[s]
    BY <1>2 DEF LifeTypeOK
  <1>4. Whole' = Whole /\ Accepted' = Accepted /\ SlotsOf' = SlotsOf
    BY <1>1, TablesStay
  <1>5. \A s \in Sections : SlotsOf[s] \in Nat /\ Whole[s] \in SUBSET (1..SlotsOf[s])
    BY <1>3, SlotsAreTyped
  <1>6. /\ section \in Sections /\ step_at \in 1..(SlotsOf[section] + 1)
        /\ \A s \in Sections :
              /\ Order[s] < Order[section] => built[s] = Whole[s]
              /\ s = section => built[s] = {i \in Whole[s] : i < step_at}
              /\ Order[s] > Order[section] => built[s] = {}
    BY <1>1 DEF PartsInv, FilledInOrder
  <1>7. built[section] = Whole[section]
    <2>1. \A i \in Whole[section] : i < step_at
      BY <1>1, <1>5, <1>6
    <2> QED BY <1>6, <2>1
  <1>8. CASE section = "lock"
    <2>1. \A s \in Sections : s = "lock" \/ Order[s] < Order["lock"]
      BY DEF Sections, Order
    <2>2. \A s \in Sections : built[s] = Whole[s]
      BY <1>6, <1>7, <1>8, <2>1
    <2>3. WholeOrNothing' /\ FilledInOrder' /\ EmptiedInOrder'
      BY <1>1, <1>2, <1>4, <1>8, <2>2 DEF WholeOrNothing, Slot, FilledInOrder, EmptiedInOrder
    <2> QED BY <1>1, <1>3, <1>8, <2>3, InitPartsStep
  <1>9. CASE section # "lock"
    <2>1. PICK next \in Sections : Order[next] = Order[section] + 1 /\ section' = next
      BY <1>1, <1>9
    <2>2. \A s \in Sections :
             /\ Order[s] < Order[next] => Order[s] < Order[section] \/ s = section
             /\ Order[s] >= Order[next] => Order[s] > Order[section]
             /\ s = next => Order[s] >= Order[next]
             /\ Order[s] > Order[next] => Order[s] >= Order[next]
      BY <1>6, <2>1 DEF Sections, Order
    <2>3. /\ 1 \in 1..(SlotsOf[next] + 1) /\ \A i \in Whole[next] : ~(i < 1)
      BY <1>5
    <2>4. \A s \in Sections :
             /\ Order[s] < Order[next] => built[s] = Whole[s]
             /\ s = next => built[s] = {i \in Whole[s] : i < 1}
             /\ Order[s] > Order[next] => built[s] = {}
      BY <1>6, <1>7, <2>2, <2>3
    <2>5. FilledInOrder'
      BY <1>1, <1>4, <1>9, <2>1, <2>3, <2>4 DEF FilledInOrder
    <2>6. WholeOrNothing' /\ EmptiedInOrder'
      BY <1>1, <1>2, <1>4, <1>9 DEF WholeOrNothing, EmptiedInOrder
    <2> QED BY <1>1, <1>3, <1>9, <2>5, <2>6, InitPartsStep
  <1> QED BY <1>8, <1>9

\* What a pass takes are slots of its section.
LEMMA TakenAreSlots ==
    ASSUME profile \in Profiles
    PROVE  \A p \in Passes : /\ SectionOf[p] \in Sections /\ SlotsOf[SectionOf[p]] \in Nat
                             /\ Taken[p] \in SUBSET (1..SlotsOf[SectionOf[p]])
  <1>1. /\ DOMAIN profile.buses = 1..Len(profile.buses) /\ Len(profile.buses) \in Nat
        /\ DOMAIN profile.devices = 1..Len(profile.devices) /\ Len(profile.devices) \in Nat
        /\ DOMAIN profile.endpoints = 1..Len(profile.endpoints) /\ Len(profile.endpoints) \in Nat
    BY TablesAreTyped
  <1>2. /\ Wheels \subseteq DOMAIN profile.endpoints /\ Observations \subseteq DOMAIN profile.endpoints
        /\ BusesOf("uart") \subseteq DOMAIN profile.buses /\ BusesOf("i2c") \subseteq DOMAIN profile.buses
    BY DEF Wheels, Observations, EndpointsOf, BusesOf
  <1> QED BY <1>1, <1>2 DEF Passes, SectionOf, SlotsOf, Taken, Sections

\* The passes that are over have emptied what the later ones no longer see.
LEMMA PassesHaveEmptied ==
    ASSUME PartsInv, pc = "destroying", section \notin {"legacy", "wheels", "observations"}
    PROVE  /\ built.legacy = {} /\ built.frames = {} /\ built.endpoints \subseteq Positions
           /\ section # "devices" => built.devices = {} /\ built.endpoints = {}
  <1>1. /\ profile \in Profiles /\ section \in Passes
        /\ \A s \in Sections : built[s] \subseteq Whole[s]
        /\ Accepted \/ \A s \in Sections : built[s] = {}
    BY DEF PartsInv, LifeTypeOK, EmptiedInOrder, WholeOrNothing
  <1>2. CASE \A s \in Sections : built[s] = {}
    BY <1>2 DEF Sections
  <1>3. CASE Accepted
    <2>1. /\ built.legacy \subseteq {1} /\ built.devices \subseteq DOMAIN profile.devices
          /\ built.endpoints \subseteq DOMAIN profile.endpoints
          /\ built.frames \subseteq DOMAIN profile.axes
      BY <1>1 DEF Sections, Whole
    <2>2. \A p \in Passes : PassOrder[p] < PassOrder[section] =>
             \A i \in Taken[p] : i \notin built[SectionOf[p]]
      BY DEF PartsInv, EmptiedInOrder
    <2>3. /\ \A i \in {1} : i \notin built.legacy
          /\ \A i \in Wheels \cup Observations : i \notin built.endpoints
      BY <1>1, <2>2 DEF Passes, PassOrder, Taken, SectionOf
    <2>4. section # "devices" => \A i \in DOMAIN profile.devices : i \notin built.devices
      BY <1>1, <2>2 DEF Passes, PassOrder, Taken, SectionOf
    <2>5. built.legacy = {} /\ built.endpoints \subseteq Positions
      BY <1>1, <1>3, <2>1, <2>3, EndpointsHaveKinds
    <2>6. built.frames = {}
      <3> SUFFICES ASSUME NEW a \in built.frames PROVE FALSE
        OBVIOUS
      <3>1. PICK e \in built.endpoints : profile.endpoints[e].id = profile.axes[a].observation
        BY DEF PartsInv, PointsToBuilt
      <3>2. e \in Observations
        BY <1>1, <1>3, <2>1, <3>1, KindsAreApart
      <3> QED BY <2>3, <3>1, <3>2
    <2>7. section # "devices" => built.devices = {} /\ built.endpoints = {}
      BY <2>1, <2>4 DEF PartsInv, PointsToBuilt
    <2> QED BY <2>5, <2>6, <2>7
  <1> QED BY <1>1, <1>2, <1>3

\* A slot less is built, and the slot the pass is at is gone.
LEMMA DestroyTakes ==
    ASSUME PartsInv, destroy
    PROVE  /\ built' \in [Sections -> SUBSET Nat] /\ \A s \in Sections : built'[s] \subseteq built[s]
           /\ section \in Passes /\ SectionOf[section] \in Sections
           /\ step_at \in Taken[section] => step_at \notin built'[SectionOf[section]]
  <1>1. built \in [Sections -> SUBSET Nat] /\ section \in Passes /\ SectionOf[section] \in Sections
    BY SlotsAreTyped DEF PartsInv, LifeTypeOK, EmptiedInOrder, destroy
  <1>2. CASE section = "devices"
    <2>1. PICK gone : /\ gone = Taken[section] \cap {step_at}
                      /\ built' = [built EXCEPT !.devices = @ \ gone, !.endpoints = @ \ HeldBy(step_at)]
      BY <1>2 DEF destroy
    <2> QED BY <1>1, <1>2, <2>1 DEF Sections, SectionOf
  <1>3. CASE section = "observations"
    <2>1. PICK gone : /\ gone = Taken[section] \cap {step_at}
                      /\ built' = [built EXCEPT !.endpoints = @ \ gone, !.frames = @ \ FramesOf(step_at)]
      BY <1>3 DEF destroy
    <2> QED BY <1>1, <1>3, <2>1 DEF Sections, SectionOf
  <1>4. CASE section \notin {"devices", "observations"}
    <2>1. built' = [built EXCEPT ![SectionOf[section]] = @ \ (Taken[section] \cap {step_at})]
      BY <1>4 DEF destroy
    <2> QED BY <1>1, <2>1
  <1> QED BY <1>1, <1>2, <1>3, <1>4

\* Nothing that stays points to the slot that goes: the view of the wheels, then
\* the wheels,
LEMMA FirstPassesHold ==
    ASSUME PartsInv, destroy, section \in {"legacy", "wheels"}
    PROVE  PointsToBuilt' /\ DrivesThroughBuilt'
  <1>1. /\ UNCHANGED <<profile, pc>> /\ profile \in Profiles
        /\ \A s \in Sections : built[s] \subseteq Whole[s]
        /\ Accepted \/ \A s \in Sections : built[s] = {}
    BY DEF PartsInv, LifeTypeOK, WholeOrNothing, destroy
  <1>2. /\ built'.devices = built.devices /\ built'.buses = built.buses
        /\ built'.frames = built.frames /\ built'.legacy \subseteq built.legacy
        /\ \E gone \in SUBSET Wheels : built'.endpoints = built.endpoints \ gone
    <2>1. CASE section = "legacy"
      <3>1. built' = [built EXCEPT ![SectionOf[section]] = @ \ (Taken[section] \cap {step_at})]
        BY <2>1 DEF destroy
      <3>2. /\ built'.devices = built.devices /\ built'.buses = built.buses
            /\ built'.frames = built.frames /\ built'.endpoints = built.endpoints
            /\ built'.legacy \subseteq built.legacy
        BY <2>1, <3>1 DEF SectionOf, PartsInv, LifeTypeOK, Sections
      <3>3. built'.endpoints = built.endpoints \ {} /\ {} \in SUBSET Wheels
        BY <3>2
      <3> QED BY <3>2, <3>3
    <2>2. CASE section = "wheels"
      <3>1. built' = [built EXCEPT ![SectionOf[section]] = @ \ (Taken[section] \cap {step_at})]
        BY <2>2 DEF destroy
      <3> QED BY <2>2, <3>1 DEF SectionOf, Taken, PartsInv, LifeTypeOK, Sections
    <2> QED BY <2>1, <2>2
  <1>3. /\ built.endpoints \subseteq DOMAIN profile.endpoints
        /\ built.frames \subseteq DOMAIN profile.axes
        /\ Accepted \/ built.frames = {}
    BY <1>1 DEF Sections, Whole
  <1>4. \A a \in built'.frames :
           \A id \in {profile.axes[a].actuator, profile.axes[a].observation} :
              \E e \in built'.endpoints : profile.endpoints[e].id = id
    <2> SUFFICES ASSUME NEW a \in built.frames,
                        NEW id \in {profile.axes[a].actuator, profile.axes[a].observation}
                 PROVE  \E e \in built'.endpoints : profile.endpoints[e].id = id
      BY <1>2
    <2>1. PICK e \in built.endpoints : profile.endpoints[e].id = id
      BY DEF PartsInv, PointsToBuilt
    <2>2. e \notin Wheels
      BY <1>1, <1>3, <2>1, KindsAreApart
    <2> QED BY <1>2, <2>1, <2>2
  <1>5. PointsToBuilt'
    BY <1>1, <1>2, <1>4 DEF PartsInv, PointsToBuilt, DevicesOf
  <1>6. \A c : ListedAfterItsParts(c)' = ListedAfterItsParts(c)
    BY <1>1 DEF ListedAfterItsParts
  <1>7. DrivesThroughBuilt'
    BY <1>1, <1>2, <1>6, TablesStay DEF PartsInv, DrivesThroughBuilt
  <1> QED BY <1>5, <1>7

\* the observations with the frames they hold,
LEMMA ObservationsPassHolds ==
    ASSUME PartsInv, destroy, section = "observations"
    PROVE  PointsToBuilt' /\ DrivesThroughBuilt'
  <1>1. /\ UNCHANGED <<profile, pc>> /\ profile \in Profiles
        /\ built \in [Sections -> SUBSET Nat]
        /\ \A s \in Sections : built[s] \subseteq Whole[s]
        /\ Accepted \/ \A s \in Sections : built[s] = {}
    BY DEF PartsInv, LifeTypeOK, WholeOrNothing, destroy
  <1>2. PICK gone : /\ gone = Taken[section] \cap {step_at}
                    /\ built' = [built EXCEPT !.endpoints = @ \ gone, !.frames = @ \ FramesOf(step_at)]
    BY DEF destroy
  <1>3. /\ built'.devices = built.devices /\ built'.buses = built.buses
        /\ built'.legacy = built.legacy /\ built'.frames = built.frames \ FramesOf(step_at)
        /\ built'.endpoints = built.endpoints \ gone
        /\ gone \subseteq {step_at} /\ gone \subseteq Observations
    BY <1>1, <1>2 DEF Taken, Sections
  <1>4. /\ built.endpoints \subseteq DOMAIN profile.endpoints
        /\ built.frames \subseteq DOMAIN profile.axes
        /\ Accepted \/ built.frames = {}
    BY <1>1 DEF Sections, Whole
  <1>5. \A a \in built'.frames :
           \A id \in {profile.axes[a].actuator, profile.axes[a].observation} :
              \E e \in built'.endpoints : profile.endpoints[e].id = id
    <2> SUFFICES ASSUME NEW a \in built.frames, a \notin FramesOf(step_at),
                        NEW id \in {profile.axes[a].actuator, profile.axes[a].observation}
                 PROVE  \E e \in built'.endpoints : profile.endpoints[e].id = id
      BY <1>3
    <2>1. PICK e \in built.endpoints : profile.endpoints[e].id = id
      BY DEF PartsInv, PointsToBuilt
    <2>2. CASE id = profile.axes[a].observation
      <3>1. e # step_at
        BY <1>4, <2>1, <2>2 DEF FramesOf
      <3> QED BY <1>3, <2>1, <3>1
    <2>3. CASE id = profile.axes[a].actuator
      <3>1. e \notin Observations
        BY <1>1, <1>4, <2>1, <2>3, KindsAreApart
      <3> QED BY <1>3, <2>1, <3>1
    <2> QED BY <2>2, <2>3
  <1>6. PointsToBuilt'
    BY <1>1, <1>3, <1>5 DEF PartsInv, PointsToBuilt, DevicesOf
  <1>7. \A c : ListedAfterItsParts(c)' = ListedAfterItsParts(c)
    BY <1>1 DEF ListedAfterItsParts
  <1>8. DrivesThroughBuilt'
    BY <1>1, <1>3, <1>7, TablesStay DEF PartsInv, DrivesThroughBuilt
  <1> QED BY <1>6, <1>8

\* the devices with the position endpoints they hold, a controller before the
\* parts it is listed after,
LEMMA DevicesPassHolds ==
    ASSUME PartsInv, destroy, section = "devices"
    PROVE  PointsToBuilt' /\ DrivesThroughBuilt'
  <1>1. /\ UNCHANGED <<profile, pc>> /\ profile \in Profiles /\ pc = "destroying"
        /\ built \in [Sections -> SUBSET Nat] /\ step_at \in Nat
        /\ \A s \in Sections : built[s] \subseteq Whole[s]
    <2>1. step_at \in 0..SlotsOf[SectionOf[section]]
      BY DEF PartsInv, EmptiedInOrder, destroy
    <2> QED BY <2>1 DEF PartsInv, LifeTypeOK, destroy
  <1>2. PICK gone : /\ gone = Taken[section] \cap {step_at}
                    /\ built' = [built EXCEPT !.devices = @ \ gone, !.endpoints = @ \ HeldBy(step_at)]
    BY DEF destroy
  <1>3. /\ built'.devices = built.devices \ gone /\ built'.buses = built.buses
        /\ built'.legacy = built.legacy /\ built'.frames = built.frames
        /\ built'.endpoints = built.endpoints \ HeldBy(step_at) /\ gone \subseteq {step_at}
    BY <1>1, <1>2 DEF Taken, Sections
  <1>4. built.legacy = {} /\ built.frames = {} /\ built.endpoints \subseteq Positions
    BY <1>1, PassesHaveEmptied
  <1>5. \A e \in built'.endpoints :
           \E d \in built'.devices : profile.devices[d].id = profile.endpoints[e].device
    <2> SUFFICES ASSUME NEW e \in built.endpoints, e \notin HeldBy(step_at)
                 PROVE  \E d \in built'.devices : profile.devices[d].id = profile.endpoints[e].device
      BY <1>3
    <2>1. PICK d \in built.devices : profile.devices[d].id = profile.endpoints[e].device
      BY DEF PartsInv, PointsToBuilt
    <2>2. d # step_at
      BY <1>4, <2>1 DEF HeldBy
    <2> QED BY <1>3, <2>1, <2>2
  <1>6. PointsToBuilt'
    BY <1>1, <1>3, <1>4, <1>5 DEF PartsInv, PointsToBuilt
  <1>7. \A c \in built.devices : c \in DOMAIN profile.devices /\ c \in Nat /\ ~(c > step_at)
    <2>1. \A c \in built.devices : c \in DOMAIN profile.devices /\ c \in Nat
      BY <1>1 DEF Sections, Whole
    <2>2. \A c \in Taken["devices"] : c > step_at => c \notin built[SectionOf["devices"]]
      BY <1>1 DEF PartsInv, EmptiedInOrder
    <2> QED BY <2>1, <2>2 DEF Taken, SectionOf
  <1>8. DrivesThroughBuilt'
    <2> SUFFICES ASSUME NEW e \in built'.endpoints \cap Positions, NEW a \in DOMAIN profile.axes,
                        NEW c \in built'.devices,
                        profile.axes[a].actuator = profile.endpoints[e].id,
                        profile.axes[a].controller = profile.devices[c].id,
                        ListedAfterItsParts(c),
                        NEW id \in {profile.axes[a].pwm, profile.axes[a].sensor}
                 PROVE  \E d \in built'.devices : profile.devices[d].id = id
      BY <1>1, TablesStay DEF DrivesThroughBuilt, ListedAfterItsParts
    <2>1. e \in built.endpoints \cap Positions /\ c \in built.devices
      BY <1>3
    <2>2. PICK d \in built.devices : profile.devices[d].id = id
      BY <2>1 DEF PartsInv, DrivesThroughBuilt
    <2>3. d < c
      BY <1>7, <2>1, <2>2 DEF ListedAfterItsParts
    <2>4. d # step_at
      BY <1>1, <1>7, <2>1, <2>2, <2>3
    <2> QED BY <1>3, <2>2, <2>4
  <1> QED BY <1>6, <1>8

\* and the buses when nothing names them any more.
LEMMA LastPassesHold ==
    ASSUME PartsInv, destroy, section \in {"uarts", "i2cs", "lock"}
    PROVE  PointsToBuilt' /\ DrivesThroughBuilt'
  <1>1. /\ built.legacy = {} /\ built.frames = {} /\ built.endpoints = {} /\ built.devices = {}
    BY PassesHaveEmptied DEF destroy
  <1>2. \A s \in Sections : built'[s] \subseteq built[s]
    BY DestroyTakes
  <1>3. built'.legacy = {} /\ built'.frames = {} /\ built'.endpoints = {} /\ built'.devices = {}
    BY <1>1, <1>2 DEF Sections
  <1> QED BY <1>3 DEF PointsToBuilt, DrivesThroughBuilt

\* So a slot is destroyed,
LEMMA DestroyParts ==
    ASSUME PartsInv, LifeInv', [LifeNext]_lifeVars, destroy PROVE PartsInv'
  <1>1. /\ UNCHANGED <<profile, constructed, phase, started, pc, section>> /\ pc = "destroying"
        /\ step_at > 0 /\ step_at' = step_at - 1 /\ LifeTypeOK /\ profile \in Profiles
        /\ \A s \in Sections : built[s] \subseteq Whole[s]
    BY DEF PartsInv, LifeTypeOK, destroy, tasks
  <1>2. Whole' = Whole /\ Accepted' = Accepted /\ SlotsOf' = SlotsOf /\ Taken' = Taken
    BY <1>1, TablesStay
  <1>3. /\ built' \in [Sections -> SUBSET Nat] /\ \A s \in Sections : built'[s] \subseteq built[s]
        /\ section \in Passes /\ step_at \in Taken[section] => step_at \notin built'[SectionOf[section]]
        /\ section \in Passes
    BY DestroyTakes
  <1>4. \A p \in Passes : /\ SectionOf[p] \in Sections /\ SlotsOf[SectionOf[p]] \in Nat
                          /\ Taken[p] \in SUBSET (1..SlotsOf[SectionOf[p]])
    BY <1>1, TakenAreSlots
  <1>5. step_at \in 0..SlotsOf[SectionOf[section]] /\ step_at' \in 0..SlotsOf[SectionOf[section]]
    <2>1. step_at \in 0..SlotsOf[SectionOf[section]]
      BY <1>1 DEF PartsInv, EmptiedInOrder
    <2> QED BY <1>1, <1>3, <1>4, <2>1
  <1>6. EmptiedInOrder'
    <2> SUFFICES ASSUME NEW p \in Passes, NEW i \in Taken[p],
                        \/ PassOrder[p] < PassOrder[section]
                        \/ p = section /\ i > step_at - 1
                 PROVE  i \notin built'[SectionOf[p]]
      BY <1>1, <1>2, <1>3, <1>5 DEF EmptiedInOrder
    <2>1. i \in Nat /\ (i > step_at - 1 => i > step_at \/ i = step_at)
      BY <1>4, <1>5
    <2>2. CASE PassOrder[p] < PassOrder[section] \/ (p = section /\ i > step_at)
      <3>1. i \notin built[SectionOf[p]]
        BY <1>1, <2>2 DEF PartsInv, EmptiedInOrder
      <3> QED BY <1>3, <1>4, <3>1
    <2>3. CASE p = section /\ i = step_at
      BY <1>3, <2>3
    <2> QED BY <2>1, <2>2, <2>3
  <1>7. WholeOrNothing' /\ LivesInWhole' /\ FilledInOrder'
    BY <1>1, <1>2, <1>3
       DEF PartsInv, WholeOrNothing, LivesInWhole, Alone, quiesced, FilledInOrder
  <1>8. LifeTypeOK'
    <2>1. \A s \in Sections : built'[s] \subseteq Whole[s]
      BY <1>1, <1>3
    <2> QED BY <1>1, <1>3, <2>1, TypesStep
  <1>9. PointsToBuilt' /\ DrivesThroughBuilt'
    BY <1>3, FirstPassesHold, ObservationsPassHolds, DevicesPassHolds, LastPassesHold DEF Passes
  <1> QED BY <1>6, <1>7, <1>8, <1>9 DEF PartsInv

\* and the next pass begins, or all is gone.
LEMMA PassDoneParts ==
    ASSUME PartsInv, LifeInv', [LifeNext]_lifeVars, pass_done PROVE PartsInv'
  <1>1. /\ UNCHANGED <<profile, built, phase, started>> /\ pc = "destroying" /\ step_at = 0
        /\ \/ section = "lock" /\ ~constructed' /\ pc' = "idle"
           \/ /\ section # "lock" /\ pc' = "destroying" /\ UNCHANGED constructed
              /\ \E p \in Passes : /\ PassOrder[p] = PassOrder[section] + 1
                                   /\ section' = p /\ step_at' = SlotsOf[SectionOf[p]]
    BY DEF pass_done, tasks, Return
  <1>2. /\ LifeTypeOK /\ profile \in Profiles /\ built \in [Sections -> SUBSET Nat]
        /\ \A s \in Sections : built[s] \subseteq Whole[s]
        /\ section \in Passes
    BY <1>1 DEF PartsInv, LifeTypeOK, EmptiedInOrder
  <1>3. Whole' = Whole /\ Accepted' = Accepted /\ SlotsOf' = SlotsOf /\ Taken' = Taken
    BY <1>1, TablesStay
  <1>4. \A p \in Passes : /\ SectionOf[p] \in Sections /\ SlotsOf[SectionOf[p]] \in Nat
                          /\ Taken[p] \in SUBSET (1..SlotsOf[SectionOf[p]])
    BY <1>2, TakenAreSlots
  <1>5. \A p \in Passes : \A i \in Taken[p] :
           PassOrder[p] < PassOrder[section] \/ p = section => i \notin built[SectionOf[p]]
    <2>1. \A p \in Passes : \A i \in Taken[p] : i > 0
      BY <1>4
    <2> QED BY <1>1, <2>1 DEF PartsInv, EmptiedInOrder
  <1>6. ~started /\ Alone
    BY <1>1 DEF PartsInv, LivesInWhole
  <1>7. LifeTypeOK' /\ LivesInWhole'
    BY <1>1, <1>2, <1>6, TypesStep DEF LivesInWhole, Alone, quiesced
  <1>8. CASE section = "lock"
    <2>1. \A p \in Passes : PassOrder[p] < PassOrder["lock"] \/ p = "lock"
      BY DEF Passes, PassOrder
    <2>2. \A p \in Passes : \A i \in Taken[p] : i \notin built[SectionOf[p]]
      BY <1>5, <1>8, <2>1
    <2>3. /\ \A i \in BusesOf("uart") \cup BusesOf("i2c") : i \notin built.buses
          /\ \A i \in {1} : i \notin built.lock
      BY <2>2 DEF Passes, Taken, SectionOf
    <2>4. built.buses = {} /\ built.lock = {}
      BY <1>2, <2>3 DEF Sections, Whole
    <2>5. /\ built.legacy = {} /\ built.frames = {} /\ built.endpoints = {} /\ built.devices = {}
      BY <1>1, <1>8, PassesHaveEmptied
    <2>6. \A s \in Sections : built[s] = {}
      BY <2>4, <2>5 DEF Sections
    <2>7. WholeOrNothing' /\ FilledInOrder' /\ EmptiedInOrder'
      BY <1>1, <1>3, <1>8, <2>6 DEF WholeOrNothing, Slot, FilledInOrder, EmptiedInOrder
    <2>8. PointsToBuilt' /\ DrivesThroughBuilt'
      BY <1>1, <2>5 DEF PointsToBuilt, DrivesThroughBuilt
    <2> QED BY <1>7, <2>7, <2>8 DEF PartsInv
  <1>9. CASE section # "lock"
    <2>1. PICK next \in Passes : /\ PassOrder[next] = PassOrder[section] + 1
                                 /\ section' = next /\ step_at' = SlotsOf[SectionOf[next]]
      BY <1>1, <1>9
    <2>2. \A p \in Passes : PassOrder[p] < PassOrder[next] => PassOrder[p] < PassOrder[section] \/ p = section
      BY <1>2, <2>1 DEF Passes, PassOrder
    <2>3. \A i \in Taken[next] : ~(i > SlotsOf[SectionOf[next]])
      BY <1>4
    <2>4. \A p \in Passes : \A i \in Taken[p] :
             PassOrder[p] < PassOrder[next] \/ (p = next /\ i > SlotsOf[SectionOf[next]])
                => i \notin built[SectionOf[p]]
      BY <1>5, <2>2, <2>3
    <2>5. step_at' \in 0..SlotsOf[SectionOf[next]]
      BY <1>4, <2>1
    <2>6. EmptiedInOrder'
      BY <1>1, <1>3, <2>1, <2>4, <2>5 DEF EmptiedInOrder
    <2>7. WholeOrNothing' /\ FilledInOrder'
      BY <1>1, <1>3, <1>9 DEF PartsInv, WholeOrNothing, FilledInOrder
    <2>8. PointsToBuilt' /\ DrivesThroughBuilt'
      BY <1>1, <1>9, HoldsKept DEF PartsInv
    <2> QED BY <1>7, <2>6, <2>7, <2>8 DEF PartsInv
  <1> QED BY <1>8, <1>9

\* Every step keeps the parts together.
LEMMA PartsNextInv == PartsInv /\ LifeInv /\ LifeInv' /\ [LifeNext]_lifeVars => PartsInv'
  <1> SUFFICES ASSUME PartsInv, LifeInv, LifeInv', [LifeNext]_lifeVars PROVE PartsInv'
    OBVIOUS
  <1>1. CASE preflight BY <1>1, PreflightParts
  <1>2. CASE construct BY <1>2, ConstructParts
  <1>3. CASE construct_fails BY <1>3, ConstructFailsParts
  <1>4. CASE section_done BY <1>4, SectionDoneParts
  <1>5. CASE \/ robot_composition_start \/ robot_composition_stop
             \/ robot_composition_deinit \/ start_devices \/ finish_start
    BY <1>5, OwnerPartsStep
  <1>6. CASE \/ task_start("poll", "start_poll", "start_steering")
             \/ task_start("steering", "start_steering", "started")
             \/ task_stop("steering", "collect_steering", "collect_poll")
             \/ task_stop("poll", "collect_poll", "stop_devices")
             \/ stop_outputs
    BY <1>6, TaskPartsStep DEF Tasks
  <1>7. CASE factories_stop BY <1>7, FactoriesPartsStep
  <1>8. CASE destroy BY <1>8, DestroyParts
  <1>9. CASE pass_done BY <1>9, PassDoneParts
  <1>10. CASE \/ \E t \in Tasks : task_runs(t) \/ task_leaves(t)
              \/ steering_tick
              \/ \E e \in Outputs : command(e)
    BY <1>10, AlivePartsStep
  <1>11. CASE UNCHANGED lifeVars
    <2>1. /\ UNCHANGED <<profile, built, constructed, started, phase, pc, section, step_at>>
          /\ LifeTypeOK /\ \A s \in Sections : built[s] \subseteq Whole[s]
          /\ built \in [Sections -> SUBSET Nat]
      BY <1>11 DEF lifeVars, PartsInv, LifeTypeOK
    <2>2. /\ Whole' = Whole /\ Accepted' = Accepted /\ SlotsOf' = SlotsOf /\ Taken' = Taken
      BY <2>1, TablesStay
    <2>3. LifeTypeOK'
      BY <2>1, TypesStep
    <2>4. PointsToBuilt' /\ DrivesThroughBuilt'
      BY <2>1, HoldsKept DEF PartsInv
    <2> QED BY <2>1, <2>2, <2>3, <2>4 DEF PartsInv, WholeOrNothing, Slot, LivesInWhole, Alone,
               quiesced, FilledInOrder, EmptiedInOrder
  <1> QED BY <1>1, <1>2, <1>3, <1>4, <1>5, <1>6, <1>7, <1>8, <1>9, <1>10, <1>11 DEF LifeNext

\* What the invariant says of the tasks and of the owner's calls.
LEMMA PartsHold == PartsInv => LifeTypeOK /\ CompositionHolds
  <1> SUFFICES ASSUME PartsInv PROVE NothingDangles /\ NoHalfComposition
    BY DEF PartsInv, CompositionHolds
  <1>1. /\ profile \in Profiles /\ built \in [Sections -> SUBSET Nat]
        /\ WholeOrNothing /\ LivesInWhole
    BY DEF PartsInv, LifeTypeOK
  <1>2. ASSUME NEW t \in Tasks, phase[t] \in {"created", "running", "leaving"}
        PROVE  TaskUses(t) \subseteq built.devices /\ Positions \subseteq built.endpoints
    <2>1. constructed /\ pc \notin {"preflight", "building", "destroying"}
      BY <1>1, <1>2 DEF LivesInWhole, Alone, quiesced
    <2>2. built.devices = DOMAIN profile.devices /\ built.endpoints = DOMAIN profile.endpoints
      BY <1>1, <2>1 DEF WholeOrNothing, Slot, Whole, Sections
    <2> QED BY <2>2 DEF TaskUses, DevicesOf, Positions, EndpointsOf
  <1>3. NoHalfComposition
    <2> SUFFICES ASSUME pc = "idle" PROVE built \in {Nothing, Whole}
      BY DEF NoHalfComposition
    <2>1. \A s \in Sections : built[s] = Slot(s)
      BY <1>1 DEF WholeOrNothing
    <2>2. Whole \in [Sections -> SUBSET Nat] /\ Nothing \in [Sections -> SUBSET Nat]
      BY <1>1, SlotsAreTyped DEF Nothing
    <2>3. CASE constructed
      <3>1. \A s \in Sections : built[s] = Whole[s]
        BY <2>1, <2>3 DEF Slot
      <3> HIDE DEF Whole
      <3> QED BY <1>1, <2>2, <3>1
    <2>4. CASE ~constructed
      <3>1. \A s \in Sections : built[s] = Nothing[s]
        BY <2>1, <2>4 DEF Slot, Nothing
      <3> QED BY <1>1, <2>2, <3>1
    <2> QED BY <2>3, <2>4
  <1> QED BY <1>2, <1>3 DEF PartsInv, NothingDangles

\* At every step of every call what is built holds together: a slot points to
\* nothing that is gone, no part goes under a task that may be inside it, and a
\* call leaves a whole composition or nothing (robot_composition_init, _stop,
\* cleanup_runtime), for all tables, whatever fails or times out on the way.
THEOREM CompositionAlwaysHolds == LifeSpec => [](LifeTypeOK /\ CompositionHolds)
  <1>1. LifeInit => LifeInv /\ PartsInv BY LifeInitInv, PartsInitInv
  <1>2. LifeInv /\ PartsInv /\ [LifeNext]_lifeVars => LifeInv' /\ PartsInv'
    BY LifeNextInv, PartsNextInv
  <1> QED BY <1>1, <1>2, PartsHold, PTL DEF LifeSpec

(* ------------------------- the automatic check --------------------------- *)

\* A check made after OFF is the one that was under way: the task that made it
\* reads the stored switch before it can begin another.
StaleCheckEnds ==
    stale_checks >= 1 =>
        /\ stale_checks = 1 /\ ~cfg_enabled
        /\ \/ doing["task"] \in {"check", "success", "failure", "sleep", "top"}
           \/ doing["task"] \in {"interval", "enable"} /\ ~seen.enabled

CheckInv == CheckTypeOK /\ StaleCheckEnds

CheckPlaces == {"top", "interval", "enable", "begin", "check", "success", "failure", "sleep",
                "on", "off"}

\* An actor that moves leaves the other where it is.
LEMMA MoveTyped ==
    ASSUME CheckTypeOK, NEW a \in CheckActors, NEW where \in CheckPlaces, Move(a, where)
    PROVE  /\ doing' \in [CheckActors -> CheckPlaces]
           /\ doing'[a] = where
           /\ \A b \in CheckActors \ {a} : doing'[b] = doing[b]
  BY DEF Move, CheckTypeOK, CheckPlaces

\* The back-off stays between its bounds.
LEMMA BackoffTyped ==
    ASSUME NEW b \in InitialBackoff..MaxBackoff
    PROVE  next_backoff(b) \in InitialBackoff..MaxBackoff
  BY CheckAssumption DEF next_backoff, capped

\* What stands for no snapshot is one.
LEMMA UnseenTyped == Unseen \in [enabled : BOOLEAN, interval : Intervals]
  BY CheckAssumption DEF Unseen

\* What a check that ends records has its type.
LEMMA RecordTyped ==
    ASSUME CheckTypeOK, record_success \/ auto_status_record_failure
    PROVE  /\ auto_enabled' \in BOOLEAN /\ auto_interval' \in Intervals
           /\ auto_backoff' \in InitialBackoff..MaxBackoff
           /\ auto_checking' \in BOOLEAN /\ next_check' \in Nat /\ lost_record' \in BOOLEAN
  <1>1. /\ auto_enabled \in BOOLEAN /\ auto_interval \in Intervals /\ auto_interval \in Nat
        /\ auto_backoff \in InitialBackoff..MaxBackoff /\ auto_backoff \in Nat
        /\ InitialBackoff \in InitialBackoff..MaxBackoff /\ InitialBackoff \in Nat
        /\ auto_checking \in BOOLEAN /\ next_check \in Nat
    BY CheckAssumption DEF CheckTypeOK
  <1>2. CASE record_success
    <2>1. PICK locked \in BOOLEAN :
            /\ IF locked THEN /\ auto_checking' = FALSE
                              /\ next_check' = IF auto_enabled THEN auto_interval ELSE 0
                              /\ auto_backoff' = InitialBackoff
               ELSE UNCHANGED <<auto_checking, next_check, auto_backoff>>
            /\ lost_record' = ~locked
            /\ UNCHANGED <<auto_enabled, auto_interval>>
      BY <1>2 DEF record_success
    <2>2. CASE locked
      <3>1. /\ auto_checking' = FALSE /\ lost_record' = FALSE
            /\ next_check' = IF auto_enabled THEN auto_interval ELSE 0
            /\ auto_backoff' = InitialBackoff
        BY <2>1, <2>2
      <3>2. next_check' \in Nat
        BY <1>1, <3>1
      <3> QED BY <1>1, <2>1, <3>1, <3>2
    <2>3. CASE ~locked BY <1>1, <2>1, <2>3
    <2> QED BY <2>2, <2>3
  <1>3. CASE auto_status_record_failure
    <2>1. PICK delayed, locked \in BOOLEAN :
            /\ auto_backoff' = IF delayed THEN next_backoff(auto_backoff) ELSE auto_backoff
            /\ auto_checking' = (auto_checking /\ ~locked)
            /\ next_check' = IF ~locked THEN next_check
                             ELSE IF auto_enabled THEN failure_delay(delayed) ELSE 0
            /\ lost_record' = ~locked
            /\ UNCHANGED <<auto_enabled, auto_interval>>
      BY <1>3 DEF auto_status_record_failure
    <2>2. auto_backoff' \in InitialBackoff..MaxBackoff
      BY <1>1, <2>1, BackoffTyped
    <2>3. next_check' \in Nat
      BY <1>1, <2>1 DEF failure_delay
    <2>4. auto_checking' \in BOOLEAN /\ lost_record' \in BOOLEAN
      BY <1>1, <2>1
    <2> QED BY <1>1, <2>1, <2>2, <2>3, <2>4
  <1> QED BY <1>2, <1>3

\* What the check's task and the operator leave alone.
checkSettled == <<cfg_enabled, cfg_interval, seen, was_enabled, online>>

\* An actor that starts a check, or is refused, keeps the types.
LEMMA BeginTyped ==
    ASSUME CheckTypeOK, NEW a \in CheckActors, BeginCheck(a), UNCHANGED <<checkSettled>>,
           stale_checks' \in 0..2
    PROVE  /\ CheckTypeOK' /\ doing'[a] \in {"check", "sleep"}
           /\ \A b \in CheckActors \ {a} : doing'[b] = doing[b]
  <1>1. CASE online /\ op_holder = Free
    <2>1. /\ op_holder' = a /\ auto_checking' \in {auto_checking, TRUE} /\ Move(a, "check")
          /\ UNCHANGED <<auto_enabled, auto_interval, auto_backoff, next_check, lost_record>>
      BY <1>1 DEF BeginCheck, runtime
    <2>2. /\ doing' \in [CheckActors -> CheckPlaces] /\ doing'[a] = "check"
          /\ \A b \in CheckActors \ {a} : doing'[b] = doing[b]
      BY <2>1, MoveTyped DEF CheckPlaces
    <2> QED BY <2>1, <2>2 DEF CheckTypeOK, CheckPlaces, checkSettled
  <1>2. CASE ~(online /\ op_holder = Free)
    <2>1. auto_status_record_failure /\ Move(a, "sleep") /\ op_holder' = op_holder
      BY <1>2 DEF BeginCheck
    <2>2. /\ doing' \in [CheckActors -> CheckPlaces] /\ doing'[a] = "sleep"
          /\ \A b \in CheckActors \ {a} : doing'[b] = doing[b]
      BY <2>1, MoveTyped DEF CheckPlaces
    <2> QED BY <2>1, <2>2, RecordTyped DEF CheckTypeOK, CheckPlaces, checkSettled
  <1> QED BY <1>1, <1>2

\* The end of a check, of either actor: its result, what it records, its rest.
LEMMA EndOfCheckStep == ASSUME CheckInv, NEW a \in CheckActors, CheckStep(a) PROVE CheckInv'
  <1>1. CheckTypeOK /\ StaleCheckEnds
    BY DEF CheckInv
  <1>2. ASSUME NEW where \in {"top", "success", "failure", "sleep"}, Move(a, where),
               doing[a] \in {"check", "success", "failure", "sleep"},
               UNCHANGED <<cfg_enabled, cfg_interval, seen, was_enabled, online, stale_checks>>,
               op_holder' \in {op_holder, Free},
               \/ record_success \/ auto_status_record_failure
               \/ UNCHANGED <<runtime, auto_checking, lost_record>>
        PROVE  CheckInv'
    <2>1. /\ doing' \in [CheckActors -> CheckPlaces] /\ doing'[a] = where
          /\ \A b \in CheckActors \ {a} : doing'[b] = doing[b]
      BY <1>1, <1>2, MoveTyped DEF CheckPlaces
    <2>2. /\ auto_enabled' \in BOOLEAN /\ auto_interval' \in Intervals
          /\ auto_backoff' \in InitialBackoff..MaxBackoff
          /\ auto_checking' \in BOOLEAN /\ next_check' \in Nat /\ lost_record' \in BOOLEAN
      <3>1. CASE UNCHANGED <<runtime, auto_checking, lost_record>>
        BY <1>1, <3>1 DEF runtime, CheckTypeOK
      <3> QED BY <1>1, <1>2, <3>1, RecordTyped
    <2>3. CheckTypeOK'
      BY <1>1, <1>2, <2>1, <2>2 DEF CheckTypeOK, CheckPlaces
    <2>4. StaleCheckEnds'
      <3>1. CASE a = "task"
        BY <1>1, <1>2, <2>1, <3>1 DEF StaleCheckEnds
      <3>2. CASE a # "task"
        BY <1>1, <1>2, <2>1, <3>2 DEF StaleCheckEnds, CheckActors
      <3> QED BY <3>1, <3>2
    <2> QED BY <2>3, <2>4 DEF CheckInv
  <1>3. CASE Rest(a)
    <2>1. /\ doing[a] = "sleep" /\ Move(a, "top") /\ op_holder' = op_holder
          /\ UNCHANGED <<cfg_enabled, cfg_interval, seen, was_enabled, online, stale_checks>>
          /\ UNCHANGED <<runtime, auto_checking, lost_record>>
      BY <1>3 DEF Rest, doingIs, settings
    <2> QED BY <1>2, <2>1
  <1>4. CASE Record(a)
    <2>1. /\ doing[a] \in {"success", "failure"} /\ Move(a, "sleep") /\ op_holder' = op_holder
          /\ record_success \/ auto_status_record_failure
          /\ UNCHANGED <<cfg_enabled, cfg_interval, seen, was_enabled, online, stale_checks>>
      BY <1>4 DEF Record, doingIs, settings
    <2> QED BY <1>2, <2>1
  <1>5. ASSUME NEW ok \in BOOLEAN, EndCheck(a, ok) PROVE CheckInv'
    <2>1. /\ doing[a] = "check" /\ op_holder' = Free
          /\ Move(a, IF ok THEN "success" ELSE "failure")
          /\ UNCHANGED <<cfg_enabled, cfg_interval, seen, was_enabled, online, stale_checks>>
          /\ UNCHANGED <<runtime, auto_checking, lost_record>>
      BY <1>5 DEF EndCheck, doingIs, settings
    <2>2. CASE ok BY <1>2, <2>1, <2>2
    <2>3. CASE ~ok BY <1>2, <2>1, <2>3
    <2> QED BY <2>2, <2>3
  <1> QED BY <1>3, <1>4, <1>5 DEF CheckStep

\* The task's own steps keep the invariant,
LEMMA TaskCheckStep == ASSUME CheckInv, TaskStep PROVE CheckInv'
  <1>1. CheckTypeOK /\ "task" \in CheckActors /\ StaleCheckEnds
    BY DEF CheckInv, CheckActors
  <1>2. ASSUME NEW readable \in BOOLEAN, TaskReadsSettings(readable) PROVE CheckInv'
    <2>1. /\ doing["task"] = "top"
          /\ UNCHANGED <<cfg_enabled, cfg_interval, was_enabled, op_holder, online, stale_checks>>
      BY <1>2 DEF TaskReadsSettings, settings, doingIs
    <2>2. CASE readable
      <3>1. /\ seen' = [enabled |-> cfg_enabled, interval |-> cfg_interval]
            /\ Move("task", "interval")
            /\ UNCHANGED <<auto_enabled, auto_interval, auto_backoff, next_check, auto_checking,
                           lost_record>>
        BY <1>2, <2>2 DEF TaskReadsSettings, runtime
      <3>2. doing' \in [CheckActors -> CheckPlaces] /\ doing'["task"] = "interval"
        BY <1>1, <3>1, MoveTyped DEF CheckPlaces
      <3> QED BY <1>1, <2>1, <3>1, <3>2 DEF CheckInv, CheckTypeOK, StaleCheckEnds, CheckPlaces
    <2>3. CASE ~readable
      <3>1. auto_status_record_failure /\ Move("task", "sleep") /\ seen' = seen
        BY <1>2, <2>3 DEF TaskReadsSettings
      <3>2. doing' \in [CheckActors -> CheckPlaces] /\ doing'["task"] = "sleep"
        BY <1>1, <3>1, MoveTyped DEF CheckPlaces
      <3> QED BY <1>1, <2>1, <3>1, <3>2, RecordTyped
              DEF CheckInv, CheckTypeOK, StaleCheckEnds, CheckPlaces
    <2> QED BY <2>2, <2>3
  <1>3. CASE TaskTakesInterval
    <2>1. /\ doing["task"] = "interval" /\ auto_interval' \in {seen.interval, auto_interval}
          /\ \/ next_check' = 0 /\ auto_backoff' = InitialBackoff
             \/ UNCHANGED <<next_check, auto_backoff>>
          /\ was_enabled' = seen.enabled /\ Move("task", "enable")
          /\ UNCHANGED <<cfg_enabled, cfg_interval, auto_enabled, auto_checking, seen, op_holder,
                         online, stale_checks, lost_record>>
      BY <1>3 DEF TaskTakesInterval, settings, doingIs
    <2>2. doing' \in [CheckActors -> CheckPlaces] /\ doing'["task"] = "enable"
      BY <1>1, <2>1, MoveTyped DEF CheckPlaces
    <2> QED BY <1>1, <2>1, <2>2, CheckAssumption
            DEF CheckInv, CheckTypeOK, StaleCheckEnds, CheckPlaces
  <1>4. ASSUME NEW set \in BOOLEAN, NEW tested \in BOOLEAN, TaskEnables(set, tested)
        PROVE  CheckInv'
    <2>1. /\ doing["task"] = "enable" /\ auto_enabled' \in {seen.enabled, auto_enabled}
          /\ next_check' \in {next_check, 0}
          /\ auto_checking' \in {auto_checking /\ seen.enabled, auto_checking}
          /\ Move("task", IF seen.enabled /\ tested /\ auto_status_due' THEN "begin" ELSE "sleep")
          /\ seen' = Unseen
          /\ UNCHANGED <<cfg_enabled, cfg_interval, auto_interval, auto_backoff, was_enabled,
                         op_holder, online, stale_checks, lost_record>>
      BY <1>4 DEF TaskEnables, settings, doingIs
    <2>2. auto_enabled' \in BOOLEAN /\ auto_checking' \in BOOLEAN /\ next_check' \in Nat
      BY <1>1, <2>1 DEF CheckTypeOK
    <2>3. CASE seen.enabled /\ tested /\ auto_status_due'
      <3>1. ~(stale_checks >= 1)
        BY <1>1, <2>1, <2>3 DEF StaleCheckEnds
      <3>2. doing' \in [CheckActors -> CheckPlaces] /\ doing'["task"] = "begin"
        BY <1>1, <2>1, <2>3, MoveTyped DEF CheckPlaces
      <3> QED BY <1>1, <2>1, <2>2, <3>1, <3>2, UnseenTyped
              DEF CheckInv, CheckTypeOK, StaleCheckEnds, CheckPlaces
    <2>4. CASE ~(seen.enabled /\ tested /\ auto_status_due')
      <3>1. doing' \in [CheckActors -> CheckPlaces] /\ doing'["task"] = "sleep"
        BY <1>1, <2>1, <2>4, MoveTyped DEF CheckPlaces
      <3> QED BY <1>1, <2>1, <2>2, <3>1, UnseenTyped
              DEF CheckInv, CheckTypeOK, StaleCheckEnds, CheckPlaces
    <2> QED BY <2>3, <2>4
  <1>5. CASE TaskBegins
    <2>1. /\ doing["task"] = "begin" /\ BeginCheck("task")
          /\ stale_checks' = IF cfg_enabled \/ doing["operator"] = "off" THEN stale_checks
                             ELSE capped(stale_checks + 1, 2)
          /\ UNCHANGED <<cfg_enabled, cfg_interval, seen, was_enabled, online>>
      BY <1>5 DEF TaskBegins, settings, doingIs
    <2>2. stale_checks = 0 /\ stale_checks' \in 0..1 /\ (stale_checks' = 1 => ~cfg_enabled)
      BY <1>1, <2>1 DEF StaleCheckEnds, CheckTypeOK, capped
    <2>3. CheckTypeOK' /\ doing'["task"] \in {"check", "sleep"}
      BY <1>1, <2>1, <2>2, BeginTyped DEF checkSettled
    <2> QED BY <2>1, <2>2, <2>3 DEF CheckInv, StaleCheckEnds
  <1>6. CASE CheckStep("task")
    BY <1>1, <1>6, EndOfCheckStep
  <1> QED BY <1>2, <1>3, <1>4, <1>5, <1>6 DEF TaskStep

\* the operator's,
LEMMA OperatorCheckStep == ASSUME CheckInv, OperatorStep \/ OperatorCommand PROVE CheckInv'
  <1>1. CheckTypeOK /\ StaleCheckEnds /\ "operator" \in CheckActors /\ "task" \in CheckActors
    BY DEF CheckInv, CheckActors
  <1>2. CASE SwitchRuntime
    <2>1. /\ auto_enabled' \in {auto_enabled, TRUE, FALSE} /\ next_check' \in {next_check, 0}
          /\ Move("operator", "sleep")
          /\ auto_backoff' \in {auto_backoff, InitialBackoff}
          /\ auto_checking' \in {auto_checking, FALSE}
          /\ UNCHANGED <<cfg_enabled, cfg_interval, auto_interval, seen, was_enabled, op_holder,
                         online, stale_checks, lost_record>>
      BY <1>2 DEF SwitchRuntime, settings, doingIs
    <2>2. doing' \in [CheckActors -> CheckPlaces] /\ doing'["task"] = doing["task"]
      BY <1>1, <2>1, MoveTyped DEF CheckPlaces
    <2>3. InitialBackoff \in InitialBackoff..MaxBackoff
      BY CheckAssumption
    <2>4. auto_backoff' \in InitialBackoff..MaxBackoff
      BY <1>1, <2>1, <2>3 DEF CheckTypeOK
    <2>5. auto_checking' \in BOOLEAN
      BY <1>1, <2>1, Zenon DEF CheckTypeOK
    <2>6. auto_enabled' \in BOOLEAN
      BY <1>1, <2>1, Zenon DEF CheckTypeOK
    <2>7. next_check' \in Nat
      BY <1>1, <2>1 DEF CheckTypeOK
    <2> QED BY <1>1, <2>1, <2>2, <2>4, <2>5, <2>6, <2>7
            DEF CheckInv, CheckTypeOK, StaleCheckEnds, CheckPlaces
  <1>3. CASE IntervalRuntime
    <2>1. /\ auto_interval' \in {auto_interval, cfg_interval} /\ Move("operator", "sleep")
          /\ next_check' \in {next_check, capped(next_check, cfg_interval)}
          /\ UNCHANGED <<cfg_enabled, cfg_interval, auto_enabled, auto_backoff, auto_checking, seen,
                         was_enabled, op_holder, online, stale_checks, lost_record>>
      BY <1>3 DEF IntervalRuntime, settings
    <2>2. doing' \in [CheckActors -> CheckPlaces] /\ doing'["task"] = doing["task"]
      BY <1>1, <2>1, MoveTyped DEF CheckPlaces
    <2>3. next_check' \in Nat
      BY <1>1, <2>1, CheckAssumption DEF capped, CheckTypeOK
    <2> QED BY <1>1, <2>1, <2>2, <2>3 DEF CheckInv, CheckTypeOK, StaleCheckEnds, CheckPlaces
  <1>4. CASE CheckStep("operator") BY <1>1, <1>4, EndOfCheckStep
  <1>5. ASSUME NEW on \in BOOLEAN, CommandSwitch(on) PROVE CheckInv'
    <2>1. /\ cfg_enabled' = on /\ stale_checks' = 0
          /\ Move("operator", IF on THEN "on" ELSE "off")
          /\ UNCHANGED <<cfg_interval, runtime, auto_checking, seen, was_enabled, op_holder, online,
                         lost_record>>
      BY <1>5 DEF CommandSwitch
    <2>2. doing' \in [CheckActors -> CheckPlaces]
      BY <1>1, <2>1, MoveTyped DEF CheckPlaces
    <2> QED BY <1>1, <2>1, <2>2
            DEF CheckInv, CheckTypeOK, StaleCheckEnds, CheckPlaces, runtime
  <1>6. ASSUME NEW ms \in Intervals, CommandInterval(ms) PROVE CheckInv'
    <2>1. /\ cfg_interval' = ms /\ Move("operator", "interval")
          /\ UNCHANGED <<cfg_enabled, runtime, auto_checking, seen, was_enabled, op_holder, online,
                         stale_checks, lost_record>>
      BY <1>6 DEF CommandInterval
    <2>2. doing' \in [CheckActors -> CheckPlaces] /\ doing'["task"] = doing["task"]
      BY <1>1, <2>1, MoveTyped DEF CheckPlaces
    <2> QED BY <1>1, <2>1, <2>2
            DEF CheckInv, CheckTypeOK, StaleCheckEnds, CheckPlaces, runtime
  <1>7. CASE ForceCheck
    <2>1. BeginCheck("operator") /\ UNCHANGED <<checkSettled>> /\ stale_checks' = stale_checks
      BY <1>7 DEF ForceCheck, settings, checkSettled
    <2>2. CheckTypeOK' /\ doing'["task"] = doing["task"]
      BY <1>1, <2>1, BeginTyped DEF CheckTypeOK
    <2> QED BY <1>1, <2>1, <2>2 DEF CheckInv, StaleCheckEnds, checkSettled
  <1> QED BY <1>2, <1>3, <1>4, <1>5, <1>6, <1>7 DEF OperatorStep, OperatorCommand

\* The invariant holds at the start
LEMMA CheckInitInv == CheckInit => CheckInv
  <1> SUFFICES ASSUME CheckInit PROVE CheckInv
    OBVIOUS
  <1>1. /\ cfg_enabled \in BOOLEAN /\ cfg_interval \in Intervals /\ auto_enabled = FALSE
        /\ auto_interval = cfg_interval /\ auto_backoff = InitialBackoff /\ auto_checking = FALSE
        /\ next_check = 0 /\ was_enabled = FALSE /\ lost_record = FALSE
        /\ seen = Unseen
        /\ doing = [a \in CheckActors |-> "top"]
        /\ op_holder = Free /\ online \in BOOLEAN /\ stale_checks = 0
    BY DEF CheckInit
  <1>2. InitialBackoff \in InitialBackoff..MaxBackoff
    BY CheckAssumption
  <1>3. doing \in [CheckActors -> CheckPlaces]
    BY <1>1 DEF CheckPlaces
  <1>4. seen \in [enabled : BOOLEAN, interval : Intervals]
    BY <1>1, UnseenTyped
  <1>5. op_holder \in CheckActors \cup {Free, "install"} /\ stale_checks \in 0..2
        /\ ~(stale_checks >= 1) /\ next_check \in Nat
    BY <1>1
  <1> QED BY <1>1, <1>2, <1>3, <1>4, <1>5 DEF CheckInv, CheckTypeOK, StaleCheckEnds, CheckPlaces

\* and every step keeps it.
LEMMA CheckNextInv == CheckInv /\ [CheckNext]_checkVars => CheckInv'
  <1> SUFFICES ASSUME CheckInv, [CheckNext]_checkVars PROVE CheckInv'
    OBVIOUS
  <1>1. CASE TaskStep BY <1>1, TaskCheckStep
  <1>2. CASE OperatorStep \/ OperatorCommand BY <1>2, OperatorCheckStep
  <1>3. CASE Install
    BY <1>3 DEF Install, settings, runtime, CheckInv, CheckTypeOK, StaleCheckEnds, Free
  <1>4. CASE Station
    BY <1>4 DEF Station, settings, runtime, CheckInv, CheckTypeOK, StaleCheckEnds
  <1>5. CASE Clock
    BY <1>5 DEF Clock, settings, CheckInv, CheckTypeOK, StaleCheckEnds
  <1>6. CASE UNCHANGED checkVars
    BY <1>6 DEF checkVars, settings, runtime, CheckInv, CheckTypeOK, StaleCheckEnds
  <1> QED BY <1>1, <1>2, <1>3, <1>4, <1>5, <1>6 DEF CheckNext

\* After OFF at most the one check under way is made, whatever forced checks,
\* installations and unreadable settings come between (ota_manager.c:936-1062).
THEOREM OneCheckAtMost == CheckSpec => []OneCheckAfterOff
  <1>1. CheckInv => OneCheckAfterOff
    BY DEF CheckInv, CheckTypeOK, StaleCheckEnds, OneCheckAfterOff
  <1> QED BY <1>1, CheckInitInv, CheckNextInv, PTL DEF CheckSpec

(* ---------------------------- the whole run ----------------------------- *)

RuntimeInv == DriveInv /\ StateInv /\ LifeInv /\ PartsInv /\ CheckInv

\* Drives, state, composition and check side by side keep each its own invariant.
LEMMA RuntimeNextInv == RuntimeInv /\ [RuntimeNext]_runtimeVars => RuntimeInv'
  <1> SUFFICES ASSUME RuntimeInv, [RuntimeNext]_runtimeVars PROVE RuntimeInv'
    OBVIOUS
  <1>1. /\ [DriveNext]_driveVars /\ [StateNext]_stateVars /\ [LifeNext]_lifeVars
        /\ [CheckNext]_checkVars
    BY DEF RuntimeNext, runtimeVars
  <1> QED BY <1>1, DriveNextInv, StateNextInv, LifeNextInv, PartsNextInv, CheckNextInv
          DEF RuntimeInv

\* The run's own statement of it: every part keeps its types and bounds, at every
\* step of every call what is built holds together (robot_composition.c), and at
\* most one check is made after OFF (ota_manager.c:936-1062), for all tables,
\* numbers of drives, losses and intervals.
THEOREM CompositionAlwaysWhole == RuntimeSpec => []CompositionIsWhole
  <1>1. RuntimeInit => RuntimeInv
    BY DriveInitInv, StateInitInv, LifeInitInv, PartsInitInv, CheckInitInv
       DEF RuntimeInit, RuntimeInv
  <1>2. RuntimeInv => CompositionIsWhole
    <2>1. CheckInv => CheckTypeOK /\ OneCheckAfterOff
      BY DEF CheckInv, CheckTypeOK, StaleCheckEnds, OneCheckAfterOff
    <2> QED BY <2>1, PartsHold DEF RuntimeInv, DriveInv, StateInv, CompositionIsWhole
  <1> QED BY <1>1, <1>2, RuntimeNextInv, PTL DEF RuntimeSpec

(* ------------------------------ updates --------------------------------- *)

spare == other(running)

\* The running image was verified; confirmed or on trial.
RunningIsVerified ==
    flash[running].digested /\ otadata[running] \in {"valid", "pending"}

\* While the running image is on trial the spare slot holds the confirmed one,
\* and no installer is past its manifest.
TrialCanReturn ==
    unconfirmed =>
        /\ flash[spare].digested /\ flash[spare].sound /\ otadata[spare] = "valid"
        /\ \A c \in Clients : session[c].at \in {"idle", "waiting", "checked"}

\* What an installer has verified is still there, or erased.
InstalledIsVerified ==
    (\E c \in Clients : installing(c)) => flash[spare] = Blank \/ flash[spare].digested

\* A spare slot that is selected waits for an installer's restart, or was given up.
SelectedIsKnown ==
    /\ selected = spare => otadata[spare] \in {"new", "pending", "aborted", "invalid"}
    /\ otadata[spare] = "new" =>
         selected = spare /\ \E c \in Clients : session[c].at = "selected"

\* The last stages are reached by an image that starts, with no more than the
\* components of the earlier stages; app_main takes no confirmed image for one on
\* trial.
StartIsOrderly ==
    boot_phase = "starting" =>
        /\ stage > 13 => flash[running].sound
        /\ up \cap Owned \subseteq {Stages[i] : i \in 1..(stage - 1)}
        /\ pending_verify => unconfirmed

UpdateInv ==
    /\ UpdateTypeOK
    /\ RunningIsVerified
    /\ TrialCanReturn
    /\ ConfirmedImageStarts
    /\ InstalledIsVerified
    /\ SelectedIsKnown
    /\ StartIsOrderly
    /\ HaltedIsClean

-----------------------------------------------------------------------------
\* The two slots.
LEMMA TwoSlots ==
    /\ other("ota_0") = "ota_1" /\ other("ota_1") = "ota_0"
    /\ \A s \in Slots : other(s) \in Slots /\ other(s) # s /\ other(other(s)) = s
    /\ \A s, t \in Slots : t # s => t = other(s)
  <1>1. other("ota_0") = "ota_1"
    BY DEF other, Slots
  <1>2. other("ota_1") = "ota_0"
    BY DEF other, Slots
  <1> QED BY <1>1, <1>2 DEF Slots

\* There are two slots, and the spare one is the one that does not run.
LEMMA SpareSlot ==
    UpdateTypeOK => /\ running \in Slots /\ spare \in Slots /\ spare # running
                    /\ other(spare) = running /\ \A s \in Slots : s = running \/ s = spare
  BY TwoSlots DEF UpdateTypeOK, spare

\* A verified image is an image.
LEMMA VerifiedIsThere == \A i : i.digested => i # Blank
  BY DEF Blank

\* The start-up stages are numbered from 1 to 15,
LEMMA StagesDomain == DOMAIN Stages = 1..15
  BY DEF Stages

\* and each has a name that Stages lists.
LEMMA StageNames ==
    /\ Stages[1] = "nvs" /\ Stages[2] = "config_manager" /\ Stages[3] = "wifi_manager"
    /\ Stages[4] = "ota_manager" /\ Stages[5] = "robot_composition"
    /\ Stages[6] = "robot_control" /\ Stages[7] = "boot_stop"
    /\ Stages[8] = "composition_start" /\ Stages[9] = "ibus_receiver"
    /\ Stages[10] = "robot_safety" /\ Stages[11] = "control_plane"
    /\ Stages[12] = "ota_announce" /\ Stages[13] = "serial_gateway"
    /\ Stages[14] = "maintenance_lan" /\ Stages[15] = "confirm"
  BY DEF Stages

ImageStates == {"undefined", "new", "pending", "valid", "invalid", "aborted"}

\* A reset from any flash and OTA data that have a verified image to start,
\* and another one when that is on trial.
LEMMA BootInv ==
    ASSUME UpdateTypeOK, NEW o \in [Slots -> ImageStates], NEW sel \in Slots,
           NEW r \in Slots, r = BootSlot(flash, Aborted(o), sel),
           Boot(flash, o, sel), testMode' \in TestMode,
           flash[r].digested,
           \/ Aborted(o)[r] = "valid"
           \/ /\ Aborted(o)[r] = "new" /\ r = sel
              /\ flash[other(r)].digested /\ flash[other(r)].sound
              /\ Aborted(o)[other(r)] = "valid",
           Aborted(o)[r] = "valid" => flash[r].sound,
           Aborted(o)[other(r)] = "new" => sel = other(r),
           sel = other(r) => Aborted(o)[other(r)] \in {"new", "aborted", "invalid"}
    PROVE  UpdateInv'
  <1> DEFINE k == Aborted(o)
  <1>1. k \in [Slots -> ImageStates] /\ \A s \in Slots : k[s] # "pending"
    BY DEF Aborted, ImageStates
  <1>2. /\ flash' = flash /\ selected' = sel /\ running' = r
        /\ otadata' = [k EXCEPT ![sel] = IF @ = "new" THEN "pending" ELSE @]
        /\ boot_phase' = "starting" /\ stage' = 1 /\ up' = {} /\ op_lock' = Nobody
        /\ session' = [c \in Clients |-> Idle]
        /\ pending_verify' = FALSE \/ pending_verify' = unconfirmed'
    BY DEF Boot, unconfirmed
  <1> HIDE DEF k
  <1>3. other(r) \in Slots /\ other(r) # r /\ spare' = other(r)
    BY <1>2, TwoSlots DEF spare
  <1>4. /\ otadata' \in [Slots -> ImageStates]
        /\ \A s \in Slots : otadata'[s] = IF s = sel /\ k[s] = "new" THEN "pending" ELSE k[s]
    BY <1>1, <1>2 DEF ImageStates
  <1>5. \A c \in Clients : session'[c] = Idle /\ session'[c].at = "idle"
    BY <1>2 DEF Idle
  <1>6. UpdateTypeOK'
    <2>1. Idle \in Session
      BY DEF Idle, Session
    <2>2. pending_verify' \in BOOLEAN
      BY <1>2 DEF unconfirmed
    <2> QED BY <1>2, <1>4, <2>1, <2>2, StagesDomain DEF UpdateTypeOK, ImageStates
  <1>7. RunningIsVerified'
    BY <1>2, <1>3, <1>4 DEF RunningIsVerified, k
  <1>8. TrialCanReturn'
    BY <1>1, <1>2, <1>3, <1>4, <1>5 DEF TrialCanReturn, unconfirmed, k
  <1>9. ConfirmedImageStarts'
    BY <1>2, <1>3, <1>4 DEF ConfirmedImageStarts, k
  <1>10. InstalledIsVerified'
    BY <1>5 DEF InstalledIsVerified, installing
  <1>11. SelectedIsKnown'
    BY <1>2, <1>3, <1>4 DEF SelectedIsKnown, k
  <1>12. StartIsOrderly' /\ HaltedIsClean'
    <2>1. pending_verify' => unconfirmed'
      BY <1>2
    <2> QED BY <1>2, <2>1 DEF StartIsOrderly, HaltedIsClean
  <1> QED BY <1>6, <1>7, <1>8, <1>9, <1>10, <1>11, <1>12 DEF UpdateInv

\* A reset at any time.
LEMMA ResetStep ==
    ASSUME UpdateInv, Boot(flash, otadata, selected), testMode' \in TestMode
    PROVE  UpdateInv'
  <1> DEFINE k == Aborted(otadata)
             r == BootSlot(flash, k, selected)
  <1>1. /\ running \in Slots /\ spare \in Slots /\ spare # running /\ other(spare) = running
        /\ other(running) = spare /\ selected \in Slots
        /\ \A s \in Slots : s = running \/ s = spare
        /\ otadata \in [Slots -> ImageStates] /\ UpdateTypeOK
    BY SpareSlot DEF UpdateInv, UpdateTypeOK, ImageStates, spare
  <1>2. \A s \in Slots : k[s] = IF otadata[s] = "pending" THEN "aborted" ELSE otadata[s]
    BY DEF Aborted
  <1>3. \A s \in Slots : Usable(flash, k, s) <=> flash[s] # Blank /\ k[s] \notin {"invalid", "aborted"}
    BY DEF Usable
  <1>4. r = IF Usable(flash, k, selected) THEN selected ELSE other(selected)
    BY DEF BootSlot
  <1> HIDE DEF k, r
  <1>5. CASE selected = running /\ ~unconfirmed
    <2>1. otadata[running] = "valid" /\ k[running] = "valid" /\ flash[running] # Blank
      BY <1>1, <1>2, <1>5, VerifiedIsThere DEF UpdateInv, RunningIsVerified, unconfirmed
    <2>2. r = running
      BY <1>1, <1>3, <1>4, <1>5, <2>1
    <2>3. k[spare] # "new"
      BY <1>1, <1>2, <1>5 DEF UpdateInv, SelectedIsKnown
    <2> QED BY <1>1, <1>5, <2>1, <2>2, <2>3, BootInv
            DEF k, r, UpdateInv, RunningIsVerified, ConfirmedImageStarts
  <1>6. CASE selected = running /\ unconfirmed
    <2>1. /\ k[running] = "aborted" /\ k[spare] = "valid" /\ flash[spare].digested
          /\ flash[spare].sound
      BY <1>1, <1>2, <1>6 DEF UpdateInv, TrialCanReturn, unconfirmed
    <2>2. r = spare
      BY <1>1, <1>3, <1>4, <1>6, <2>1
    <2> QED BY <1>1, <1>6, <2>1, <2>2, BootInv DEF k, r
  <1>7. CASE selected = spare /\ otadata[spare] = "new" /\ flash[spare] # Blank
    <2>1. PICK c \in Clients : session[c].at = "selected"
      BY <1>7 DEF UpdateInv, SelectedIsKnown
    <2>2. flash[spare].digested
      BY <1>7, <2>1 DEF UpdateInv, InstalledIsVerified, installing
    <2>3. otadata[running] = "valid" /\ flash[running].sound /\ flash[running].digested
      BY <2>1 DEF UpdateInv, TrialCanReturn, unconfirmed, RunningIsVerified,
                  ConfirmedImageStarts
    <2>4. r = spare /\ k[spare] = "new" /\ k[running] = "valid"
      BY <1>1, <1>2, <1>3, <1>4, <1>7, <2>3
    <2> QED BY <1>1, <1>7, <2>2, <2>3, <2>4, BootInv DEF k, r
  <1>8. CASE selected = spare /\ (otadata[spare] # "new" \/ flash[spare] = Blank)
    <2>1. otadata[spare] \in {"new", "pending", "aborted", "invalid"}
      BY <1>8 DEF UpdateInv, SelectedIsKnown
    <2>2. k[spare] \in {"new", "aborted", "invalid"} /\ ~Usable(flash, k, spare)
      BY <1>1, <1>2, <1>3, <1>8, <2>1
    <2>3. otadata[running] = "valid" /\ flash[running].sound /\ flash[running].digested
      BY <1>1, <2>1 DEF UpdateInv, TrialCanReturn, unconfirmed, RunningIsVerified,
                  ConfirmedImageStarts
    <2>4. r = running /\ k[running] = "valid"
      BY <1>1, <1>2, <1>4, <1>8, <2>2, <2>3
    <2> QED BY <1>1, <1>8, <2>2, <2>3, <2>4, BootInv DEF k, r
  <1> QED BY <1>1, <1>5, <1>6, <1>7, <1>8

\* A rollback of an image on trial.
LEMMA RollbackStep ==
    ASSUME UpdateInv, unconfirmed, InvalidateAndReboot, testMode' \in TestMode
    PROVE  UpdateInv'
  <1> DEFINE o == [otadata EXCEPT ![running] = "invalid"]
             k == Aborted(o)
             r == BootSlot(flash, k, spare)
  <1>1. /\ running \in Slots /\ spare \in Slots /\ spare # running /\ other(spare) = running
        /\ otadata \in [Slots -> ImageStates] /\ UpdateTypeOK
    BY SpareSlot DEF UpdateInv, UpdateTypeOK, ImageStates, spare
  <1>2. o \in [Slots -> ImageStates] /\ o[running] = "invalid" /\ o[spare] = otadata[spare]
    BY <1>1 DEF ImageStates
  <1>3. otadata[spare] = "valid" /\ flash[spare].digested /\ flash[spare].sound
    BY DEF UpdateInv, TrialCanReturn
  <1>4. k[spare] = "valid" /\ k[running] = "invalid"
    BY <1>1, <1>2, <1>3 DEF Aborted
  <1>5. Boot(flash, o, spare)
    BY DEF InvalidateAndReboot, spare
  <1>6. r = spare
    BY <1>3, <1>4, VerifiedIsThere DEF BootSlot, Usable
  <1> HIDE DEF o
  <1> QED BY <1>1, <1>2, <1>3, <1>4, <1>5, <1>6, BootInv DEF k, r

-----------------------------------------------------------------------------
\* What is said of the slots and the installers, which app_main leaves alone.
SlotsAreSafe ==
    /\ RunningIsVerified /\ TrialCanReturn /\ ConfirmedImageStarts
    /\ InstalledIsVerified /\ SelectedIsKnown

\* A step that leaves the flash, the selection and the boot state alone keeps what is said of them.
LEMMA SlotsKept ==
    ASSUME UpdateInv, UNCHANGED <<flash, otadata, selected, running, session>>
    PROVE  SlotsAreSafe'
  <1>1. spare' = spare
    BY DEF spare
  <1> QED BY <1>1 DEF SlotsAreSafe, UpdateInv, RunningIsVerified, TrialCanReturn,
             ConfirmedImageStarts, InstalledIsVerified, SelectedIsKnown, unconfirmed,
             installing

\* A critical failure takes down whatever the earlier stages may have built.
LEMMA TakenDown ==
    ASSUME NEW i \in 1..15, Stages[i] \notin Optional \cup {"confirm"}
    PROVE  \A j \in 1..(i - 1) : Stages[j] \in Owned \ {"config_manager"} =>
                                   Stages[j] \in taken_down(Stages[i])
  <1>1. i \in {1, 2, 5, 6, 8, 10, 11, 13}
    BY StageNames DEF Optional
  <1>2. \A j \in 1..15 : Stages[j] \in Owned \ {"config_manager"} =>
          j \in {3, 4, 5, 6, 9, 10, 11, 12, 13}
    BY StageNames DEF Owned
  <1>3. \A j \in 1..(i - 1) : j \in 1..15
    OBVIOUS
  <1>4. CASE i \in {1, 2}
    BY <1>2, <1>3, <1>4
  <1>5. CASE i = 5
    BY <1>2, <1>3, <1>5, StageNames DEF taken_down
  <1>6. CASE i = 6
    BY <1>2, <1>3, <1>6, StageNames DEF taken_down
  <1>7. CASE i = 8
    BY <1>2, <1>3, <1>7, StageNames DEF taken_down
  <1>8. CASE i = 10
    BY <1>2, <1>3, <1>8, StageNames DEF taken_down
  <1>9. CASE i = 11
    BY <1>2, <1>3, <1>9, StageNames DEF taken_down
  <1>10. CASE i = 13
    BY <1>2, <1>3, <1>10, StageNames DEF taken_down
  <1> QED BY <1>1, <1>4, <1>5, <1>6, <1>7, <1>8, <1>9, <1>10

\* A stage that passes keeps the invariant,
LEMMA StagePassesStep == ASSUME UpdateInv, StagePasses PROVE UpdateInv'
  <1>1. /\ boot_phase = "starting" /\ Stages[stage] # "confirm" /\ stage' = stage + 1
        /\ Stages[stage] = "serial_gateway" => flash[running].sound
        /\ up' = up \cup ({Stages[stage]} \cap (Owned \cup {"maintenance_lan"}))
        /\ UNCHANGED <<flash, otadata, selected, testMode, running, boot_phase, pending_verify,
                       op_lock, session>>
    BY DEF StagePasses, storage
  <1>2. stage \in 1..15 /\ stage # 15
    BY <1>1, StagesDomain, StageNames DEF UpdateInv, UpdateTypeOK
  <1>3. UpdateTypeOK'
    BY <1>1, <1>2, StagesDomain DEF UpdateInv, UpdateTypeOK
  <1>4. StartIsOrderly'
    <2>1. stage' > 13 => flash'[running'].sound
      BY <1>1, <1>2, StageNames DEF UpdateInv, StartIsOrderly
    <2>2. up \cap Owned \subseteq {Stages[i] : i \in 1..(stage - 1)}
      BY <1>1 DEF UpdateInv, StartIsOrderly
    <2>3. up' \cap Owned \subseteq {Stages[i] : i \in 1..(stage' - 1)}
      BY <1>1, <1>2, <2>2
    <2>4. pending_verify' => unconfirmed'
      BY <1>1 DEF UpdateInv, StartIsOrderly, unconfirmed
    <2> QED BY <2>1, <2>3, <2>4 DEF StartIsOrderly
  <1>5. HaltedIsClean'
    BY <1>1 DEF HaltedIsClean
  <1> QED BY <1>1, <1>3, <1>4, <1>5, SlotsKept DEF UpdateInv, SlotsAreSafe

\* as does an optional one that fails,
LEMMA OptionalStep == ASSUME UpdateInv, OptionalStageFails PROVE UpdateInv'
  <1>1. /\ boot_phase = "starting" /\ Stages[stage] \in Optional /\ stage' = stage + 1
        /\ UNCHANGED <<flash, otadata, selected, testMode, running, boot_phase, up, pending_verify,
                       op_lock, session>>
    BY DEF OptionalStageFails, storage
  <1>2. stage \in 1..14 /\ stage # 13
    BY <1>1, StagesDomain, StageNames DEF UpdateInv, UpdateTypeOK, Optional
  <1>3. UpdateTypeOK'
    BY <1>1, <1>2, StagesDomain DEF UpdateInv, UpdateTypeOK
  <1>4. StartIsOrderly'
    <2>1. stage' > 13 => flash'[running'].sound
      BY <1>1, <1>2 DEF UpdateInv, StartIsOrderly
    <2>2. up \cap Owned \subseteq {Stages[i] : i \in 1..(stage - 1)}
      BY <1>1 DEF UpdateInv, StartIsOrderly
    <2>3. up' \cap Owned \subseteq {Stages[i] : i \in 1..(stage' - 1)}
      BY <1>1, <1>2, <2>2
    <2>4. pending_verify' => unconfirmed'
      BY <1>1 DEF UpdateInv, StartIsOrderly, unconfirmed
    <2> QED BY <2>1, <2>3, <2>4 DEF StartIsOrderly
  <1>5. HaltedIsClean'
    BY <1>1 DEF HaltedIsClean
  <1> QED BY <1>1, <1>3, <1>4, <1>5, SlotsKept DEF UpdateInv, SlotsAreSafe

\* Without a rollback the start-up is given up, and nothing of it remains.
LEMMA CriticalStep == ASSUME UpdateInv, CriticalStageFails PROVE UpdateInv'
  <1>1. CASE pending_verify /\ rollback_is_possible
    <2>1. testMode' \in TestMode
      BY <1>1 DEF CriticalStageFails, UpdateInv, UpdateTypeOK
    <2>2. unconfirmed
      BY <1>1 DEF CriticalStageFails, UpdateInv, StartIsOrderly
    <2> QED BY <1>1, <2>1, <2>2, RollbackStep DEF CriticalStageFails
  <1>2. CASE ~(pending_verify /\ rollback_is_possible)
    <2>1. /\ boot_phase = "starting" /\ Stages[stage] \notin Optional \cup {"confirm"}
          /\ boot_phase' = "halted" /\ up' = up \ taken_down(Stages[stage])
          /\ UNCHANGED <<flash, otadata, selected, testMode, running, stage, pending_verify,
                         op_lock, session>>
      BY <1>2 DEF CriticalStageFails, storage
    <2>2. UpdateTypeOK'
      BY <2>1 DEF UpdateInv, UpdateTypeOK
    <2>3. StartIsOrderly'
      BY <2>1 DEF StartIsOrderly
    <2>4. HaltedIsClean'
      <3>1. stage \in 1..15
        BY StagesDomain DEF UpdateInv, UpdateTypeOK
      <3>2. up \cap Owned \subseteq {Stages[i] : i \in 1..(stage - 1)}
        BY <2>1 DEF UpdateInv, StartIsOrderly
      <3>3. \A x \in up : x \in Owned \ {"config_manager"} => x \in taken_down(Stages[stage])
        BY <2>1, <3>1, <3>2, TakenDown
      <3> QED BY <2>1, <3>3 DEF HaltedIsClean
    <2> QED BY <2>1, <2>2, <2>3, <2>4, SlotsKept DEF UpdateInv, SlotsAreSafe
  <1> QED BY <1>1, <1>2

\* the gateway started for diagnosis,
LEMMA DiagnosticStep == ASSUME UpdateInv, StartDiagnosticGateway PROVE UpdateInv'
  <1>1. /\ boot_phase = "starting" /\ Stages[stage] = "robot_composition"
        /\ UNCHANGED <<flash, otadata, selected, testMode, running, stage, pending_verify, op_lock,
                       session>>
        /\ \/ boot_phase' = "diagnostic" /\ up' = (up \ {"ota_manager"}) \cup {"serial_gateway"}
           \/ boot_phase' = "halted" /\ up' = up \ {"ota_manager", "wifi_manager", "config_manager"}
    BY DEF StartDiagnosticGateway, AtStage, storage
  <1>2. UpdateTypeOK'
    BY <1>1 DEF UpdateInv, UpdateTypeOK, Owned
  <1>3. StartIsOrderly'
    BY <1>1 DEF StartIsOrderly
  <1>4. HaltedIsClean'
    <2>1. stage = 5
      <3>1. stage \in 1..15
        BY StagesDomain DEF UpdateInv, UpdateTypeOK
      <3> QED BY <1>1, <3>1, StageNames
    <2>2. up \cap Owned \subseteq {Stages[i] : i \in 1..4}
      BY <1>1, <2>1 DEF UpdateInv, StartIsOrderly
    <2>3. \A i \in 1..4 : Stages[i] \in {"nvs", "config_manager", "wifi_manager", "ota_manager"}
      BY StageNames
    <2>4. up \cap Owned \subseteq {"config_manager", "wifi_manager", "ota_manager"}
      BY <2>2, <2>3 DEF Owned
    <2> QED BY <1>1, <2>4 DEF HaltedIsClean
  <1> QED BY <1>1, <1>2, <1>3, <1>4, SlotsKept DEF UpdateInv, SlotsAreSafe

\* and the confirmation of the running image.
LEMMA ConfirmStep == ASSUME UpdateInv, Confirm PROVE UpdateInv'
  <1>1. boot_phase = "starting" /\ stage = 15 /\ flash[running].sound
    <2>1. boot_phase = "starting" /\ Stages[stage] = "confirm"
      BY DEF Confirm, AtStage
    <2>2. stage = 15
      BY <2>1, StagesDomain, StageNames DEF UpdateInv, UpdateTypeOK
    <2> QED BY <2>1, <2>2 DEF UpdateInv, StartIsOrderly
  <1>2. ASSUME EnterService, UNCHANGED otadata, testMode' \in TestMode PROVE UpdateInv'
    <2>1. /\ boot_phase' = "running"
          /\ UNCHANGED <<flash, otadata, selected, running, stage, up, pending_verify, op_lock,
                         session>>
      BY <1>2 DEF EnterService
    <2>2. UpdateTypeOK'
      BY <1>2, <2>1 DEF UpdateInv, UpdateTypeOK
    <2> QED BY <2>1, <2>2, SlotsKept DEF UpdateInv, SlotsAreSafe, StartIsOrderly, HaltedIsClean
  <1>3. ASSUME unconfirmed, RollBackOrStay, testMode' \in TestMode PROVE UpdateInv'
    BY <1>2, <1>3, RollbackStep DEF RollBackOrStay
  <1>4. ASSUME EnterService, testMode' \in TestMode, otadata' = [otadata EXCEPT ![running] = "valid"],
               unconfirmed
        PROVE  UpdateInv'
    <2>1. /\ boot_phase' = "running"
          /\ UNCHANGED <<flash, selected, running, stage, up, pending_verify, op_lock, session>>
      BY <1>4 DEF EnterService
    <2>2. /\ running \in Slots /\ spare # running /\ spare' = spare /\ spare \in Slots
          /\ otadata'[running] = "valid" /\ otadata'[spare] = otadata[spare]
      BY <1>4, <2>1, SpareSlot DEF UpdateInv, UpdateTypeOK, spare
    <2>3. UpdateTypeOK'
      BY <1>4, <2>1 DEF UpdateInv, UpdateTypeOK
    <2>4. RunningIsVerified' /\ TrialCanReturn' /\ ConfirmedImageStarts'
      BY <1>1, <2>1, <2>2 DEF UpdateInv, RunningIsVerified, TrialCanReturn, unconfirmed,
                  ConfirmedImageStarts
    <2>5. InstalledIsVerified'
      BY <2>1, <2>2 DEF UpdateInv, InstalledIsVerified, installing
    <2>6. SelectedIsKnown'
      BY <2>1, <2>2 DEF UpdateInv, SelectedIsKnown
    <2> QED BY <2>1, <2>3, <2>4, <2>5, <2>6 DEF UpdateInv, StartIsOrderly, HaltedIsClean
  <1>5. testMode \in TestMode /\ "NONE" \in TestMode
    BY DEF UpdateInv, UpdateTypeOK, TestMode
  <1>6. CASE ~pending_verify
    BY <1>2, <1>5, <1>6 DEF Confirm
  <1>7. CASE pending_verify
    <2>3. unconfirmed
      BY <1>1, <1>7 DEF UpdateInv, StartIsOrderly
    <2>1. CASE RollBackOrStay /\ UNCHANGED testMode
      BY <1>3, <1>5, <2>1, <2>3
    <2>2. ASSUME NEW mode \in TestMode, testMode' = "NONE",
                 CASE mode = "NO_CONFIRM_ONCE"     -> Boot(flash, otadata, selected)
                   [] mode = "SELF_TEST_FAIL_ONCE" -> RollBackOrStay
                   [] mode = "NONE" ->
                        \/ EnterService /\ otadata' = [otadata EXCEPT ![running] = "valid"]
                        \/ RollBackOrStay
          PROVE  UpdateInv'
      <3>1. CASE mode = "NO_CONFIRM_ONCE"
        BY <1>5, <2>2, <3>1, ResetStep
      <3>2. CASE mode = "SELF_TEST_FAIL_ONCE"
        BY <1>3, <1>5, <2>2, <2>3, <3>2
      <3>3. CASE mode = "NONE"
        BY <1>3, <1>4, <1>5, <2>2, <2>3, <3>3
      <3> QED BY <3>1, <3>2, <3>3 DEF TestMode
    <2> QED BY <1>7, <2>1, <2>2 DEF Confirm, consume_rollback_test_mode
  <1> QED BY <1>6, <1>7

-----------------------------------------------------------------------------
\* One installer's own step.
SessionStep(c, place) ==
    /\ session'[c].at = place
    /\ \A d \in Clients \ {c} : session'[d] = session[d]

\* An installer that goes on keeps its type and is where the step says.
LEMMA ProceedStep ==
    ASSUME UpdateTypeOK, NEW c \in Clients,
           NEW place \in {"waiting", "checked", "writing", "verified", "prepared", "selected"},
           NEW image \in Image \cup {Blank}, Proceed(c, place, image)
    PROVE  session' \in [Clients -> Session] /\ SessionStep(c, place)
  <1> DEFINE s == [at |-> place, image |-> image]
  <1>1. s \in Session /\ s.at = place
    BY DEF Session
  <1>2. session' = [session EXCEPT ![c] = s]
    BY DEF Proceed
  <1> HIDE DEF s
  <1> QED BY <1>1, <1>2 DEF UpdateTypeOK, SessionStep

\* So it is with one that ends.
LEMMA EndStep ==
    ASSUME UpdateTypeOK, NEW c \in Clients, End(c)
    PROVE  session' \in [Clients -> Session] /\ SessionStep(c, "idle")
  <1>1. Idle \in Session /\ Idle.at = "idle"
    BY DEF Idle, Session
  <1>2. session' = [session EXCEPT ![c] = Idle]
    BY DEF End
  <1> QED BY <1>1, <1>2 DEF UpdateTypeOK, SessionStep

\* An installer that goes from one place to another without touching a slot.
LEMMA MoveStep ==
    ASSUME UpdateInv, NEW c \in Clients, NEW place, SessionStep(c, place),
           session' \in [Clients -> Session], op_lock' \in Clients \cup {Nobody},
           UNCHANGED <<storage, startup>>,
           session[c].at # "selected",
           place \in {"idle", "waiting", "checked"} \/ (installing(c) /\ place = "prepared")
    PROVE  UpdateInv'
  <1>1. UNCHANGED <<flash, otadata, selected, testMode, running, boot_phase, stage, up,
                    pending_verify>>
    BY DEF storage, startup
  <1>2. spare' = spare
    BY <1>1 DEF spare
  <1>3. UpdateTypeOK'
    BY <1>1 DEF UpdateInv, UpdateTypeOK
  <1>4. RunningIsVerified' /\ ConfirmedImageStarts' /\ StartIsOrderly' /\ HaltedIsClean'
    BY <1>1 DEF UpdateInv, RunningIsVerified, ConfirmedImageStarts, StartIsOrderly, HaltedIsClean,
                unconfirmed
  <1>5. TrialCanReturn'
    <2> SUFFICES ASSUME unconfirmed' PROVE TrialCanReturn'
      BY DEF TrialCanReturn
    <2>1. /\ unconfirmed /\ flash[spare].digested /\ flash[spare].sound
          /\ otadata[spare] = "valid"
          /\ \A d \in Clients : session[d].at \in {"idle", "waiting", "checked"}
      BY <1>1 DEF UpdateInv, TrialCanReturn, unconfirmed
    <2>2. place \in {"idle", "waiting", "checked"}
      BY <2>1 DEF installing
    <2> QED BY <1>1, <1>2, <2>1, <2>2 DEF TrialCanReturn, SessionStep
  <1>6. InstalledIsVerified'
    <2>1. (\E d \in Clients : installing(d))' => \E d \in Clients : installing(d)
      BY DEF installing, SessionStep
    <2> QED BY <1>1, <1>2, <2>1 DEF UpdateInv, InstalledIsVerified
  <1>7. SelectedIsKnown'
    <2>1. (\E d \in Clients : session[d].at = "selected") =>
            \E d \in Clients : session'[d].at = "selected"
      BY DEF SessionStep
    <2> QED BY <1>1, <1>2, <2>1 DEF UpdateInv, SelectedIsKnown
  <1> QED BY <1>3, <1>4, <1>5, <1>6, <1>7 DEF UpdateInv

\* A step of an installer that writes no slot keeps the invariant,
LEMMA QuietClientStep ==
    ASSUME UpdateInv, NEW c \in Clients,
           \/ RequestDownload(c) \/ CheckManifest(c) \/ LockTimeout(c)
           \/ AbortDownload(c) \/ Prepare(c)
    PROVE  UpdateInv'
  <1>1. UpdateTypeOK /\ Nobody \in Clients \cup {Nobody} /\ Blank \in Image \cup {Blank}
        /\ op_lock \in Clients \cup {Nobody}
        /\ session[c].image \in Image \cup {Blank}
    BY DEF UpdateInv, UpdateTypeOK, Session
  <1>2. CASE RequestDownload(c)
    <2>1. /\ Proceed(c, "waiting", Blank) /\ session[c].at = "idle"
          /\ UNCHANGED <<storage, startup>> /\ op_lock' = op_lock
      BY <1>2 DEF RequestDownload
    <2> QED BY <1>1, <2>1, ProceedStep, MoveStep
  <1>3. CASE CheckManifest(c)
    <2>1. /\ session[c].at = "waiting" /\ UNCHANGED <<storage, startup>>
          /\ \/ op_lock' = c /\ \E i \in Image : Proceed(c, "checked", i)
             \/ op_lock' = op_lock /\ End(c)
      BY <1>3 DEF CheckManifest
    <2>2. op_lock' \in Clients \cup {Nobody}
      BY <1>1, <2>1
    <2> QED BY <1>1, <2>1, <2>2, ProceedStep, EndStep, MoveStep
  <1>4. CASE LockTimeout(c)
    <2>1. /\ session[c].at = "waiting" /\ End(c)
          /\ UNCHANGED <<storage, startup>> /\ op_lock' = op_lock
      BY <1>4 DEF LockTimeout
    <2> QED BY <1>1, <2>1, EndStep, MoveStep
  <1>5. CASE AbortDownload(c)
    <2>1. /\ session[c].at \in {"checked", "writing"} /\ End(c)
          /\ UNCHANGED <<storage, startup>> /\ op_lock' = Nobody
      BY <1>5 DEF AbortDownload
    <2> QED BY <1>1, <2>1, EndStep, MoveStep
  <1>6. CASE Prepare(c)
    <2>1. /\ session[c].at = "verified" /\ UNCHANGED <<storage, startup>> /\ op_lock' = op_lock
          /\ Proceed(c, "prepared", session[c].image) \/ End(c)
      BY <1>6 DEF Prepare
    <2>2. installing(c)
      BY <2>1 DEF installing
    <2> QED BY <1>1, <2>1, <2>2, ProceedStep, EndStep, MoveStep
  <1> QED BY <1>2, <1>3, <1>4, <1>5, <1>6

\* The spare slot is erased, never while the running image is on trial.
LEMMA BeginStep == ASSUME UpdateInv, NEW c \in Clients, BeginDownload(c) PROVE UpdateInv'
  <1>1. UpdateTypeOK /\ session[c].at = "checked" /\ session[c].image \in Image \cup {Blank}
    BY DEF UpdateInv, UpdateTypeOK, Session, BeginDownload
  <1>2. CASE ota_begin_allowed
    <2>1. /\ flash' = [flash EXCEPT ![spare] = Blank]
          /\ Proceed(c, "writing", session[c].image)
          /\ UNCHANGED <<otadata, selected, testMode, running, boot_phase, stage, up, pending_verify,
                         op_lock>>
      BY <1>2 DEF BeginDownload, startup, spare
    <2>2. session' \in [Clients -> Session] /\ SessionStep(c, "writing")
      BY <1>1, <2>1, ProceedStep
    <2>3. /\ running \in Slots /\ spare \in Slots /\ spare # running /\ spare' = spare
          /\ flash'[running] = flash[running] /\ flash'[spare] = Blank
      BY <1>1, <2>1, SpareSlot DEF UpdateTypeOK, spare
    <2>4. UpdateTypeOK'
      BY <1>1, <2>1, <2>2 DEF UpdateTypeOK
    <2>5. RunningIsVerified' /\ ConfirmedImageStarts' /\ StartIsOrderly' /\ HaltedIsClean'
      BY <2>1, <2>3 DEF UpdateInv, RunningIsVerified, ConfirmedImageStarts, StartIsOrderly,
                         HaltedIsClean, unconfirmed
    <2>6. TrialCanReturn'
      BY <1>2, <2>1 DEF ota_begin_allowed, TrialCanReturn, unconfirmed
    <2>7. InstalledIsVerified'
      BY <2>3 DEF InstalledIsVerified
    <2>8. SelectedIsKnown'
      BY <1>1, <2>1, <2>2, <2>3 DEF UpdateInv, SelectedIsKnown, SessionStep
    <2> QED BY <2>4, <2>5, <2>6, <2>7, <2>8 DEF UpdateInv
  <1>3. CASE ~ota_begin_allowed
    <2>1. End(c) /\ op_lock' = Nobody /\ UNCHANGED <<storage, startup>>
      BY <1>3 DEF BeginDownload, storage, startup
    <2> QED BY <1>1, <2>1, EndStep, MoveStep
  <1> QED BY <1>2, <1>3

\* An image is written: the digest decides, and nobody else installs meanwhile.
LEMMA FinishStep == ASSUME UpdateInv, NEW c \in Clients, FinishDownload(c) PROVE UpdateInv'
  <1>1. PICK received \in [build : 1..MaxBuild, sound : BOOLEAN] :
          /\ flash' = [flash EXCEPT ![spare] =
                         [build |-> received.build, sound |-> received.sound,
                          digested |-> received.build = session[c].image.build
                                       /\ received.sound = session[c].image.sound]]
          /\ IF digest_matches(received, session[c].image)
             THEN Proceed(c, "verified", session[c].image) ELSE End(c)
    BY DEF FinishDownload, spare
  <1> DEFINE good == digest_matches(received, session[c].image)
             image == [build |-> received.build, sound |-> received.sound,
                       digested |-> received.build = session[c].image.build
                                    /\ received.sound = session[c].image.sound]
  <1>2. /\ session[c].at = "writing" /\ \A d \in Clients \ {c} : ~installing(d)
        /\ UNCHANGED <<otadata, selected, testMode, running, boot_phase, stage, up, pending_verify>>
        /\ op_lock' = Nobody
    BY DEF FinishDownload, InstallIsQuick, startup
  <1>3. image \in Image /\ image.digested = good /\ good \in BOOLEAN
    BY DEF Image, digest_matches
  <1>4. /\ flash' = [flash EXCEPT ![spare] = image]
        /\ IF good THEN Proceed(c, "verified", session[c].image) ELSE End(c)
    BY <1>1
  <1>5. UpdateTypeOK /\ session[c].image \in Image \cup {Blank}
    BY DEF UpdateInv, UpdateTypeOK, Session
  <1> HIDE DEF good, image
  <1>6. /\ session' \in [Clients -> Session]
        /\ IF good THEN SessionStep(c, "verified") ELSE SessionStep(c, "idle")
    BY <1>4, <1>5, ProceedStep, EndStep
  <1>7. /\ running \in Slots /\ spare \in Slots /\ spare # running /\ spare' = spare
        /\ flash'[running] = flash[running] /\ flash'[spare] = image
    BY <1>2, <1>4, <1>5, SpareSlot DEF UpdateTypeOK, spare
  <1>8. UpdateTypeOK'
    BY <1>2, <1>3, <1>4, <1>5, <1>6 DEF UpdateTypeOK
  <1>9. RunningIsVerified' /\ ConfirmedImageStarts' /\ StartIsOrderly' /\ HaltedIsClean'
    BY <1>2, <1>7 DEF UpdateInv, RunningIsVerified, ConfirmedImageStarts, StartIsOrderly,
                       HaltedIsClean, unconfirmed
  <1>10. TrialCanReturn'
    <2>1. ~unconfirmed
      BY <1>2 DEF UpdateInv, TrialCanReturn
    <2> QED BY <1>2, <2>1 DEF TrialCanReturn, unconfirmed
  <1>11. InstalledIsVerified'
    BY <1>2, <1>3, <1>6, <1>7 DEF InstalledIsVerified, installing, SessionStep
  <1>12. SelectedIsKnown'
    BY <1>2, <1>6, <1>7 DEF UpdateInv, SelectedIsKnown, SessionStep
  <1> QED BY <1>8, <1>9, <1>10, <1>11, <1>12 DEF UpdateInv

\* as does the selection of the slot that was just verified.
LEMMA SetBootStep == ASSUME UpdateInv, NEW c \in Clients, SetBoot(c) PROVE UpdateInv'
  <1>1. UpdateTypeOK /\ session[c].at = "prepared" /\ session[c].image \in Image \cup {Blank}
    BY DEF UpdateInv, UpdateTypeOK, Session, SetBoot
  <1>2. CASE flash[spare] # Blank
    <2>1. /\ selected' = spare /\ otadata' = [otadata EXCEPT ![spare] = "new"]
          /\ Proceed(c, "selected", session[c].image)
          /\ UNCHANGED <<flash, testMode, running, boot_phase, stage, up, pending_verify,
                         op_lock>>
      BY <1>2 DEF SetBoot, startup, spare
    <2>2. session' \in [Clients -> Session] /\ SessionStep(c, "selected")
      BY <1>1, <2>1, ProceedStep
    <2>3. /\ running \in Slots /\ spare \in Slots /\ spare # running /\ spare' = spare
          /\ otadata'[running] = otadata[running] /\ otadata'[spare] = "new"
      BY <1>1, <2>1, SpareSlot DEF UpdateTypeOK, spare
    <2>4. UpdateTypeOK'
      BY <1>1, <2>1, <2>2, <2>3 DEF UpdateTypeOK
    <2>5. RunningIsVerified' /\ ConfirmedImageStarts' /\ StartIsOrderly' /\ HaltedIsClean'
      BY <2>1, <2>3 DEF UpdateInv, RunningIsVerified, ConfirmedImageStarts, StartIsOrderly,
                         HaltedIsClean, unconfirmed
    <2>6. TrialCanReturn'
      <3>1. ~unconfirmed
        BY <1>1 DEF UpdateInv, TrialCanReturn
      <3> QED BY <2>1, <2>3, <3>1 DEF TrialCanReturn, unconfirmed
    <2>7. InstalledIsVerified'
      BY <1>1, <2>1, <2>3 DEF UpdateInv, InstalledIsVerified, installing
    <2>8. SelectedIsKnown'
      BY <2>1, <2>2, <2>3 DEF SelectedIsKnown, SessionStep
    <2> QED BY <2>4, <2>5, <2>6, <2>7, <2>8 DEF UpdateInv
  <1>3. CASE flash[spare] = Blank
    <2>1. End(c) /\ UNCHANGED <<storage, startup>> /\ op_lock' = op_lock
      BY <1>3 DEF SetBoot, storage, startup, spare
    <2>2. op_lock' \in Clients \cup {Nobody}
      BY <1>1, <2>1 DEF UpdateTypeOK
    <2> QED BY <1>1, <2>1, <2>2, EndStep, MoveStep
  <1> QED BY <1>2, <1>3

\* The initial state satisfies the inductive invariant,
LEMMA UpdateInitInv == UpdateInit => UpdateInv
  <1> SUFFICES ASSUME UpdateInit PROVE UpdateInv
    OBVIOUS
  <1> DEFINE factory == [build |-> 1, sound |-> TRUE, digested |-> TRUE]
  <1>1. /\ running = "ota_0" /\ boot_phase = "starting" /\ stage = 1 /\ up = {}
        /\ pending_verify = FALSE
        /\ selected = "ota_0" /\ testMode = "NONE" /\ op_lock = Nobody
        /\ flash = [s \in Slots |-> IF s = "ota_0" THEN factory ELSE Blank]
        /\ otadata = [s \in Slots |-> IF s = "ota_0" THEN "valid" ELSE "undefined"]
        /\ session = [c \in Clients |-> Idle]
    BY DEF UpdateInit, StartupInit
  <1>2. factory \in Image /\ factory.sound /\ factory.digested
    BY MaxBuildAssumption DEF Image
  <1> HIDE DEF factory
  <1>3. spare = "ota_1" /\ "ota_0" \in Slots /\ "ota_1" \in Slots
    BY <1>1, TwoSlots DEF spare, Slots
  <1>4. flash["ota_0"] = factory /\ otadata["ota_0"] = "valid" /\ otadata["ota_1"] = "undefined"
    BY <1>1, <1>3
  <1>5. \A c \in Clients : session[c].at = "idle"
    BY <1>1 DEF Idle
  <1>6. UpdateTypeOK
    <2>1. Idle \in Session
      BY DEF Idle, Session
    <2>2. pending_verify \in BOOLEAN
      BY <1>1
    <2> QED BY <1>1, <1>2, <2>1, <2>2, StagesDomain DEF UpdateTypeOK, TestMode, Slots
  <1>7. RunningIsVerified /\ TrialCanReturn /\ ConfirmedImageStarts
    BY <1>1, <1>2, <1>4 DEF RunningIsVerified, TrialCanReturn, ConfirmedImageStarts, unconfirmed
  <1>8. InstalledIsVerified /\ SelectedIsKnown
    BY <1>1, <1>3, <1>4, <1>5 DEF InstalledIsVerified, installing, SelectedIsKnown
  <1>9. StartIsOrderly /\ HaltedIsClean
    BY <1>1 DEF StartIsOrderly, HaltedIsClean
  <1> QED BY <1>6, <1>7, <1>8, <1>9 DEF UpdateInv

\* and every step keeps it.
LEMMA UpdateNextInv == UpdateInv /\ [UpdateNext]_updateVars => UpdateInv'
  <1> SUFFICES ASSUME UpdateInv, [UpdateNext]_updateVars PROVE UpdateInv'
    OBVIOUS
  <1>1. CASE Startup
    BY <1>1, StagePassesStep, OptionalStep, CriticalStep, ConfirmStep DEF Startup
  <1>2. CASE StartDiagnosticGateway BY <1>2, DiagnosticStep
  <1>3. CASE PowerCycle
    <2>1. testMode' \in TestMode
      BY <1>3 DEF PowerCycle, UpdateInv, UpdateTypeOK
    <2> QED BY <1>3, <2>1, ResetStep DEF PowerCycle
  <1>4. CASE ConsoleInstalls \/ AnnounceInstalls
    BY <1>4, QuietClientStep DEF ConsoleInstalls, AnnounceInstalls, Clients
  <1>5. ASSUME NEW c \in Clients, ClientStep(c) PROVE UpdateInv'
    <2>1. CASE Restart(c)
      <3>1. testMode' \in TestMode
        BY <2>1 DEF Restart, UpdateInv, UpdateTypeOK
      <3> QED BY <2>1, <3>1, ResetStep DEF Restart
    <2> QED BY <1>5, <2>1, QuietClientStep, BeginStep, FinishStep, SetBootStep DEF ClientStep
  <1>6. ASSUME NEW mode \in TestMode, SetTestMode(mode) PROVE UpdateInv'
    <2>1. /\ UNCHANGED <<flash, otadata, selected, running, boot_phase, stage, up, pending_verify,
                         op_lock, session>>
          /\ testMode' \in TestMode
      BY <1>6 DEF SetTestMode, startup
    <2>2. UpdateTypeOK'
      BY <2>1 DEF UpdateInv, UpdateTypeOK
    <2> QED BY <2>1, <2>2, SlotsKept
            DEF UpdateInv, SlotsAreSafe, StartIsOrderly, HaltedIsClean, unconfirmed
  <1>7. CASE UNCHANGED updateVars
    <2>1. UNCHANGED <<flash, otadata, selected, testMode, running, boot_phase, stage, up,
                      pending_verify, op_lock, session>>
      BY <1>7 DEF updateVars
    <2>2. UpdateTypeOK'
      BY <2>1 DEF UpdateInv, UpdateTypeOK
    <2> QED BY <2>1, <2>2, SlotsKept
            DEF UpdateInv, SlotsAreSafe, StartIsOrderly, HaltedIsClean, unconfirmed
  <1> QED BY <1>1, <1>2, <1>3, <1>4, <1>5, <1>6, <1>7 DEF UpdateNext

\* The inductive invariant holds in every reachable state.
THEOREM UpdateInvariance == UpdateSpec => []UpdateInv
  BY UpdateInitInv, UpdateNextInv, PTL DEF UpdateSpec

\* At every instant of an installation, a start-up, a power failure or a
\* rollback the running image was verified and one on trial has a verified,
\* confirmed image to return to (ota_manager_install_file and its callers);
\* the confirmed image starts, and a start-up that gives up leaves nothing up
\* (app_main), for any sequence of builds.
THEOREM UpdateAlwaysSafe == UpdateSpec => []UpdateIsSafe
  <1>1. UpdateInv => UpdateIsSafe
    <2> SUFFICES ASSUME UpdateInv PROVE UpdateIsSafe
      OBVIOUS
    <2>1. unconfirmed => rollback_is_possible
      BY VerifiedIsThere DEF UpdateInv, TrialCanReturn, rollback_is_possible, Usable, spare
    <2> QED BY <2>1 DEF UpdateInv, UpdateIsSafe, RunsVerifiedAndCanReturn, RunningIsVerified
  <1> QED BY <1>1, UpdateInvariance, PTL

-----------------------------------------------------------------------------
\* An installer works on an image newer than the running one, and that is what
\* the spare slot holds from the digest's check to the restart, unless it was erased.
BuildsRise ==
    \A c \in Clients :
      /\ session[c].at \notin {"idle", "waiting"} =>
           session[c].image.build > flash[running].build
      /\ installing(c) => flash[spare] = Blank \/ flash[spare].build > flash[running].build

\* A build is a number.
LEMMA BuildIsNat ==
    /\ \A i \in Image \cup {Blank} : i.build \in Nat
    /\ UpdateTypeOK => /\ flash[running].build \in Nat
                       /\ \A c \in Clients : session[c].image \in Image \cup {Blank}
  <1>1. \A i \in Image \cup {Blank} : i.build \in Nat
    BY MaxBuildAssumption DEF Image, Blank
  <1>2. ASSUME UpdateTypeOK
        PROVE  /\ flash[running] \in Image \cup {Blank}
               /\ \A c \in Clients : session[c].image \in Image \cup {Blank}
    BY <1>2 DEF UpdateTypeOK, Session
  <1> QED BY <1>1, <1>2

\* After a reset no installer is at work.
LEMMA BootRises == ASSUME NEW f, NEW o, NEW s, Boot(f, o, s) PROVE BuildsRise'
  <1>1. \A c \in Clients : session'[c] = Idle
    BY DEF Boot
  <1>2. Idle.at = "idle"
    BY DEF Idle
  <1> QED BY <1>1, <1>2 DEF BuildsRise, installing

\* A step that leaves the slots and the installers alone changes no build.
LEMMA UntouchedRises ==
    ASSUME BuildsRise, UNCHANGED <<flash, running, session>>
    PROVE  BuildsRise'
  BY DEF BuildsRise, installing, spare

\* An installer's step that writes no slot: it moves on with its image, or ends.
LEMMA MoveRises ==
    ASSUME UpdateTypeOK, BuildsRise, NEW c \in Clients, UNCHANGED <<flash, running>>,
           \A d \in Clients \ {c} : session'[d] = session[d],
           session'[c].at \notin {"idle", "waiting"} =>
             session'[c].image.build > flash[running].build,
           session'[c].at \in {"verified", "prepared", "selected"} => installing(c)
    PROVE  BuildsRise'
  <1>1. spare' = spare
    BY DEF spare
  <1>2. ASSUME NEW d \in Clients
        PROVE  /\ session'[d].at \notin {"idle", "waiting"} =>
                    session'[d].image.build > flash'[running'].build
               /\ installing(d)' => flash'[spare'] = Blank \/ flash'[spare'].build > flash'[running'].build
    <2>1. CASE d = c
      BY <1>1, <2>1 DEF BuildsRise, installing
    <2>2. CASE d # c
      BY <1>1, <2>2 DEF BuildsRise, installing
    <2> QED BY <2>1, <2>2
  <1> QED BY <1>2 DEF BuildsRise

\* What an installer does keeps the order of the builds.
LEMMA ClientRises ==
    ASSUME UpdateInv, BuildsRise, NEW c \in Clients, RequestDownload(c) \/ ClientStep(c)
    PROVE  BuildsRise'
  <1>1. /\ UpdateTypeOK /\ session \in [Clients -> Session]
        /\ running \in Slots /\ spare \in Slots /\ spare # running
    BY SpareSlot DEF UpdateInv, UpdateTypeOK
  <1>2. ASSUME End(c), UNCHANGED <<flash, running>> PROVE BuildsRise'
    <2>1. session'[c].at = "idle" /\ \A d \in Clients \ {c} : session'[d] = session[d]
      BY <1>1, <1>2 DEF End, Idle
    <2> QED BY <1>1, <1>2, <2>1, MoveRises
  <1>3. CASE RequestDownload(c)
    <2>1. Proceed(c, "waiting", Blank) /\ UNCHANGED <<flash, running>>
      BY <1>3 DEF RequestDownload, storage, startup
    <2>2. session'[c].at = "waiting" /\ \A d \in Clients \ {c} : session'[d] = session[d]
      BY <1>1, <2>1 DEF Proceed
    <2> QED BY <1>1, <2>1, <2>2, MoveRises
  <1>4. CASE CheckManifest(c)
    <2>1. UNCHANGED <<flash, running>>
      BY <1>4 DEF CheckManifest, storage, startup
    <2>2. ASSUME NEW offered \in Image, manifest_offers(offered), Proceed(c, "checked", offered)
          PROVE  BuildsRise'
      <3>1. /\ session'[c].at = "checked" /\ session'[c].image = offered
            /\ \A d \in Clients \ {c} : session'[d] = session[d]
        BY <1>1, <2>2 DEF Proceed
      <3>2. session'[c].image.build > flash[running].build
        BY <2>2, <3>1 DEF manifest_offers
      <3> QED BY <1>1, <2>1, <3>1, <3>2, MoveRises
    <2> QED BY <1>2, <1>4, <2>1, <2>2 DEF CheckManifest
  <1>5. CASE LockTimeout(c) \/ AbortDownload(c)
    BY <1>2, <1>5 DEF LockTimeout, AbortDownload, storage, startup
  <1>6. CASE Prepare(c)
    <2>1. /\ session[c].at = "verified" /\ UNCHANGED <<flash, running>>
          /\ Proceed(c, "prepared", session[c].image) \/ End(c)
      BY <1>6 DEF Prepare, storage, startup
    <2>2. installing(c) /\ session[c].image.build > flash[running].build
      BY <2>1 DEF installing, BuildsRise
    <2>3. \A d \in Clients \ {c} : session'[d] = session[d]
      BY <1>1, <2>1 DEF Proceed, End
    <2>4. CASE ~End(c)
      <3>1. session'[c].image = session[c].image
        BY <1>1, <2>1, <2>4 DEF Proceed
      <3> QED BY <1>1, <2>1, <2>2, <2>3, <3>1, MoveRises
    <2> QED BY <1>2, <2>1, <2>4
  <1>7. CASE SetBoot(c)
    <2>1. /\ session[c].at = "prepared" /\ UNCHANGED <<flash, running>>
          /\ Proceed(c, "selected", session[c].image) \/ End(c)
      BY <1>7 DEF SetBoot, startup
    <2>2. installing(c) /\ session[c].image.build > flash[running].build
      BY <2>1 DEF installing, BuildsRise
    <2>3. \A d \in Clients \ {c} : session'[d] = session[d]
      BY <1>1, <2>1 DEF Proceed, End
    <2>4. CASE ~End(c)
      <3>1. session'[c].image = session[c].image
        BY <1>1, <2>1, <2>4 DEF Proceed
      <3> QED BY <1>1, <2>1, <2>2, <2>3, <3>1, MoveRises
    <2> QED BY <1>2, <2>1, <2>4
  <1>8. CASE BeginDownload(c)
    <2>1. CASE ota_begin_allowed
      <3>1. /\ flash' = [flash EXCEPT ![spare] = Blank] /\ running' = running
            /\ session' = [session EXCEPT ![c] = [at |-> "writing", image |-> session[c].image]]
            /\ session[c].at = "checked"
        BY <1>8, <2>1 DEF BeginDownload, Proceed, startup, spare
      <3>2. /\ spare' = spare /\ flash'[spare] = Blank /\ flash'[running] = flash[running]
        BY <1>1, <3>1 DEF spare, UpdateTypeOK
      <3>3. \A d \in Clients : session'[d].image = session[d].image
                               /\ (d # c => session'[d].at = session[d].at)
        BY <1>1, <3>1
      <3> QED BY <3>1, <3>2, <3>3 DEF BuildsRise
    <2>2. CASE ~ota_begin_allowed
      BY <1>2, <1>8, <2>2 DEF BeginDownload, startup
    <2> QED BY <2>1, <2>2
  <1>9. CASE FinishDownload(c)
    <2>1. PICK received \in [build : 1..MaxBuild, sound : BOOLEAN] :
            /\ flash' = [flash EXCEPT ![spare] =
                           [build |-> received.build, sound |-> received.sound,
                            digested |-> received.build = session[c].image.build
                                         /\ received.sound = session[c].image.sound]]
            /\ IF digest_matches(received, session[c].image)
               THEN Proceed(c, "verified", session[c].image) ELSE End(c)
      BY <1>9 DEF FinishDownload, spare
    <2>2. /\ session[c].at = "writing" /\ \A d \in Clients \ {c} : ~installing(d)
          /\ running' = running
      BY <1>9 DEF FinishDownload, InstallIsQuick, startup
    <2>3. /\ spare' = spare /\ flash'[running] = flash[running]
          /\ flash'[spare].build = received.build
      BY <1>1, <2>1, <2>2 DEF spare, UpdateTypeOK
    <2>4. session[c].image.build > flash[running].build
      BY <2>2 DEF BuildsRise
    <2>5. CASE digest_matches(received, session[c].image)
      <3>1. session' = [session EXCEPT ![c] = [at |-> "verified", image |-> session[c].image]]
        BY <2>1, <2>5 DEF Proceed
      <3>2. flash'[spare].build = session[c].image.build
        BY <2>3, <2>5 DEF digest_matches
      <3>3. /\ session'[c].image = session[c].image
            /\ \A d \in Clients \ {c} : session'[d] = session[d]
        BY <1>1, <3>1
      <3> QED BY <2>2, <2>3, <2>4, <3>2, <3>3 DEF BuildsRise, installing
    <2>6. CASE ~digest_matches(received, session[c].image)
      <3>1. session' = [session EXCEPT ![c] = Idle]
        BY <2>1, <2>6 DEF End
      <3>2. session'[c].at = "idle" /\ \A d \in Clients \ {c} : session'[d] = session[d]
        BY <1>1, <3>1 DEF Idle
      <3> QED BY <2>2, <2>3, <3>2 DEF BuildsRise, installing
    <2> QED BY <2>5, <2>6
  <1>10. CASE Restart(c)
    BY <1>10, BootRises DEF Restart
  <1> QED BY <1>3, <1>4, <1>5, <1>6, <1>7, <1>8, <1>9, <1>10 DEF ClientStep

\* A build that goes down between two states is that of an image given up.
OlderIsGivenUp ==
    flash'[running'].build < flash[running].build => otadata'[running] \in {"invalid", "aborted"}

\* Where the running image is the same, no build goes down.
LEMMA SameImage ==
    ASSUME UpdateTypeOK, running' = running, flash'[running] = flash[running]
    PROVE  OlderIsGivenUp
  BY BuildIsNat DEF OlderIsGivenUp

\* A reset goes to a newer image, or gives up the one on trial,
LEMMA ResetIsUpwards ==
    ASSUME UpdateInv, BuildsRise, Boot(flash, otadata, selected)
    PROVE  OlderIsGivenUp
  <1> DEFINE k == Aborted(otadata)
             r == BootSlot(flash, k, selected)
  <1>1. /\ running \in Slots /\ spare \in Slots /\ spare # running /\ other(spare) = running
        /\ other(running) = spare /\ selected \in Slots
        /\ \A s \in Slots : s = running \/ s = spare
        /\ otadata \in [Slots -> ImageStates] /\ UpdateTypeOK
    BY SpareSlot DEF UpdateInv, UpdateTypeOK, ImageStates, spare
  <1>2. \A s \in Slots : k[s] = IF otadata[s] = "pending" THEN "aborted" ELSE otadata[s]
    BY DEF Aborted
  <1>3. r = IF flash[selected] # Blank /\ k[selected] \notin {"invalid", "aborted"}
            THEN selected ELSE other(selected)
    BY DEF BootSlot, Usable
  <1>4. /\ flash' = flash /\ running' = r
        /\ otadata' = [k EXCEPT ![selected] = IF @ = "new" THEN "pending" ELSE @]
    BY DEF Boot
  <1>5. k \in [Slots -> ImageStates]
    BY <1>1 DEF Aborted, ImageStates
  <1> HIDE DEF k, r
  <1>6. CASE unconfirmed
    <2>1. k[running] = "aborted"
      BY <1>1, <1>2, <1>6 DEF unconfirmed
    <2>2. otadata'[running] = "aborted"
      BY <1>1, <1>4, <1>5, <2>1
    <2> QED BY <2>2 DEF OlderIsGivenUp
  <1>7. CASE ~unconfirmed
    <2>1. otadata[running] = "valid" /\ k[running] = "valid" /\ flash[running] # Blank
      BY <1>1, <1>2, <1>7, VerifiedIsThere DEF UpdateInv, RunningIsVerified, unconfirmed
    <2>2. CASE r = running
      BY <1>1, <1>4, <2>2, SameImage
    <2>3. CASE r = spare
      <3>1. /\ selected = spare /\ flash[spare] # Blank /\ k[spare] \notin {"invalid", "aborted"}
        BY <1>1, <1>3, <2>1, <2>3
      <3>2. otadata[spare] = "new"
        BY <1>1, <1>2, <3>1 DEF UpdateInv, SelectedIsKnown
      <3>3. PICK c \in Clients : session[c].at = "selected"
        BY <3>2 DEF UpdateInv, SelectedIsKnown
      <3>4. flash[spare].build > flash[running].build
        BY <3>1, <3>3 DEF BuildsRise, installing
      <3>5. flash[spare].build \in Nat /\ flash[running].build \in Nat
        BY <1>1, BuildIsNat DEF UpdateTypeOK
      <3> QED BY <1>4, <2>3, <3>4, <3>5 DEF OlderIsGivenUp
    <2>4. r = running \/ r = spare
      BY <1>1, <1>3
    <2> QED BY <2>2, <2>3, <2>4
  <1> QED BY <1>6, <1>7

\* as a rollback does.
LEMMA RollbackGivesUp == ASSUME UpdateInv, InvalidateAndReboot PROVE OlderIsGivenUp
  <1> DEFINE o == [otadata EXCEPT ![running] = "invalid"]
             k == Aborted(o)
  <1>1. /\ running \in Slots /\ spare \in Slots /\ spare # running
        /\ otadata \in [Slots -> ImageStates]
    BY SpareSlot DEF UpdateInv, UpdateTypeOK, ImageStates
  <1>2. otadata' = [k EXCEPT ![spare] = IF @ = "new" THEN "pending" ELSE @]
    BY DEF InvalidateAndReboot, Boot, spare
  <1>3. o[running] = "invalid"
    BY <1>1
  <1>4. k \in [Slots -> ImageStates \cup {"aborted"}] /\ k[running] = "invalid"
    <2>1. o \in [Slots -> ImageStates]
      BY <1>1 DEF ImageStates
    <2> HIDE DEF o
    <2> QED BY <1>1, <1>3, <2>1 DEF Aborted
  <1> HIDE DEF k
  <1>5. otadata'[running] = "invalid"
    BY <1>1, <1>2, <1>4
  <1> QED BY <1>5 DEF OlderIsGivenUp

\* Every step keeps the order and gives up what it leaves for an older build.
LEMMA UpdateNextRises ==
    UpdateInv /\ BuildsRise /\ [UpdateNext]_updateVars => BuildsRise' /\ OlderIsGivenUp
  <1> SUFFICES ASSUME UpdateInv, BuildsRise, [UpdateNext]_updateVars
               PROVE  BuildsRise' /\ OlderIsGivenUp
    OBVIOUS
  <1>1. UpdateTypeOK
    BY DEF UpdateInv
  <1>2. ASSUME UNCHANGED <<flash, running, session>> PROVE BuildsRise' /\ OlderIsGivenUp
    BY <1>1, <1>2, UntouchedRises, SameImage
  <1>3. ASSUME Boot(flash, otadata, selected) PROVE BuildsRise' /\ OlderIsGivenUp
    BY <1>3, BootRises, ResetIsUpwards
  <1>4. ASSUME InvalidateAndReboot PROVE BuildsRise' /\ OlderIsGivenUp
    BY <1>4, BootRises, RollbackGivesUp DEF InvalidateAndReboot
  <1>5. ASSUME EnterService PROVE BuildsRise' /\ OlderIsGivenUp
    BY <1>2, <1>5 DEF EnterService
  <1>6. ASSUME RollBackOrStay PROVE BuildsRise' /\ OlderIsGivenUp
    BY <1>4, <1>5, <1>6 DEF RollBackOrStay
  <1>7. CASE StagePasses \/ OptionalStageFails
    BY <1>2, <1>7 DEF StagePasses, OptionalStageFails, storage
  <1>8. CASE CriticalStageFails
    <2>1. CASE pending_verify /\ rollback_is_possible
      BY <1>4, <1>8, <2>1 DEF CriticalStageFails
    <2>2. CASE ~(pending_verify /\ rollback_is_possible)
      BY <1>2, <1>8, <2>2 DEF CriticalStageFails, storage
    <2> QED BY <2>1, <2>2
  <1>9. CASE Confirm
    <2>1. CASE ~pending_verify
      BY <1>5, <1>9, <2>1 DEF Confirm
    <2>2. CASE pending_verify
      <3>1. ASSUME NEW mode \in TestMode,
                   CASE mode = "NO_CONFIRM_ONCE"     -> Boot(flash, otadata, selected)
                     [] mode = "SELF_TEST_FAIL_ONCE" -> RollBackOrStay
                     [] mode = "NONE" ->
                          \/ EnterService /\ otadata' = [otadata EXCEPT ![running] = "valid"]
                          \/ RollBackOrStay
            PROVE  BuildsRise' /\ OlderIsGivenUp
        <4>1. CASE mode = "NO_CONFIRM_ONCE" BY <1>3, <3>1, <4>1
        <4>2. CASE mode = "SELF_TEST_FAIL_ONCE" BY <1>6, <3>1, <4>2
        <4>3. CASE mode = "NONE" BY <1>5, <1>6, <3>1, <4>3
        <4> QED BY <4>1, <4>2, <4>3 DEF TestMode
      <3> QED BY <1>6, <1>9, <2>2, <3>1 DEF Confirm
    <2> QED BY <2>1, <2>2
  <1>10. CASE StartDiagnosticGateway
    BY <1>2, <1>10 DEF StartDiagnosticGateway, storage
  <1>11. CASE PowerCycle
    BY <1>3, <1>11 DEF PowerCycle
  <1>12. ASSUME NEW c \in Clients, RequestDownload(c) \/ ClientStep(c)
         PROVE  BuildsRise' /\ OlderIsGivenUp
    <2>1. CASE Restart(c)
      BY <1>3, <2>1 DEF Restart
    <2>2. CASE BeginDownload(c) \/ FinishDownload(c)
      <3>1. /\ running' = running /\ running \in Slots /\ spare \in Slots /\ spare # running
            /\ \/ flash' = flash
               \/ \E i : flash' = [flash EXCEPT ![spare] = i]
        BY <1>1, <2>2, SpareSlot DEF BeginDownload, FinishDownload, startup, spare
      <3>2. flash'[running] = flash[running]
        BY <1>1, <3>1 DEF UpdateTypeOK
      <3> QED BY <1>1, <1>12, <3>1, <3>2, SameImage, ClientRises
    <2>3. CASE \/ RequestDownload(c) \/ CheckManifest(c) \/ LockTimeout(c) \/ AbortDownload(c)
               \/ Prepare(c) \/ SetBoot(c)
      <3>1. running' = running /\ flash' = flash
        BY <2>3 DEF RequestDownload, CheckManifest, LockTimeout, AbortDownload, Prepare, SetBoot,
                    storage, startup
      <3> QED BY <1>1, <1>12, <3>1, SameImage, ClientRises
    <2> QED BY <1>12, <2>1, <2>2, <2>3 DEF ClientStep
  <1>13. CASE ConsoleInstalls \/ AnnounceInstalls
    BY <1>12, <1>13 DEF ConsoleInstalls, AnnounceInstalls, Clients
  <1>14. ASSUME NEW mode \in TestMode, SetTestMode(mode) PROVE BuildsRise' /\ OlderIsGivenUp
    BY <1>2, <1>14 DEF SetTestMode, startup
  <1>15. CASE UNCHANGED updateVars
    BY <1>2, <1>15 DEF updateVars
  <1> QED BY <1>7, <1>8, <1>9, <1>10, <1>11, <1>12, <1>13, <1>14, <1>15 DEF UpdateNext, Startup

\* The running build goes down only when an image is given up, whatever two
\* installers, resets and failures come between its manifest and its restart
\* (parse_manifest and handle_startup_failure).
THEOREM UpdatesOnlyRise == UpdateSpec => OlderOnlyByRollback
  <1>1. UpdateInit => BuildsRise
    <2> SUFFICES ASSUME UpdateInit PROVE BuildsRise
      OBVIOUS
    <2>1. \A c \in Clients : session[c].at = "idle"
      BY DEF UpdateInit, Idle
    <2> QED BY <2>1 DEF BuildsRise, installing
  <1>2. OlderIsGivenUp =>
          (flash'[running'].build < flash[running].build =>
             otadata'[running] \in {"invalid", "aborted"})
    BY DEF OlderIsGivenUp
  <1> QED BY <1>1, <1>2, UpdateInitInv, UpdateNextInv, UpdateNextRises, PTL
          DEF UpdateSpec, OlderOnlyByRollback

(* ------------------------------ the station ------------------------------ *)

\* The bounds of the retries and the commands are numbers.
LEMMA WifiBounds == MaxRetries \in Nat /\ MaxCommands \in Nat
  BY WifiAssumption, Zenon

RadioEvents == {"DISCONNECTED", "GOT_IP"}

\* Of the events that wait, the last one tells how the link is: an address
\* that was won last is still held.
LastEventIsTrue ==
    events # <<>> /\ events[Len(events)] = "GOT_IP" => link = "up"

WifiInv == WifiTypeOK /\ LastEventIsTrue /\ ConnectedIsTrue

\* An event that is posted is the last one,
LEMMA PostedIsLast ==
    ASSUME events \in Seq(RadioEvents), NEW e \in RadioEvents, Post(e)
    PROVE  events' \in Seq(RadioEvents) /\ events' # <<>> /\ events'[Len(events')] = e
  BY DEF Post

\* and the one that is handled was the last if none is left.
LEMMA HandledIsFirst ==
    ASSUME events \in Seq(RadioEvents), events # <<>>, events' = Tail(events)
    PROVE  /\ events' \in Seq(RadioEvents)
           /\ events' = <<>> => events[Len(events)] = Head(events)
           /\ events' # <<>> => events'[Len(events')] = events[Len(events)]
  <1>1. /\ events' \in Seq(RadioEvents) /\ Len(events) \in Nat \ {0} /\ Len(events') = Len(events) - 1
        /\ \A i \in 1..Len(events') : events'[i] = events[i + 1]
        /\ Head(events) = events[1]
    OBVIOUS
  <1>2. CASE events' = <<>>
    <2>1. Len(events') = 0
      <3>1. Len(<<>>) = 0
        OBVIOUS
      <3> QED BY <1>2, <3>1, Zenon
    <2>2. Len(events) = 1
      BY <1>1, <2>1
    <2> QED BY <1>1, <1>2, <2>2
  <1>3. CASE events' # <<>>
    <2>1. Len(events') \in 1..Len(events') /\ Len(events') + 1 = Len(events)
      BY <1>1, <1>3
    <2> QED BY <1>1, <1>3, <2>1
  <1> QED BY <1>2, <1>3

\* The radio drops the link and says so, if there was one.
LEMMA DisconnectSays ==
    ASSUME WifiInv, esp_wifi_disconnect
    PROVE  /\ link' = "down" /\ events' \in Seq(RadioEvents) /\ station' = station
           /\ LastEventIsTrue'
           /\ link = "down" => UNCHANGED events
           /\ link # "down" => events' # <<>>
  <1>1. events \in Seq(RadioEvents) /\ station' = station /\ LastEventIsTrue
    BY DEF WifiInv, WifiTypeOK, RadioEvents, esp_wifi_disconnect
  <1>2. CASE link = "down"
    BY <1>1, <1>2 DEF esp_wifi_disconnect, LastEventIsTrue
  <1>3. CASE link # "down"
    <2>1. link' = "down" /\ Post("DISCONNECTED")
      BY <1>3 DEF esp_wifi_disconnect
    <2>2. events' \in Seq(RadioEvents) /\ events' # <<>> /\ events'[Len(events')] = "DISCONNECTED"
      BY <1>1, <2>1, PostedIsLast DEF RadioEvents
    <2> QED BY <1>1, <1>3, <2>1, <2>2 DEF LastEventIsTrue
  <1> QED BY <1>2, <1>3

\* A caller that moves leaves the other where it is.
CallPlaces == {"idle", "load", "password", "mark", "start", "disconnect", "set_disconnect",
               "drop", "set_drop", "unpause"}

LEMMA GoTyped ==
    ASSUME WifiTypeOK, NEW c \in Callers, NEW where \in CallPlaces, Go(c, where)
    PROVE  call' \in [Callers -> CallPlaces]
  BY DEF Go, WifiTypeOK, CallPlaces

\* A step that leaves the radio and the connected state alone keeps what is said of them.
LEMMA LinkKept ==
    ASSUME WifiInv, UNCHANGED <<link, events>>, missed' = missed \/ missed',
           wifi_state' = wifi_state \/ wifi_state' # "CONNECTED"
    PROVE  LastEventIsTrue' /\ ConnectedIsTrue'
  BY DEF WifiInv, LastEventIsTrue, ConnectedIsTrue

\* The radio and the access point,
LEMMA RadioWifiStep ==
    ASSUME WifiInv, (\E joins \in BOOLEAN : RadioStep(joins)) \/ AccessPoint
    PROVE  WifiInv'
  <1>1. events \in Seq(RadioEvents) /\ WifiTypeOK
    BY DEF WifiInv, WifiTypeOK, RadioEvents
  <1>2. ASSUME NEW joins \in BOOLEAN, RadioStep(joins) PROVE WifiInv'
    <2>1. /\ link' = IF joins THEN "up" ELSE "down"
          /\ Post(IF joins THEN "GOT_IP" ELSE "DISCONNECTED")
          /\ UNCHANGED <<ssid, password, wifi_state, named, manual_disconnect, auto_connect_paused,
                         retry_count, timer, retry_ready, call, loaded, reconnect, dropping,
                         station, ap, commands, missed>>
      BY <1>2 DEF RadioStep, stored, manager
    <2>2. /\ events' \in Seq(RadioEvents) /\ events' # <<>>
          /\ events'[Len(events')] = IF joins THEN "GOT_IP" ELSE "DISCONNECTED"
      BY <1>1, <2>1, PostedIsLast DEF RadioEvents
    <2>3. WifiTypeOK'
      BY <1>1, <2>1, <2>2 DEF WifiTypeOK, RadioEvents
    <2> QED BY <2>1, <2>2, <2>3 DEF WifiInv, LastEventIsTrue, ConnectedIsTrue
  <1>3. CASE AccessPoint
    <2>1. /\ ap' = ~ap
          /\ UNCHANGED <<ssid, password, wifi_state, named, manual_disconnect, auto_connect_paused,
                         retry_count, timer, retry_ready, call, loaded, reconnect, dropping,
                         link, station, events, commands, missed>>
      BY <1>3 DEF AccessPoint, stored, manager, radio
    <2>2. WifiTypeOK'
      BY <1>1, <2>1 DEF WifiTypeOK
    <2> QED BY <2>1, <2>2, LinkKept DEF WifiInv
  <1> QED BY <1>2, <1>3

\* the event of a lost connection, if its handler gets the lock,
LEMMA TakenIsDown ==
    ASSUME WifiTypeOK, take_disconnected
    PROVE  /\ wifi_state' \in State /\ wifi_state' # "CONNECTED"
           /\ manual_disconnect' \in BOOLEAN /\ retry_count' \in 0..MaxRetries
           /\ reconnect' \in BOOLEAN
  <1>1. CASE manual_disconnect
    BY <1>1 DEF take_disconnected, WifiTypeOK, State
  <1>2. CASE ~manual_disconnect /\ wifi_state = "CONNECTING" /\ retry_count < MaxRetries
    <2>1. /\ retry_count' = retry_count + 1 /\ reconnect' = TRUE
          /\ UNCHANGED <<wifi_state, manual_disconnect>>
      BY <1>2 DEF take_disconnected
    <2>2. retry_count \in 0..MaxRetries
      BY DEF WifiTypeOK
    <2>3. retry_count' \in 0..MaxRetries
      BY <1>2, <2>1, <2>2, WifiBounds
    <2> QED BY <1>2, <2>1, <2>3 DEF WifiTypeOK
  <1>3. CASE ~manual_disconnect /\ ~(wifi_state = "CONNECTING" /\ retry_count < MaxRetries)
    <2>1. wifi_state' = "FAILED" /\ UNCHANGED <<manual_disconnect, retry_count, reconnect>>
      BY <1>3 DEF take_disconnected
    <2> QED BY <2>1 DEF WifiTypeOK, State
  <1> QED BY <1>1, <1>2, <1>3

\* the event handlers,
LEMMA EventWifiStep == ASSUME WifiInv, EventTask PROVE WifiInv'
  <1>1. events \in Seq(RadioEvents) /\ WifiTypeOK /\ LastEventIsTrue
    BY DEF WifiInv, WifiTypeOK, RadioEvents
  <1>2. CASE OnDisconnected
    <2>1. /\ events # <<>> /\ Head(events) = "DISCONNECTED" /\ events' = Tail(events)
          /\ missed' \in BOOLEAN
          /\ UNCHANGED <<ssid, password, named, auto_connect_paused, timer, retry_ready, call,
                         loaded, dropping, link, station, ap, commands>>
      BY <1>2 DEF OnDisconnected, stored
    <2>2. /\ wifi_state' \in State /\ (wifi_state' = "CONNECTED" => missed')
          /\ manual_disconnect' \in BOOLEAN /\ retry_count' \in 0..MaxRetries
          /\ reconnect' \in BOOLEAN
      <3>1. CASE missed'
        BY <1>1, <1>2, <3>1 DEF OnDisconnected, WifiTypeOK
      <3>2. CASE ~missed'
        BY <1>1, <1>2, <3>2, TakenIsDown DEF OnDisconnected
      <3> QED BY <3>1, <3>2
    <2>3. /\ events' \in Seq(RadioEvents)
          /\ events' # <<>> => events'[Len(events')] = events[Len(events)]
      BY <1>1, <2>1, HandledIsFirst
    <2>4. WifiTypeOK'
      BY <1>1, <2>1, <2>2, <2>3 DEF WifiTypeOK, RadioEvents
    <2> QED BY <1>1, <2>1, <2>2, <2>3, <2>4 DEF WifiInv, LastEventIsTrue, ConnectedIsTrue
  <1>3. CASE HandlerReconnects
    <2>1. /\ reconnect' = FALSE
          /\ link' = IF link = "down" THEN "joining" ELSE link
          /\ wifi_state' \in {wifi_state, "FAILED"}
          /\ UNCHANGED <<station, events>>
          /\ UNCHANGED <<ssid, password, named, manual_disconnect, auto_connect_paused, retry_count, timer,
                         retry_ready, call, loaded, dropping, ap, commands, missed>>
      BY <1>3 DEF HandlerReconnects, esp_wifi_connect, stored
    <2>2. link' \in {"down", "joining", "up"} /\ wifi_state' \in State
      BY <1>1, <2>1 DEF WifiTypeOK, State
    <2>3. WifiTypeOK'
      BY <1>1, <2>1, <2>2 DEF WifiTypeOK
    <2> QED BY <1>1, <2>1, <2>3 DEF WifiInv, LastEventIsTrue, ConnectedIsTrue
  <1>4. CASE OnGotIp
    <2>1. /\ events # <<>> /\ Head(events) = "GOT_IP" /\ events' = Tail(events)
          /\ missed' \in BOOLEAN
          /\ wifi_state' = IF missed' THEN wifi_state ELSE "CONNECTED"
          /\ UNCHANGED <<ssid, password, named, manual_disconnect, auto_connect_paused, retry_count,
                         timer, retry_ready, call, loaded, reconnect, dropping, link, station, ap,
                         commands>>
      BY <1>4 DEF OnGotIp, stored
    <2>2. /\ events' \in Seq(RadioEvents)
          /\ events' = <<>> => events[Len(events)] = Head(events)
          /\ events' # <<>> => events'[Len(events')] = events[Len(events)]
      BY <1>1, <2>1, HandledIsFirst
    <2>3. WifiTypeOK'
      BY <1>1, <2>1, <2>2 DEF WifiTypeOK, RadioEvents, State
    <2> QED BY <1>1, <2>1, <2>2, <2>3 DEF WifiInv, LastEventIsTrue, ConnectedIsTrue
  <1> QED BY <1>2, <1>3, <1>4 DEF EventTask

\* the connection timeout,
LEMMA TimeoutWifiStep == ASSUME WifiInv, TimeoutTask PROVE WifiInv'
  <1>1. WifiTypeOK
    BY DEF WifiInv
  <1>2. CASE ConnectTimeout
    <2>1. /\ timer' = FALSE /\ dropping' \in BOOLEAN
          /\ wifi_state' \in {wifi_state, "FAILED"} /\ missed' \in BOOLEAN
          /\ missed' = missed \/ missed'
          /\ UNCHANGED <<ssid, password, named, manual_disconnect, auto_connect_paused, retry_count,
                         retry_ready, call, loaded, reconnect, link, station, events, ap,
                         commands>>
      <3>1. /\ timer' = FALSE
            /\ \/ /\ wifi_state' = IF wifi_state = "CONNECTING" THEN "FAILED" ELSE wifi_state
                  /\ dropping' = (wifi_state = "CONNECTING") /\ missed' = missed
               \/ missed' = TRUE /\ wifi_state' = wifi_state /\ dropping' = dropping
        BY <1>2 DEF ConnectTimeout
      <3>2. dropping' \in BOOLEAN /\ missed' \in BOOLEAN /\ (missed' = missed \/ missed')
        BY <1>1, <3>1, Zenon DEF WifiTypeOK
      <3>3. wifi_state' \in {wifi_state, "FAILED"}
        BY <3>1
      <3> QED BY <1>2, <3>1, <3>2, <3>3 DEF ConnectTimeout, stored, radio
    <2>2. wifi_state' \in State
      BY <1>1, <2>1 DEF WifiTypeOK, State
    <2>3. WifiTypeOK'
      BY <1>1, <2>1, <2>2 DEF WifiTypeOK
    <2> QED BY <2>1, <2>3, LinkKept DEF WifiInv
  <1>3. CASE TimeoutDisconnects
    <2>1. /\ dropping' = FALSE /\ esp_wifi_disconnect
          /\ UNCHANGED <<ssid, password, wifi_state, named, manual_disconnect, auto_connect_paused,
                         retry_count, timer, retry_ready, call, loaded, reconnect, ap, commands,
                         missed>>
      BY <1>3 DEF TimeoutDisconnects, stored, manager
    <2>2. /\ link' = "down" /\ events' \in Seq(RadioEvents) /\ station' = station
          /\ LastEventIsTrue'
          /\ link = "down" => UNCHANGED events
          /\ link # "down" => events' # <<>>
      BY <2>1, DisconnectSays
    <2>3. WifiTypeOK'
      BY <1>1, <2>1, <2>2 DEF WifiTypeOK, RadioEvents
    <2> QED BY <2>1, <2>2, <2>3 DEF WifiInv, ConnectedIsTrue
  <1> QED BY <1>2, <1>3 DEF TimeoutTask

\* a connection attempt of either caller,
LEMMA ConnectWifiStep ==
    ASSUME WifiInv, NEW c \in Callers, ConnectStep(c) PROVE WifiInv'
  <1>1. WifiTypeOK /\ LastEventIsTrue /\ ConnectedIsTrue
    BY DEF WifiInv
  <1>2. ASSUME NEW ready \in BOOLEAN, Finish(c, ready)
        PROVE  call' \in [Callers -> CallPlaces] /\ retry_ready' \in BOOLEAN
    BY <1>1, <1>2, GoTyped DEF Finish, CallPlaces, WifiTypeOK
  <1>3. CASE LoadSsid(c)
    <2>1. UNCHANGED <<ssid, password, manual_disconnect, auto_connect_paused, retry_count, timer,
                      reconnect, dropping, link, station, events, ap, commands, missed>>
      BY <1>3 DEF LoadSsid, stored, radio
    <2>2. CASE ssid = None
      <3>1. /\ wifi_state' = "UNCONFIGURED" /\ named' = FALSE
            /\ Finish(c, TRUE) /\ loaded' = loaded
        BY <1>3, <2>2 DEF LoadSsid
      <3>2. WifiTypeOK'
        BY <1>1, <1>2, <2>1, <3>1 DEF WifiTypeOK, State, CallPlaces
      <3> QED BY <2>1, <3>1, <3>2, LinkKept DEF WifiInv
    <2>3. CASE ssid # None
      <3>1. /\ loaded' = [loaded EXCEPT ![c] = [ssid |-> ssid, password |-> None]]
            /\ Go(c, "password") /\ UNCHANGED <<wifi_state, named, retry_ready>>
        BY <1>3, <2>3 DEF LoadSsid
      <3>2. loaded' \in [Callers -> Credentials]
        BY <1>1, <3>1 DEF WifiTypeOK, Credentials
      <3>3. call' \in [Callers -> CallPlaces]
        BY <1>1, <3>1, GoTyped DEF CallPlaces
      <3>4. WifiTypeOK'
        BY <1>1, <2>1, <3>1, <3>2, <3>3 DEF WifiTypeOK, CallPlaces
      <3> QED BY <2>1, <3>1, <3>4, LinkKept DEF WifiInv
    <2> QED BY <2>2, <2>3
  <1>4. CASE LoadPassword(c)
    <2>1. /\ loaded' = [loaded EXCEPT ![c].password = password] /\ Go(c, "mark")
          /\ UNCHANGED <<ssid, password, wifi_state, named, manual_disconnect, auto_connect_paused,
                         retry_count, timer, retry_ready, reconnect, dropping, link, station,
                         events, ap, commands, missed>>
      BY <1>4 DEF LoadPassword, stored, manager, radio
    <2>2. loaded' \in [Callers -> Credentials]
      BY <1>1, <2>1 DEF WifiTypeOK, Credentials
    <2>3. call' \in [Callers -> CallPlaces]
      BY <1>1, <2>1, GoTyped DEF CallPlaces
    <2>4. WifiTypeOK'
      BY <1>1, <2>1, <2>2, <2>3 DEF WifiTypeOK, CallPlaces
    <2> QED BY <2>1, <2>4, LinkKept DEF WifiInv
  <1>5. CASE MarkConnecting(c)
    <2>1. UNCHANGED <<ssid, password, loaded, reconnect, dropping, link, station, events, ap,
                      commands, missed>>
      BY <1>5 DEF MarkConnecting, stored, radio
    <2>2. CASE wifi_state \in {"CONNECTING", "CONNECTED"}
      <3>1. Finish(c, FALSE) /\ UNCHANGED <<wifi_state, named, manual_disconnect,
                                            auto_connect_paused, retry_count, timer>>
        BY <1>5, <2>2 DEF MarkConnecting, manager
      <3>2. call' \in [Callers -> CallPlaces] /\ retry_ready' \in BOOLEAN
        BY <1>2, <3>1
      <3>3. WifiTypeOK'
        BY <1>1, <2>1, <3>1, <3>2 DEF WifiTypeOK, CallPlaces
      <3> QED BY <2>1, <3>1, <3>3, LinkKept DEF WifiInv
    <2>3. CASE wifi_state \notin {"CONNECTING", "CONNECTED"}
      <3>1. /\ wifi_state' = "CONNECTING" /\ named' = TRUE /\ retry_count' = 0
            /\ manual_disconnect' = FALSE /\ auto_connect_paused' = FALSE /\ timer' = FALSE
            /\ Go(c, "start") /\ retry_ready' = retry_ready
        BY <1>5, <2>3 DEF MarkConnecting
      <3>2. call' \in [Callers -> CallPlaces]
        BY <1>1, <3>1, GoTyped DEF CallPlaces
      <3>3. retry_count' \in 0..MaxRetries
        BY <3>1, WifiBounds
      <3>4. WifiTypeOK'
        BY <1>1, <2>1, <3>1, <3>2, <3>3 DEF WifiTypeOK, CallPlaces, State
      <3> QED BY <2>1, <3>1, <3>4, LinkKept DEF WifiInv
    <2> QED BY <2>2, <2>3
  <1>6. CASE StartConnecting(c)
    <2>1. /\ loaded' = [loaded EXCEPT ![c] = NoCredentials] /\ Finish(c, FALSE)
          /\ events' = events
          /\ wifi_state' \in {wifi_state, "FAILED"} /\ timer' \in {timer, TRUE}
          /\ station' \in {station, loaded[c]}
          /\ link' = IF link = "down" THEN "joining" ELSE link
          /\ UNCHANGED <<ssid, password, named, manual_disconnect, auto_connect_paused, retry_count,
                         reconnect, dropping, ap, commands, missed>>
      BY <1>6 DEF StartConnecting, stored, radio
    <2>2. loaded' \in [Callers -> Credentials] /\ station' \in Credentials
      BY <1>1, <2>1 DEF WifiTypeOK, Credentials, NoCredentials
    <2>3. call' \in [Callers -> CallPlaces] /\ retry_ready' \in BOOLEAN
      BY <1>2, <2>1
    <2>4. link' \in {"down", "joining", "up"} /\ wifi_state' \in State /\ timer' \in BOOLEAN
      BY <1>1, <2>1 DEF WifiTypeOK, State
    <2>5. WifiTypeOK'
      BY <1>1, <2>1, <2>2, <2>3, <2>4 DEF WifiTypeOK, CallPlaces
    <2> QED BY <1>1, <2>1, <2>5 DEF WifiInv, LastEventIsTrue, ConnectedIsTrue
  <1> QED BY <1>3, <1>4, <1>5, <1>6 DEF ConnectStep

\* the status, for whoever asks,
LEMMA StatusTyped ==
    ASSUME WifiTypeOK, get_status
    PROVE  /\ wifi_state' \in State /\ named' \in BOOLEAN
           /\ wifi_state' = wifi_state \/ wifi_state' # "CONNECTED"
  BY DEF get_status, status, status_named, idle_state, WifiTypeOK, State

LEMMA StatusWifiStep == ASSUME WifiInv, AskStatus PROVE WifiInv'
  <1>1. UNCHANGED <<ssid, password, manual_disconnect, auto_connect_paused, retry_count, timer,
                    retry_ready, call, loaded, reconnect, dropping, link, station, events, ap,
                    commands, missed>>
    BY DEF AskStatus, stored, radio
  <1>2. /\ wifi_state' \in State /\ named' \in BOOLEAN
        /\ wifi_state' = wifi_state \/ wifi_state' # "CONNECTED"
    BY StatusTyped DEF AskStatus, WifiInv
  <1>3. WifiTypeOK'
    BY <1>1, <1>2 DEF WifiInv, WifiTypeOK
  <1> QED BY <1>1, <1>2, <1>3, LinkKept DEF WifiInv

\* the supervisor,
LEMMA SuperviseWifiStep == ASSUME WifiInv, Supervise PROVE WifiInv'
  <1>1. WifiTypeOK /\ "supervisor" \in Callers
    BY DEF WifiInv, Callers
  <1>2. UNCHANGED <<ssid, password, manual_disconnect, auto_connect_paused, retry_count, timer,
                    loaded, reconnect, dropping, link, station, events, ap, commands, missed>>
    BY DEF Supervise, stored, radio
  <1>3. /\ wifi_state' \in State /\ named' \in BOOLEAN
        /\ wifi_state' = wifi_state \/ wifi_state' # "CONNECTED"
    BY <1>1, StatusTyped DEF Supervise
  <1>4. call' = call \/ Go("supervisor", "load")
    BY DEF Supervise
  <1>5. call' \in [Callers -> CallPlaces]
    BY <1>1, <1>4, GoTyped DEF WifiTypeOK, CallPlaces
  <1>6. retry_ready' \in BOOLEAN
    BY <1>1, Zenon DEF Supervise, WifiTypeOK
  <1>7. WifiTypeOK'
    BY <1>1, <1>2, <1>3, <1>5, <1>6 DEF WifiTypeOK, CallPlaces
  <1> QED BY <1>2, <1>3, <1>7, LinkKept DEF WifiInv

\* a command of the console,
LEMMA CommandWifiStep == ASSUME WifiInv, ConsoleCommand PROVE WifiInv'
  <1>1. WifiTypeOK /\ "console" \in Callers
    BY DEF WifiInv, Callers
  <1>2. ASSUME NEW where \in {"set_disconnect", "disconnect", "load"}, Command(where),
               ssid' \in Networks \cup {None}, password' \in Networks \cup {None}
        PROVE  WifiInv'
    <2>1. /\ commands < MaxCommands /\ commands' = commands + 1 /\ Go("console", where)
          /\ UNCHANGED <<wifi_state, named, manual_disconnect, auto_connect_paused, retry_count,
                         timer, retry_ready, loaded, reconnect, dropping, link, station, events, ap,
                         missed>>
      BY <1>2 DEF Command, manager, radio
    <2>2. call' \in [Callers -> CallPlaces]
      BY <1>1, <2>1, GoTyped DEF CallPlaces
    <2>3. commands \in 0..MaxCommands
      BY <1>1 DEF WifiTypeOK
    <2>4. commands' \in 0..MaxCommands
      BY <2>1, <2>3, WifiBounds
    <2>5. WifiTypeOK'
      BY <1>1, <1>2, <2>1, <2>2, <2>4 DEF WifiTypeOK, CallPlaces
    <2> QED BY <2>1, <2>5, LinkKept DEF WifiInv
  <1>3. ssid \in Networks \cup {None} /\ password \in Networks \cup {None}
    BY <1>1 DEF WifiTypeOK
  <1>4. CASE WifiClear BY <1>2, <1>4 DEF WifiClear
  <1>5. CASE WifiConnect BY <1>2, <1>3, <1>5 DEF WifiConnect, stored
  <1>6. CASE WifiDisconnect BY <1>2, <1>3, <1>6 DEF WifiDisconnect, stored
  <1>7. ASSUME NEW n \in Networks, WifiSet(n) PROVE WifiInv'
    BY <1>2, <1>7 DEF WifiSet
  <1> QED BY <1>4, <1>5, <1>6, <1>7 DEF ConsoleCommand

\* and the console's own task.
LEMMA ConsoleWifiStep == ASSUME WifiInv, ConsoleTask PROVE WifiInv'
  <1>1. WifiTypeOK /\ "console" \in Callers
    BY DEF WifiInv, Callers
  <1>2. CASE ConnectStep("console") BY <1>1, <1>2, ConnectWifiStep
  <1>3. CASE MarkDisconnected
    <2>1. /\ timer' = FALSE /\ manual_disconnect' = TRUE /\ auto_connect_paused' = TRUE
          /\ wifi_state' \in {"UNCONFIGURED", "DISCONNECTED"}
          /\ named' = (named /\ ssid # None)
          /\ Go("console", IF at("console", "disconnect") THEN "drop" ELSE "set_drop")
          /\ UNCHANGED <<ssid, password, retry_count, retry_ready, loaded, reconnect, dropping,
                         link, station, events, ap, commands, missed>>
      BY <1>3 DEF MarkDisconnected, stored, radio
    <2>2. call' \in [Callers -> CallPlaces]
      BY <1>1, <2>1, GoTyped DEF CallPlaces
    <2>3. WifiTypeOK'
      BY <1>1, <2>1, <2>2 DEF WifiTypeOK, CallPlaces, State
    <2> QED BY <2>1, <2>3, LinkKept DEF WifiInv
  <1>4. CASE DropLink
    <2>1. /\ esp_wifi_disconnect
          /\ Go("console", IF at("console", "drop") THEN "idle" ELSE "unpause")
          /\ UNCHANGED <<ssid, password, wifi_state, named, manual_disconnect, auto_connect_paused,
                         retry_count, timer, retry_ready, loaded, reconnect, dropping, ap,
                         commands, missed>>
      BY <1>4 DEF DropLink, stored, manager
    <2>2. /\ link' = "down" /\ events' \in Seq(RadioEvents) /\ station' = station
          /\ LastEventIsTrue'
          /\ link = "down" => UNCHANGED events
          /\ link # "down" => events' # <<>>
      BY <2>1, DisconnectSays
    <2>3. call' \in [Callers -> CallPlaces]
      BY <1>1, <2>1, GoTyped DEF CallPlaces
    <2>4. WifiTypeOK'
      BY <1>1, <2>1, <2>2, <2>3 DEF WifiTypeOK, RadioEvents, CallPlaces
    <2> QED BY <2>1, <2>2, <2>4 DEF WifiInv, ConnectedIsTrue
  <1>5. CASE Unpause
    <2>1. /\ auto_connect_paused' = FALSE /\ manual_disconnect' = FALSE /\ Go("console", "idle")
          /\ UNCHANGED <<ssid, password, wifi_state, named, retry_count, timer, retry_ready, loaded,
                         reconnect, dropping, link, station, events, ap, commands, missed>>
      BY <1>5 DEF Unpause, stored, radio
    <2>2. call' \in [Callers -> CallPlaces]
      BY <1>1, <2>1, GoTyped DEF CallPlaces
    <2>3. WifiTypeOK'
      BY <1>1, <2>1, <2>2 DEF WifiTypeOK, CallPlaces
    <2> QED BY <2>1, <2>3, LinkKept DEF WifiInv
  <1> QED BY <1>2, <1>3, <1>4, <1>5 DEF ConsoleTask

\* The invariant holds at the start
LEMMA WifiInitInv == WifiInit => WifiInv
  <1> SUFFICES ASSUME WifiInit PROVE WifiInv
    OBVIOUS
  <1>1. /\ ssid \in Networks \cup {None} /\ password \in Networks \cup {None}
        /\ wifi_state \in {"UNCONFIGURED", "DISCONNECTED"} /\ named = (ssid # None)
        /\ missed = FALSE
        /\ manual_disconnect = FALSE /\ auto_connect_paused = FALSE /\ retry_count = 0
        /\ timer = FALSE /\ retry_ready = TRUE
        /\ call = [c \in Callers |-> "idle"] /\ loaded = [c \in Callers |-> NoCredentials]
        /\ reconnect = FALSE /\ dropping = FALSE
        /\ link = "down" /\ station = NoCredentials /\ events = <<>>
        /\ ap \in BOOLEAN /\ commands = 0
    BY DEF WifiInit
  <1>2. NoCredentials \in Credentials
    BY DEF NoCredentials, Credentials
  <1>3. events \in Seq({"DISCONNECTED", "GOT_IP"})
    BY <1>1
  <1>4. retry_count \in 0..MaxRetries /\ commands \in 0..MaxCommands
    BY <1>1, WifiBounds
  <1>5. WifiTypeOK
    BY <1>1, <1>2, <1>3, <1>4 DEF WifiTypeOK, State
  <1> QED BY <1>1, <1>5 DEF WifiInv, LastEventIsTrue, ConnectedIsTrue

\* and every step keeps it.
LEMMA WifiNextInv == WifiInv /\ [WifiNext]_wifiVars => WifiInv'
  <1> SUFFICES ASSUME WifiInv, [WifiNext]_wifiVars PROVE WifiInv'
    OBVIOUS
  <1>1. CASE (\E joins \in BOOLEAN : RadioStep(joins)) \/ AccessPoint BY <1>1, RadioWifiStep
  <1>2. CASE EventTask BY <1>2, EventWifiStep
  <1>3. CASE TimeoutTask BY <1>3, TimeoutWifiStep
  <1>4. CASE Supervise BY <1>4, SuperviseWifiStep
  <1>5. CASE ConnectStep("supervisor") BY <1>5, ConnectWifiStep DEF Callers
  <1>6. CASE ConsoleTask BY <1>6, ConsoleWifiStep
  <1>7. CASE ConsoleCommand BY <1>7, CommandWifiStep
  <1>8. CASE AskStatus BY <1>8, StatusWifiStep
  <1>9. CASE UNCHANGED wifiVars
    <2>1. UNCHANGED <<ssid, password, wifi_state, named, manual_disconnect, auto_connect_paused,
                      retry_count, timer, retry_ready, call, loaded, reconnect, dropping, link,
                      station, events, ap, commands, missed>>
      BY <1>9 DEF wifiVars, stored, manager, radio
    <2>2. WifiTypeOK'
      BY <2>1 DEF WifiInv, WifiTypeOK
    <2> QED BY <2>1, <2>2, LinkKept DEF WifiInv
  <1> QED BY <1>1, <1>2, <1>3, <1>4, <1>5, <1>6, <1>7, <1>8, <1>9 DEF WifiNext

\* The manager says CONNECTED over a link that is down only while the event
\* that tells of it waits, or when its handler could not take the lock, for any
\* networks, retries and queue of events (wifi_manager.c:181-245).
THEOREM ConnectedAlwaysTrue == WifiSpec => []ConnectedIsTrue
  <1>1. WifiInv => ConnectedIsTrue BY DEF WifiInv
  <1> QED BY <1>1, WifiInitInv, WifiNextInv, PTL DEF WifiSpec

(* ------------------------ the services together -------------------------- *)

\* Every service's invariant holds, whichever one the behaviour is about.
ServicesInv == focus \in {"update", "wifi"} /\ UpdateInv /\ WifiInv

\* Every network service keeps its types and bounds, and nobody believes in a
\* connection that is gone, unless the event that told of it was dropped,
\* whatever the builds, networks, retries and numbers of commands
\* (wifi_manager.c:181-245).
THEOREM ServicesAlwaysSound == ServicesSpec => []ServicesAreSound
  <1>1. ServicesInit => ServicesInv
    BY UpdateInitInv, WifiInitInv DEF ServicesInit, ServicesInv
  <1>2. ServicesInv /\ [ServicesNext]_servicesVars => ServicesInv'
    <2> SUFFICES ASSUME ServicesInv, [ServicesNext]_servicesVars PROVE ServicesInv'
      OBVIOUS
    <2>1. [UpdateNext]_updateVars /\ [WifiNext]_wifiVars /\ focus' = focus
      BY DEF ServicesNext, About, servicesVars
    <2> QED BY <2>1, UpdateNextInv, WifiNextInv DEF ServicesInv
  <1>3. ServicesInv => ServicesAreSound
    BY DEF ServicesInv, UpdateInv, WifiInv, ServicesAreSound
  <1> QED BY <1>1, <1>2, <1>3, PTL DEF ServicesSpec
=============================================================================
