------------------------- MODULE CommunicationQuality -------------------------
(***************************************************************************)
(* communication_quality_model: what the outcomes of the polls of a drive  *)
(* say about its link.  A model is a record; ages are counted instead of   *)
(* timestamps, so the wrap of the millisecond clock is left out.           *)
(***************************************************************************)
EXTENDS Naturals

CONSTANTS
    WarningAge, StaleAge, OfflineAge,  \* the policy's ages
    SuspectFailures, DegradedFailures, \* ... and counts
    RecoveryGoods

ASSUME PolicyAssumption ==
    /\ WarningAge \in Nat \ {0} /\ StaleAge \in Nat /\ OfflineAge \in Nat
    /\ WarningAge <= StaleAge /\ StaleAge < OfflineAge
    /\ SuspectFailures \in Nat \ {0} /\ DegradedFailures \in Nat /\ RecoveryGoods \in Nat \ {0}
    /\ SuspectFailures <= DegradedFailures

lower(a, b) == IF a < b THEN a ELSE b

Health == {"UNKNOWN", "OFFLINE", "STALE", "SUSPECT", "DEGRADED", "HEALTHY"}

\* Counts above the thresholds and ages above the last one make no difference.
Model == [has_last_good : BOOLEAN, recovery_pending : BOOLEAN, age : 0..OfflineAge + 1,
          consecutive_good : 0..RecoveryGoods, consecutive_failures : 0..DegradedFailures]

communication_quality_model_init ==
    [has_last_good |-> FALSE, recovery_pending |-> FALSE, age |-> 0,
     consecutive_good |-> 0, consecutive_failures |-> 0]

state_at(m) ==
    CASE ~m.has_last_good        -> "UNKNOWN"
      [] m.has_last_good /\ m.age > OfflineAge -> "OFFLINE"
      [] m.has_last_good /\ m.age \in StaleAge + 1 .. OfflineAge -> "STALE"
      [] m.has_last_good /\ m.age <= StaleAge ->
           CASE m.recovery_pending -> "SUSPECT"
             [] ~m.recovery_pending /\ m.consecutive_failures >= DegradedFailures -> "DEGRADED"
             [] ~m.recovery_pending /\ m.consecutive_failures < DegradedFailures ->
                  IF m.consecutive_failures >= SuspectFailures \/ m.age > WarningAge
                  THEN "SUSPECT" ELSE "HEALTHY"

\* Mutant: a recovery that is pending is never over.
record_good_pending(m) ==
    LET relapsed == state_at(m) \in {"DEGRADED", "STALE", "OFFLINE"}
        good     == lower((IF relapsed THEN 0 ELSE m.consecutive_good) + 1, RecoveryGoods)
    IN  [has_last_good |-> TRUE, age |-> 0, consecutive_failures |-> 0,
         consecutive_good |-> good, recovery_pending |-> m.recovery_pending \/ relapsed]

\* Mutant: a relapse does not count the good polls anew.
record_good_counts_on(m) ==
    LET relapsed == state_at(m) \in {"DEGRADED", "STALE", "OFFLINE"}
        pending  == m.recovery_pending \/ relapsed
        good     == lower(m.consecutive_good + 1, RecoveryGoods)
    IN  [has_last_good |-> TRUE, age |-> 0, consecutive_failures |-> 0,
         consecutive_good |-> good,
         recovery_pending |-> pending /\ good < RecoveryGoods]

record_good(m) ==
    LET relapsed == state_at(m) \in {"DEGRADED", "STALE", "OFFLINE"}
        pending  == m.recovery_pending \/ relapsed
        good     == lower((IF relapsed THEN 0 ELSE m.consecutive_good) + 1, RecoveryGoods)
    IN  [has_last_good |-> TRUE, age |-> 0, consecutive_failures |-> 0,
         consecutive_good |-> good,
         recovery_pending |-> pending /\ good < RecoveryGoods]

record_failure(m) ==
    [m EXCEPT !.consecutive_good = 0,
              !.consecutive_failures = lower(@ + 1, DegradedFailures)]

aged(m, t) == [m EXCEPT !.age = IF m.has_last_good THEN lower(@ + t, OfflineAge + 1) ELSE 0]
=============================================================================
