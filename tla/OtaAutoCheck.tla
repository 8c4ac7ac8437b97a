----------------------------- MODULE OtaAutoCheck -----------------------------
(***************************************************************************)
(* The periodic update check of ota_manager: the task that looks for a new *)
(* manifest, the console commands that switch it, change its interval or   *)
(* force a check, and the lock they share with an installation.            *)
(*                                                                         *)
(* Two copies of every setting exist: the stored one (config_manager) and  *)
(* the one in the manager.  A command changes the first, then the second;  *)
(* the task reads the first and, later, overwrites the second.  A delay is *)
(* a number of clock steps.                                                *)
(*                                                                         *)
(* state_lock is waited for 100 ms.  Whoever does not get it leaves out    *)
(* what it wanted to write or read there and goes on.                      *)
(***************************************************************************)
EXTENDS Naturals

CONSTANTS Intervals,       \* the intervals an operator may set
          InitialBackoff,  \* OTA_MANAGER_AUTO_BACKOFF_INITIAL_MS
          MaxBackoff       \* OTA_MANAGER_AUTO_BACKOFF_MAX_MS

ASSUME CheckAssumption ==
    /\ Intervals \subseteq Nat \ {0} /\ Intervals # {}
    /\ InitialBackoff \in Nat \ {0} /\ MaxBackoff \in Nat /\ InitialBackoff <= MaxBackoff

CheckActors == {"task", "operator"}
Free == "free"

VARIABLES
    cfg_enabled, cfg_interval,    \* the stored settings
    auto_enabled, auto_interval,  \* the manager's copies
    auto_backoff, auto_checking,
    next_check,     \* clock steps to auto_next_check_us
    seen,           \* the task's snapshot of the stored settings, while it uses it
    was_enabled,
    doing,          \* where each actor is
    op_holder,      \* who holds op_lock
    online,         \* wifi_manager reports CONNECTED
    stale_checks,   \* checks of the task since OFF was answered; history
    lost_record     \* the last check was not recorded, for want of the lock; history

settings == <<cfg_enabled, cfg_interval>>
runtime  == <<auto_enabled, auto_interval, auto_backoff, next_check>>
checkVars == <<settings, runtime, auto_checking, seen, was_enabled, doing, op_holder, online,
               stale_checks, lost_record>>

Unseen == [enabled |-> FALSE, interval |-> CHOOSE i \in Intervals : TRUE]

doingIs(a, where) == doing[a] = where
Move(a, where) == doing' = [doing EXCEPT ![a] = where]
capped(a, b) == IF a < b THEN a ELSE b

-----------------------------------------------------------------------------
(* The critical sections of state_lock.                                    *)

next_backoff(b) == capped(2 * b, MaxBackoff)

failure_delay(locked) == IF locked THEN auto_backoff ELSE InitialBackoff

\* Mutant: a check that failed leaves auto_checking set.
auto_status_record_failure_checking ==
    \E delayed, locked \in BOOLEAN :
      /\ auto_backoff' = IF delayed THEN next_backoff(auto_backoff) ELSE auto_backoff
      /\ next_check' = IF ~locked THEN next_check
                       ELSE IF auto_enabled THEN failure_delay(delayed) ELSE 0
      /\ lost_record' = ~locked
      /\ UNCHANGED <<auto_enabled, auto_interval, auto_checking>>

\* auto_status_failure_delay, then auto_status_record_failure
auto_status_record_failure ==
    \E delayed, locked \in BOOLEAN :
      /\ auto_backoff' = IF delayed THEN next_backoff(auto_backoff) ELSE auto_backoff
      /\ auto_checking' = (auto_checking /\ ~locked)
      /\ next_check' = IF ~locked THEN next_check
                       ELSE IF auto_enabled THEN failure_delay(delayed) ELSE 0
      /\ lost_record' = ~locked
      /\ UNCHANGED <<auto_enabled, auto_interval>>

record_success ==
    \E locked \in BOOLEAN :
      /\ IF locked THEN /\ auto_checking' = FALSE
                        /\ next_check' = IF auto_enabled THEN auto_interval ELSE 0
                        /\ auto_backoff' = InitialBackoff
         ELSE UNCHANGED <<auto_checking, next_check, auto_backoff>>
      /\ lost_record' = ~locked
      /\ UNCHANGED <<auto_enabled, auto_interval>>

auto_status_due == auto_enabled /\ ~auto_checking /\ next_check = 0

-----------------------------------------------------------------------------
(* ota_manager_auto_task.                                                  *)

TaskReadsSettings(readable) ==
    /\ doingIs("task", "top")
    /\ IF readable
       THEN /\ seen' = [enabled |-> cfg_enabled, interval |-> cfg_interval]
            /\ Move("task", "interval") /\ UNCHANGED <<runtime, auto_checking, lost_record>>
       ELSE /\ auto_status_record_failure                        \* CONFIG_READ
            /\ Move("task", "sleep") /\ UNCHANGED seen
    /\ UNCHANGED <<settings, was_enabled, op_holder, online, stale_checks>>

\* Two sections; the second restarts the checks when they were switched on.
TaskTakesInterval ==
    /\ doingIs("task", "interval")
    /\ \E taken, restarted \in BOOLEAN :
         /\ auto_interval' = IF taken THEN seen.interval ELSE auto_interval
         /\ IF seen.enabled /\ ~was_enabled /\ restarted
            THEN next_check' = 0 /\ auto_backoff' = InitialBackoff
            ELSE UNCHANGED <<next_check, auto_backoff>>
    /\ was_enabled' = seen.enabled
    /\ Move("task", "enable")
    /\ UNCHANGED <<settings, auto_enabled, auto_checking, seen, op_holder, online,
                   stale_checks, lost_record>>

\* auto_status_set_enabled and auto_status_due, each with the lock or without
TaskEnables(set, tested) ==
    /\ doingIs("task", "enable")
    /\ IF set THEN /\ auto_enabled' = seen.enabled
                   /\ next_check' = IF seen.enabled THEN next_check ELSE 0
                   /\ auto_checking' = (auto_checking /\ seen.enabled)
       ELSE UNCHANGED <<auto_enabled, next_check, auto_checking>>
    /\ Move("task", IF seen.enabled /\ tested /\ auto_status_due' THEN "begin" ELSE "sleep")
    /\ seen' = Unseen
    /\ UNCHANGED <<settings, auto_interval, auto_backoff, was_enabled, op_holder, online,
                   stale_checks, lost_record>>

\* The Wi-Fi state, op_lock without waiting, auto_status_set_checking
BeginCheck(a) ==
    IF online /\ op_holder = Free
    THEN /\ op_holder' = a
         /\ auto_checking' \in {auto_checking, TRUE}
         /\ Move(a, "check")
         /\ UNCHANGED <<runtime, lost_record>>
    ELSE /\ auto_status_record_failure
         /\ Move(a, "sleep")
         /\ UNCHANGED op_holder

TaskBegins ==
    /\ doingIs("task", "begin")
    /\ BeginCheck("task")
    /\ stale_checks' = IF cfg_enabled \/ doing["operator"] = "off" THEN stale_checks
                       ELSE capped(stale_checks + 1, 2)
    /\ UNCHANGED <<settings, seen, was_enabled, online>>

\* ota_manager_check_unlocked, with its HTTP timeout; then op_lock goes back.
EndCheck(a, ok) ==
    /\ doingIs(a, "check")
    /\ op_holder' = Free
    /\ Move(a, IF ok THEN "success" ELSE "failure")
    /\ UNCHANGED <<settings, runtime, auto_checking, seen, was_enabled, online, stale_checks,
                   lost_record>>

Record(a) ==
    /\ \/ doingIs(a, "success") /\ record_success
       \/ doingIs(a, "failure") /\ auto_status_record_failure
    /\ Move(a, "sleep")
    /\ UNCHANGED <<settings, seen, was_enabled, op_holder, online, stale_checks>>

\* vTaskDelay of the task; the console's command is over.
Rest(a) ==
    /\ doingIs(a, "sleep")
    /\ Move(a, "top")
    /\ UNCHANGED <<settings, runtime, auto_checking, seen, was_enabled, op_holder, online,
                   stale_checks, lost_record>>

-----------------------------------------------------------------------------
(* OTA_AUTO_CHECK, OTA_AUTO_INTERVAL and OTA_AUTO_FORCE_CHECK.             *)

CommandSwitch(on) ==
    /\ doingIs("operator", "top")
    /\ cfg_enabled' = on
    /\ Move("operator", IF on THEN "on" ELSE "off")
    /\ stale_checks' = 0
    /\ UNCHANGED <<cfg_interval, runtime, auto_checking, seen, was_enabled, op_holder, online,
                   lost_record>>

\* ota_manager_set_auto_check_runtime_enabled, or an error without the lock
SwitchRuntime ==
    /\ doing["operator"] \in {"on", "off"}
    /\ \/ /\ auto_enabled' = doingIs("operator", "on")
          /\ next_check' = 0
          /\ IF doingIs("operator", "on")
             THEN auto_backoff' = InitialBackoff /\ UNCHANGED auto_checking
             ELSE auto_checking' = FALSE /\ UNCHANGED auto_backoff
       \/ UNCHANGED <<auto_enabled, next_check, auto_backoff, auto_checking>>
    /\ Move("operator", "sleep")
    /\ UNCHANGED <<settings, auto_interval, seen, was_enabled, op_holder, online, stale_checks,
                   lost_record>>

CommandInterval(ms) ==
    /\ doingIs("operator", "top")
    /\ cfg_interval' = ms
    /\ Move("operator", "interval")
    /\ UNCHANGED <<cfg_enabled, runtime, auto_checking, seen, was_enabled, op_holder, online,
                   stale_checks, lost_record>>

\* ota_manager_set_auto_check_interval_runtime_ms, likewise
IntervalRuntime ==
    /\ doingIs("operator", "interval")
    /\ \/ /\ auto_interval' = cfg_interval
          /\ next_check' = IF auto_enabled THEN capped(next_check, cfg_interval) ELSE next_check
       \/ UNCHANGED <<auto_interval, next_check>>
    /\ Move("operator", "sleep")
    /\ UNCHANGED <<settings, auto_enabled, auto_backoff, auto_checking, seen, was_enabled,
                   op_holder, online, stale_checks, lost_record>>

ForceCheck ==
    /\ doingIs("operator", "top")
    /\ BeginCheck("operator")
    /\ UNCHANGED <<settings, seen, was_enabled, online, stale_checks>>

-----------------------------------------------------------------------------
(* Around them: an installation holds op_lock, the station comes and goes, *)
(* time passes.                                                            *)

Install ==
    /\ op_holder' = IF op_holder = Free THEN "install" ELSE Free
    /\ op_holder \in {Free, "install"}
    /\ UNCHANGED <<settings, runtime, auto_checking, seen, was_enabled, doing, online,
                   stale_checks, lost_record>>

Station ==
    /\ online' = ~online
    /\ UNCHANGED <<settings, runtime, auto_checking, seen, was_enabled, doing, op_holder,
                   stale_checks, lost_record>>

Clock ==
    /\ next_check > 0 /\ next_check' = next_check - 1
    /\ UNCHANGED <<settings, auto_enabled, auto_interval, auto_backoff, auto_checking, seen,
                   was_enabled, doing, op_holder, online, stale_checks, lost_record>>

-----------------------------------------------------------------------------
CheckInit ==
    /\ cfg_enabled \in BOOLEAN /\ cfg_interval \in Intervals
    /\ auto_enabled = FALSE /\ auto_interval = cfg_interval
    /\ auto_backoff = InitialBackoff /\ auto_checking = FALSE
    /\ next_check = 0
    /\ seen = Unseen /\ was_enabled = FALSE
    /\ doing = [a \in CheckActors |-> "top"]
    /\ op_holder = Free /\ online \in BOOLEAN /\ stale_checks = 0
    /\ lost_record = FALSE

CheckStep(a) == Rest(a) \/ Record(a) \/ \E ok \in BOOLEAN : EndCheck(a, ok)
TaskStep == \/ \E readable \in BOOLEAN : TaskReadsSettings(readable)
            \/ TaskTakesInterval \/ TaskBegins
            \/ \E set, tested \in BOOLEAN : TaskEnables(set, tested)
            \/ CheckStep("task")
OperatorStep == SwitchRuntime \/ IntervalRuntime \/ CheckStep("operator")
OperatorCommand == \/ \E on \in BOOLEAN : CommandSwitch(on)
                   \/ \E ms \in Intervals : CommandInterval(ms)
                   \/ ForceCheck

CheckNext == TaskStep \/ OperatorStep \/ OperatorCommand \/ Install \/ Station \/ Clock

\* Both tasks are scheduled, a check has a timeout, time passes, the stored
\* settings do not stay unreadable, and the task, which tries in every turn,
\* gets the lock again and again.
CheckFairness ==
    /\ WF_checkVars(TaskStep) /\ WF_checkVars(OperatorStep) /\ WF_checkVars(Clock)
    /\ SF_checkVars(TaskReadsSettings(TRUE)) /\ SF_checkVars(TaskEnables(TRUE, TRUE))

CheckSpec == CheckInit /\ [][CheckNext]_checkVars /\ CheckFairness

-----------------------------------------------------------------------------
CheckTypeOK ==
    /\ cfg_enabled \in BOOLEAN /\ cfg_interval \in Intervals
    /\ auto_enabled \in BOOLEAN /\ auto_interval \in Intervals
    /\ auto_backoff \in InitialBackoff..MaxBackoff
    /\ auto_checking \in BOOLEAN /\ next_check \in Nat
    /\ seen \in [enabled : BOOLEAN, interval : Intervals] /\ was_enabled \in BOOLEAN
    /\ doing \in [CheckActors -> {"top", "interval", "enable", "begin", "check", "success",
                                  "failure", "sleep", "on", "off"}]
    /\ op_holder \in CheckActors \cup {Free, "install"}
    /\ online \in BOOLEAN /\ stale_checks \in 0..2
    /\ lost_record \in BOOLEAN

\* OTA_AUTO_CHECK OFF races the task that has already read ON: at most the one
\* check under way is still made (ota_manager.c:936-1062).
OneCheckAfterOff == stale_checks <= 1

\* While the check stays switched on, checks go on being made, each putting the
\* next one off, whatever forced checks, installations and commands come between
\* (ota_manager.c:936-1062: a check that leaves auto_checking set would end them
\* for good, and the code does so when the record of a check does not get the
\* lock).
ChecksGoOn ==
    <>[](cfg_enabled /\ ~lost_record) => []<><<next_check' > next_check>>_checkVars

\* ... and once it stays switched off, the manager's own copy follows for good.
OffSticks == <>[]~cfg_enabled => <>[]~auto_enabled

\* The manager does what its switch says, in the end.
ChecksFollowSwitch == ChecksGoOn /\ OffSticks
=============================================================================
