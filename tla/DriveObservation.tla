--------------------------- MODULE DriveObservation ---------------------------
(***************************************************************************)
(* How the state of the SVD48 drives of one bus is kept: svd48_poll_task   *)
(* runs the poll service, which polls the drives that are due one after    *)
(* the other; svd48_device keeps what it read, with its age, and judges    *)
(* the link.  Both channels of a drive are read together.                  *)
(*                                                                         *)
(* A time unit is the response timeout: a read without an answer takes     *)
(* one, a read that is answered takes none.  The polls are the only users  *)
(* of the bus here, so that a poll is one step.  Error codes are left out. *)
(***************************************************************************)
EXTENDS CommunicationQuality

CONSTANTS
    Drives,       \* the drives of the bus are 1..Drives
    Period,       \* telemetry_period_ms
    BackoffBase, BackoffMax,
    SlowDivider,  \* SVD48_POLL_SLOW_DIVIDER
    MuteDrives    \* the drives that may fail to answer

ASSUME PollingAssumption ==
    /\ Drives \in Nat \ {0} /\ Period \in Nat \ {0}
    /\ BackoffBase \in Nat \ {0} /\ BackoffMax \in Nat \ {0} /\ SlowDivider \in Nat \ {0}
    /\ MuteDrives \subseteq 1..Drives

Drive == 1..Drives
PrimaryReads == 3 \* position, speed and current of both channels
SlowReads == 5    \* status, two temperatures, voltage and error code

VARIABLES
    quality,    \* observation_quality of each drive
    lag,        \* time between the primary reads of the last complete poll and its end
    poll_count, \* of each drive, modulo SlowDivider
    next_poll,  \* time to each drive's next poll
    service_failures,   \* consecutive_failures of each entry of the service
    cursor,     \* the entry run_once is at; Drives + 1: it sleeps
    answers,    \* the drives that answer
    goods_since \* history: complete polls in a row since the link was last bad,
                \* RecoveryGoods once there were that many

device  == <<quality, lag, poll_count>>
service == <<next_poll, service_failures, cursor>>
driveVars == <<device, service, answers, goods_since>>

Bad == {"DEGRADED", "STALE", "OFFLINE"}

-----------------------------------------------------------------------------
(* svd48_channel_get_snapshot, svd48_channel_health_from_snapshot and the  *)
(* adapter's map_health: what an endpoint says of its drive.               *)

velocity_age(d) == quality[d].age + lag[d]

channel_health(d) ==
    LET state == state_at(quality[d])
    IN  IF state \in {"OFFLINE", "UNKNOWN"} THEN "OFFLINE"
        ELSE IF velocity_age(d) > StaleAge THEN "STALE" ELSE state

endpoint_health(d) == IF channel_health(d) = "SUSPECT" THEN "HEALTHY" ELSE channel_health(d)

-----------------------------------------------------------------------------
(* svd48_device_poll.  failed_primary and failed_slow count the reads that *)
(* are not answered: polls do not retry.                                   *)

poll_due(d) == next_poll[d] = 0
slow_poll(d) == poll_count[d] = 0

later(t) == [d \in Drive |-> aged(quality[d], t)]
sooner(t) == [d \in Drive |-> IF next_poll[d] > t THEN next_poll[d] - t ELSE 0]

\* finish_poll: only the primary reads count for the link.
finish_poll(m, failed_primary) ==
    IF failed_primary = 0 THEN record_good(m) ELSE record_failure(m)

\* goods_since when the time t has passed
Unspoilt(t) ==
    [d \in Drive |-> IF state_at(aged(quality[d], t)) \in Bad THEN 0 ELSE goods_since[d]]

-----------------------------------------------------------------------------
(* svd48_poll_service_run_once.                                            *)

\* The shift stops at 3; BackoffMax cuts it before that.
failure_backoff(n) ==
    LET backoff == BackoffBase * (CASE n = 1 -> 1 [] n = 2 -> 2 [] n = 3 -> 4 [] n > 3 -> 8)
    IN  lower(backoff, BackoffMax)

\* The next poll counts from the end of this one.
delay_after(n) ==
    IF n = 0 \/ failure_backoff(n) < Period THEN Period ELSE failure_backoff(n)

SkipDrive ==
    /\ cursor \in Drive /\ ~poll_due(cursor)
    /\ cursor' = cursor + 1
    /\ UNCHANGED <<device, next_poll, service_failures, answers, goods_since>>

\* Mutant: the reads of a poll are retried.
poll_time_with_retries(failed_primary, failed_slow) == 3 * (failed_primary + failed_slow)

poll_time(failed_primary, failed_slow) == failed_primary + failed_slow

Poll(failed_primary, failed_slow) ==
    /\ cursor \in Drive /\ poll_due(cursor)
    /\ slow_poll(cursor) \/ failed_slow = 0
    /\ answers[cursor] => failed_primary + failed_slow = 0
    /\ LET t == poll_time(failed_primary, failed_slow)
           n == IF failed_primary + failed_slow = 0 THEN 0
                ELSE lower(service_failures[cursor] + 1, 4)
       IN  /\ quality' = [later(t) EXCEPT ![cursor] = finish_poll(@, failed_primary)]
           /\ lag' = [lag EXCEPT ![cursor] = IF failed_primary = 0 THEN failed_slow ELSE @]
           /\ goods_since' = [Unspoilt(t) EXCEPT ![cursor] =
                  CASE failed_primary = 0 -> lower(@ + 1, RecoveryGoods)
                    [] failed_primary > 0 ->
                         IF @ < RecoveryGoods \/ state_at(quality'[cursor]) \in Bad
                         THEN 0 ELSE @]
           /\ service_failures' = [service_failures EXCEPT ![cursor] = n]
           /\ next_poll' = [sooner(t) EXCEPT ![cursor] = delay_after(n)]
    /\ poll_count' = [poll_count EXCEPT ![cursor] = (@ + 1) % SlowDivider]
    /\ cursor' = cursor + 1
    /\ UNCHANGED answers

\* svd48_poll_service_next_delay_ms: a tick when a drive is due.
Sleep ==
    /\ cursor = Drives + 1
    /\ cursor' = 1
    /\ LET t == IF \E d \in Drive : poll_due(d) THEN 0 ELSE 1
       IN  /\ quality' = later(t)
           /\ next_poll' = sooner(t)
           /\ goods_since' = Unspoilt(t)
    /\ UNCHANGED <<lag, poll_count, service_failures, answers>>

\* A drive that falters answers some reads and not others.
Falter(d) ==
    /\ d \in MuteDrives
    /\ answers' = [answers EXCEPT ![d] = ~@]
    /\ UNCHANGED <<device, service, goods_since>>

DriveInit ==
    /\ quality = [d \in Drive |-> communication_quality_model_init]
    /\ lag = [d \in Drive |-> 0]
    /\ poll_count = [d \in Drive |-> 0]
    /\ next_poll = [d \in Drive |-> 0] /\ service_failures = [d \in Drive |-> 0]
    /\ cursor = 1
    /\ answers = [d \in Drive |-> d \notin MuteDrives]
    /\ goods_since = [d \in Drive |-> RecoveryGoods]

PollSome == \E p \in 0..PrimaryReads, s \in 0..SlowReads : Poll(p, s)
PollingTask == SkipDrive \/ PollSome \/ Sleep
DriveNext == PollingTask \/ \E d \in Drive : Falter(d)

DriveFairness == WF_driveVars(PollingTask)
DriveSpec == DriveInit /\ [][DriveNext]_driveVars /\ DriveFairness

-----------------------------------------------------------------------------
(* Properties.                                                             *)

DriveTypeOK ==
    /\ quality \in [Drive -> Model]
    /\ lag \in [Drive -> 0..SlowReads]
    /\ poll_count \in [Drive -> 0..SlowDivider - 1]
    /\ next_poll \in [Drive -> Nat] /\ service_failures \in [Drive -> 0..4]
    /\ cursor \in 1..Drives + 1 /\ answers \in [Drive -> BOOLEAN]
    /\ goods_since \in [Drive -> 0..RecoveryGoods]

\* A link that was degraded, stale or offline is healthy again only after
\* RecoveryGoods complete polls in a row, whatever failed in between
\* (communication_quality_model_record_good; docs/SAFETY.md: "A
\* degraded/stale/offline link needs two complete primary polls to recover").
RecoveryIsConfirmed ==
    \A d \in Drive : state_at(quality[d]) = "HEALTHY" => goods_since[d] = RecoveryGoods

\* One drive that does not answer costs the bus its timeouts, but does not make
\* a drive that answers look stale (the polls do not retry, and back off).
OthersStayFresh ==
    \A d \in Drive \ MuteDrives : quality[d].has_last_good => endpoint_health(d) = "HEALTHY"

\* A drive that answers from some time on is healthy again and again, however
\* long it was gone before.
LinkRecovers ==
    \A d \in Drive : <>[]answers[d] => []<>(channel_health(d) = "HEALTHY")
=============================================================================
