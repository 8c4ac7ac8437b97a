----------------------- MODULE CommandAuthorityModel -----------------------
(***************************************************************************)
(* The pure functions of components/command_authority: a mailbox per       *)
(* motion source, and the arbitration that grants one source authority.    *)
(* The model struct is a record; each API function is an operator from a   *)
(* record (and the caller's clock reading) to the record it leaves.        *)
(*                                                                         *)
(* A velocity has three symmetric axes in the code; here it is one integer *)
(* axis, or NonFinite for a NaN/infinite body.  Every uint64_t counter and *)
(* timestamp has the same width, whose largest value is U64Max.  The copy  *)
(* of the last publish result kept for snapshots is left out: callers get  *)
(* it as publish_verdict.                                                  *)
(***************************************************************************)
EXTENDS Integers, Sequences

CONSTANTS
    U64Max,           \* UINT64_MAX: the last value of every counter and clock
    MaxTtl,           \* config.max_ttl_ms
    VelocityLimit,    \* config.velocity_limit
    MovingEpsilon,    \* config.moving_epsilon
    RetiredCapacity,  \* COMMAND_AUTHORITY_RETIRED_STREAM_CAPACITY (16)
    NonFinite         \* a velocity that is not finite

\* config_is_valid: what init demands of a configuration.
ASSUME ConfigIsValid ==
    /\ U64Max \in Nat /\ RetiredCapacity \in Nat
    /\ MaxTtl \in 1..U64Max
    /\ VelocityLimit \in Nat \ {0}
    /\ MovingEpsilon \in 0..VelocityLimit
    /\ NonFinite \notin Int

\* command_authority_source_t; a larger number is a higher priority.
NONE == 0
BLUETOOTH == 1
LAN == 2
RC == 3
Source == BLUETOOTH..RC

Decision == {"STOP", "APPLY", "FAULT_STOP"}
Reason == {"NO_FRESH_SOURCE", "SOURCE_SWITCH", "WAITING_FRESH_AFTER_SWITCH",
           "SELECTED_SOURCE_EXPIRED", "SELECTED_SOURCE_INVALIDATED",
           "COMMAND_APPLIED", "EXPLICIT_STOP", "COUNTER_EXHAUSTED"}
PublishResult == {"OK", "INVALID_SOURCE", "STREAM_ID_ZERO",
                  "CLOCK_REGRESSION", "TIMESTAMP_IN_FUTURE", "TTL_INVALID",
                  "EXPIRED_ON_ARRIVAL", "NONFINITE_VELOCITY",
                  "VELOCITY_LIMIT", "TIMESTAMP_REGRESSION",
                  "SEQUENCE_NOT_INCREASING", "STREAM_RETIRED",
                  "STREAM_HISTORY_FULL", "COUNTER_EXHAUSTED"}

U64 == 0..U64Max
Velocity == -VelocityLimit..VelocityLimit

\* A command as a caller hands it over, and as a mailbox stores it: publish
\* lets only finite velocities within the limit through.
CommandWith(Body) ==
    [stream_id: U64, sequence: U64, received_at_ms: U64, ttl_ms: U64,
     valid: BOOLEAN, deadman: BOOLEAN, body: Body]
Command == CommandWith(Int \union {NonFinite})
Mailbox == [command: CommandWith(Velocity), revision: U64,
            retired_stream_ids: Seq(U64), initialized: BOOLEAN]
Model == [mailboxes: [Source -> Mailbox],
          selected_source: Source \union {NONE},
          authority_granted: BOOLEAN, last_output_moving: BOOLEAN,
          counter_exhausted: BOOLEAN, epoch: U64,
          publication_revision: U64, barrier_revision: U64,
          barrier_time_ms: U64, applied_revision: U64,
          last_now_ms: U64, has_observed_time: BOOLEAN, output: Velocity,
          last_decision: Decision, last_reason: Reason]

(* ----------------------------- predicates ----------------------------- *)

abs(v) == IF v < 0 THEN -v ELSE v

\* command_authority_velocity_is_moving
velocity_is_moving(v) == v # NonFinite /\ abs(v) > MovingEpsilon

velocity_is_within_limits(v) == abs(v) <= VelocityLimit

mailbox_is_fresh(box, now) ==
    /\ box.initialized /\ box.command.valid
    /\ now >= box.command.received_at_ms
    /\ now - box.command.received_at_ms < box.command.ttl_ms

mailbox_is_expired(box, now) ==
    /\ box.initialized /\ box.command.valid
    /\ now >= box.command.received_at_ms
    /\ now - box.command.received_at_ms >= box.command.ttl_ms

\* The loop from RC down to BLUETOOTH.
highest_fresh_source(m, now) ==
    IF mailbox_is_fresh(m.mailboxes[RC], now) THEN RC
    ELSE IF mailbox_is_fresh(m.mailboxes[LAN], now) THEN LAN
    ELSE IF mailbox_is_fresh(m.mailboxes[BLUETOOTH], now) THEN BLUETOOTH
    ELSE NONE

is_retired(box, stream) ==
    \E i \in 1..Len(box.retired_stream_ids) :
        box.retired_stream_ids[i] = stream

clock_regressed(m, now) == m.has_observed_time /\ now < m.last_now_ms

(* --------------------------- init and stop ---------------------------- *)

\* memset(0) of a command.
ZeroCommand == [stream_id |-> 0, sequence |-> 0, received_at_ms |-> 0,
                ttl_ms |-> 0, valid |-> FALSE, deadman |-> FALSE, body |-> 0]

\* command_authority_model_init with a valid configuration.
model_init ==
    [mailboxes |-> [s \in Source |->
         [command |-> ZeroCommand, revision |-> 0,
          retired_stream_ids |-> <<>>, initialized |-> FALSE]],
     selected_source |-> NONE, authority_granted |-> FALSE,
     last_output_moving |-> FALSE, counter_exhausted |-> FALSE,
     epoch |-> 0, publication_revision |-> 0, barrier_revision |-> 0,
     barrier_time_ms |-> 0, applied_revision |-> 0, last_now_ms |-> 0,
     has_observed_time |-> FALSE, output |-> 0, last_decision |-> "STOP",
     last_reason |-> "NO_FRESH_SOURCE"]

\* Mutant: the zeroing of the output is forgotten.
revoke_authority_keeps_output(m) ==
    [m EXCEPT !.authority_granted = FALSE, !.last_output_moving = FALSE,
              !.applied_revision = 0]

revoke_authority(m) ==
    [m EXCEPT !.authority_granted = FALSE, !.last_output_moving = FALSE,
              !.applied_revision = 0, !.output = 0]

record_decision(m, decision, reason) ==
    [m EXCEPT !.last_decision = decision, !.last_reason = reason]

epoch_exhausted(m) == m.epoch = U64Max

\* Mutant: the epoch of a stop wraps past its width.
next_epoch_unchecked(m) == m.epoch + 1

next_epoch(m) == IF epoch_exhausted(m) THEN m.epoch ELSE m.epoch + 1

\* command_authority_model_stop: invalidates every mailbox and raises the
\* barrier; it runs even on a regressed clock or an exhausted epoch.
model_stop(m, now) ==
    LET seen == IF clock_regressed(m, now) THEN m.last_now_ms ELSE now
        stopped == [m EXCEPT
            !.last_now_ms = seen,
            !.has_observed_time = TRUE,
            !.mailboxes = [s \in Source |->
                [m.mailboxes[s] EXCEPT !.command.valid = FALSE]],
            !.counter_exhausted = @ \/ epoch_exhausted(m),
            !.epoch = next_epoch(m),
            !.selected_source = NONE,
            !.barrier_revision = m.publication_revision,
            !.barrier_time_ms = seen]
    IN  record_decision(revoke_authority(stopped), "STOP", "EXPLICIT_STOP")

(* ------------------------------ publish ------------------------------- *)

stream_changed(m, source, c) ==
    /\ m.mailboxes[source].initialized
    /\ c.stream_id # m.mailboxes[source].command.stream_id

\* Mutant: a repeated sequence number passes.
sequence_repeats_pass(m, source, c) ==
    /\ m.mailboxes[source].initialized /\ ~stream_changed(m, source, c)
    /\ c.sequence < m.mailboxes[source].command.sequence

sequence_not_increasing(m, source, c) ==
    /\ m.mailboxes[source].initialized /\ ~stream_changed(m, source, c)
    /\ c.sequence <= m.mailboxes[source].command.sequence

\* The early returns of command_authority_model_publish, in their order.
publish_verdict(m, source, c, now) ==
    LET box == m.mailboxes[source]
        live == c.valid /\ c.deadman
    IN  IF source \notin Source THEN "INVALID_SOURCE"
        ELSE IF c.stream_id = 0 THEN "STREAM_ID_ZERO"
        ELSE IF clock_regressed(m, now) THEN "CLOCK_REGRESSION"
        ELSE IF c.received_at_ms > now THEN "TIMESTAMP_IN_FUTURE"
        ELSE IF \/ c.ttl_ms = 0 \/ c.ttl_ms > MaxTtl
                \/ c.received_at_ms > U64Max - c.ttl_ms THEN "TTL_INVALID"
        ELSE IF now - c.received_at_ms >= c.ttl_ms THEN "EXPIRED_ON_ARRIVAL"
        ELSE IF live /\ c.body = NonFinite THEN "NONFINITE_VELOCITY"
        ELSE IF live /\ ~velocity_is_within_limits(c.body)
                THEN "VELOCITY_LIMIT"
        ELSE IF /\ box.initialized
                /\ c.received_at_ms < box.command.received_at_ms
                THEN "TIMESTAMP_REGRESSION"
        ELSE IF sequence_not_increasing(m, source, c)
                THEN "SEQUENCE_NOT_INCREASING"
        ELSE IF stream_changed(m, source, c) /\ is_retired(box, c.stream_id)
                THEN "STREAM_RETIRED"
        ELSE IF /\ stream_changed(m, source, c)
                /\ Len(box.retired_stream_ids) >= RetiredCapacity
                THEN "STREAM_HISTORY_FULL"
        ELSE IF m.publication_revision = U64Max THEN "COUNTER_EXHAUSTED"
        ELSE "OK"

OrderRejection ==
    {"SEQUENCE_NOT_INCREASING", "STREAM_RETIRED", "STREAM_HISTORY_FULL"}

\* An out-of-order command that releases the deadman still stops.
reject_order_with_fail_safe_stop(m, c, now) ==
    IF c.valid /\ c.deadman THEN m ELSE model_stop(m, now)

\* Mutant: a new stream of the selected source keeps the selection.
publish_accepted_keeps_selection(m, source, c, now) ==
    LET box == m.mailboxes[source]
        changed == stream_changed(m, source, c)
        stored == [m EXCEPT
            !.publication_revision = @ + 1,
            !.mailboxes[source] =
                [command |-> [c EXCEPT
                     !.body = IF c.valid /\ c.deadman THEN @ ELSE 0],
                 revision |-> m.publication_revision + 1,
                 retired_stream_ids |->
                     IF changed
                     THEN Append(box.retired_stream_ids, box.command.stream_id)
                     ELSE box.retired_stream_ids,
                 initialized |-> TRUE],
            !.last_now_ms = now,
            !.has_observed_time = TRUE]
    IN  stored

\* The stores of an accepted command.
publish_accepted(m, source, c, now) ==
    LET box == m.mailboxes[source]
        changed == stream_changed(m, source, c)
        stored == [m EXCEPT
            !.publication_revision = @ + 1,
            !.mailboxes[source] =
                [command |-> [c EXCEPT
                     !.body = IF c.valid /\ c.deadman THEN @ ELSE 0],
                 revision |-> m.publication_revision + 1,
                 retired_stream_ids |->
                     IF changed
                     THEN Append(box.retired_stream_ids, box.command.stream_id)
                     ELSE box.retired_stream_ids,
                 initialized |-> TRUE],
            !.last_now_ms = now,
            !.has_observed_time = TRUE]
    IN  IF changed /\ m.selected_source = source
        THEN revoke_authority([stored EXCEPT !.selected_source = NONE])
        ELSE stored

\* command_authority_model_publish
model_publish(m, source, c, now) ==
    LET verdict == publish_verdict(m, source, c, now)
    IN  CASE verdict = "OK" -> publish_accepted(m, source, c, now)
          [] verdict \in OrderRejection ->
                 reject_order_with_fail_safe_stop(m, c, now)
          [] verdict = "COUNTER_EXHAUSTED" ->
                 [m EXCEPT !.counter_exhausted = TRUE]
          [] OTHER -> m

(* ----------------------------- arbitrate ------------------------------ *)

\* Mutant: a command received in the instant of the switch may drive.
behind_barrier_late(m, box) ==
    \/ box.revision <= m.barrier_revision
    \/ box.command.received_at_ms < m.barrier_time_ms

\* A command published or received at or before the last switch may not
\* be applied: the source must speak again after the barrier.
behind_barrier(m, box) ==
    \/ box.revision <= m.barrier_revision
    \/ box.command.received_at_ms <= m.barrier_time_ms

\* What every path of switch_source does to barrier and authority.
fence(m, now) ==
    revoke_authority([m EXCEPT !.barrier_revision = m.publication_revision,
                               !.barrier_time_ms = now])

\* Mutant: a source that spoke since the last barrier takes over at once.
switch_source_at_once(m, desired, now) ==
    LET box == m.mailboxes[desired]
        next == [m EXCEPT !.epoch = next_epoch(m), !.selected_source = desired]
    IN  IF desired = NONE \/ behind_barrier(m, box)
        THEN record_decision(fence(next, now), "STOP", "SOURCE_SWITCH")
        ELSE record_decision(
                 [next EXCEPT !.authority_granted = TRUE,
                              !.applied_revision = box.revision,
                              !.output = box.command.body],
                 "APPLY", "COMMAND_APPLIED")

\* switch_source: the barrier rises, authority is revoked, and the reason
\* says whether the previous source was lost (a fault if it was moving).
switch_source(m, desired, now) ==
    LET previous == m.selected_source
        lost == previous # NONE /\ ~mailbox_is_fresh(m.mailboxes[previous], now)
        fenced == fence(m, now)
        exhausted == [fenced EXCEPT !.counter_exhausted = TRUE,
                                    !.selected_source = NONE]
        reason == IF ~lost THEN "SOURCE_SWITCH"
                  ELSE IF mailbox_is_expired(m.mailboxes[previous], now)
                  THEN "SELECTED_SOURCE_EXPIRED"
                  ELSE "SELECTED_SOURCE_INVALIDATED"
    IN  IF epoch_exhausted(m)
        THEN record_decision(exhausted, "FAULT_STOP", "COUNTER_EXHAUSTED")
        ELSE IF desired # NONE /\ m.publication_revision = U64Max
        THEN record_decision([exhausted EXCEPT !.epoch = next_epoch(m)],
                             "FAULT_STOP", "COUNTER_EXHAUSTED")
        ELSE record_decision([fenced EXCEPT !.epoch = next_epoch(m),
                                            !.selected_source = desired],
                             IF lost /\ m.last_output_moving
                             THEN "FAULT_STOP" ELSE "STOP",
                             reason)

apply_command(m, box) ==
    LET v == IF box.command.deadman THEN box.command.body ELSE 0
    IN  record_decision(
            [m EXCEPT !.authority_granted = TRUE,
                      !.applied_revision = box.revision,
                      !.output = v,
                      !.last_output_moving = velocity_is_moving(v)],
            "APPLY", "COMMAND_APPLIED")

\* command_authority_model_arbitrate.  A regressed clock changes nothing;
\* the caller sees decision INVALID (see arbitrate_decision).
model_arbitrate(m, now) ==
    LET seen == [m EXCEPT !.last_now_ms = now, !.has_observed_time = TRUE]
        desired == highest_fresh_source(m, now)
        box == m.mailboxes[m.selected_source]
    IN  IF clock_regressed(m, now) THEN m
        ELSE IF desired # m.selected_source
             THEN switch_source(seen, desired, now)
        ELSE IF desired = NONE
             THEN record_decision(revoke_authority(seen),
                                  "STOP", "NO_FRESH_SOURCE")
        ELSE IF behind_barrier(m, box)
             THEN record_decision(revoke_authority(seen),
                                  "STOP", "WAITING_FRESH_AFTER_SWITCH")
        ELSE apply_command(seen, box)

\* The decision the call returns.
arbitrate_decision(m, now) ==
    IF clock_regressed(m, now) THEN "INVALID"
    ELSE model_arbitrate(m, now).last_decision
=============================================================================
