----------------------- MODULE CommandAuthorityLemmas -----------------------
(***************************************************************************)
(* Lemmas about the pure functions of CommandAuthorityModel: the types     *)
(* they keep, the fields they touch and the soundness of what they leave,  *)
(* for every width of the counters and every history capacity.  The proofs *)
(* about the modules that hold such a model struct rest on them.           *)
(***************************************************************************)
EXTENDS CommandAuthorityModel, TLAPS

\* Zero is a counter value and a velocity.
LEMMA ZeroInRange == 0 \in U64 /\ 0 \in Velocity
  BY ConfigIsValid DEF U64, Velocity

\* revoke_authority stays within the struct's type.
LEMMA RevokeType ==
    ASSUME NEW m \in Model
    PROVE  revoke_authority(m) \in Model
  BY ZeroInRange DEF revoke_authority, Model

\* Recording a decision and its reason keeps the type.
LEMMA RecordType ==
    ASSUME NEW m \in Model, NEW d \in Decision, NEW r \in Reason
    PROVE  record_decision(m, d, r) \in Model
  BY DEF record_decision, Model

\* The model that init leaves is of the right type.
LEMMA InitType == model_init \in Model
  <1>1. ZeroCommand \in CommandWith(Velocity)
    BY ConfigIsValid DEF ZeroCommand, CommandWith, U64, Velocity
  <1>2. \A s \in Source : model_init.mailboxes[s] \in Mailbox
    BY <1>1, ConfigIsValid DEF model_init, Mailbox, U64
  <1> QED
    BY <1>2, ConfigIsValid
       DEF model_init, Model, Mailbox, U64, Velocity, Decision, Reason

\* A stop keeps the type.
LEMMA StopType ==
    ASSUME NEW m \in Model, NEW now \in U64
    PROVE  model_stop(m, now) \in Model
  <1> DEFINE seen == IF clock_regressed(m, now) THEN m.last_now_ms ELSE now
             boxes == [s \in Source |->
                          [m.mailboxes[s] EXCEPT !.command.valid = FALSE]]
  <1>1. seen \in U64
    BY DEF Model
  <1>2. boxes \in [Source -> Mailbox]
    <2>1. ASSUME NEW s \in Source
          PROVE  [m.mailboxes[s] EXCEPT !.command.valid = FALSE] \in Mailbox
      <3>1. m.mailboxes[s] \in Mailbox
        BY DEF Model
      <3>2. ASSUME NEW box \in Mailbox
            PROVE  [box EXCEPT !.command.valid = FALSE] \in Mailbox
        BY DEF Mailbox, CommandWith
      <3> QED BY <3>1, <3>2
    <2> QED BY <2>1
  <1>3. next_epoch(m) \in U64
    BY ConfigIsValid DEF next_epoch, epoch_exhausted, U64, Model
  <1> DEFINE stopped == [m EXCEPT
            !.last_now_ms = seen,
            !.has_observed_time = TRUE,
            !.mailboxes = boxes,
            !.counter_exhausted = @ \/ epoch_exhausted(m),
            !.epoch = next_epoch(m),
            !.selected_source = NONE,
            !.barrier_revision = m.publication_revision,
            !.barrier_time_ms = seen]
  <1> HIDE DEF seen, boxes
  <1>4. stopped \in Model
    BY <1>1, <1>2, <1>3 DEF Model, epoch_exhausted
  <1> HIDE DEF stopped
  <1>5. revoke_authority(stopped) \in Model
    BY <1>4, RevokeType
  <1>6. record_decision(revoke_authority(stopped), "STOP", "EXPLICIT_STOP")
            \in Model
    BY <1>5, RecordType DEF Decision, Reason
  <1> QED
    BY <1>6 DEF model_stop, stopped, boxes, seen

\* What the early returns of publish have ruled out for an accepted command.
LEMMA AcceptedFacts ==
    ASSUME NEW m \in Model, NEW source \in Source, NEW c \in Command,
           NEW now \in U64, publish_verdict(m, source, c, now) = "OK"
    PROVE  /\ c.stream_id # 0
           /\ ~clock_regressed(m, now)
           /\ c.received_at_ms <= now
           /\ m.mailboxes[source].initialized =>
                m.mailboxes[source].command.received_at_ms <= c.received_at_ms
           /\ c.valid /\ c.deadman => c.body \in Velocity
           /\ ~sequence_not_increasing(m, source, c)
           /\ stream_changed(m, source, c) =>
                ~is_retired(m.mailboxes[source], c.stream_id)
           /\ m.publication_revision # U64Max
  <1>1. /\ c.stream_id # 0
        /\ ~clock_regressed(m, now)
        /\ ~(c.received_at_ms > now)
        /\ ~(/\ m.mailboxes[source].initialized
             /\ c.received_at_ms < m.mailboxes[source].command.received_at_ms)
        /\ ~(c.valid /\ c.deadman /\ c.body = NonFinite)
        /\ ~(c.valid /\ c.deadman /\ ~velocity_is_within_limits(c.body))
        /\ ~sequence_not_increasing(m, source, c)
        /\ ~(stream_changed(m, source, c)
                /\ is_retired(m.mailboxes[source], c.stream_id))
        /\ m.publication_revision # U64Max
    BY DEF publish_verdict
  <1>2. /\ c.received_at_ms <= now
        /\ m.mailboxes[source].initialized =>
             m.mailboxes[source].command.received_at_ms <= c.received_at_ms
    <2>1. m.mailboxes[source].command.received_at_ms \in U64
      BY DEF Model, Mailbox, CommandWith
    <2>2. c.received_at_ms \in U64
      BY DEF Command, CommandWith
    <2> QED BY <1>1, <2>1, <2>2, ConfigIsValid DEF U64
  <1>3. ASSUME c.valid, c.deadman PROVE c.body \in Velocity
    BY <1>1, <1>3, ConfigIsValid
       DEF velocity_is_within_limits, abs, Velocity, Command, CommandWith
  <1> QED
    BY <1>1, <1>2, <1>3

\* An accepted command keeps the struct's type: the revision has not run
\* out, and only finite velocities within the limit are stored.
LEMMA PublishAcceptedType ==
    ASSUME NEW m \in Model, NEW source \in Source, NEW c \in Command,
           NEW now \in U64, publish_verdict(m, source, c, now) = "OK"
    PROVE  publish_accepted(m, source, c, now) \in Model
  <1> DEFINE box == m.mailboxes[source]
             changed == stream_changed(m, source, c)
             kept == [c EXCEPT !.body = IF c.valid /\ c.deadman THEN @ ELSE 0]
             ids == IF changed
                    THEN Append(box.retired_stream_ids, box.command.stream_id)
                    ELSE box.retired_stream_ids
             new == [command |-> kept, revision |-> m.publication_revision + 1,
                     retired_stream_ids |-> ids, initialized |-> TRUE]
  <1>1. kept \in CommandWith(Velocity)
    BY AcceptedFacts, ZeroInRange DEF Command, CommandWith
  <1>2. box \in Mailbox /\ box.command.stream_id \in U64
    BY DEF Model, Mailbox, CommandWith
  <1>3. ids \in Seq(U64)
    BY <1>2 DEF Mailbox
  <1>4. m.publication_revision + 1 \in U64
    BY AcceptedFacts, ConfigIsValid DEF Model, U64
  <1>5. new \in Mailbox
    <2> HIDE DEF kept, ids
    <2> QED BY <1>1, <1>3, <1>4 DEF Mailbox
  <1> DEFINE stored == [m EXCEPT
            !.publication_revision = @ + 1,
            !.mailboxes[source] = new,
            !.last_now_ms = now,
            !.has_observed_time = TRUE]
  <1> HIDE DEF new
  <1>6. stored \in Model
    BY <1>4, <1>5 DEF Model
  <1> HIDE DEF stored
  <1>7. revoke_authority([stored EXCEPT !.selected_source = NONE]) \in Model
    <2>1. [stored EXCEPT !.selected_source = NONE] \in Model
      BY <1>6 DEF Model
    <2> QED BY <2>1, RevokeType
  <1> QED
    BY <1>6, <1>7 DEF publish_accepted, stored, new, kept, ids, changed, box

\* A publication keeps the type, whatever its verdict.
LEMMA PublishType ==
    ASSUME NEW m \in Model, NEW source \in Source, NEW c \in Command,
           NEW now \in U64
    PROVE  model_publish(m, source, c, now) \in Model
  <1>1. model_stop(m, now) \in Model
    BY StopType
  <1>2. [m EXCEPT !.counter_exhausted = TRUE] \in Model
    BY DEF Model
  <1>3. publish_verdict(m, source, c, now) = "OK"
            => publish_accepted(m, source, c, now) \in Model
    BY PublishAcceptedType
  <1> QED
    BY <1>1, <1>2, <1>3
       DEF model_publish, reject_order_with_fail_safe_stop, OrderRejection

\* A switch keeps the type, the exhausted epoch included.
LEMMA SwitchType ==
    ASSUME NEW m \in Model, NEW desired \in Source \union {NONE},
           NEW now \in U64
    PROVE  switch_source(m, desired, now) \in Model
  <1>1. fence(m, now) \in Model
    <2>1. [m EXCEPT !.barrier_revision = m.publication_revision,
                    !.barrier_time_ms = now] \in Model
      BY DEF Model
    <2> QED BY <2>1, RevokeType DEF fence
  <1>2. next_epoch(m) \in U64
    BY ConfigIsValid DEF next_epoch, epoch_exhausted, U64, Model
  <1> DEFINE f == fence(m, now)
             x == [f EXCEPT !.counter_exhausted = TRUE,
                            !.selected_source = NONE]
             y == [x EXCEPT !.epoch = next_epoch(m)]
             z == [f EXCEPT !.epoch = next_epoch(m),
                            !.selected_source = desired]
  <1>3. x \in Model /\ y \in Model /\ z \in Model
    <2> HIDE DEF f
    <2>0. f \in Model BY <1>1 DEF f
    <2>1. x \in Model BY <2>0 DEF Model
    <2>2. z \in Model BY <2>0, <1>2 DEF Model
    <2> HIDE DEF x
    <2>3. y \in Model BY <2>1, <1>2 DEF Model
    <2> QED BY <2>1, <2>2, <2>3
  <1> HIDE DEF x, y, z
  <1>4. \A d \in Decision, r \in Reason :
            /\ record_decision(x, d, r) \in Model
            /\ record_decision(y, d, r) \in Model
            /\ record_decision(z, d, r) \in Model
    BY <1>3, RecordType
  <1> QED
    BY <1>4 DEF switch_source, x, y, z, f, Decision, Reason

\* Applying a command keeps the type.
LEMMA ApplyType ==
    ASSUME NEW m \in Model, NEW box \in Mailbox
    PROVE  apply_command(m, box) \in Model
  <1> DEFINE v == IF box.command.deadman THEN box.command.body ELSE 0
             a == [m EXCEPT !.authority_granted = TRUE,
                            !.applied_revision = box.revision,
                            !.output = v,
                            !.last_output_moving = velocity_is_moving(v)]
  <1>1. v \in Velocity
    BY ZeroInRange DEF Mailbox, CommandWith
  <1>2. velocity_is_moving(v) \in BOOLEAN
    BY DEF velocity_is_moving
  <1>3. box.revision \in U64
    BY DEF Mailbox
  <1> HIDE DEF v
  <1>4. a \in Model
    BY <1>1, <1>2, <1>3 DEF Model
  <1> HIDE DEF a
  <1> QED
    BY <1>4, RecordType DEF apply_command, a, v, Decision, Reason

\* What the search for the highest source returns is a source or none.
LEMMA HighestType ==
    ASSUME NEW m, NEW now
    PROVE  highest_fresh_source(m, now) \in Source \union {NONE}
  BY DEF highest_fresh_source, Source, NONE, BLUETOOTH, LAN, RC

\* An arbitration keeps the type on each of its paths.
LEMMA ArbitrateType ==
    ASSUME NEW m \in Model, NEW now \in U64
    PROVE  model_arbitrate(m, now) \in Model
  <1> DEFINE seen == [m EXCEPT !.last_now_ms = now, !.has_observed_time = TRUE]
             desired == highest_fresh_source(m, now)
  <1>1. seen \in Model
    BY DEF Model
  <1>2. desired \in Source \union {NONE}
    BY HighestType
  <1> HIDE DEF seen, desired
  <1>3. switch_source(seen, desired, now) \in Model
    BY <1>1, <1>2, SwitchType
  <1>4. \A r \in Reason :
            record_decision(revoke_authority(seen), "STOP", r) \in Model
    BY <1>1, RevokeType, RecordType DEF Decision
  <1>5. desired # NONE /\ desired = m.selected_source =>
            apply_command(seen, m.mailboxes[m.selected_source]) \in Model
    BY <1>1, <1>2, ApplyType DEF Model
  <1> QED
    BY <1>3, <1>4, <1>5 DEF model_arbitrate, seen, desired, Reason

(***************************************************************************)
(* What each function does to the fields the invariants talk about.        *)
(***************************************************************************)

\* The part of the invariant that speaks of the struct alone.
Sound(m) ==
    /\ m \in Model
    /\ m.selected_source # NONE => m.mailboxes[m.selected_source].initialized
    /\ m.barrier_revision <= m.publication_revision
    /\ \A s \in Source :
         /\ m.mailboxes[s].revision <= m.publication_revision
         /\ ~m.mailboxes[s].initialized => m.mailboxes[s].revision = 0
    /\ m.authority_granted =>
         LET box == m.mailboxes[m.selected_source]
         IN  /\ m.selected_source \in Source
             /\ m.barrier_revision < m.applied_revision
             /\ m.applied_revision <= box.revision
             /\ box.revision <= m.publication_revision
             /\ m.barrier_time_ms < box.command.received_at_ms
    /\ m.output # 0 => m.authority_granted
    /\ m.last_output_moving => velocity_is_moving(m.output)

\* A well-typed struct without authority, at rest, is sound as soon as its
\* revisions are bounded.
Bounded(m) ==
    /\ m.selected_source # NONE => m.mailboxes[m.selected_source].initialized
    /\ m.barrier_revision <= m.publication_revision
    /\ \A s \in Source :
         /\ m.mailboxes[s].revision <= m.publication_revision
         /\ ~m.mailboxes[s].initialized => m.mailboxes[s].revision = 0

AtRest(m) == ~m.authority_granted /\ ~m.last_output_moving /\ m.output = 0

\* A model that holds no authority is sound.
LEMMA RestIsSound ==
    ASSUME NEW m \in Model, Bounded(m), AtRest(m)
    PROVE  Sound(m)
  BY DEF Sound, Bounded, AtRest

\* revoke_authority, then record_decision: what a stop decision leaves.
LEMMA RevokeFields ==
    ASSUME NEW m \in Model, NEW d \in Decision, NEW r \in Reason
    PROVE  LET n == record_decision(revoke_authority(m), d, r)
           IN  /\ n \in Model /\ AtRest(n)
               /\ n.mailboxes = m.mailboxes
               /\ n.selected_source = m.selected_source
               /\ n.epoch = m.epoch
               /\ n.publication_revision = m.publication_revision
               /\ n.barrier_revision = m.barrier_revision
  <1>1. record_decision(revoke_authority(m), d, r) \in Model
    BY RevokeType, RecordType
  <1> QED
    BY <1>1 DEF record_decision, revoke_authority, AtRest, Model

\* The fields a stop leaves alone, and the rest it makes sure of.
LEMMA StopFields ==
    ASSUME NEW m \in Model, NEW now \in U64
    PROVE  LET n == model_stop(m, now)
           IN  /\ n \in Model /\ AtRest(n)
               /\ \A s \in Source :
                    /\ n.mailboxes[s].revision = m.mailboxes[s].revision
                    /\ n.mailboxes[s].initialized = m.mailboxes[s].initialized
                    /\ n.mailboxes[s].retired_stream_ids
                           = m.mailboxes[s].retired_stream_ids
                    /\ n.mailboxes[s].command.stream_id
                           = m.mailboxes[s].command.stream_id
                    /\ n.mailboxes[s].command.sequence
                           = m.mailboxes[s].command.sequence
                    /\ n.mailboxes[s].command.received_at_ms
                           = m.mailboxes[s].command.received_at_ms
               /\ n.selected_source = NONE
               /\ n.epoch = next_epoch(m)
               /\ n.publication_revision = m.publication_revision
               /\ n.barrier_revision = m.publication_revision
  <1> DEFINE n == model_stop(m, now)
  <1>1. n \in Model
    BY StopType
  <1>2. /\ AtRest(n)
        /\ n.selected_source = NONE
        /\ n.epoch = next_epoch(m)
        /\ n.publication_revision = m.publication_revision
        /\ n.barrier_revision = m.publication_revision
        /\ n.mailboxes = [s \in Source |->
               [m.mailboxes[s] EXCEPT !.command.valid = FALSE]]
    BY DEF model_stop, record_decision, revoke_authority, AtRest, Model
  <1> HIDE DEF n
  <1>3. ASSUME NEW s \in Source
        PROVE  /\ n.mailboxes[s].revision = m.mailboxes[s].revision
               /\ n.mailboxes[s].initialized = m.mailboxes[s].initialized
               /\ n.mailboxes[s].retired_stream_ids
                      = m.mailboxes[s].retired_stream_ids
               /\ n.mailboxes[s].command.stream_id
                      = m.mailboxes[s].command.stream_id
               /\ n.mailboxes[s].command.sequence
                      = m.mailboxes[s].command.sequence
               /\ n.mailboxes[s].command.received_at_ms
                      = m.mailboxes[s].command.received_at_ms
    <2>1. m.mailboxes[s] \in Mailbox
      BY DEF Model
    <2> QED BY <1>2, <2>1 DEF Mailbox, CommandWith
  <1> QED
    BY <1>1, <1>2, <1>3 DEF n

\* The fields a switch leaves alone, and what it selects.
LEMMA SwitchFields ==
    ASSUME NEW m \in Model, NEW desired \in Source \union {NONE},
           NEW now \in U64
    PROVE  LET n == switch_source(m, desired, now)
           IN  /\ n \in Model /\ AtRest(n)
               /\ n.mailboxes = m.mailboxes
               /\ n.selected_source # NONE =>
                    ~epoch_exhausted(m) /\ n.selected_source = desired
               /\ n.epoch = next_epoch(m)
               /\ n.publication_revision = m.publication_revision
               /\ n.barrier_revision = m.publication_revision
  <1> DEFINE n == switch_source(m, desired, now)
  <1>1. n \in Model
    BY SwitchType
  <1>2. fence(m, now) \in Model
    <2>1. [m EXCEPT !.barrier_revision = m.publication_revision,
                    !.barrier_time_ms = now] \in Model
      BY DEF Model
    <2> QED BY <2>1, RevokeType DEF fence
  <1> DEFINE f == fence(m, now)
  <1>3. /\ AtRest(f)
        /\ f.mailboxes = m.mailboxes /\ f.epoch = m.epoch
        /\ f.publication_revision = m.publication_revision
        /\ f.barrier_revision = m.publication_revision
    BY DEF fence, revoke_authority, AtRest, Model
  <1> HIDE DEF f
  <1>4. f \in Model
    BY <1>2 DEF f
  <1> DEFINE x == [f EXCEPT !.counter_exhausted = TRUE,
                            !.selected_source = NONE]
             y == [x EXCEPT !.epoch = next_epoch(m)]
             z == [f EXCEPT !.epoch = next_epoch(m),
                            !.selected_source = desired]
  <1>5. \/ epoch_exhausted(m) /\ \E d, r : n = record_decision(x, d, r)
        \/ ~epoch_exhausted(m) /\ \E d, r : n = record_decision(y, d, r)
        \/ ~epoch_exhausted(m) /\ \E d, r : n = record_decision(z, d, r)
    <2> HIDE DEF x, y, z
    <2> QED BY DEF switch_source, x, y, z, f
  <1> HIDE DEF n
  <1>6. CASE epoch_exhausted(m) /\ \E d, r : n = record_decision(x, d, r)
    BY <1>1, <1>3, <1>4, <1>6
       DEF record_decision, AtRest, Model, next_epoch, n
  <1>7. CASE ~epoch_exhausted(m) /\ \E d, r : n = record_decision(y, d, r)
    BY <1>1, <1>3, <1>4, <1>7 DEF record_decision, AtRest, Model, n
  <1>8. CASE ~epoch_exhausted(m) /\ \E d, r : n = record_decision(z, d, r)
    BY <1>1, <1>3, <1>4, <1>8 DEF record_decision, AtRest, Model, n
  <1> QED
    BY <1>5, <1>6, <1>7, <1>8 DEF n

\* arbitrate either leaves the struct, switches, stops in place, or applies
\* the selected source's command.
LEMMA ArbitrateFields ==
    ASSUME NEW m \in Model, NEW now \in U64
    PROVE  LET n == model_arbitrate(m, now)
           IN  \/ n = m
               \/ /\ n \in Model /\ AtRest(n)
                  /\ n.mailboxes = m.mailboxes
                  /\ n.selected_source # NONE =>
                       /\ ~epoch_exhausted(m)
                       /\ m.mailboxes[n.selected_source].initialized
                  /\ n.epoch = next_epoch(m)
                  /\ n.publication_revision = m.publication_revision
                  /\ n.barrier_revision = m.publication_revision
               \/ /\ n \in Model /\ AtRest(n)
                  /\ n.mailboxes = m.mailboxes
                  /\ n.selected_source = m.selected_source
                  /\ n.epoch = m.epoch
                  /\ n.publication_revision = m.publication_revision
                  /\ n.barrier_revision = m.barrier_revision
               \/ /\ n \in Model
                  /\ m.selected_source \in Source
                  /\ ~behind_barrier(m, m.mailboxes[m.selected_source])
                  /\ n.mailboxes = m.mailboxes
                  /\ n.selected_source = m.selected_source
                  /\ n.epoch = m.epoch
                  /\ n.publication_revision = m.publication_revision
                  /\ n.barrier_revision = m.barrier_revision
                  /\ n.barrier_time_ms = m.barrier_time_ms
                  /\ n.authority_granted
                  /\ n.applied_revision = m.mailboxes[m.selected_source].revision
                  /\ n.last_output_moving => velocity_is_moving(n.output)
  <1> DEFINE n == model_arbitrate(m, now)
             seen == [m EXCEPT !.last_now_ms = now, !.has_observed_time = TRUE]
             desired == highest_fresh_source(m, now)
  <1>1. /\ seen \in Model
        /\ seen.mailboxes = m.mailboxes
        /\ seen.selected_source = m.selected_source
        /\ seen.epoch = m.epoch
        /\ seen.publication_revision = m.publication_revision
        /\ seen.barrier_revision = m.barrier_revision
        /\ seen.barrier_time_ms = m.barrier_time_ms
    BY DEF Model
  <1>2. /\ desired \in Source \union {NONE}
        /\ desired # NONE => m.mailboxes[desired].initialized
    BY HighestType DEF highest_fresh_source, mailbox_is_fresh
  <1>3. n \in Model
    BY ArbitrateType
  <1> HIDE DEF seen, desired
  <1>4. \/ n = m
        \/ n = switch_source(seen, desired, now)
        \/ \E r \in Reason :
               n = record_decision(revoke_authority(seen), "STOP", r)
        \/ /\ desired # NONE /\ desired = m.selected_source
           /\ ~behind_barrier(m, m.mailboxes[m.selected_source])
           /\ n = apply_command(seen, m.mailboxes[m.selected_source])
    BY DEF model_arbitrate, seen, desired, Reason
  <1> HIDE DEF n
  <1>5. CASE n = switch_source(seen, desired, now)
    <2>1. next_epoch(seen) = next_epoch(m)
            /\ (epoch_exhausted(seen) <=> epoch_exhausted(m))
      BY <1>1 DEF epoch_exhausted, next_epoch
    <2>2. /\ n \in Model /\ AtRest(n)
          /\ n.mailboxes = seen.mailboxes
          /\ n.selected_source # NONE =>
               ~epoch_exhausted(seen) /\ n.selected_source = desired
          /\ n.epoch = next_epoch(seen)
          /\ n.publication_revision = seen.publication_revision
          /\ n.barrier_revision = seen.publication_revision
      BY <1>1, <1>2, <1>5, SwitchFields
    <2>3. n.selected_source # NONE =>
            ~epoch_exhausted(m) /\ m.mailboxes[n.selected_source].initialized
      BY <1>2, <2>1, <2>2
    <2>4. /\ n.mailboxes = m.mailboxes /\ n.epoch = next_epoch(m)
          /\ n.publication_revision = m.publication_revision
          /\ n.barrier_revision = m.publication_revision
      BY <1>1, <2>1, <2>2
    <2> QED BY <2>2, <2>3, <2>4, Zenon DEF n
  <1>6. CASE \E r \in Reason :
               n = record_decision(revoke_authority(seen), "STOP", r)
    BY <1>1, <1>6, RevokeFields DEF n, Decision
  <1>7. CASE /\ desired # NONE /\ desired = m.selected_source
             /\ ~behind_barrier(m, m.mailboxes[m.selected_source])
             /\ n = apply_command(seen, m.mailboxes[m.selected_source])
    <2> DEFINE box == m.mailboxes[m.selected_source]
    <2>1. m.selected_source \in Source
      BY <1>2, <1>7
    <2> HIDE DEF box
    <2>2. n = apply_command(seen, box)
      BY <1>7 DEF box
    <2>3. /\ n.mailboxes = seen.mailboxes
          /\ n.selected_source = seen.selected_source
          /\ n.epoch = seen.epoch
          /\ n.publication_revision = seen.publication_revision
          /\ n.barrier_revision = seen.barrier_revision
          /\ n.barrier_time_ms = seen.barrier_time_ms
          /\ n.authority_granted
          /\ n.applied_revision = box.revision
      BY <1>1, <2>2 DEF apply_command, record_decision, Model
    <2>4. n.last_output_moving => velocity_is_moving(n.output)
      BY <1>1, <2>2 DEF apply_command, record_decision, Model
    <2> QED
      BY <1>1, <1>3, <1>7, <2>1, <2>3, <2>4 DEF n, box
  <1> QED
    BY <1>4, <1>5, <1>6, <1>7 DEF n

\* An arbitration keeps the struct sound: the one path that grants has
\* tested the command against the barrier.
LEMMA ArbitrateSound ==
    ASSUME NEW m, Sound(m), NEW now \in U64
    PROVE  Sound(model_arbitrate(m, now))
  <1> DEFINE n == model_arbitrate(m, now)
  <1>0. m \in Model /\ Bounded(m)
    BY DEF Sound, Bounded
  <1>1. CASE n = m
    BY <1>1
  <1>2. CASE /\ n \in Model /\ AtRest(n)
             /\ n.mailboxes = m.mailboxes
             /\ \/ n.selected_source = m.selected_source
                \/ n.selected_source # NONE =>
                     m.mailboxes[n.selected_source].initialized
             /\ n.publication_revision = m.publication_revision
             /\ \/ n.barrier_revision = m.publication_revision
                \/ n.barrier_revision = m.barrier_revision
    <2>1. Bounded(n)
      BY <1>0, <1>2 DEF Bounded, Model, U64
    <2> QED BY <1>2, <2>1, RestIsSound
  <1>3. CASE /\ n \in Model
             /\ m.selected_source \in Source
             /\ ~behind_barrier(m, m.mailboxes[m.selected_source])
             /\ n.mailboxes = m.mailboxes
             /\ n.selected_source = m.selected_source
             /\ n.publication_revision = m.publication_revision
             /\ n.barrier_revision = m.barrier_revision
             /\ n.barrier_time_ms = m.barrier_time_ms
             /\ n.authority_granted
             /\ n.applied_revision = m.mailboxes[m.selected_source].revision
             /\ n.last_output_moving => velocity_is_moving(n.output)
    <2> HIDE DEF n
    <2>1. m.mailboxes[m.selected_source] \in Mailbox
      BY <1>0, <1>3 DEF Model
    <2>2. /\ m.barrier_revision < m.mailboxes[m.selected_source].revision
          /\ m.barrier_time_ms
               < m.mailboxes[m.selected_source].command.received_at_ms
      BY <1>0, <1>3, <2>1 DEF behind_barrier, Model, Mailbox, CommandWith, U64
    <2>3. m.mailboxes[m.selected_source].revision <= m.publication_revision
      BY <1>0, <1>3 DEF Bounded
    <2>4. m.mailboxes[m.selected_source].revision
             <= m.mailboxes[m.selected_source].revision
      BY <2>1 DEF Mailbox, U64
    <2>5. Bounded(n)
      BY <1>0, <1>3 DEF Bounded
    <2>6. LET b == n.mailboxes[n.selected_source]
          IN  /\ n.selected_source \in Source
              /\ n.barrier_revision < n.applied_revision
              /\ n.applied_revision <= b.revision
              /\ b.revision <= n.publication_revision
              /\ n.barrier_time_ms < b.command.received_at_ms
      BY <1>3, <2>2, <2>3, <2>4
    <2> QED
      BY <1>3, <2>5, <2>6 DEF Sound, Bounded, n
  <1>4. \/ n = m
        \/ /\ n \in Model /\ AtRest(n)
           /\ n.mailboxes = m.mailboxes
           /\ \/ n.selected_source = m.selected_source
              \/ n.selected_source # NONE =>
                   m.mailboxes[n.selected_source].initialized
           /\ n.publication_revision = m.publication_revision
           /\ \/ n.barrier_revision = m.publication_revision
              \/ n.barrier_revision = m.barrier_revision
        \/ /\ n \in Model
           /\ m.selected_source \in Source
           /\ ~behind_barrier(m, m.mailboxes[m.selected_source])
           /\ n.mailboxes = m.mailboxes
           /\ n.selected_source = m.selected_source
           /\ n.publication_revision = m.publication_revision
           /\ n.barrier_revision = m.barrier_revision
           /\ n.barrier_time_ms = m.barrier_time_ms
           /\ n.authority_granted
           /\ n.applied_revision = m.mailboxes[m.selected_source].revision
           /\ n.last_output_moving => velocity_is_moving(n.output)
    BY <1>0, ArbitrateFields, Zenon
  <1> QED
    BY <1>1, <1>2, <1>3, <1>4

\* A stop keeps soundness.
LEMMA StopSound ==
    ASSUME NEW m, Sound(m), NEW now \in U64
    PROVE  Sound(model_stop(m, now))
  <1> DEFINE n == model_stop(m, now)
  <1>0. m \in Model /\ Bounded(m)
    BY DEF Sound, Bounded
  <1> HIDE DEF n
  <1>1. /\ n \in Model /\ AtRest(n)
        /\ \A s \in Source :
             /\ n.mailboxes[s].revision = m.mailboxes[s].revision
             /\ n.mailboxes[s].initialized = m.mailboxes[s].initialized
        /\ n.selected_source = NONE
        /\ n.publication_revision = m.publication_revision
        /\ n.barrier_revision = m.publication_revision
    BY <1>0, StopFields DEF n
  <1>2. Bounded(n)
    BY <1>0, <1>1 DEF Bounded, Model, U64
  <1> QED
    BY <1>1, <1>2, RestIsSound DEF n

\* An accepted publication, field by field.
LEMMA PublishFields ==
    ASSUME NEW m \in Model, NEW source \in Source, NEW c \in Command,
           NEW now \in U64, publish_verdict(m, source, c, now) = "OK"
    PROVE  LET n == publish_accepted(m, source, c, now)
               box == m.mailboxes[source]
               changed == stream_changed(m, source, c)
           IN  /\ n \in Model
               /\ n.publication_revision = m.publication_revision + 1
               /\ n.barrier_revision = m.barrier_revision
               /\ n.barrier_time_ms = m.barrier_time_ms
               /\ n.epoch = m.epoch
               /\ \A s \in Source \ {source} :
                    n.mailboxes[s] = m.mailboxes[s]
               /\ n.mailboxes[source].initialized
               /\ n.mailboxes[source].revision = m.publication_revision + 1
               /\ n.mailboxes[source].retired_stream_ids =
                    IF changed
                    THEN Append(box.retired_stream_ids, box.command.stream_id)
                    ELSE box.retired_stream_ids
               /\ n.mailboxes[source].command.stream_id = c.stream_id
               /\ n.mailboxes[source].command.sequence = c.sequence
               /\ n.mailboxes[source].command.received_at_ms
                    = c.received_at_ms
               /\ changed /\ m.selected_source = source =>
                    AtRest(n) /\ n.selected_source = NONE
               /\ ~(changed /\ m.selected_source = source) =>
                    /\ n.selected_source = m.selected_source
                    /\ n.authority_granted = m.authority_granted
                    /\ n.applied_revision = m.applied_revision
                    /\ n.output = m.output
                    /\ n.last_output_moving = m.last_output_moving
  <1> DEFINE n == publish_accepted(m, source, c, now)
             box == m.mailboxes[source]
             changed == stream_changed(m, source, c)
             kept == [c EXCEPT !.body = IF c.valid /\ c.deadman THEN @ ELSE 0]
             ids == IF changed
                    THEN Append(box.retired_stream_ids, box.command.stream_id)
                    ELSE box.retired_stream_ids
             new == [command |-> kept, revision |-> m.publication_revision + 1,
                     retired_stream_ids |-> ids, initialized |-> TRUE]
             stored == [m EXCEPT
                            !.publication_revision = @ + 1,
                            !.mailboxes[source] = new,
                            !.last_now_ms = now,
                            !.has_observed_time = TRUE]
  <1>1. n \in Model
    BY PublishAcceptedType
  <1>2. /\ kept.stream_id = c.stream_id /\ kept.sequence = c.sequence
        /\ kept.received_at_ms = c.received_at_ms
    BY DEF Command, CommandWith
  <1>3. n = IF changed /\ m.selected_source = source
            THEN revoke_authority([stored EXCEPT !.selected_source = NONE])
            ELSE stored
    BY DEF publish_accepted
  <1> HIDE DEF n, kept, ids, changed
  <1>4. /\ new.command = kept /\ new.revision = m.publication_revision + 1
        /\ new.retired_stream_ids = ids /\ new.initialized
    OBVIOUS
  <1> HIDE DEF new
  <1>5. /\ n.publication_revision = m.publication_revision + 1
        /\ n.barrier_revision = m.barrier_revision
        /\ n.barrier_time_ms = m.barrier_time_ms
        /\ n.epoch = m.epoch
        /\ n.mailboxes = [m.mailboxes EXCEPT ![source] = new]
        /\ changed /\ m.selected_source = source =>
             AtRest(n) /\ n.selected_source = NONE
        /\ ~(changed /\ m.selected_source = source) =>
             /\ n.selected_source = m.selected_source
             /\ n.authority_granted = m.authority_granted
             /\ n.applied_revision = m.applied_revision
             /\ n.output = m.output
             /\ n.last_output_moving = m.last_output_moving
    BY <1>3 DEF revoke_authority, AtRest, Model
  <1>6. n.mailboxes[source] = new
        /\ \A s \in Source \ {source} : n.mailboxes[s] = m.mailboxes[s]
    BY <1>5 DEF Model
  <1> QED
    BY <1>1, <1>2, <1>4, <1>5, <1>6 DEF n, changed, ids, box

\* A publication keeps the struct sound: the granted command can only be
\* replaced by a later one of the same stream.
LEMMA PublishSound ==
    ASSUME NEW m, Sound(m), NEW source \in Source, NEW c \in Command,
           NEW now \in U64
    PROVE  Sound(model_publish(m, source, c, now))
  <1>0. m \in Model /\ Bounded(m)
    BY DEF Sound, Bounded
  <1>1. Sound(model_stop(m, now))
    BY StopSound
  <1>2. Sound([m EXCEPT !.counter_exhausted = TRUE])
    BY DEF Sound, Model
  <1>3. ASSUME publish_verdict(m, source, c, now) = "OK"
        PROVE  Sound(publish_accepted(m, source, c, now))
    <2> DEFINE n == publish_accepted(m, source, c, now)
               box == m.mailboxes[source]
               changed == stream_changed(m, source, c)
    <2>1. /\ n \in Model
          /\ n.publication_revision = m.publication_revision + 1
          /\ n.barrier_revision = m.barrier_revision
          /\ n.barrier_time_ms = m.barrier_time_ms
          /\ \A s \in Source \ {source} : n.mailboxes[s] = m.mailboxes[s]
          /\ n.mailboxes[source].initialized
          /\ n.mailboxes[source].revision = m.publication_revision + 1
          /\ n.mailboxes[source].command.received_at_ms = c.received_at_ms
          /\ changed /\ m.selected_source = source =>
               AtRest(n) /\ n.selected_source = NONE
          /\ ~(changed /\ m.selected_source = source) =>
               /\ n.selected_source = m.selected_source
               /\ n.authority_granted = m.authority_granted
               /\ n.applied_revision = m.applied_revision
               /\ n.output = m.output
               /\ n.last_output_moving = m.last_output_moving
      BY <1>0, <1>3, PublishFields
    <2>2. box.initialized => box.command.received_at_ms <= c.received_at_ms
      BY <1>0, <1>3, AcceptedFacts
    <2> HIDE DEF n, changed
    <2>3. Bounded(n)
      <3>0. n.selected_source # NONE =>
               n.mailboxes[n.selected_source].initialized
        BY <1>0, <2>1 DEF Bounded, Model
      <3> SUFFICES ASSUME NEW s \in Source
                   PROVE  /\ n.mailboxes[s].revision <= n.publication_revision
                          /\ ~n.mailboxes[s].initialized =>
                               n.mailboxes[s].revision = 0
        BY <1>0, <2>1, <3>0 DEF Bounded, Model, U64
      <3>1. m.mailboxes[s].revision \in U64
        BY <1>0 DEF Model, Mailbox
      <3> QED
        BY <1>0, <2>1, <3>1 DEF Bounded, Model, U64
    <2>4. CASE changed /\ m.selected_source = source
      BY <2>1, <2>3, <2>4, RestIsSound DEF n
    <2>5. CASE ~(changed /\ m.selected_source = source)
      <3>1. ASSUME m.authority_granted
            PROVE  LET b == n.mailboxes[n.selected_source]
                   IN  /\ n.selected_source \in Source
                       /\ n.barrier_revision < n.applied_revision
                       /\ n.applied_revision <= b.revision
                       /\ b.revision <= n.publication_revision
                       /\ n.barrier_time_ms < b.command.received_at_ms
        <4> DEFINE old == m.mailboxes[m.selected_source]
        <4>1. /\ m.selected_source \in Source
              /\ m.barrier_revision < m.applied_revision
              /\ m.applied_revision <= old.revision
              /\ old.revision <= m.publication_revision
              /\ m.barrier_time_ms < old.command.received_at_ms
          BY <3>1 DEF Sound
        <4>2. /\ old.revision \in U64 /\ old.command.received_at_ms \in U64
              /\ m.barrier_revision \in U64 /\ m.applied_revision \in U64
              /\ m.publication_revision \in U64 /\ m.barrier_time_ms \in U64
              /\ c.received_at_ms \in U64
          BY <1>0, <4>1 DEF Model, Mailbox, CommandWith, Command
        <4>3. n.selected_source = m.selected_source
              /\ n.applied_revision = m.applied_revision
          BY <2>1, <2>5
        <4>4. CASE m.selected_source = source
          <5>1. old.revision # 0
            BY <4>1, <4>2 DEF U64
          <5>2. old.initialized
            BY <1>0, <4>1, <5>1 DEF Bounded
          <5>3. old.command.received_at_ms <= c.received_at_ms
            BY <2>2, <4>4, <5>2
          <5> HIDE DEF old
          <5> QED
            BY <2>1, <4>1, <4>2, <4>3, <4>4, <5>3 DEF U64
        <4>5. CASE m.selected_source # source
          <5>1. n.mailboxes[n.selected_source] = old
            BY <2>1, <4>1, <4>3, <4>5
          <5> HIDE DEF old
          <5> QED
            BY <2>1, <4>1, <4>2, <4>3, <5>1 DEF U64
        <4> QED BY <4>4, <4>5
      <3>2. /\ n.output # 0 => n.authority_granted
            /\ n.last_output_moving => velocity_is_moving(n.output)
        BY <2>1, <2>5 DEF Sound
      <3> QED
        BY <2>1, <2>3, <2>5, <3>1, <3>2 DEF Sound, Bounded, n
    <2> QED BY <2>4, <2>5
  <1> QED
    BY <1>1, <1>2, <1>3
       DEF model_publish, reject_order_with_fail_safe_stop, OrderRejection
=============================================================================
