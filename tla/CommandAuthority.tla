-------------------------- MODULE CommandAuthority --------------------------
(***************************************************************************)
(* The command-authority model driven by arbitrary callers: several        *)
(* sources publish, a service arbitrates, and anyone may stop.  A caller   *)
(* may have read the clock up to MaxLag before its call runs, so calls     *)
(* may arrive with a clock older than one the model already saw.           *)
(***************************************************************************)
EXTENDS CommandAuthorityModel

CONSTANTS
    Requests,  \* who publishes what: <<source, command>>, the command
               \* without its timestamp
    MaxLag,    \* how stale a caller's clock reading may be
    MaxTime    \* bound: the last instant explored

Request == [stream_id: U64, sequence: U64, ttl_ms: U64, valid: BOOLEAN,
            deadman: BOOLEAN, body: Int \union {NonFinite}]

ASSUME CallerAssumption ==
    /\ Requests \subseteq Source \X Request
    /\ MaxLag \in Nat /\ MaxTime \in U64

VARIABLES
    model,     \* command_authority_model_t
    clock,     \* the monotonic millisecond clock
    accepted,  \* history: the <<stream, sequence>> pairs accepted per source
    grants     \* history: the <<epoch, source, stream>> that had authority

vars == <<model, clock, accepted, grants>>

CallTime == {t \in 0..clock : clock - t <= MaxLag}

Init ==
    /\ model = model_init
    /\ clock = 0
    /\ accepted = [s \in Source |-> {}]
    /\ grants = {}

Advance ==
    /\ clock < MaxTime
    /\ clock' = clock + 1
    /\ UNCHANGED <<model, accepted, grants>>

Publish(source, c, now) ==
    /\ model' = model_publish(model, source, c, now)
    /\ accepted' = IF publish_verdict(model, source, c, now) = "OK"
                   THEN [accepted EXCEPT
                           ![source] = @ \union {<<c.stream_id, c.sequence>>}]
                   ELSE accepted
    /\ UNCHANGED <<clock, grants>>

Arbitrate(now) ==
    /\ model' = model_arbitrate(model, now)
    /\ grants' = IF model'.authority_granted
                 THEN grants \union {<<model'.epoch, model'.selected_source,
                        model'.mailboxes[model'.selected_source]
                            .command.stream_id>>}
                 ELSE grants
    /\ UNCHANGED <<clock, accepted>>

Stop(now) ==
    /\ model' = model_stop(model, now)
    /\ UNCHANGED <<clock, accepted, grants>>

\* A request received at t, as the caller hands it over.
Received(r, t) ==
    [stream_id |-> r.stream_id, sequence |-> r.sequence,
     received_at_ms |-> t, ttl_ms |-> r.ttl_ms, valid |-> r.valid,
     deadman |-> r.deadman, body |-> r.body]

\* Receive times around the present: from just expired to the future.
ReceiveTime == {t \in U64 : t <= clock + 1 /\ t + MaxTtl >= clock}

Next ==
    \/ Advance
    \/ \E now \in CallTime :
         \/ \E r \in Requests, t \in ReceiveTime :
                Publish(r[1], Received(r[2], t), now)
         \/ Arbitrate(now)
         \/ Stop(now)

Spec == Init /\ [][Next]_vars

(* ----------------------------- properties ----------------------------- *)

\* Every field of the model struct keeps its type, counters their width;
\* what is stored or put out is finite and within the velocity limit.
TypeOK ==
    /\ model \in Model
    /\ clock \in U64
    /\ accepted \in [Source -> SUBSET (U64 \X U64)]
    /\ grants \subseteq U64 \X Source \X U64

\* Authority rests on a command published after the last switch or stop
\* (arbitrate's barrier test), from the source that is selected: a queued
\* command of an earlier epoch never drives, and no revision is invented.
GrantedAfterBarrier ==
    LET box == model.mailboxes[model.selected_source]
    IN  model.authority_granted =>
            /\ model.selected_source \in Source
            /\ model.barrier_revision < model.applied_revision
            /\ model.applied_revision <= box.revision
            /\ box.revision <= model.publication_revision
            /\ model.barrier_time_ms < box.command.received_at_ms

\* A nonzero output is held only under authority: whichever command set
\* it, no path of publish, arbitrate or stop withdrew the grant since.
OutputNeedsAuthority ==
    /\ model.output # 0 => model.authority_granted
    /\ model.last_output_moving => velocity_is_moving(model.output)

\* publish never accepts the same <<stream, sequence>> of a source twice:
\* neither a repeat, nor a return to a retired stream, nor a stop between
\* the two lets a delayed duplicate in.
NoReplay ==
    [][model'.publication_revision # model.publication_revision
          => accepted' # accepted]_vars

\* A change of the selected source is always a stopped step: authority is
\* never handed over directly, the new source must publish again first.
SwitchIsStopped ==
    [][model'.selected_source # model.selected_source
          => ~model'.authority_granted /\ model'.output = 0]_vars

\* The epoch is a fencing token: within one epoch only one source, and one
\* of its streams, ever holds authority, even when the counter runs out.
OneHolderPerEpoch ==
    \A g, h \in grants : g[1] = h[1] => g = h

\* Losing a moving source (expiry or invalidation) at an arbitration is
\* reported as FAULT_STOP, whatever source takes over.
MovingSourceLossIsFault ==
    [][\A now \in CallTime :
          /\ velocity_is_moving(model.output)
          /\ ~mailbox_is_fresh(model.mailboxes[model.selected_source], now)
          /\ ~clock_regressed(model, now)
          /\ Arbitrate(now)
          => model'.last_decision = "FAULT_STOP"]_vars

\* A source takes over, or is lost, only through a stop, and the loss of one
\* that was moving is reported (switch_source, revoke_authority and what
\* arbitrate makes of them).
HandoverIsClean == SwitchIsStopped /\ MovingSourceLossIsFault

\* What makes NoReplay inductive: an accepted pair belongs either to the
\* stream the mailbox holds, at or below its sequence, or to a retired one,
\* and the stream held is not retired.
ReplayWindow ==
    \A s \in Source :
        LET box == model.mailboxes[s] IN
        /\ accepted[s] # {} => box.initialized
        /\ ~box.initialized => box.retired_stream_ids = <<>>
        /\ box.initialized => ~is_retired(box, box.command.stream_id)
        /\ \A p \in accepted[s] :
             \/ /\ p[1] = box.command.stream_id
                /\ p[2] <= box.command.sequence
             \/ is_retired(box, p[1])

\* What makes OneHolderPerEpoch inductive: no grant is of a later epoch, and
\* one of the present epoch is of the source and stream selected now.
HolderOfThisEpoch ==
    \A g \in grants :
        /\ g[1] <= model.epoch
        /\ g[1] = model.epoch /\ model.selected_source # NONE =>
             /\ g[2] = model.selected_source
             /\ g[3] = model.mailboxes[g[2]].command.stream_id
=============================================================================
