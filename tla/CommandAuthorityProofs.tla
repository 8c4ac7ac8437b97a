----------------------- MODULE CommandAuthorityProofs -----------------------
(***************************************************************************)
(* Proofs about CommandAuthority, for every width of the counters, every   *)
(* history capacity and every set of requests.                             *)
(***************************************************************************)
EXTENDS CommandAuthority, CommandAuthorityLemmas

(***************************************************************************)
(* The inductive invariant.                                                *)
(***************************************************************************)

\* The history of grants has the type of its tuples and is consistent with
\* the epoch, source and stream the model stands at.
GrantsOK ==
    /\ grants \subseteq U64 \X Source \X U64
    /\ HolderOfThisEpoch
    /\ OneHolderPerEpoch

\* The history of accepted commands matches what the mailboxes remember.
AcceptedOK ==
    /\ accepted \in [Source -> SUBSET (U64 \X U64)]
    /\ ReplayWindow

IInv == Sound(model) /\ clock \in U64 /\ AcceptedOK /\ GrantsOK

\* The step of the epoch counter.
LEMMA NextEpoch ==
    ASSUME NEW m \in Model
    PROVE  /\ next_epoch(m) \in U64
           /\ m.epoch <= next_epoch(m)
           /\ ~epoch_exhausted(m) => m.epoch < next_epoch(m)
  BY ConfigIsValid DEF next_epoch, epoch_exhausted, Model, U64

\* A step that adds no grant keeps GrantsOK if the epoch does not go back
\* and, within an epoch, a selected source and its stream stay the same.
LEMMA GrantsKept ==
    ASSUME Sound(model), GrantsOK, grants' = grants, Sound(model'),
           model.epoch <= model'.epoch,
           model'.epoch = model.epoch /\ model'.selected_source # NONE =>
             /\ model'.selected_source = model.selected_source
             /\ model'.mailboxes[model.selected_source].command.stream_id
                  = model.mailboxes[model.selected_source].command.stream_id
    PROVE  GrantsOK'
  <1>1. model.epoch \in U64 /\ model'.epoch \in U64
    BY DEF Sound, Model
  <1>2. HolderOfThisEpoch'
    <2> SUFFICES ASSUME NEW g \in grants
                 PROVE  /\ g[1] <= model'.epoch
                        /\ g[1] = model'.epoch /\ model'.selected_source # NONE
                           => /\ g[2] = model'.selected_source
                              /\ g[3] = model'.mailboxes[g[2]]
                                            .command.stream_id
      BY DEF HolderOfThisEpoch
    <2>1. g[1] \in U64 /\ g[1] <= model.epoch
      BY DEF GrantsOK, HolderOfThisEpoch
    <2>2. g[1] <= model'.epoch
      BY <1>1, <2>1 DEF U64
    <2>3. ASSUME g[1] = model'.epoch, model'.selected_source # NONE
          PROVE  /\ g[2] = model'.selected_source
                 /\ g[3] = model'.mailboxes[g[2]].command.stream_id
      <3>1. model'.epoch = model.epoch
        BY <1>1, <2>1, <2>3 DEF U64
      <3>2. model'.selected_source = model.selected_source
        BY <2>3, <3>1
      <3>3. /\ g[2] = model.selected_source
            /\ g[3] = model.mailboxes[g[2]].command.stream_id
        BY <2>3, <3>1, <3>2 DEF GrantsOK, HolderOfThisEpoch
      <3> QED BY <2>3, <3>1, <3>2, <3>3
    <2> QED BY <2>2, <2>3
  <1> QED
    BY <1>2 DEF GrantsOK, OneHolderPerEpoch

\* Initially nothing is stored, selected or granted.
LEMMA InitIInv == Init => IInv
  <1> SUFFICES ASSUME Init PROVE IInv
    OBVIOUS
  <1>1. model \in Model
    BY InitType DEF Init
  <1>2. Bounded(model) /\ AtRest(model)
    BY ConfigIsValid DEF Init, model_init, Bounded, AtRest
  <1>3. Sound(model)
    BY <1>1, <1>2, RestIsSound
  <1>4. AcceptedOK
    BY DEF Init, model_init, AcceptedOK, ReplayWindow
  <1>5. GrantsOK
    BY DEF Init, GrantsOK, HolderOfThisEpoch, OneHolderPerEpoch
  <1> QED
    BY <1>3, <1>4, <1>5, ConfigIsValid DEF Init, IInv, U64

\* A clock reading a caller passes on is a uint64.
LEMMA CallTimeType == IInv => \A now \in CallTime : now \in U64
  BY ConfigIsValid DEF CallTime, IInv, U64

\* Stopping withdraws commands and opens an epoch, or ends the last one.
LEMMA StopIInv ==
    ASSUME IInv, NEW now \in CallTime, Stop(now)
    PROVE  IInv'
  <1>1. Sound(model) /\ model \in Model /\ now \in U64
    BY CallTimeType DEF IInv, Sound
  <1>2. Sound(model')
    BY <1>1, StopSound DEF Stop
  <1>3. /\ model'.selected_source = NONE
        /\ model'.epoch = next_epoch(model)
        /\ \A s \in Source :
             /\ model'.mailboxes[s].initialized
                    = model.mailboxes[s].initialized
             /\ model'.mailboxes[s].retired_stream_ids
                    = model.mailboxes[s].retired_stream_ids
             /\ model'.mailboxes[s].command.stream_id
                    = model.mailboxes[s].command.stream_id
             /\ model'.mailboxes[s].command.sequence
                    = model.mailboxes[s].command.sequence
    BY <1>1, StopFields DEF Stop
  <1>4. AcceptedOK'
    BY <1>3 DEF IInv, AcceptedOK, ReplayWindow, is_retired, Stop
  <1>5. GrantsOK'
    <2>1. model.epoch <= model'.epoch
      BY <1>1, <1>3, NextEpoch
    <2> QED
      BY <1>1, <1>2, <1>3, <2>1, GrantsKept DEF IInv, Stop
  <1> QED
    BY <1>2, <1>4, <1>5 DEF IInv, Stop

\* An arbitration grants only to the source selected in the present epoch.
LEMMA ArbitrateIInv ==
    ASSUME IInv, NEW now \in CallTime, Arbitrate(now)
    PROVE  IInv'
  <1>1. Sound(model) /\ model \in Model /\ now \in U64
    BY CallTimeType DEF IInv, Sound
  <1>2. Sound(model')
    BY <1>1, ArbitrateSound DEF Arbitrate
  <1>3. \/ /\ model'.mailboxes = model.mailboxes
           /\ ~model'.authority_granted
           /\ model'.selected_source # NONE => ~epoch_exhausted(model)
           /\ model'.epoch = next_epoch(model)
        \/ /\ model'.mailboxes = model.mailboxes
           /\ model'.selected_source = model.selected_source
           /\ model'.epoch = model.epoch
    BY <1>1, ArbitrateFields DEF Arbitrate, AtRest
  <1>4. AcceptedOK'
    BY <1>3 DEF IInv, AcceptedOK, ReplayWindow, Arbitrate
  <1>5. /\ model.epoch \in U64 /\ model.epoch <= model'.epoch
        /\ model'.epoch = model.epoch /\ model'.selected_source # NONE =>
             model'.selected_source = model.selected_source
    <2>1. model.epoch \in U64 /\ next_epoch(model) \in U64
      BY <1>1, NextEpoch DEF Model
    <2> QED
      BY <1>1, <1>3, <2>1, NextEpoch DEF U64
  <1>6. CASE ~model'.authority_granted
    <2>1. grants' = grants
      BY <1>6 DEF Arbitrate
    <2>2. GrantsOK'
      BY <1>1, <1>2, <1>3, <1>5, <2>1, GrantsKept DEF IInv
    <2> QED
      BY <1>2, <1>4, <2>2 DEF IInv, Arbitrate
  <1>7. CASE model'.authority_granted
    <2> DEFINE src == model.selected_source
               new == <<model.epoch, src,
                        model.mailboxes[src].command.stream_id>>
    <2>1. /\ model'.mailboxes = model.mailboxes
          /\ model'.selected_source = src /\ model'.epoch = model.epoch
      BY <1>3, <1>7
    <2>2. src \in Source
      BY <1>2, <1>7, <2>1 DEF Sound
    <2>3. src # NONE
      BY <2>2 DEF Source, NONE, BLUETOOTH, RC
    <2>4. grants' = grants \union {new}
      BY <1>7, <2>1 DEF Arbitrate
    <2>5. model.mailboxes[src].command.stream_id \in U64
      BY <1>1, <2>2 DEF Model, Mailbox, CommandWith
    <2>6. new \in U64 \X Source \X U64
      BY <1>5, <2>2, <2>5
    <2>7. \A g \in grants : g[1] = model.epoch => g = new
      <3> SUFFICES ASSUME NEW g \in grants, g[1] = model.epoch
                   PROVE  g = new
        OBVIOUS
      <3>1. g[2] = src /\ g[3] = model.mailboxes[src].command.stream_id
        BY <2>3 DEF IInv, GrantsOK, HolderOfThisEpoch
      <3>2. g \in U64 \X Source \X U64
        BY DEF IInv, GrantsOK
      <3> QED BY <3>1, <3>2
    <2>8. new[1] = model.epoch /\ new[2] = src
            /\ new[3] = model.mailboxes[src].command.stream_id
      OBVIOUS
    <2> HIDE DEF new, src
    <2>9. OneHolderPerEpoch'
      BY <2>4, <2>7, <2>8 DEF IInv, GrantsOK, OneHolderPerEpoch
    <2>10. HolderOfThisEpoch'
      <3> SUFFICES ASSUME NEW g \in grants'
                   PROVE  /\ g[1] <= model.epoch
                          /\ g[1] = model.epoch =>
                               /\ g[2] = src
                               /\ g[3] = model.mailboxes[g[2]]
                                             .command.stream_id
        BY <2>1 DEF HolderOfThisEpoch
      <3>1. CASE g \in grants
        BY <2>7, <2>8, <3>1 DEF IInv, GrantsOK, HolderOfThisEpoch
      <3>2. CASE g = new
        BY <1>5, <2>8, <3>2 DEF U64
      <3> QED BY <2>4, <3>1, <3>2
    <2>11. GrantsOK'
      BY <2>4, <2>6, <2>9, <2>10 DEF GrantsOK, IInv
    <2> QED
      BY <1>2, <1>4, <2>11 DEF IInv, Arbitrate
  <1> QED BY <1>6, <1>7

\* Appending to the retired streams retires exactly the appended one.
LEMMA RetiredAppend ==
    ASSUME NEW ids \in Seq(U64), NEW x \in U64, NEW p,
           NEW box, NEW new,
           box.retired_stream_ids = ids,
           new.retired_stream_ids = Append(ids, x)
    PROVE  is_retired(new, p) <=> is_retired(box, p) \/ p = x
  <1>1. /\ Len(Append(ids, x)) = Len(ids) + 1
        /\ Append(ids, x)[Len(ids) + 1] = x
        /\ \A i \in 1..Len(ids) : Append(ids, x)[i] = ids[i]
        /\ Len(ids) \in Nat
    OBVIOUS
  <1>2. 1..(Len(ids) + 1) = 1..Len(ids) \union {Len(ids) + 1}
    BY <1>1
  <1> QED
    BY <1>1, <1>2 DEF is_retired

\* An accepted command advances its stream, or retires it for a new one.
LEMMA AcceptedGrows ==
    ASSUME IInv, NEW now \in U64, NEW source \in Source, NEW c \in Command,
           Publish(source, c, now),
           publish_verdict(model, source, c, now) = "OK"
    PROVE  AcceptedOK' /\ <<c.stream_id, c.sequence>> \notin accepted[source]
  <1> DEFINE box == model.mailboxes[source]
             new == model'.mailboxes[source]
             pair == <<c.stream_id, c.sequence>>
             changed == stream_changed(model, source, c)
  <1>1. model \in Model
    BY DEF IInv, Sound
  <1>2. box \in Mailbox /\ box.command \in CommandWith(Velocity)
    BY <1>1 DEF Model, Mailbox
  <1>3. /\ \A s \in Source \ {source} : model'.mailboxes[s] = model.mailboxes[s]
        /\ new.initialized
        /\ new.retired_stream_ids =
             IF changed
             THEN Append(box.retired_stream_ids, box.command.stream_id)
             ELSE box.retired_stream_ids
        /\ new.command.stream_id = c.stream_id
        /\ new.command.sequence = c.sequence
    <2>1. model' = publish_accepted(model, source, c, now)
      BY DEF Publish, model_publish, OrderRejection
    <2> QED BY <1>1, <2>1, PublishFields
  <1>4. accepted' = [accepted EXCEPT ![source] = @ \union {pair}]
    BY DEF Publish
  <1>5. /\ ~sequence_not_increasing(model, source, c)
        /\ changed => ~is_retired(box, c.stream_id)
    BY <1>1, AcceptedFacts
  <1>6. c.stream_id \in U64 /\ c.sequence \in U64
    BY DEF Command, CommandWith
  <1>7. /\ accepted[source] # {} => box.initialized
        /\ ~box.initialized => box.retired_stream_ids = <<>>
        /\ box.initialized => ~is_retired(box, box.command.stream_id)
        /\ \A p \in accepted[source] :
             \/ /\ p[1] = box.command.stream_id
                /\ p[2] <= box.command.sequence
             \/ is_retired(box, p[1])
    BY DEF IInv, AcceptedOK, ReplayWindow
  <1>8. /\ box.command.stream_id \in U64 /\ box.command.sequence \in U64
        /\ box.retired_stream_ids \in Seq(U64)
    BY <1>2 DEF Mailbox, CommandWith
  <1>9. \A p \in accepted[source] : p \in U64 \X U64
    BY DEF IInv, AcceptedOK
  <1>10. changed <=> box.initialized /\ c.stream_id # box.command.stream_id
    BY DEF stream_changed
  <1>11. box.initialized /\ ~changed => c.sequence > box.command.sequence
    BY <1>5, <1>6, <1>8, ConfigIsValid
       DEF sequence_not_increasing, U64
  <1> HIDE DEF box, new, changed
  <1>12. \A q : is_retired(new, q) <=>
            is_retired(box, q) \/ (changed /\ q = box.command.stream_id)
    <2>1. CASE changed
      <3>1. new.retired_stream_ids
               = Append(box.retired_stream_ids, box.command.stream_id)
        BY <1>3, <2>1
      <3> SUFFICES ASSUME NEW q
                   PROVE  is_retired(new, q) <=>
                            is_retired(box, q) \/ q = box.command.stream_id
        BY <2>1
      <3> QED
        BY <1>8, <3>1, RetiredAppend
    <2>2. CASE ~changed
      BY <1>3, <2>2 DEF is_retired
    <2> QED BY <2>1, <2>2
  <1>13. pair \notin accepted[source]
    <2> SUFFICES ASSUME pair \in accepted[source] PROVE FALSE
      OBVIOUS
    <2>1. /\ box.initialized
          /\ \/ /\ c.stream_id = box.command.stream_id
                /\ c.sequence <= box.command.sequence
             \/ is_retired(box, c.stream_id)
      BY <1>7
    <2> QED
      BY <1>5, <1>6, <1>7, <1>8, <1>10, <1>11, <2>1 DEF U64
  <1>14. ~is_retired(new, new.command.stream_id)
    <2>1. CASE box.initialized
      BY <1>3, <1>5, <1>7, <1>10, <1>12, <2>1
    <2>2. CASE ~box.initialized
      <3>1. ~is_retired(box, c.stream_id)
        BY <1>7, <2>2 DEF is_retired
      <3> QED BY <1>3, <1>10, <1>12, <2>2, <3>1
    <2> QED BY <2>1, <2>2
  <1>15. \A p \in accepted[source] \union {pair} :
            \/ /\ p[1] = new.command.stream_id
               /\ p[2] <= new.command.sequence
            \/ is_retired(new, p[1])
    <2> SUFFICES ASSUME NEW p \in accepted[source] \union {pair},
                        ~is_retired(new, p[1])
                 PROVE  /\ p[1] = c.stream_id /\ p[2] <= c.sequence
      BY <1>3
    <2>1. CASE p = pair
      BY <1>6, <2>1 DEF U64
    <2>2. CASE p \in accepted[source]
      <3>1. /\ p[1] = box.command.stream_id /\ p[2] <= box.command.sequence
            /\ box.initialized /\ ~changed
        BY <1>7, <1>12, <2>2
      <3>2. p[2] \in U64
        BY <1>9, <2>2
      <3> QED
        BY <1>6, <1>8, <1>10, <1>11, <3>1, <3>2 DEF U64
    <2> QED BY <2>1, <2>2
  <1>16. AcceptedOK'
    <2>1. accepted' \in [Source -> SUBSET (U64 \X U64)]
      BY <1>4, <1>6 DEF IInv, AcceptedOK
    <2>2. accepted'[source] = accepted[source] \union {pair}
            /\ \A s \in Source \ {source} : accepted'[s] = accepted[s]
      BY <1>4 DEF IInv, AcceptedOK
    <2>3. ReplayWindow'
      <3> SUFFICES ASSUME NEW s \in Source
            PROVE  LET b == model'.mailboxes[s] IN
                   /\ accepted'[s] # {} => b.initialized
                   /\ ~b.initialized => b.retired_stream_ids = <<>>
                   /\ b.initialized => ~is_retired(b, b.command.stream_id)
                   /\ \A p \in accepted'[s] :
                        \/ /\ p[1] = b.command.stream_id
                           /\ p[2] <= b.command.sequence
                        \/ is_retired(b, p[1])
        BY DEF ReplayWindow
      <3>1. CASE s = source
        BY <1>3, <1>14, <1>15, <2>2, <3>1 DEF new
      <3>2. CASE s # source
        BY <1>3, <2>2, <3>2 DEF IInv, AcceptedOK, ReplayWindow
      <3> QED BY <3>1, <3>2
    <2> QED BY <2>1, <2>3 DEF AcceptedOK
  <1> QED BY <1>13, <1>16

\* A publication either stores one new command or, refused, at most stops.
LEMMA PublishIInv ==
    ASSUME IInv, NEW now \in CallTime,
           NEW r \in Requests, NEW t \in ReceiveTime,
           Publish(r[1], Received(r[2], t), now)
    PROVE  IInv'
  <1> DEFINE source == r[1]
             c == Received(r[2], t)
             verdict == publish_verdict(model, source, c, now)
  <1>1. c \in Command /\ source \in Source /\ now \in U64
    <2>1. c \in Command
      BY CallerAssumption DEF Received, Request, ReceiveTime, Command,
            CommandWith
    <2> QED BY <2>1, CallerAssumption, CallTimeType
  <1> HIDE DEF c, source
  <1>2. Publish(source, c, now)
    BY DEF c, source
  <1>3. Sound(model) /\ model \in Model
    BY DEF IInv, Sound
  <1>4. Sound(model')
    BY <1>1, <1>2, <1>3, PublishSound DEF Publish
  <1>5. CASE verdict = "OK"
    <2>1. AcceptedOK'
      BY <1>1, <1>2, <1>5, AcceptedGrows
    <2>2. model' = publish_accepted(model, source, c, now)
      BY <1>2, <1>5 DEF Publish, model_publish, OrderRejection
    <2>3. /\ model'.epoch = model.epoch
          /\ \A s \in Source \ {source} :
               model'.mailboxes[s] = model.mailboxes[s]
          /\ model'.mailboxes[source].command.stream_id = c.stream_id
          /\ model'.selected_source # NONE =>
               /\ model'.selected_source = model.selected_source
               /\ ~(stream_changed(model, source, c)
                       /\ model.selected_source = source)
      BY <1>1, <1>3, <1>5, <2>2, PublishFields
    <2>4. ASSUME model'.selected_source # NONE
          PROVE  model'.mailboxes[model.selected_source].command.stream_id
                    = model.mailboxes[model.selected_source].command.stream_id
      <3>1. model.selected_source \in Source
              /\ model.mailboxes[model.selected_source].initialized
        BY <1>3, <2>3, <2>4 DEF Model, Sound
      <3> QED BY <2>3, <2>4, <3>1 DEF stream_changed
    <2>5. model.epoch <= model'.epoch
      BY <1>3, <2>3 DEF Model, U64
    <2>6. GrantsOK'
      BY <1>2, <1>3, <1>4, <2>3, <2>4, <2>5, GrantsKept DEF IInv, Publish
    <2> QED BY <1>2, <1>4, <2>1, <2>6 DEF IInv, Publish
  <1>6. CASE verdict # "OK" /\ model' = model_stop(model, now)
    <2>1. accepted' = accepted
      BY <1>2, <1>6 DEF Publish
    <2>2. Stop(now)
      BY <1>2, <1>6, <2>1 DEF Publish, Stop
    <2> QED BY <2>2, StopIInv
  <1>7. CASE /\ verdict # "OK"
             /\ model' \in {model, [model EXCEPT !.counter_exhausted = TRUE]}
    <2>1. /\ model'.mailboxes = model.mailboxes
          /\ model'.epoch = model.epoch
          /\ model'.selected_source = model.selected_source
      BY <1>3, <1>7 DEF Model
    <2>2. AcceptedOK'
      BY <1>2, <1>7, <2>1 DEF IInv, AcceptedOK, ReplayWindow, Publish
    <2>3. GrantsOK'
      BY <1>2, <2>1 DEF IInv, GrantsOK, HolderOfThisEpoch,
            OneHolderPerEpoch, Publish
    <2> QED BY <1>2, <1>4, <2>2, <2>3 DEF IInv, Publish
  <1>8. \/ verdict = "OK"
        \/ model' = model_stop(model, now)
        \/ model' \in {model, [model EXCEPT !.counter_exhausted = TRUE]}
    BY <1>2 DEF Publish, model_publish, reject_order_with_fail_safe_stop
  <1> QED
    BY <1>5, <1>6, <1>7, <1>8

\* The invariant is inductive.
THEOREM Inductive == Spec => []IInv
  <1>1. IInv /\ [Next]_vars => IInv'
    <2> SUFFICES ASSUME IInv, [Next]_vars PROVE IInv'
      OBVIOUS
    <2>1. CASE Advance
      <3>1. clock' \in U64
        BY <2>1, CallerAssumption, ConfigIsValid DEF Advance, IInv, U64
      <3> QED
        BY <2>1, <3>1 DEF Advance, IInv, AcceptedOK, GrantsOK, ReplayWindow,
              HolderOfThisEpoch, OneHolderPerEpoch
    <2>2. CASE UNCHANGED vars
      BY <2>2 DEF vars, IInv, AcceptedOK, GrantsOK, ReplayWindow,
            HolderOfThisEpoch, OneHolderPerEpoch
    <2> QED
      BY <2>1, <2>2, PublishIInv, ArbitrateIInv, StopIInv DEF Next
  <1> QED
    BY <1>1, InitIInv, PTL DEF Spec

\* Every reachable state is well typed: no counter leaves its width, and no
\* velocity stored by publish or put out by arbitrate exceeds the limit.
THEOREM TypeCorrect == Spec => []TypeOK
  <1>1. IInv => TypeOK
    BY DEF IInv, Sound, AcceptedOK, GrantsOK, TypeOK
  <1> QED BY <1>1, Inductive, PTL

\* arbitrate grants authority only on a command published and received
\* after the last switch or stop, and the grant never outlives it.
THEOREM BarrierHolds == Spec => []GrantedAfterBarrier
  <1>1. IInv => GrantedAfterBarrier
    BY DEF IInv, Sound, GrantedAfterBarrier
  <1> QED BY <1>1, Inductive, PTL

\* No function leaves a nonzero output behind without authority.
THEOREM OutputIsAuthorised == Spec => []OutputNeedsAuthority
  <1>1. IInv => OutputNeedsAuthority
    BY DEF IInv, Sound, OutputNeedsAuthority
  <1> QED BY <1>1, Inductive, PTL

\* An epoch names one source and one stream, whatever the counter's width.
THEOREM EpochFences == Spec => []OneHolderPerEpoch
  <1>1. IInv => OneHolderPerEpoch
    BY DEF IInv, GrantsOK
  <1> QED BY <1>1, Inductive, PTL

\* publish accepts no <<stream, sequence>> of a source twice.
THEOREM ReplayIsRefused == Spec => NoReplay
  <1>1. ASSUME IInv, [Next]_vars,
               model'.publication_revision # model.publication_revision
        PROVE  accepted' # accepted
    <2>1. model \in Model
      BY <1>1 DEF IInv, Sound
    <2>2. ASSUME NEW now \in CallTime,
                 NEW r \in Requests, NEW t \in ReceiveTime,
                 Publish(r[1], Received(r[2], t), now)
          PROVE  accepted' # accepted
      <3> DEFINE source == r[1]
                 c == Received(r[2], t)
      <3>1. c \in Command /\ source \in Source /\ now \in U64
        <4>1. c \in Command
          BY CallerAssumption DEF Received, Request, ReceiveTime, Command,
                CommandWith
        <4> QED BY <1>1, <4>1, CallerAssumption, CallTimeType
      <3> HIDE DEF c, source
      <3>2. Publish(source, c, now)
        BY <2>2 DEF c, source
      <3>3. model_stop(model, now).publication_revision
               = model.publication_revision
        BY <2>1, <3>1, StopFields
      <3>4. [model EXCEPT !.counter_exhausted = TRUE].publication_revision
               = model.publication_revision
        BY <2>1 DEF Model
      <3>5. publish_verdict(model, source, c, now) = "OK"
        BY <1>1, <3>2, <3>3, <3>4
           DEF Publish, model_publish, reject_order_with_fail_safe_stop
      <3>6. <<c.stream_id, c.sequence>> \notin accepted[source]
        BY <1>1, <3>1, <3>2, <3>5, AcceptedGrows
      <3>7. <<c.stream_id, c.sequence>> \in accepted'[source]
        BY <1>1, <3>1, <3>2, <3>5 DEF Publish, IInv, AcceptedOK
      <3> QED BY <3>6, <3>7
    <2>3. ASSUME NEW now \in CallTime, Arbitrate(now)
          PROVE  FALSE
      BY <1>1, <2>1, <2>3, CallTimeType, ArbitrateFields DEF Arbitrate
    <2>4. ASSUME NEW now \in CallTime, Stop(now)
          PROVE  FALSE
      BY <1>1, <2>1, <2>4, CallTimeType, StopFields DEF Stop
    <2> QED
      BY <1>1, <2>2, <2>3, <2>4 DEF Next, Advance, vars
  <1>2. IInv /\ [Next]_vars =>
            [model'.publication_revision # model.publication_revision
                => accepted' # accepted]_vars
    BY <1>1
  <1> QED
    BY <1>2, Inductive, PTL DEF Spec, NoReplay

(***************************************************************************)
(* Handover.                                                               *)
(***************************************************************************)

\* What MovingSourceLossIsFault needs besides: an output that moves is known
\* to the model as moving.
MovingIsNoticed == velocity_is_moving(model.output) => model.last_output_moving

\* A velocity of zero does not move.
LEMMA ZeroRests == ~velocity_is_moving(0)
  BY ConfigIsValid DEF velocity_is_moving, abs

\* Whatever arbitration leaves moving, it has noticed.
LEMMA ArbitrateNotices ==
    ASSUME NEW m \in Model, NEW now \in U64,
           velocity_is_moving(m.output) => m.last_output_moving
    PROVE  velocity_is_moving(model_arbitrate(m, now).output)
               => model_arbitrate(m, now).last_output_moving
  <1> DEFINE n == model_arbitrate(m, now)
             seen == [m EXCEPT !.last_now_ms = now, !.has_observed_time = TRUE]
             desired == highest_fresh_source(m, now)
             box == m.mailboxes[m.selected_source]
  <1>1. seen \in Model
    BY DEF Model
  <1>2. desired \in Source \union {NONE}
    BY HighestType
  <1> HIDE DEF seen, desired, box
  <1>3. \/ n = m
        \/ n = switch_source(seen, desired, now)
        \/ \E r \in Reason :
               n = record_decision(revoke_authority(seen), "STOP", r)
        \/ n = apply_command(seen, box)
    BY DEF model_arbitrate, seen, desired, box, Reason
  <1> HIDE DEF n
  <1>4. CASE n = switch_source(seen, desired, now)
    BY <1>1, <1>2, <1>4, SwitchFields, ZeroRests DEF AtRest, n
  <1>5. CASE \E r \in Reason :
               n = record_decision(revoke_authority(seen), "STOP", r)
    BY <1>1, <1>5, RevokeFields, ZeroRests DEF AtRest, n, Decision
  <1>6. CASE n = apply_command(seen, box)
    BY <1>1, <1>6 DEF apply_command, record_decision, Model, n
  <1> QED
    BY <1>3, <1>4, <1>5, <1>6 DEF n

\* A publication leaves the model at rest or its holder and output alone.
LEMMA PublishKeepsOrRests ==
    ASSUME IInv, NEW now \in CallTime, NEW r \in Requests,
           NEW t \in ReceiveTime, Publish(r[1], Received(r[2], t), now)
    PROVE  \/ AtRest(model')
           \/ /\ model'.selected_source = model.selected_source
              /\ model'.output = model.output
              /\ model'.last_output_moving = model.last_output_moving
  <1> DEFINE source == r[1]
             c == Received(r[2], t)
  <1>1. model \in Model
    BY DEF IInv, Sound
  <1>2. c \in Command /\ source \in Source /\ now \in U64
    <2>1. c \in Command
      BY CallerAssumption DEF Received, Request, ReceiveTime, Command,
            CommandWith
    <2> QED BY <2>1, CallerAssumption, CallTimeType
  <1> HIDE DEF c, source
  <1>3. model' = model_publish(model, source, c, now)
    BY DEF Publish, c, source
  <1>4. CASE publish_verdict(model, source, c, now) = "OK"
    <2>1. model' = publish_accepted(model, source, c, now)
      BY <1>3, <1>4 DEF model_publish, OrderRejection
    <2> QED BY <1>1, <1>2, <1>4, <2>1, PublishFields
  <1>5. CASE publish_verdict(model, source, c, now) # "OK"
    <2>1. \/ model' = model
          \/ model' = model_stop(model, now)
          \/ model' = [model EXCEPT !.counter_exhausted = TRUE]
      BY <1>3, <1>5 DEF model_publish, reject_order_with_fail_safe_stop
    <2>2. AtRest(model_stop(model, now))
      BY <1>1, <1>2, StopFields
    <2> QED BY <1>1, <2>1, <2>2 DEF Model
  <1> QED BY <1>4, <1>5

\* Each step leaves a moving output noticed.
LEMMA NoticedNext == IInv /\ MovingIsNoticed /\ [Next]_vars => MovingIsNoticed'
  <1> SUFFICES ASSUME IInv, MovingIsNoticed, [Next]_vars
               PROVE  MovingIsNoticed'
    OBVIOUS
  <1>1. model \in Model
    BY DEF IInv, Sound
  <1>2. ASSUME NEW now \in CallTime, NEW r \in Requests, NEW t \in ReceiveTime,
               Publish(r[1], Received(r[2], t), now)
        PROVE  MovingIsNoticed'
    BY <1>2, PublishKeepsOrRests, ZeroRests DEF AtRest, MovingIsNoticed
  <1>3. ASSUME NEW now \in CallTime, Arbitrate(now)
        PROVE  MovingIsNoticed'
    BY <1>1, <1>3, CallTimeType, ArbitrateNotices
       DEF Arbitrate, MovingIsNoticed
  <1>4. ASSUME NEW now \in CallTime, Stop(now)
        PROVE  MovingIsNoticed'
    BY <1>1, <1>4, CallTimeType, StopFields, ZeroRests
       DEF Stop, AtRest, MovingIsNoticed
  <1>5. CASE UNCHANGED vars \/ Advance
    BY <1>5 DEF vars, Advance, MovingIsNoticed
  <1> QED
    BY <1>2, <1>3, <1>4, <1>5 DEF Next

\* The inductive invariant, with what arbitration has noticed.
LEMMA Noticed == Spec => [](IInv /\ MovingIsNoticed)
  <1>1. Init => MovingIsNoticed
    BY ZeroRests DEF Init, model_init, MovingIsNoticed
  <1> QED BY <1>1, NoticedNext, Inductive, PTL DEF Spec

\* A step that changes the selected source leaves the robot stopped.
LEMMA SwitchStops ==
    ASSUME IInv, Next, model'.selected_source # model.selected_source
    PROVE  ~model'.authority_granted /\ model'.output = 0
  <1>1. model \in Model
    BY DEF IInv, Sound
  <1>2. ASSUME NEW now \in CallTime, NEW r \in Requests, NEW t \in ReceiveTime,
               Publish(r[1], Received(r[2], t), now)
        PROVE  AtRest(model')
    BY <1>2, PublishKeepsOrRests
  <1>3. ASSUME NEW now \in CallTime, Arbitrate(now)
        PROVE  AtRest(model')
    BY <1>1, <1>3, CallTimeType, ArbitrateFields DEF Arbitrate
  <1>4. ASSUME NEW now \in CallTime, Stop(now)
        PROVE  AtRest(model')
    BY <1>1, <1>4, CallTimeType, StopFields DEF Stop
  <1> QED
    BY <1>2, <1>3, <1>4 DEF Next, Advance, AtRest

\* Arbitration that finds the moving source no longer fresh faults.
LEMMA LossFaults ==
    ASSUME IInv, MovingIsNoticed, NEW now \in CallTime,
           velocity_is_moving(model.output),
           ~mailbox_is_fresh(model.mailboxes[model.selected_source], now),
           ~clock_regressed(model, now), Arbitrate(now)
    PROVE  model'.last_decision = "FAULT_STOP"
  <1> DEFINE seen == [model EXCEPT !.last_now_ms = now,
                                   !.has_observed_time = TRUE]
             desired == highest_fresh_source(model, now)
             previous == model.selected_source
  <1>1. model \in Model /\ now \in U64
    BY CallTimeType DEF IInv, Sound
  <1>2. model.output # 0 /\ model.last_output_moving
    BY ZeroRests DEF MovingIsNoticed
  <1>3. previous \in Source /\ previous # NONE
    BY <1>2 DEF IInv, Sound, Source, NONE, BLUETOOTH, RC
  <1>4. desired # previous
    BY <1>3 DEF highest_fresh_source
  <1>5. /\ seen \in Model /\ seen.mailboxes = model.mailboxes
        /\ seen.selected_source = previous /\ seen.last_output_moving
        /\ seen.publication_revision = model.publication_revision
    BY <1>1, <1>2 DEF Model
  <1> HIDE DEF seen, desired
  <1>6. model' = switch_source(seen, desired, now)
    BY <1>4 DEF Arbitrate, model_arbitrate, seen, desired
  <1>7. \E m, r : model' = record_decision(m, "FAULT_STOP", r) /\ m \in Model
    <2> DEFINE f == fence(seen, now)
               x == [f EXCEPT !.counter_exhausted = TRUE,
                              !.selected_source = NONE]
               y == [x EXCEPT !.epoch = next_epoch(seen)]
               z == [f EXCEPT !.epoch = next_epoch(seen),
                              !.selected_source = desired]
    <2>1. f \in Model
      <3>1. [seen EXCEPT !.barrier_revision = seen.publication_revision,
                         !.barrier_time_ms = now] \in Model
        BY <1>1, <1>5 DEF Model
      <3> QED BY <3>1, RevokeType DEF fence
    <2> HIDE DEF f
    <2>2. desired \in Source \union {NONE} /\ next_epoch(seen) \in U64
      BY <1>1, <1>5, HighestType, NextEpoch DEF desired
    <2>3. x \in Model /\ y \in Model /\ z \in Model
      BY <2>1, <2>2 DEF Model
    <2>4. \/ \E r : model' = record_decision(x, "FAULT_STOP", r)
          \/ \E r : model' = record_decision(y, "FAULT_STOP", r)
          \/ \E r : model' = record_decision(z, "FAULT_STOP", r)
      <3> HIDE DEF x, y, z
      <3> QED BY <1>3, <1>5, <1>6 DEF switch_source, x, y, z, f
    <2> QED BY <2>3, <2>4
  <1> QED BY <1>7 DEF record_decision, Model

\* A source takes over only through a stop, and the loss of one that was
\* moving is a fault.
THEOREM HandoverAlwaysClean == Spec => HandoverIsClean
  <1>1. ASSUME IInv, [Next]_vars
        PROVE  [model'.selected_source # model.selected_source
                    => ~model'.authority_granted /\ model'.output = 0]_vars
    BY <1>1, SwitchStops DEF vars
  <1>2. ASSUME IInv, MovingIsNoticed
        PROVE  [\A now \in CallTime :
                   /\ velocity_is_moving(model.output)
                   /\ ~mailbox_is_fresh(model.mailboxes[model.selected_source], now)
                   /\ ~clock_regressed(model, now)
                   /\ Arbitrate(now)
                   => model'.last_decision = "FAULT_STOP"]_vars
    BY <1>2, LossFaults
  <1>3. Spec => SwitchIsStopped
    BY <1>1, Inductive, PTL DEF Spec, SwitchIsStopped
  <1>4. Spec => MovingSourceLossIsFault
    BY <1>2, Noticed, PTL DEF MovingSourceLossIsFault
  <1> QED BY <1>3, <1>4 DEF HandoverIsClean
=============================================================================
