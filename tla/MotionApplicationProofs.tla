---------------------- MODULE MotionApplicationProofs ----------------------
(***************************************************************************)
(* Proofs about MotionApplicationService and its refinement of MotionLease,*)
(* for every width of the clock, every set of requests, any number of      *)
(* failing actuation calls, with and without a serial operator.            *)
(***************************************************************************)
EXTENDS MotionLeaseRefinement, CommandAuthorityLemmas, FiniteSetTheorems

(***************************************************************************)
(* The model's functions: who holds the lease, and what is planned.        *)
(***************************************************************************)

\* A well-typed model whose lease has a stream and a source, or neither.
MotionOK(m) ==
    /\ m \in Motion
    /\ m.active_stream_id = 0 => m.active_source = NONE
    /\ m.active_stream_id # 0 => m.active_source \in {LAN, RC}

Live(m) == m.state \in {"ARMED", "ACTIVE"}

SameHolder(m, n) ==
    /\ n.active_stream_id = m.active_stream_id
    /\ n.active_source = m.active_source

\* The holder keeps the lease: nothing is planned, his command is, or a stop.
Continues(m, o) ==
    /\ SameHolder(m, o.motion)
    /\ \/ o.plan = NoPlan /\ o.motion.state = m.state
       \/ /\ Live(m) /\ o.motion.state = m.state
          /\ \E v \in Velocity : o.plan = ApplyPlan(v, m.active_stream_id)
       \/ o.plan = StopPlan /\ Live(m) /\ Live(o.motion)

\* The lease is withdrawn, with a stop.
Withdrawn(o) ==
    o.plan = StopPlan /\ o.motion.active_stream_id = 0 /\ ~Live(o.motion)

\* What withdraw leaves, whatever state it is asked for.
LEMMA WithdrawLeaves ==
    ASSUME NEW m, MotionOK(m), NEW st \in MotionState
    PROVE  /\ MotionOK(withdraw(m, st))
           /\ withdraw(m, st).active_stream_id = 0
           /\ withdraw(m, st).state = st
  <1> DEFINE full == Len(m.retired_streams) = RetiredStreams
             kept == IF full THEN Tail(m.retired_streams)
                     ELSE m.retired_streams
             retired == IF stream_is_retired(m, m.active_stream_id)
                        THEN m.retired_streams
                        ELSE Append(kept, m.active_stream_id)
             n == retire_active_stream(m)
  <1>1. retired \in Seq(U64)
    <2>1. m.retired_streams \in Seq(U64) /\ m.active_stream_id \in U64
      BY DEF MotionOK, Motion
    <2>2. kept \in Seq(U64)
      <3>1. CASE full
        <4>1. m.retired_streams # <<>>
          BY <3>1, MotionConfig
        <4> QED BY <2>1, <3>1, <4>1
      <3>2. CASE ~full
        BY <2>1, <3>2
      <3> QED BY <3>1, <3>2
    <2> HIDE DEF kept
    <2> QED BY <2>1, <2>2
  <1>2. MotionOK(n) /\ n.active_stream_id = 0
    <2> HIDE DEF retired
    <2>1. n = IF m.active_stream_id = 0 THEN m
              ELSE [m EXCEPT !.retired_streams = retired,
                             !.active_stream_id = 0, !.active_source = NONE,
                             !.deadman = FALSE]
      BY DEF retire_active_stream, retired, kept, full
    <2>2. CASE m.active_stream_id = 0
      BY <2>1, <2>2
    <2>3. CASE m.active_stream_id # 0
      <3> DEFINE w == [m EXCEPT !.retired_streams = retired,
                                !.active_stream_id = 0, !.active_source = NONE,
                                !.deadman = FALSE]
      <3>1. w \in Motion /\ w.active_stream_id = 0 /\ w.active_source = NONE
        BY <1>1, ZeroInRange DEF MotionOK, Motion
      <3>2. n = w
        BY <2>1, <2>3
      <3> QED BY <3>1, <3>2 DEF MotionOK
    <2> QED BY <2>2, <2>3
  <1> HIDE DEF n
  <1>3. withdraw(m, st)
            = [[n EXCEPT !.authority = model_init] EXCEPT !.state = st]
    BY DEF withdraw, reset_authority, n
  <1> QED
    BY <1>2, <1>3, InitType DEF MotionOK, Motion

\* A fault stop withdraws the lease.
LEMMA FaultStopLeaves ==
    ASSUME NEW m, MotionOK(m)
    PROVE  MotionOK(fault_stop(m).motion) /\ Withdrawn(fault_stop(m))
  BY WithdrawLeaves DEF fault_stop, Withdrawn, Outcome, MotionState, Live

\* Arbitrating leaves the lease alone.
LEMMA ArbitrateLeaves ==
    ASSUME NEW m, MotionOK(m), NEW now \in U64
    PROVE  LET n == arbitrate(m, now)
           IN  MotionOK(n) /\ SameHolder(m, n) /\ n.state = m.state
  <1>1. m.authority \in Model
    BY DEF MotionOK, Motion
  <1> DEFINE a == model_arbitrate(m.authority, now)
             n == [m EXCEPT !.authority = a]
  <1>2. a \in Model
    BY <1>1, ArbitrateType
  <1> HIDE DEF a
  <1>3. n \in Motion /\ SameHolder(m, n) /\ n.state = m.state
    BY <1>2 DEF MotionOK, Motion, SameHolder
  <1>4. arbitrate(m, now) = n
    BY DEF arbitrate, a
  <1> HIDE DEF n
  <1> QED
    BY <1>3, <1>4 DEF MotionOK, SameHolder

\* The authority's decision is a continuation of a live lease or its end.
LEMMA ConvertOutcome ==
    ASSUME NEW m, MotionOK(m), Live(m)
    PROVE  LET o == convert_authority_decision(m)
           IN  /\ MotionOK(o.motion)
               /\ \/ Withdrawn(o)
                  \/ Continues(m, o)
  <1> DEFINE o == convert_authority_decision(m)
             a == m.authority
             d == [m EXCEPT !.last_dispatched_revision = a.applied_revision]
             r == [d EXCEPT !.state = "ARMED"]
  <1>1. a.applied_revision \in U64 /\ a.output \in Velocity
    BY DEF MotionOK, Motion, Model
  <1>2. /\ MotionOK(d) /\ SameHolder(m, d) /\ d.authority = m.authority
        /\ d.state = m.state
    BY <1>1 DEF MotionOK, Motion, SameHolder
  <1>3. /\ MotionOK(r) /\ SameHolder(m, r) /\ r.authority = m.authority
        /\ r.state = "ARMED"
    <2> HIDE DEF d
    <2> QED BY <1>2 DEF MotionOK, Motion, SameHolder, MotionState
  <1>4. \/ o = Outcome(withdraw(m, "EXPIRED"), StopPlan, TRUE)
        \/ o = Outcome(m, NoPlan, TRUE)
        \/ o = Outcome(r, StopPlan, TRUE)
        \/ o = fault_stop(d)
        \/ o = Outcome(d, ApplyPlan(a.output, m.active_stream_id), TRUE)
    BY DEF convert_authority_decision
  <1> HIDE DEF o, a, d, r
  <1>5. CASE o = Outcome(withdraw(m, "EXPIRED"), StopPlan, TRUE)
    BY <1>5, WithdrawLeaves DEF Withdrawn, Outcome, MotionState, Live, o
  <1>6. CASE o = Outcome(m, NoPlan, TRUE)
    BY <1>6 DEF Continues, Outcome, SameHolder, o
  <1>7. CASE o = Outcome(r, StopPlan, TRUE)
    BY <1>3, <1>7 DEF Continues, Outcome, Live, o
  <1>8. CASE o = fault_stop(d)
    BY <1>2, <1>8, FaultStopLeaves DEF o
  <1>9. CASE o = Outcome(d, ApplyPlan(a.output, m.active_stream_id), TRUE)
    BY <1>1, <1>2, <1>9 DEF Continues, Outcome, o
  <1> QED
    BY <1>4, <1>5, <1>6, <1>7, <1>8, <1>9 DEF o

\* A tick continues the lease or withdraws a live one.
LEMMA TickOutcome ==
    ASSUME NEW m, MotionOK(m), NEW safety, NEW now \in U64
    PROVE  LET o == tick(m, safety, now)
           IN  /\ MotionOK(o.motion)
               /\ \/ Live(m) /\ Withdrawn(o)
                  \/ Continues(m, o)
  <1> DEFINE o == tick(m, safety, now)
             n == arbitrate(m, now)
  <1>1. \/ ~Live(m) /\ o = Outcome(m, NoPlan, TRUE)
        \/ Live(m) /\ o = fault_stop(m)
        \/ Live(m) /\ o = convert_authority_decision(n)
    BY DEF tick, Live
  <1>2. MotionOK(n) /\ SameHolder(m, n) /\ n.state = m.state
    BY ArbitrateLeaves
  <1> HIDE DEF o, n
  <1>3. CASE o = Outcome(m, NoPlan, TRUE)
    BY <1>3 DEF Continues, Outcome, SameHolder, o
  <1>4. CASE Live(m) /\ o = fault_stop(m)
    BY <1>4, FaultStopLeaves DEF o
  <1>5. CASE Live(m) /\ o = convert_authority_decision(n)
    <2>1. Live(n)
      BY <1>2, <1>5 DEF Live
    <2>2. /\ MotionOK(o.motion)
          /\ Withdrawn(o) \/ Continues(n, o)
      BY <1>2, <1>5, <2>1, ConvertOutcome
    <2>3. Continues(n, o) => Continues(m, o)
      BY <1>2, <1>5, <2>1 DEF Continues, SameHolder, Live
    <2> QED BY <1>5, <2>2, <2>3 DEF o
  <1> QED
    BY <1>1, <1>3, <1>4, <1>5 DEF o

\* The lease an accepted ARM gives: its stream and its source.
Armed(e, o) ==
    /\ o.plan = StopPlan /\ o.motion.state = "ARMED"
    /\ o.motion.active_stream_id = e.stream_id
    /\ o.motion.active_source = e.source

\* The command made of an event is a command.
LEMMA CommandType ==
    ASSUME NEW e \in Event, NEW deadman \in BOOLEAN,
           NEW body \in Int \union {NonFinite}
    PROVE  CommandOf(e, deadman, body) \in Command
  BY ConfigIsValid DEF CommandOf, Command, CommandWith, Event, U64

\* A command published into the authority of a well-typed model.
LEMMA PublishIntoMotion ==
    ASSUME NEW m, MotionOK(m), NEW source \in {LAN, RC}, NEW c \in Command,
           NEW now \in U64
    PROVE  LET a == model_publish(m.authority, source, c, now)
               n == [m EXCEPT !.authority = a]
           IN  /\ source \in Source /\ m.authority \in Model
               /\ MotionOK(n) /\ SameHolder(m, n) /\ n.state = m.state
               /\ n.authority = a
  <1> DEFINE a == model_publish(m.authority, source, c, now)
             n == [m EXCEPT !.authority = a]
  <1>1. source \in Source /\ m.authority \in Model
    BY DEF MotionOK, Motion, Source, BLUETOOTH, LAN, RC
  <1>2. a \in Model
    BY <1>1, PublishType
  <1> HIDE DEF a
  <1>3. MotionOK(n) /\ SameHolder(m, n) /\ n.state = m.state /\ n.authority = a
    BY <1>2 DEF MotionOK, Motion, SameHolder
  <1> QED
    BY <1>1, <1>3 DEF n, a

\* An ARM is refused, which leaves a held lease alone, or takes a free one.
LEMMA ArmOutcome ==
    ASSUME NEW m, MotionOK(m), NEW e \in Event, NEW safety, NEW now \in U64
    PROVE  LET o == handle_arm(m, e, safety, now)
           IN  /\ MotionOK(o.motion)
               /\ \/ /\ o.plan = NoPlan /\ SameHolder(m, o.motion)
                     /\ o.motion.state = m.state
                     /\ m.active_stream_id # 0 => o.motion = m
                  \/ /\ m.active_stream_id = 0 /\ e.stream_id # 0
                     /\ e.source \in {LAN, RC} /\ Armed(e, o)
  <1> DEFINE o == handle_arm(m, e, safety, now)
             f == [m EXCEPT !.authority = model_init]
             c == CommandOf(e, FALSE, 0)
             p == [f EXCEPT !.authority =
                       model_publish(f.authority, e.source, c, now)]
             n == arbitrate(p, now)
             g == [n EXCEPT !.active_stream_id = e.stream_id,
                            !.active_source = e.source,
                            !.deadman = FALSE,
                            !.state = "ARMED",
                            !.last_dispatched_revision = 0]
  <1>1. \/ o = Outcome(m, NoPlan, FALSE)
        \/ /\ e.source \in {LAN, RC} /\ e.stream_id # 0
           /\ m.active_stream_id = 0
           /\ \/ o = Outcome(p, NoPlan, FALSE)
              \/ /\ o = Outcome(g, StopPlan, TRUE)
                 /\ publish_verdict(f.authority, e.source, c, now) = "OK"
    BY DEF handle_arm, reset_authority, event_source_supported
  <1>2. MotionOK(f) /\ SameHolder(m, f) /\ f.state = m.state
    BY InitType DEF MotionOK, Motion, SameHolder
  <1> HIDE DEF f
  <1>3. ASSUME e.source \in {LAN, RC}
        PROVE  /\ c \in Command /\ e.source \in Source
               /\ f.authority \in Model
               /\ MotionOK(p) /\ SameHolder(f, p) /\ p.state = f.state
    <2>1. 0 \in Int \union {NonFinite}
      OBVIOUS
    <2>2. c \in Command
      BY <2>1, CommandType
    <2> HIDE DEF c
    <2> QED BY <1>2, <1>3, <2>2, PublishIntoMotion
  <1> HIDE DEF c, p
  <1>4. ASSUME MotionOK(p)
        PROVE  MotionOK(n)
    BY <1>4, ArbitrateLeaves
  <1> HIDE DEF n
  <1>5. ASSUME e.source \in {LAN, RC}, e.stream_id # 0, MotionOK(n)
        PROVE  /\ MotionOK(g) /\ g.state = "ARMED"
               /\ g.active_stream_id = e.stream_id
               /\ g.active_source = e.source
    BY <1>5, ZeroInRange
       DEF MotionOK, Motion, MotionState, Event, Source, LAN, RC, BLUETOOTH
  <1> HIDE DEF o, g
  <1>6. CASE o = Outcome(m, NoPlan, FALSE)
    BY <1>6 DEF Outcome, SameHolder, o
  <1>7. CASE /\ e.source \in {LAN, RC} /\ m.active_stream_id = 0
             /\ o = Outcome(p, NoPlan, FALSE)
    BY <1>2, <1>3, <1>7 DEF Outcome, SameHolder, o
  <1>8. CASE /\ e.source \in {LAN, RC} /\ e.stream_id # 0
             /\ m.active_stream_id = 0
             /\ o = Outcome(g, StopPlan, TRUE)
             /\ publish_verdict(f.authority, e.source, c, now) = "OK"
    <2>1. /\ MotionOK(g)
          /\ g.state = "ARMED" /\ g.active_stream_id = e.stream_id
          /\ g.active_source = e.source
      BY <1>3, <1>4, <1>5, <1>8
    <2> QED BY <1>8, <2>1 DEF Outcome, Armed, o
  <1> QED
    BY <1>1, <1>6, <1>7, <1>8 DEF o

\* A command continues the lease it belongs to or ends it.
LEMMA CommandOutcome ==
    ASSUME NEW m, MotionOK(m), NEW e \in Event, NEW safety, NEW now \in U64
    PROVE  LET o == handle_command(m, e, safety, now)
           IN  /\ MotionOK(o.motion)
               /\ \/ o.motion = m /\ o.plan = NoPlan
                  \/ /\ Live(m) /\ m.active_stream_id # 0
                     /\ Withdrawn(o) \/ Continues(m, o)
  <1> DEFINE o == handle_command(m, e, safety, now)
             c == CommandOf(e, e.deadman, e.body)
             p == [m EXCEPT !.authority =
                       model_publish(m.authority, e.source, c, now)]
             n == arbitrate(p, now)
             g == [n EXCEPT !.deadman = e.deadman]
  <1>1. \/ o = Outcome(m, NoPlan, FALSE)
        \/ /\ Live(m) /\ e.source \in {LAN, RC} /\ e.source = m.active_source
           /\ \/ o = fault_stop(m)
              \/ \E r \in {NoPlan, StopPlan} : o = Outcome(p, r, FALSE)
              \/ o = convert_authority_decision(g)
    BY DEF handle_command, event_source_supported, Live
  <1>2. ASSUME e.source \in {LAN, RC}
        PROVE  /\ c \in Command /\ e.source \in Source
               /\ m.authority \in Model
               /\ MotionOK(p) /\ SameHolder(m, p) /\ p.state = m.state
    <2>1. e.deadman \in BOOLEAN /\ e.body \in Int \union {NonFinite}
      BY DEF Event
    <2>2. c \in Command
      BY <2>1, CommandType
    <2> HIDE DEF c
    <2> QED BY <1>2, <2>2, PublishIntoMotion
  <1> HIDE DEF c, p
  <1>3. ASSUME e.source \in {LAN, RC}, e.source = m.active_source
        PROVE  m.active_stream_id # 0
    BY <1>3 DEF MotionOK, NONE, LAN, RC
  <1>4. ASSUME MotionOK(p)
        PROVE  MotionOK(n) /\ SameHolder(p, n) /\ n.state = p.state
    BY <1>4, ArbitrateLeaves
  <1> HIDE DEF n
  <1>5. ASSUME MotionOK(n)
        PROVE  MotionOK(g) /\ SameHolder(n, g) /\ g.state = n.state
    BY <1>5 DEF MotionOK, Motion, Event, SameHolder
  <1> HIDE DEF o, g
  <1>6. CASE o = Outcome(m, NoPlan, FALSE)
    BY <1>6 DEF Outcome, o
  <1>7. CASE /\ Live(m) /\ e.source \in {LAN, RC} /\ e.source = m.active_source
             /\ o = fault_stop(m)
    BY <1>3, <1>7, FaultStopLeaves DEF o
  <1>8. CASE /\ Live(m) /\ e.source \in {LAN, RC} /\ e.source = m.active_source
             /\ \E r \in {NoPlan, StopPlan} : o = Outcome(p, r, FALSE)
    <2>1. MotionOK(o.motion) /\ Continues(m, o) /\ o.motion = p
      BY <1>2, <1>8 DEF Continues, Outcome, Live
    <2> QED BY <1>3, <1>8, <2>1 DEF o
  <1>9. CASE /\ Live(m) /\ e.source \in {LAN, RC} /\ e.source = m.active_source
             /\ o = convert_authority_decision(g)
    <2>1. MotionOK(g) /\ SameHolder(m, g) /\ g.state = m.state /\ Live(g)
      BY <1>2, <1>4, <1>5, <1>9 DEF SameHolder, Live
    <2>2. /\ MotionOK(o.motion)
          /\ Withdrawn(o) \/ Continues(g, o)
      BY <1>9, <2>1, ConvertOutcome
    <2>3. Continues(g, o) => Continues(m, o)
      BY <1>9, <2>1 DEF Continues, SameHolder
    <2> QED BY <1>3, <1>9, <2>2, <2>3 DEF o
  <1> QED
    BY <1>1, <1>6, <1>7, <1>8, <1>9 DEF o

\* What submit makes of an event that is not from the future.
LEMMA SubmitOutcome ==
    ASSUME NEW m, MotionOK(m), NEW e \in Event, NEW safety, NEW now \in U64,
           e.received_at_ms <= now
    PROVE  LET o == submit(m, e, safety, now)
           IN  /\ MotionOK(o.motion)
               /\ e.action \in {"STOP", "DISARM"} => Withdrawn(o)
               /\ e.action = "ARM" => o = handle_arm(m, e, safety, now)
               /\ e.action = "COMMAND" => o = handle_command(m, e, safety, now)
  <1>1. ~(e.received_at_ms > now)
    BY ConfigIsValid DEF Event, U64
  <1>2. e.action \in {"ARM", "COMMAND", "STOP", "DISARM"}
    BY DEF Event
  <1>3. CASE e.action = "ARM"
    BY <1>1, <1>3, ArmOutcome DEF submit
  <1>4. CASE e.action = "COMMAND"
    BY <1>1, <1>4, CommandOutcome DEF submit
  <1>5. CASE e.action \in {"STOP", "DISARM"}
    <2>1. submit(m, e, safety, now)
              = Outcome(withdraw(m, "DISARMED"), StopPlan, TRUE)
      BY <1>1, <1>5 DEF submit
    <2> QED
      BY <1>5, <2>1, WithdrawLeaves
         DEF Outcome, Withdrawn, Live, MotionState
  <1> QED
    BY <1>2, <1>3, <1>4, <1>5

\* An emergency stop withdraws the lease whatever it holds.
LEMMA EmergencyOutcome ==
    ASSUME NEW m, MotionOK(m), NEW now \in U64
    PROVE  /\ MotionOK(emergency_submit(m, now).motion)
           /\ Withdrawn(emergency_submit(m, now))
  <1> DEFINE e == [action |-> "STOP", source |-> NONE, stream_id |-> 0,
                   sequence |-> 0, received_at_ms |-> now, deadman |-> FALSE,
                   body |-> 0]
  <1>1. e \in Event /\ e.action = "STOP" /\ e.received_at_ms <= now
    BY ZeroInRange DEF Event, U64
  <1> HIDE DEF e
  <1>2. /\ MotionOK(submit(m, e, TRUE, now).motion)
        /\ Withdrawn(submit(m, e, TRUE, now))
    BY <1>1, SubmitOutcome
  <1> QED
    BY <1>2 DEF emergency_submit, e

(***************************************************************************)
(* The inductive invariant.                                                *)
(***************************************************************************)

\* A mailbox holds at most one event, of its kind, received by now.
Slot(box, actions) ==
    box = {} \/ \E e \in Event : /\ box = {e} /\ e.action \in actions
                                 /\ e.received_at_ms <= clock

Slots ==
    /\ Slot(stop_event, {"STOP", "DISARM"})
    /\ Slot(arm_event, {"ARM"}) /\ Slot(command_event, {"COMMAND"})

\* What waits was published after the last STOP a client published.
NothingWaitsOverruled ==
    \A i \in {"arm", "command"} : "published" \notin overruled[i]

\* The rest of the handle and the task's locals.
Scalars ==
    /\ {pending_stop, stop_requested, safe, success, gate, stop_failed}
           \subseteq BOOLEAN
    /\ pc \in {"off", "wait", "cycle", "execute", "record", "final",
               "final_record", "done"}
    /\ plan \in Plan /\ serial \in {"idle", "stop_all"}
    /\ wheels \in Velocity /\ driver \in U64 /\ clock \in U64
    /\ overruled \in [Intent -> SUBSET {"published", "emergency"}]
    /\ failures \in 0..MaxFailures

\* The plan in the task's hands: a STOP at zero speed, or an APPLY of the
\* lease in force, unless an emergency stop has overtaken it.
PlanInHand ==
    /\ pc \in {"execute", "record"} =>
         \/ plan = StopPlan
         \/ /\ plan.action = "APPLY"
            /\ \/ pending_stop
               \/ Live(motion) /\ motion.active_stream_id = plan.stream
    /\ pc = "record" /\ plan.action = "APPLY" => driver = plan.stream

\* A STOP that was executed has stopped the wheels or failed.
StopExecuted ==
    \/ pc = "record" /\ plan.action = "STOP"
    \/ pc \in {"final_record", "done"}
    => wheels = 0 \/ stop_failed

\* A failed STOP leaves nobody driving: the task has yet to record it, and
\* from then on only a STOP is executed until one succeeds.
FailedStopBlocks ==
    /\ stop_failed =>
         /\ pc \in {"execute", "record"} => plan.action = "STOP"
         /\ Live(motion) => pc \in {"execute", "record", "final_record"}
    /\ pc = "record" /\ plan.action = "STOP" => stop_failed = ~success
    /\ pc = "final_record" => stop_failed = ~success

\* A STOP plan waits only when the lease has been withdrawn.
StopHoldsNoLease == pending_stop => motion.active_stream_id = 0

\* Turning wheels are the active stream's, or a STOP is on its way; an APPLY
\* about to be executed is of the stream that turned them.
WheelsAreTheHolders ==
    wheels # 0 /\ ~stop_failed =>
        /\ StopUnderway \/ motion.active_stream_id = driver
        /\ pc = "execute" /\ plan.action = "APPLY" => plan.stream = driver

IInv ==
    /\ MotionOK(motion) /\ Slots /\ NothingWaitsOverruled /\ Scalars
    /\ ApplyNeverWaits /\ PlanInHand /\ StopExecuted /\ StopHoldsNoLease
    /\ MovingIsCovered /\ WheelsAreTheHolders
    /\ FailedStopBlocks /\ StreamIsNotOverruled

(***************************************************************************)
(* One cycle of the task.                                                  *)
(***************************************************************************)

\* The event of a mailbox that is not empty.
LEMMA SlotHolds ==
    ASSUME NEW box, NEW actions, Slot(box, actions), box # {}
    PROVE  LET e == CHOOSE x \in box : TRUE
           IN  /\ e \in Event /\ box = {e} /\ e \in box
               /\ e.action \in actions /\ e.received_at_ms <= clock
  BY DEF Slot

\* How the outcome becomes the cycle's: a plan that is due wins over the
\* tick, and a STOP over an APPLY.
LEMMA CycleSettles ==
    ASSUME Cycle, ApplyNeverWaits, pending_stop \in BOOLEAN
    PROVE  /\ Submitted.plan = StopPlan \/ (Submitted.plan = NoPlan
                                            /\ pending_stop) =>
                /\ motion' = Submitted.motion /\ plan' = StopPlan
                /\ pc' = "execute" /\ pending_apply' = {}
           /\ Submitted.plan = NoPlan /\ ~pending_stop =>
                /\ motion' = tick(Submitted.motion, safe, clock).motion
                /\ plan' = tick(Submitted.motion, safe, clock).plan
                /\ pc' = IF plan'.action = "NONE" THEN "wait" ELSE "execute"
                /\ pending_apply' = {}
           /\ Submitted.plan.action = "APPLY" /\ ~pending_stop =>
                /\ motion' = Submitted.motion /\ plan' = Submitted.plan
                /\ pc' = "execute" /\ pending_apply' = {}
           /\ pending_stop' = FALSE
  <1> DEFINE o == Submitted
             queued == queue_plan(o.plan)
             ticked == tick(o.motion, safe, clock)
             due == queued[1] \/ queued[2] # {}
  <1>1. /\ pending_stop' = FALSE
        /\ pending_apply' = IF queued[1] THEN queued[2] ELSE {}
        /\ motion' = IF due THEN o.motion ELSE ticked.motion
        /\ plan' = IF queued[1] THEN StopPlan
                   ELSE IF due THEN CHOOSE p \in queued[2] : TRUE
                   ELSE ticked.plan
        /\ pc' = IF plan'.action = "NONE" THEN "wait" ELSE "execute"
    BY DEF Cycle, Submitted
  <1>2. StopPlan.action = "STOP" /\ NoPlan.action = "NONE"
    BY DEF StopPlan, NoPlan
  <1> HIDE DEF o, ticked
  <1>3. CASE o.plan = StopPlan
    <2>1. queued = <<TRUE, {}>>
      BY <1>2, <1>3 DEF queue_plan
    <2> HIDE DEF queued
    <2>2. /\ motion' = o.motion /\ plan' = StopPlan /\ pending_apply' = {}
          /\ pc' = "execute"
      BY <1>1, <1>2, <2>1
    <2>3. o.plan # NoPlan /\ o.plan.action # "APPLY"
      BY <1>2, <1>3
    <2> QED BY <1>1, <1>3, <2>2, <2>3 DEF o
  <1>4. CASE o.plan = NoPlan
    <2>1. queued = <<pending_stop, {}>>
      BY <1>2, <1>4 DEF queue_plan, ApplyNeverWaits
    <2>2. CASE pending_stop
      BY <1>1, <1>2, <1>4, <2>1, <2>2 DEF o
    <2>3. CASE ~pending_stop
      BY <1>1, <1>2, <1>4, <2>1, <2>3 DEF o, ticked, NoPlan, StopPlan
    <2> QED BY <2>2, <2>3
  <1>5. CASE o.plan.action = "APPLY" /\ ~pending_stop
    <2>1. queued = <<FALSE, {o.plan}>>
      BY <1>5 DEF queue_plan
    <2>2. (CHOOSE p \in {o.plan} : TRUE) = o.plan
      OBVIOUS
    <2> HIDE DEF queued
    <2>3. due /\ motion' = o.motion /\ plan' = o.plan /\ pending_apply' = {}
      BY <1>1, <2>1, <2>2
    <2> QED BY <1>1, <1>2, <1>5, <2>3 DEF o
  <1> QED
    BY <1>1, <1>3, <1>4, <1>5 DEF o

\* What a cycle may do to the lease: withdraw it, let it continue, grant it.
Ends ==
    /\ Live(motion) \/ stop_event # {}
    /\ motion'.active_stream_id = 0 /\ ~Live(motion') /\ plan' = StopPlan

Goes ==
    /\ SameHolder(motion, motion') /\ (Live(motion') <=> Live(motion))
    /\ stop_event = {}
    /\ \/ plan' = StopPlan
       \/ plan' = NoPlan /\ ~pending_stop
       \/ /\ ~pending_stop /\ Live(motion)
          /\ \E v \in Velocity : plan' = ApplyPlan(v, motion.active_stream_id)

Arms ==
    /\ motion.active_stream_id = 0 /\ plan' = StopPlan
    /\ motion'.state = "ARMED"
    /\ stop_event = {}
    /\ \E e \in arm_event :
         /\ arm_event = {e} /\ e.stream_id # 0 /\ e.source \in {LAN, RC}
         /\ motion'.active_stream_id = e.stream_id
         /\ motion'.active_source = e.source

\* A refused event, or none: the rest of the cycle, a waiting STOP or a tick.
LEMMA CycleWithoutPlan ==
    ASSUME IInv, Cycle, stop_event = {}, NEW n, Submitted.motion = n,
           Submitted.plan = NoPlan, MotionOK(n), SameHolder(motion, n),
           n.state = motion.state
    PROVE  MotionOK(motion') /\ (Ends \/ Goes)
  <1>1. CASE pending_stop
    <2>1. motion' = n /\ plan' = StopPlan
      BY <1>1, CycleSettles DEF IInv, Scalars
    <2> QED BY <2>1 DEF Goes, Live
  <1>2. CASE ~pending_stop
    <2> DEFINE t == tick(n, safe, clock)
    <2>1. motion' = t.motion /\ plan' = t.plan
      BY <1>2, CycleSettles DEF IInv, Scalars
    <2>2. clock \in U64
      BY DEF IInv, Scalars
    <2>3. /\ MotionOK(t.motion)
          /\ (Live(n) /\ Withdrawn(t)) \/ Continues(n, t)
      BY <2>2, TickOutcome
    <2> HIDE DEF t
    <2>4. CASE Live(n) /\ Withdrawn(t)
      BY <2>1, <2>3, <2>4 DEF Ends, Withdrawn, Live
    <2>5. CASE Continues(n, t)
      <3>1. SameHolder(motion, motion')
        BY <2>1, <2>5 DEF Continues, SameHolder
      <3>2. Live(motion') <=> Live(motion)
        BY <2>1, <2>5 DEF Continues, Live
      <3>3. \/ plan' = StopPlan
            \/ plan' = NoPlan
            \/ /\ Live(motion)
               /\ \E v \in Velocity :
                    plan' = ApplyPlan(v, motion.active_stream_id)
        BY <2>1, <2>5 DEF Continues, SameHolder, Live
      <3> QED BY <1>2, <2>1, <2>3, <3>1, <3>2, <3>3 DEF Goes
    <2> QED BY <2>3, <2>4, <2>5
  <1> QED
    BY <1>1, <1>2 DEF IInv, Scalars

\* Every cycle withdraws the lease, lets it continue or grants it, and takes
\* whatever plan was waiting.
LEMMA CycleResult ==
    ASSUME IInv, Cycle
    PROVE  /\ MotionOK(motion') /\ (Ends \/ Goes \/ Arms)
           /\ pending_stop' = FALSE /\ pending_apply' = {}
  <1> DEFINE o == Submitted
  <1>0. /\ MotionOK(motion) /\ clock \in U64 /\ pending_stop \in BOOLEAN
        /\ ApplyNeverWaits
        /\ Slot(stop_event, {"STOP", "DISARM"})
        /\ Slot(arm_event, {"ARM"}) /\ Slot(command_event, {"COMMAND"})
    BY DEF IInv, Scalars, Slots
  <1>1. pending_stop' = FALSE
    BY <1>0, CycleSettles
  <1>2. CASE stop_event # {}
    <2> DEFINE e == CHOOSE x \in stop_event : TRUE
    <2>1. /\ e \in Event /\ e.action \in {"STOP", "DISARM"}
          /\ e.received_at_ms <= clock
      BY <1>0, <1>2, SlotHolds
    <2>2. o = submit(motion, e, safe, clock)
      BY <1>2 DEF Submitted, take_pending_event
    <2> HIDE DEF e, o
    <2>3. MotionOK(o.motion) /\ Withdrawn(o)
      BY <1>0, <2>1, <2>2, SubmitOutcome
    <2>4. motion' = o.motion /\ plan' = StopPlan /\ pending_apply' = {}
      BY <1>0, <2>3, CycleSettles DEF Withdrawn, o
    <2> QED BY <1>1, <1>2, <2>3, <2>4 DEF Ends, Withdrawn, Live
  <1>3. CASE stop_event = {} /\ arm_event # {}
    <2> DEFINE e == CHOOSE x \in arm_event : TRUE
    <2>1. /\ e \in Event /\ e.action = "ARM" /\ e.received_at_ms <= clock
          /\ arm_event = {e} /\ e \in arm_event
      BY <1>0, <1>3, SlotHolds
    <2>2. o = submit(motion, e, safe, clock)
      BY <1>3 DEF Submitted, take_pending_event
    <2> HIDE DEF e, o
    <2>3. o = handle_arm(motion, e, safe, clock)
      BY <1>0, <2>1, <2>2, SubmitOutcome
    <2>4. /\ MotionOK(o.motion)
          /\ \/ /\ o.plan = NoPlan /\ SameHolder(motion, o.motion)
                /\ o.motion.state = motion.state
                /\ motion.active_stream_id # 0 => o.motion = motion
             \/ /\ motion.active_stream_id = 0 /\ e.stream_id # 0
                /\ e.source \in {LAN, RC} /\ Armed(e, o)
      BY <1>0, <2>1, <2>3, ArmOutcome
    <2>5. CASE /\ o.plan = NoPlan /\ SameHolder(motion, o.motion)
               /\ o.motion.state = motion.state
               /\ motion.active_stream_id # 0 => o.motion = motion
      <3>1. MotionOK(motion') /\ (Ends \/ Goes)
        BY <1>3, <2>4, <2>5, CycleWithoutPlan DEF o
      <3>2. pending_apply' = {}
        BY <1>0, <2>5, CycleSettles DEF o
      <3> QED BY <1>1, <3>1, <3>2
    <2>6. CASE /\ motion.active_stream_id = 0 /\ e.stream_id # 0
               /\ e.source \in {LAN, RC} /\ Armed(e, o)
      <3>1. motion' = o.motion /\ plan' = StopPlan /\ pending_apply' = {}
        BY <1>0, <2>6, CycleSettles DEF Armed, o
      <3>2. Arms
        BY <1>3, <2>1, <2>6, <3>1 DEF Arms, Armed
      <3> QED BY <1>1, <2>4, <3>1, <3>2
    <2> QED BY <2>4, <2>5, <2>6
  <1>4. CASE stop_event = {} /\ arm_event = {} /\ command_event # {}
    <2> DEFINE e == CHOOSE x \in command_event : TRUE
    <2>1. /\ e \in Event /\ e.action = "COMMAND" /\ e.received_at_ms <= clock
          /\ e \in command_event
      BY <1>0, <1>4, SlotHolds
    <2>2. o = submit(motion, e, safe, clock)
      BY <1>4 DEF Submitted, take_pending_event
    <2> HIDE DEF e, o
    <2>3. o = handle_command(motion, e, safe, clock)
      BY <1>0, <2>1, <2>2, SubmitOutcome
    <2>4. /\ MotionOK(o.motion)
          /\ \/ o.motion = motion /\ o.plan = NoPlan
             \/ /\ Live(motion) /\ motion.active_stream_id # 0
                /\ Withdrawn(o) \/ Continues(motion, o)
      BY <1>0, <2>1, <2>3, CommandOutcome
    <2>5. ASSUME Live(motion), Withdrawn(o)
          PROVE  Ends /\ MotionOK(motion') /\ pending_apply' = {}
      <3>1. motion' = o.motion /\ plan' = StopPlan /\ pending_apply' = {}
        BY <1>0, <2>5, CycleSettles DEF Withdrawn, o
      <3> QED BY <2>4, <2>5, <3>1 DEF Ends, Withdrawn, Live
    <2>6. ASSUME o.plan = NoPlan, SameHolder(motion, o.motion),
                 o.motion.state = motion.state
          PROVE  (Ends \/ Goes) /\ MotionOK(motion') /\ pending_apply' = {}
      <3>1. MotionOK(motion') /\ (Ends \/ Goes)
        BY <1>4, <2>1, <2>4, <2>6, CycleWithoutPlan DEF o
      <3>2. pending_apply' = {}
        BY <1>0, <2>6, CycleSettles DEF o
      <3> QED BY <3>1, <3>2
    <2>7. ASSUME o.motion = motion, o.plan = NoPlan
          PROVE  (Ends \/ Goes) /\ MotionOK(motion') /\ pending_apply' = {}
      BY <2>6, <2>7 DEF SameHolder
    <2>8. ASSUME Live(motion), motion.active_stream_id # 0,
                 Continues(motion, o)
          PROVE  (Ends \/ Goes) /\ MotionOK(motion') /\ pending_apply' = {}
      <3>0. ~pending_stop
        BY <2>8 DEF IInv, StopHoldsNoLease
      <3>1. CASE o.plan = NoPlan /\ o.motion.state = motion.state
        BY <2>6, <2>8, <3>1 DEF Continues
      <3>2. CASE /\ o.motion.state = motion.state
                 /\ \E v \in Velocity :
                      o.plan = ApplyPlan(v, motion.active_stream_id)
        <4>1. o.plan.action = "APPLY"
          BY <3>2 DEF ApplyPlan
        <4>2. motion' = o.motion /\ plan' = o.plan /\ pending_apply' = {}
          BY <1>0, <3>0, <4>1, CycleSettles DEF o
        <4> QED
          BY <1>4, <2>1, <2>4, <2>8, <3>0, <3>2, <4>2
             DEF Goes, Continues, Live
      <3>3. CASE o.plan = StopPlan /\ Live(o.motion)
        <4>1. motion' = o.motion /\ plan' = StopPlan /\ pending_apply' = {}
          BY <1>0, <3>3, CycleSettles DEF o
        <4> QED
          BY <1>4, <2>1, <2>4, <2>8, <3>3, <4>1 DEF Goes, Continues, Live
      <3> QED BY <2>8, <3>1, <3>2, <3>3 DEF Continues
    <2> QED BY <1>1, <2>4, <2>5, <2>7, <2>8
  <1>5. CASE stop_event = {} /\ arm_event = {} /\ command_event = {}
    <2>1. o = Outcome(motion, NoPlan, TRUE)
      BY <1>5 DEF Submitted, take_pending_event
    <2>2. o.motion = motion /\ o.plan = NoPlan
      BY <2>1 DEF Outcome
    <2> HIDE DEF o
    <2>3. MotionOK(motion') /\ (Ends \/ Goes)
      BY <1>0, <1>5, <2>2, CycleWithoutPlan DEF o, SameHolder
    <2>4. pending_apply' = {}
      BY <1>0, <2>2, CycleSettles DEF o
    <2> QED BY <1>1, <2>3, <2>4
  <1> QED
    BY <1>2, <1>3, <1>4, <1>5

(***************************************************************************)
(* Every step keeps the invariant.                                         *)
(***************************************************************************)

\* Initially the task is off, nothing waits and the wheels are at rest.
LEMMA InitIInv == Init => IInv
  <1> SUFFICES ASSUME Init PROVE IInv
    OBVIOUS
  <1>1. MotionOK(motion)
    BY InitType, ZeroInRange, ConfigIsValid
       DEF Init, motion_init, MotionOK, Motion, MotionState
  <1>2. Scalars
    <2>1. {pending_stop, stop_requested, safe, success, gate, stop_failed}
              \subseteq BOOLEAN
      BY DEF Init
    <2>2. NoPlan \in Plan /\ 0 \in 0..MaxFailures
      BY ZeroInRange, ServiceAssumption DEF NoPlan, Plan
    <2> QED BY <2>1, <2>2, ZeroInRange DEF Init, Scalars
  <1>3. Slots /\ NothingWaitsOverruled
    BY DEF Init, Slots, Slot, NothingWaitsOverruled, Intent
  <1>4. FailedStopBlocks /\ StreamIsNotOverruled
    BY DEF Init, FailedStopBlocks, StreamIsNotOverruled, Intent
  <1> QED
    BY <1>1, <1>2, <1>3, <1>4
       DEF Init, IInv, ApplyNeverWaits, PlanInHand, StopExecuted,
           StopHoldsNoLease, MovingIsCovered, WheelsAreTheHolders

\* A step that moves nothing the invariant speaks of but the clock.
LEMMA AdvanceIInv ==
    ASSUME IInv, Advance
    PROVE  IInv'
  <1>1. clock \in U64 /\ clock' = clock + 1 /\ clock' \in U64
    BY ServiceAssumption, ConfigIsValid DEF IInv, Scalars, Advance, U64
  <1>2. ASSUME NEW box, NEW actions, Slot(box, actions)
        PROVE  box = {} \/ \E e \in Event :
                   /\ box = {e} /\ e.action \in actions
                   /\ e.received_at_ms <= clock'
    BY <1>1, <1>2 DEF Slot, Event, U64
  <1>3. Slots'
    BY <1>2 DEF Slots, Slot, IInv, Advance, mailboxes
  <1> QED
    BY <1>1, <1>3
       DEF Advance, model, mailboxes, plans, task, actuation, IInv, Scalars,
           NothingWaitsOverruled, ApplyNeverWaits, PlanInHand, StopExecuted,
           StopHoldsNoLease, MovingIsCovered, StopUnderway,
           WheelsAreTheHolders, FailedStopBlocks, StreamIsNotOverruled

\* The steps that touch neither the model, nor a mailbox, nor a plan, nor
\* the wheels.
LEMMA QuietIInv ==
    ASSUME IInv, Start \/ BeginCycle \/ RequestShutdown \/ GateChanges
    PROVE  IInv'
  <1>1. /\ UNCHANGED <<model, mailboxes, plans, plan, clock, actuation,
                       success, serial>>
        /\ \/ pc' = pc
           \/ pc = "off" /\ pc' = "wait"
           \/ pc = "wait" /\ pc' \in {"final", "cycle"}
        /\ stop_requested' \in {stop_requested, TRUE}
        /\ safe' \in {safe, gate} /\ gate' \in {gate, ~gate}
    BY DEF Start, BeginCycle, RequestShutdown, GateChanges, task,
           environment
  <1>2. Scalars'
    BY <1>1 DEF IInv, Scalars, model, plans, actuation
  <1>3. Slots' /\ NothingWaitsOverruled'
    BY <1>1 DEF IInv, Slots, Slot, NothingWaitsOverruled, mailboxes, model
  <1>4. PlanInHand' /\ StopExecuted'
    BY <1>1 DEF IInv, PlanInHand, StopExecuted, model, plans, actuation
  <1>5. MovingIsCovered' /\ WheelsAreTheHolders'
    BY <1>1 DEF IInv, MovingIsCovered, WheelsAreTheHolders, StopUnderway,
           model, plans, actuation
  <1>6. FailedStopBlocks' /\ StreamIsNotOverruled'
    BY <1>1 DEF IInv, FailedStopBlocks, StreamIsNotOverruled, Live, model,
           mailboxes, actuation
  <1> QED
    BY <1>1, <1>2, <1>3, <1>4, <1>5, <1>6
       DEF IInv, model, plans, ApplyNeverWaits, StopHoldsNoLease

\* A published event is one, and no STOP adds to the histories but its kind.
LEMMA StampType ==
    ASSUME IInv, NEW r \in Requests, NEW at \in 0..clock
    PROVE  /\ Stamped(r, at) \in Event /\ Stamped(r, at).action = r.action
           /\ Stamped(r, at).stream_id = r.stream_id
           /\ Stamped(r, at).source = r.source
           /\ Stamped(r, at).source \in {LAN, RC}
           /\ Stamped(r, at).received_at_ms <= clock
  <1>1. at \in U64 /\ at <= clock
    BY ConfigIsValid DEF IInv, Scalars, U64
  <1> QED
    BY <1>1, ServiceAssumption DEF Stamped, Event, Source, LAN, RC, BLUETOOTH

LEMMA OverruledType ==
    ASSUME overruled \in [Intent -> SUBSET {"published", "emergency"}],
           NEW kind \in {"published", "emergency"}
    PROVE  Overruled(kind) \in [Intent -> SUBSET {"published", "emergency"}]
  BY DEF Overruled

\* A publication puts an event of some earlier reading of the clock into its
\* mailbox; a STOP empties the other two.
LEMMA PublishIInv ==
    ASSUME IInv, NEW r \in Requests, NEW at \in 0..clock, Publish(r, at)
    PROVE  IInv'
  <1> DEFINE e == Stamped(r, at)
  <1>1. /\ e \in Event /\ e.received_at_ms <= clock
        /\ e.action \in {"ARM", "COMMAND", "DISARM", "STOP"}
    BY ServiceAssumption, StampType
  <1>2. /\ pending_apply' = {}
        /\ UNCHANGED <<motion, pending_stop, stop_requested, task,
                       environment, actuation>>
    BY DEF Publish, IInv, ApplyNeverWaits
  <1>3. \/ /\ e.action \in {"STOP", "DISARM"} /\ stop_event' = {e}
           /\ arm_event' = {} /\ command_event' = {}
           /\ overruled' = Overruled("published")
        \/ /\ e.action = "ARM" /\ arm_event' = {e}
           /\ UNCHANGED <<stop_event, command_event>>
           /\ overruled' = [overruled EXCEPT !["arm"] = {}]
        \/ /\ e.action = "COMMAND" /\ command_event' = {e}
           /\ UNCHANGED <<stop_event, arm_event>>
           /\ overruled' = [overruled EXCEPT !["command"] = {}]
    BY <1>1 DEF Publish, publish_mailboxes
  <1> HIDE DEF e
  <1>4. Slots'
    <2>1. clock' = clock
      BY <1>2 DEF environment
    <2> QED BY <1>1, <1>3, <2>1 DEF Slots, Slot, IInv
  <1>5. /\ NothingWaitsOverruled' /\ StreamIsNotOverruled'
        /\ overruled' \in [Intent -> SUBSET {"published", "emergency"}]
    <2>1. CASE overruled' = Overruled("published") /\ stop_event' = {e}
                  /\ arm_event' = {} /\ command_event' = {}
      <3>1. Overruled("published")
                \in [Intent -> SUBSET {"published", "emergency"}]
        BY OverruledType DEF IInv, Scalars
      <3> QED
        BY <2>1, <3>1 DEF NothingWaitsOverruled, StreamIsNotOverruled,
                          Overruled, Stands, Intent
    <2>2. CASE /\ stop_event' = stop_event
               /\ \E i \in {"arm", "command"} :
                    overruled' = [overruled EXCEPT ![i] = {}]
      BY <2>2 DEF IInv, Scalars, NothingWaitsOverruled,
                  StreamIsNotOverruled, Intent
    <2> QED BY <1>3, <2>1, <2>2
  <1> QED
    BY <1>2, <1>4, <1>5
       DEF IInv, Scalars, ApplyNeverWaits, PlanInHand, StopExecuted,
           StopHoldsNoLease, MovingIsCovered, StopUnderway,
           WheelsAreTheHolders, FailedStopBlocks, task, environment, actuation

\* An emergency stop withdraws the lease and queues its STOP; without the
\* lock it does neither.
LEMMA EmergencyIInv ==
    ASSUME IInv, EmergencyStop
    PROVE  IInv'
  <1>0. /\ pc # "done" /\ serial' = "stop_all"
        /\ UNCHANGED <<mailboxes, stop_requested, task, gate, clock,
                       actuation>>
    BY DEF EmergencyStop
  <1>1. Slots'
    BY <1>0 DEF IInv, Slots, Slot, mailboxes
  <1>2. CASE UNCHANGED <<model, plans>>
    BY <1>0, <1>1, <1>2
       DEF IInv, Scalars, NothingWaitsOverruled, ApplyNeverWaits, PlanInHand,
           StopExecuted, StopHoldsNoLease, MovingIsCovered, StopUnderway,
           WheelsAreTheHolders, FailedStopBlocks, StreamIsNotOverruled,
           model, plans, mailboxes, task, actuation
  <1>3. CASE ~UNCHANGED <<model, plans>>
    <2> DEFINE o == emergency_submit(motion, clock)
    <2>1. /\ motion' = o.motion
          /\ pending_stop' = queue_plan(o.plan)[1]
          /\ pending_apply' = queue_plan(o.plan)[2]
          /\ overruled' = Overruled("emergency")
      BY <1>0, <1>3 DEF EmergencyStop
    <2>2. MotionOK(o.motion) /\ Withdrawn(o)
      BY EmergencyOutcome DEF IInv, Scalars
    <2> HIDE DEF o
    <2>3. queue_plan(o.plan) = <<TRUE, {}>>
      <3>1. o.plan.action = "STOP"
        BY <2>2 DEF Withdrawn, StopPlan
      <3> QED BY <3>1 DEF queue_plan
    <2>4. /\ MotionOK(motion') /\ motion'.active_stream_id = 0
          /\ pending_stop' = TRUE /\ pending_apply' = {}
      BY <2>1, <2>2, <2>3 DEF Withdrawn
    <2>5. Scalars'
      <3>1. overruled' \in [Intent -> SUBSET {"published", "emergency"}]
        BY <2>1, OverruledType DEF IInv, Scalars
      <3> QED BY <1>0, <2>4, <3>1 DEF IInv, Scalars, task, actuation
    <2>6. PlanInHand' /\ StopExecuted'
      BY <1>0, <2>4 DEF IInv, PlanInHand, StopExecuted, task, actuation
    <2>8. NothingWaitsOverruled' /\ StreamIsNotOverruled'
      BY <2>1, <2>4 DEF IInv, NothingWaitsOverruled, StreamIsNotOverruled,
                        Overruled, Stands, Intent
    <2>9. FailedStopBlocks'
      <3>1. ~Live(motion')
        BY <2>1, <2>2 DEF Withdrawn
      <3> QED BY <1>0, <3>1 DEF IInv, FailedStopBlocks, task, actuation
    <2>7. MovingIsCovered' /\ WheelsAreTheHolders'
      BY <1>0, <2>4
         DEF IInv, MovingIsCovered, WheelsAreTheHolders, StopUnderway, task,
             actuation
    <2> QED
      BY <1>0, <1>1, <2>4, <2>5, <2>6, <2>7, <2>8, <2>9
         DEF IInv, ApplyNeverWaits, StopHoldsNoLease
  <1> QED
    BY <1>2, <1>3

\* An actuation call leaves the wheels at its own speed, at rest or, when it
\* fails, as they were.
LEMMA ActuateType ==
    ASSUME Scalars, NEW v \in Velocity, NEW ok \in BOOLEAN, Actuate(v, ok)
    PROVE  /\ wheels' \in Velocity /\ failures' \in 0..MaxFailures
           /\ ok => wheels' = v
           /\ wheels' \in {wheels, v, 0}
  BY ZeroInRange, ServiceAssumption DEF Actuate, Scalars

\* The gateway's own stop of the endpoints turns no wheel.
LEMMA SerialIInv ==
    ASSUME IInv, SerialStopAll
    PROVE  IInv'
  <1>0. /\ serial' = "idle"
        /\ UNCHANGED <<model, mailboxes, plans, stop_requested, task, gate,
                       clock, stop_failed, driver>>
    BY DEF SerialStopAll
  <1>1. /\ wheels' \in Velocity /\ failures' \in 0..MaxFailures
        /\ wheels' \in {wheels, 0}
    BY ActuateType, ZeroInRange DEF SerialStopAll, IInv
  <1>2. Scalars'
    BY <1>0, <1>1 DEF IInv, Scalars, model, plans, task
  <1>3. Slots' /\ NothingWaitsOverruled'
    BY <1>0 DEF IInv, Slots, Slot, NothingWaitsOverruled, mailboxes, model
  <1>4. PlanInHand' /\ StopExecuted'
    BY <1>0, <1>1 DEF IInv, PlanInHand, StopExecuted, model, plans, task
  <1>5. MovingIsCovered' /\ WheelsAreTheHolders'
    BY <1>0, <1>1
       DEF IInv, MovingIsCovered, WheelsAreTheHolders, StopUnderway, model,
           plans, task
  <1>6. FailedStopBlocks' /\ StreamIsNotOverruled'
    BY <1>0 DEF IInv, FailedStopBlocks, StreamIsNotOverruled, Live, model,
           mailboxes, task
  <1> QED
    BY <1>0, <1>2, <1>3, <1>4, <1>5, <1>6
       DEF IInv, ApplyNeverWaits, StopHoldsNoLease, model, plans

\* What a cycle leaves of the histories: the stream in force inherits those
\* of the event it was made of.
LEMMA CycleOverrules ==
    ASSUME IInv, Cycle, Ends \/ Goes \/ Arms
    PROVE  /\ overruled' \in [Intent -> SUBSET {"published", "emergency"}]
           /\ NothingWaitsOverruled' /\ StreamIsNotOverruled'
  <1> DEFINE taken == take_pending_event[1]
             lease == IF taken = {} \/ taken = stop_event
                      THEN overruled["lease"]
                      ELSE IF taken = command_event
                      THEN overruled["lease"] \union overruled["command"]
                      ELSE IF motion.active_stream_id = 0
                      THEN overruled["arm"]
                      ELSE overruled["lease"]
  <1>1. overruled' = [i \in Intent |->
                         IF ~Stands(i)' THEN {}
                         ELSE IF i = "lease" THEN lease ELSE overruled[i]]
    BY DEF Cycle, OverruledAfter
  <1>2. overruled \in [Intent -> SUBSET {"published", "emergency"}]
    BY DEF IInv, Scalars
  <1>3. lease \in SUBSET {"published", "emergency"}
    BY <1>2 DEF Intent
  <1>4. stop_event = {} => "published" \notin lease
    BY DEF IInv, NothingWaitsOverruled, StreamIsNotOverruled
  <1> HIDE DEF lease, taken
  <1>5. overruled' \in [Intent -> SUBSET {"published", "emergency"}]
    BY <1>1, <1>2, <1>3
  <1>6. NothingWaitsOverruled'
    BY <1>1 DEF IInv, NothingWaitsOverruled, Intent
  <1>7. StreamIsNotOverruled'
    <2>1. CASE Ends
      BY <1>1, <2>1 DEF Ends, StreamIsNotOverruled, Stands, Intent
    <2>2. CASE Goes \/ Arms
      BY <1>1, <1>4, <2>2 DEF Goes, Arms, StreamIsNotOverruled, Intent
    <2> QED BY <2>1, <2>2
  <1> QED BY <1>5, <1>6, <1>7

\* A cycle.  The plan it comes to is a STOP whenever the lease changes hands
\* and whenever the driver has failed the last one.
LEMMA CycleIInv ==
    ASSUME IInv, Cycle
    PROVE  IInv'
  <1>1. /\ MotionOK(motion') /\ (Ends \/ Goes \/ Arms)
        /\ pending_stop' = FALSE /\ pending_apply' = {}
    BY CycleResult
  <1>2. /\ pc = "cycle"
        /\ pc' = IF plan'.action = "NONE" THEN "wait" ELSE "execute"
        /\ UNCHANGED <<stop_requested, safe, success, environment, actuation>>
    BY DEF Cycle
  <1>3. /\ stop_event' = {}
        /\ arm_event' \in {arm_event, {}}
        /\ command_event' \in {command_event, {}}
    BY DEF Cycle, take_pending_event
  <1>5. /\ StopPlan \in Plan /\ NoPlan \in Plan
        /\ StopPlan.action = "STOP" /\ NoPlan.action = "NONE"
        /\ \A v \in Velocity, stream \in U64 :
             /\ ApplyPlan(v, stream) \in Plan
             /\ ApplyPlan(v, stream).action = "APPLY"
             /\ ApplyPlan(v, stream).stream = stream
    BY ZeroInRange DEF StopPlan, NoPlan, ApplyPlan, Plan
  <1>6. \/ plan' = StopPlan
        \/ /\ plan' = NoPlan /\ ~pending_stop
           /\ SameHolder(motion, motion') /\ (Live(motion') <=> Live(motion))
        \/ /\ ~pending_stop /\ Live(motion) /\ Live(motion')
           /\ SameHolder(motion, motion')
           /\ plan'.action = "APPLY"
           /\ plan'.stream = motion'.active_stream_id
           /\ plan' \in Plan
    <2>1. motion.active_stream_id \in U64
      BY DEF IInv, MotionOK, Motion
    <2>2. CASE Ends \/ Arms
      BY <2>2 DEF Ends, Arms
    <2>3. CASE Goes
      <3>1. /\ SameHolder(motion, motion') /\ (Live(motion') <=> Live(motion))
            /\ \/ plan' = StopPlan
               \/ plan' = NoPlan /\ ~pending_stop
               \/ /\ ~pending_stop /\ Live(motion)
                  /\ \E v \in Velocity :
                       plan' = ApplyPlan(v, motion.active_stream_id)
        BY <2>3 DEF Goes
      <3>2. ASSUME NEW v \in Velocity,
                   plan' = ApplyPlan(v, motion.active_stream_id)
            PROVE  /\ plan'.action = "APPLY" /\ plan' \in Plan
                   /\ plan'.stream = motion.active_stream_id
        BY <1>5, <2>1, <3>2
      <3> QED BY <3>1, <3>2 DEF SameHolder
    <2> QED BY <1>1, <2>2, <2>3
  <1>7. Scalars'
    <2>1. plan' \in Plan /\ pc' \in {"wait", "execute"}
      BY <1>2, <1>5, <1>6
    <2>2. overruled' \in [Intent -> SUBSET {"published", "emergency"}]
      BY <1>1, CycleOverrules
    <2>3. pending_stop' \in BOOLEAN
      BY <1>1
    <2> QED
      BY <1>2, <2>1, <2>2, <2>3 DEF IInv, Scalars, environment, actuation
  <1>8. Slots'
    BY <1>2, <1>3 DEF IInv, Slots, Slot, environment
  <1>9. NothingWaitsOverruled' /\ StreamIsNotOverruled'
    BY <1>1, CycleOverrules
  <1>10. PlanInHand' /\ StopExecuted'
    BY <1>1, <1>2, <1>5, <1>6 DEF PlanInHand, StopExecuted
  <1>11. ~stop_failed /\ wheels # 0 =>
            /\ pending_stop \/ Live(motion)
            /\ pending_stop \/ motion.active_stream_id = driver
    BY <1>2 DEF IInv, MovingIsCovered, WheelsAreTheHolders, StopUnderway,
           Live
  <1>12. MovingIsCovered' /\ WheelsAreTheHolders'
    <2>1. CASE plan' = StopPlan
      BY <1>2, <1>5, <2>1
         DEF MovingIsCovered, WheelsAreTheHolders, StopUnderway, NoPlan
    <2>2. CASE plan' # StopPlan
      <3>1. UNCHANGED <<wheels, stop_failed, driver>>
        BY <1>2 DEF actuation
      <3>2. pc' # "done" /\ ~(pc' = "execute" /\ plan'.action = "NONE")
        BY <1>2
      <3> QED
        BY <1>1, <1>5, <1>6, <1>11, <2>2, <3>1, <3>2
           DEF MovingIsCovered, WheelsAreTheHolders, SameHolder, Live
    <2> QED BY <2>1, <2>2
  <1>13. FailedStopBlocks'
    <2> SUFFICES ASSUME stop_failed
                 PROVE  /\ pc' = "execute" => plan'.action = "STOP"
                        /\ Live(motion') => pc' = "execute"
      BY <1>2 DEF FailedStopBlocks, actuation
    <2>1. ~Live(motion)
      BY <1>2 DEF IInv, FailedStopBlocks
    <2>2. CASE plan' = StopPlan
      BY <1>2, <1>5, <2>2
    <2>3. CASE plan' # StopPlan
      BY <1>2, <1>5, <1>6, <2>1, <2>3
    <2> QED BY <2>2, <2>3
  <1> QED
    BY <1>1, <1>7, <1>8, <1>9, <1>10, <1>12, <1>13
       DEF IInv, ApplyNeverWaits, StopHoldsNoLease

\* Executing a plan: an APPLY turns the wheels for the lease it came from.
LEMMA ExecuteIInv ==
    ASSUME IInv, Execute
    PROVE  IInv'
  <1>0. /\ pc = "execute" /\ pc' = "record"
        /\ UNCHANGED <<model, mailboxes, plans, stop_requested, safe, plan,
                       environment>>
    BY DEF Execute
  <1>1. PICK ok \in BOOLEAN :
           /\ Actuate(plan.target, ok)
           /\ success' = ok
           /\ stop_failed' = IF plan.action = "STOP" THEN ~ok ELSE stop_failed
           /\ driver' = IF plan.action = "APPLY" THEN plan.stream ELSE driver
    BY DEF Execute
  <1>2. plan.target \in Velocity /\ plan.stream \in U64
    BY DEF IInv, Scalars, Plan
  <1>3. /\ wheels' \in Velocity /\ failures' \in 0..MaxFailures
        /\ ok => wheels' = plan.target
    BY <1>1, <1>2, ActuateType DEF IInv
  <1>4. Scalars'
    <2>1. stop_failed' \in BOOLEAN /\ success' \in BOOLEAN
      BY <1>1 DEF IInv, Scalars
    <2> QED
      BY <1>0, <1>1, <1>2, <1>3, <2>1
         DEF IInv, Scalars, model, plans, environment
  <1>5. Slots' /\ NothingWaitsOverruled'
    BY <1>0 DEF IInv, Slots, Slot, NothingWaitsOverruled, mailboxes, model,
           environment
  <1>6. PlanInHand'
    BY <1>0, <1>1 DEF IInv, PlanInHand, model, plans
  <1>7. FailedStopBlocks' /\ StreamIsNotOverruled'
    <2>1. plan.action \in {"STOP", "APPLY"}
      BY <1>0 DEF IInv, PlanInHand, StopPlan
    <2>2. stop_failed => plan.action = "STOP"
      BY <1>0 DEF IInv, FailedStopBlocks
    <2> QED
      BY <1>0, <1>1, <2>1, <2>2
         DEF IInv, FailedStopBlocks, StreamIsNotOverruled, model, mailboxes
  <1>8. CASE plan = StopPlan
    <2>1. /\ plan.action = "STOP" /\ plan.target = 0
      BY <1>8 DEF StopPlan
    <2>2. wheels' = 0 \/ stop_failed'
      BY <1>1, <1>3, <2>1
    <2> QED
      BY <1>0, <1>4, <1>5, <1>6, <1>7, <2>2
         DEF IInv, StopExecuted, MovingIsCovered, WheelsAreTheHolders,
             ApplyNeverWaits, StopHoldsNoLease, model, plans, environment
  <1>9. CASE plan.action = "APPLY"
    <2>1. /\ pending_stop \/ Live(motion)
          /\ pending_stop \/ motion.active_stream_id = plan.stream
      BY <1>0, <1>9 DEF IInv, PlanInHand, StopPlan
    <2>2. StopExecuted'
      BY <1>0, <1>9 DEF StopExecuted
    <2>3. MovingIsCovered' /\ WheelsAreTheHolders'
      BY <1>0, <1>1, <1>9, <2>1
         DEF MovingIsCovered, WheelsAreTheHolders, StopUnderway, Live, model,
             plans
    <2> QED
      BY <1>0, <1>4, <1>5, <1>6, <1>7, <2>2, <2>3
         DEF IInv, ApplyNeverWaits, StopHoldsNoLease, model, plans,
             environment
  <1> QED
    BY <1>0, <1>8, <1>9 DEF IInv, PlanInHand

\* What recording an actuation leaves of the model.
LEMMA RecordLeaves ==
    ASSUME NEW m, MotionOK(m), NEW p \in Plan, NEW ok \in BOOLEAN,
           p.action \in {"STOP", "APPLY"}
    PROVE  LET n == record_actuation(m, p, ok)
           IN  /\ MotionOK(n) /\ SameHolder(m, n)
               /\ n.authority = m.authority
               /\ n.state = IF ~ok THEN "FAULT"
                            ELSE IF p.action = "STOP" THEN m.state
                            ELSE "ACTIVE"
  <1>1. p.target \in Velocity
    BY DEF Plan
  <1>2. CASE ~ok
    BY <1>2 DEF record_actuation, MotionOK, Motion, MotionState, SameHolder
  <1>3. CASE ok /\ p.action = "STOP"
    BY <1>3, ZeroInRange
       DEF record_actuation, MotionOK, Motion, MotionState, SameHolder
  <1>4. CASE ok /\ p.action = "APPLY"
    BY <1>1, <1>4
       DEF record_actuation, MotionOK, Motion, MotionState, SameHolder
  <1> QED
    BY <1>2, <1>3, <1>4

\* Recording: a failed APPLY is followed by a STOP at once.
LEMMA RecordIInv ==
    ASSUME IInv, Record
    PROVE  IInv'
  <1> DEFINE n == record_actuation(motion, plan, success)
             failed == plan.action = "APPLY" /\ ~success
  <1>0. /\ pc = "record" /\ motion' = n
        /\ IF failed THEN plan' = StopPlan /\ pc' = "execute"
           ELSE plan' = NoPlan /\ pc' = "wait"
        /\ UNCHANGED <<mailboxes, plans, stop_requested, safe, success,
                       environment, actuation, overruled>>
    BY DEF Record
  <1>1. /\ plan \in Plan /\ success \in BOOLEAN
        /\ plan.action \in {"STOP", "APPLY"}
    BY <1>0 DEF IInv, Scalars, PlanInHand, StopPlan
  <1>2. /\ MotionOK(n) /\ SameHolder(motion, n)
        /\ n.authority = motion.authority
        /\ n.state = IF ~success THEN "FAULT"
                     ELSE IF plan.action = "STOP" THEN motion.state
                     ELSE "ACTIVE"
    BY <1>1, RecordLeaves DEF IInv
  <1> HIDE DEF n
  <1>3. Scalars'
    <2>1. StopPlan \in Plan /\ NoPlan \in Plan
      BY ZeroInRange DEF StopPlan, NoPlan, Plan
    <2> QED
      BY <1>0, <2>1 DEF IInv, Scalars, plans, environment, actuation
  <1>4. Slots' /\ NothingWaitsOverruled'
    BY <1>0 DEF IInv, Slots, Slot, NothingWaitsOverruled, mailboxes,
           environment
  <1>5. PlanInHand' /\ StopExecuted'
    BY <1>0 DEF PlanInHand, StopExecuted
  <1>6. MovingIsCovered' /\ WheelsAreTheHolders'
    <2>1. CASE failed
      BY <1>0, <2>1
         DEF MovingIsCovered, WheelsAreTheHolders, StopUnderway, StopPlan
    <2>2. CASE ~failed /\ plan.action = "STOP"
      BY <1>0, <2>2
         DEF IInv, StopExecuted, MovingIsCovered, WheelsAreTheHolders,
             actuation
    <2>3. CASE ~failed /\ plan.action = "APPLY"
      <3>1. motion'.state = "ACTIVE" /\ pc' = "wait"
        BY <1>0, <1>1, <1>2, <2>3
      <3>2. pending_stop' \/ motion'.active_stream_id = driver'
        BY <1>0, <1>2, <2>3
           DEF IInv, PlanInHand, StopPlan, SameHolder, plans, actuation
      <3> QED
        BY <3>1, <3>2
           DEF MovingIsCovered, WheelsAreTheHolders, StopUnderway
    <2> QED BY <1>1, <2>1, <2>2, <2>3
  <1>7. StopHoldsNoLease' /\ StreamIsNotOverruled'
    BY <1>0, <1>2
       DEF IInv, StopHoldsNoLease, StreamIsNotOverruled, mailboxes,
           SameHolder, plans
  <1>8. FailedStopBlocks'
    <2>1. stop_failed => plan.action = "STOP" /\ ~success
      BY <1>0 DEF IInv, FailedStopBlocks
    <2>2. plan.action = "STOP" => ~failed /\ pc' = "wait"
      BY <1>0
    <2>3. ~success => ~Live(motion')
      BY <1>0, <1>2 DEF Live
    <2>4. UNCHANGED stop_failed /\ pc' \in {"execute", "wait"}
      BY <1>0 DEF actuation
    <2> QED BY <2>1, <2>2, <2>3, <2>4 DEF FailedStopBlocks
  <1> QED
    BY <1>0, <1>2, <1>3, <1>4, <1>5, <1>6, <1>7, <1>8
       DEF IInv, ApplyNeverWaits, plans, environment

\* The last STOP of the task.
LEMMA FinalStopIInv ==
    ASSUME IInv, FinalStop
    PROVE  IInv'
  <1>0. /\ pc = "final" /\ pc' = "final_record"
        /\ UNCHANGED <<model, mailboxes, plans, stop_requested, safe, plan,
                       environment, driver>>
    BY DEF FinalStop
  <1>1. PICK ok \in BOOLEAN : /\ Actuate(0, ok) /\ success' = ok
                              /\ stop_failed' = ~ok
    BY DEF FinalStop
  <1>2. /\ wheels' \in Velocity /\ failures' \in 0..MaxFailures
        /\ wheels' = 0 \/ stop_failed'
    BY <1>1, ActuateType, ZeroInRange DEF IInv
  <1>3. Scalars'
    BY <1>0, <1>1, <1>2 DEF IInv, Scalars, model, plans, environment
  <1>4. Slots' /\ NothingWaitsOverruled'
    BY <1>0 DEF IInv, Slots, Slot, NothingWaitsOverruled, mailboxes, model,
           environment
  <1>5. FailedStopBlocks'
    BY <1>0, <1>1 DEF FailedStopBlocks
  <1> QED
    BY <1>0, <1>2, <1>3, <1>4, <1>5
       DEF IInv, PlanInHand, StopExecuted, MovingIsCovered, StopHoldsNoLease,
           WheelsAreTheHolders, ApplyNeverWaits, model, plans, environment,
           StreamIsNotOverruled, mailboxes

\* Recording the last STOP.
LEMMA FinalRecordIInv ==
    ASSUME IInv, FinalRecord
    PROVE  IInv'
  <1> DEFINE n == record_actuation(motion, StopPlan, success)
  <1>0. /\ pc = "final_record" /\ pc' = "done" /\ motion' = n
        /\ UNCHANGED <<mailboxes, plans, stop_requested, safe, plan, success,
                       environment, actuation, overruled>>
    BY DEF FinalRecord
  <1>1. /\ MotionOK(n) /\ SameHolder(motion, n)
        /\ ~success => n.state = "FAULT"
    <2>1. StopPlan \in Plan /\ StopPlan.action = "STOP"
      BY ZeroInRange DEF StopPlan, Plan
    <2>2. MotionOK(motion) /\ success \in BOOLEAN
      BY DEF IInv, Scalars
    <2> QED BY <2>1, <2>2, RecordLeaves
  <1> HIDE DEF n
  <1>2. Scalars'
    BY <1>0 DEF IInv, Scalars, plans, environment, actuation
  <1>3. Slots' /\ NothingWaitsOverruled'
    BY <1>0 DEF IInv, Slots, Slot, NothingWaitsOverruled, mailboxes,
           environment
  <1>4. StopHoldsNoLease' /\ StreamIsNotOverruled'
    BY <1>0, <1>1
       DEF IInv, StopHoldsNoLease, StreamIsNotOverruled, mailboxes,
           SameHolder, plans
  <1>5. FailedStopBlocks'
    BY <1>0, <1>1 DEF IInv, FailedStopBlocks, Live, actuation
  <1> QED
    BY <1>0, <1>1, <1>2, <1>3, <1>4, <1>5
       DEF IInv, PlanInHand, StopExecuted, MovingIsCovered,
           WheelsAreTheHolders, ApplyNeverWaits, plans, environment, actuation

\* The invariant is inductive.
THEOREM Inductive == Spec => []IInv
  <1>1. IInv /\ [Next]_vars => IInv'
    <2> SUFFICES ASSUME IInv, [Next]_vars PROVE IInv'
      OBVIOUS
    <2>1. CASE UNCHANGED vars
      <3>1. UNCHANGED <<model, mailboxes, plans, stop_requested, task,
                        environment, actuation>>
        BY <2>1 DEF vars
      <3>2. Slots'
        BY <3>1 DEF IInv, Slots, Slot, mailboxes, environment
      <3> QED
        BY <3>1, <3>2
           DEF IInv, Scalars, NothingWaitsOverruled, ApplyNeverWaits,
               PlanInHand, StopExecuted, StopHoldsNoLease,
               MovingIsCovered, StopUnderway,
               WheelsAreTheHolders, FailedStopBlocks, StreamIsNotOverruled,
               model, mailboxes, plans, task, environment, actuation
    <2>2. CASE TaskStep
      BY <2>2, QuietIInv, CycleIInv, ExecuteIInv, RecordIInv, FinalStopIInv,
         FinalRecordIInv DEF TaskStep
    <2> QED
      BY <2>1, <2>2, QuietIInv, PublishIInv, EmergencyIInv, SerialIInv,
         AdvanceIInv DEF Next
  <1> QED
    BY <1>1, InitIInv, PTL DEF Spec

\* Turning wheels are answered for, at every instant and whatever fails, and
\* no APPLY is left waiting; every field keeps its type and its width.
THEOREM WheelsCovered == Spec => []WheelsAreCovered
  <1>1. ASSUME NEW box, NEW actions, Slot(box, actions)
        PROVE  box \in SUBSET Event /\ Cardinality(box) <= 1
    <2>1. CASE box = {}
      BY <2>1, FS_EmptySet
    <2>2. CASE box # {}
      <3>1. PICK e \in Event : box = {e}
        BY <1>1, <2>2 DEF Slot
      <3>2. Cardinality({e}) = 1
        BY FS_Singleton
      <3> QED BY <3>1, <3>2
    <2> QED BY <2>1, <2>2
  <1>2. IInv => TypeOK
    <2> SUFFICES ASSUME IInv PROVE TypeOK
      OBVIOUS
    <2>1. /\ stop_event \in SUBSET Event /\ Cardinality(stop_event) <= 1
          /\ arm_event \in SUBSET Event /\ Cardinality(arm_event) <= 1
          /\ command_event \in SUBSET Event
          /\ Cardinality(command_event) <= 1
      BY <1>1 DEF IInv, Slots
    <2>2. pending_apply \in SUBSET Plan /\ Cardinality(pending_apply) <= 1
      BY FS_EmptySet DEF IInv, ApplyNeverWaits
    <2> QED BY <2>1, <2>2 DEF IInv, MotionOK, Scalars, TypeOK
  <1>3. IInv => WheelsAreCovered
    BY <1>2 DEF IInv, WheelsAreCovered
  <1> QED BY <1>3, Inductive, PTL

\* The stream that drives was asked for after the last STOP a client
\* published: nothing queued before a STOP survives it.
THEOREM FreshIntentDrives == Spec => []WheelsAnswerToFreshIntent
  <1>1. IInv => WheelsAnswerToFreshIntent
    BY DEF IInv, WheelsAnswerToFreshIntent
  <1> QED BY <1>1, Inductive, PTL

\* Wheels that turn change hands only through rest, and after a STOP that
\* the driver failed nothing drives until a STOP has succeeded.
THEOREM WheelsAreHandedOverAtRest == Spec => HandoverThroughRest
  <1>1. IInv => [Execute /\ plan.action = "APPLY"
                    => /\ ~stop_failed
                       /\ wheels # 0 => plan.stream = driver]_vars
    BY DEF IInv, WheelsAreTheHolders, FailedStopBlocks, Execute
  <1> QED BY <1>1, Inductive, PTL DEF HandoverThroughRest

(***************************************************************************)
(* Every step of the service is one of MotionLease or leaves it alone.     *)
(***************************************************************************)

\* A step that leaves mailboxes and holder alone is no step of the lease.
LEMMA LeaseStutters ==
    ASSUME UNCHANGED mailboxes, SameHolder(motion, motion'),
           motion.active_stream_id # 0 => (Live(motion') <=> Live(motion))
    PROVE  UNCHANGED Lease!lease_vars
  <1>1. EventIn(arm_event)' = EventIn(arm_event)
    BY DEF mailboxes, EventIn
  <1>2. EventIn(command_event)' = EventIn(command_event)
    BY DEF mailboxes, EventIn
  <1> QED
    BY <1>1, <1>2
       DEF mailboxes, SameHolder, Live, Lease!lease_vars, Lease!mailboxes

\* An empty mailbox of the service is an empty mailbox of MotionLease.
LEMMA EmptySlot == EventIn({}) = Lease!NoEvent
  BY DEF EventIn, Lease!NoEvent

\* The event of a full mailbox, as MotionLease reads it.
LEMMA FullSlot ==
    ASSUME NEW e \in Event, NEW box, box = {e}
    PROVE  /\ EventIn(box) = [action |-> e.action,
                              source |-> ClientOf(e.source),
                              stream |-> e.stream_id, mark |-> TRUE]
           /\ EventIn(box) # Lease!NoEvent
           /\ EventIn(box).source = ClientOf(e.source)
           /\ EventIn(box).stream = e.stream_id
  <1>1. (CHOOSE x \in box : TRUE) = e /\ box # {}
    OBVIOUS
  <1>2. EventIn(box) = [action |-> e.action, source |-> ClientOf(e.source),
                        stream |-> e.stream_id, mark |-> TRUE]
    BY <1>1 DEF EventIn
  <1>3. e.action # "NONE"
    BY DEF Event
  <1> HIDE DEF EventIn
  <1>4. EventIn(box).action = e.action
    BY <1>2
  <1>5. Lease!NoEvent.action = "NONE"
    BY DEF Lease!NoEvent
  <1> QED
    BY <1>2, <1>3, <1>4, <1>5

\* A publication is a publication.
LEMMA PublishRefines ==
    ASSUME IInv, NEW r \in Requests, NEW at \in 0..clock, Publish(r, at)
    PROVE  Lease!LeaseNext
  <1> DEFINE e == Stamped(r, at)
             f == [action |-> e.action, source |-> ClientOf(e.source),
                   stream |-> e.stream_id, mark |-> TRUE]
  <1>1. /\ e \in Event /\ e.source \in {LAN, RC}
        /\ e.action = r.action /\ e.stream_id = r.stream_id
        /\ e.action \in {"ARM", "COMMAND", "DISARM", "STOP"}
    BY ServiceAssumption, StampType
  <1>2. UNCHANGED motion
    BY DEF Publish
  <1>3. \/ /\ e.action \in {"STOP", "DISARM"} /\ stop_event' = {e}
           /\ arm_event' = {} /\ command_event' = {}
        \/ /\ e.action = "ARM" /\ arm_event' = {e}
           /\ UNCHANGED <<stop_event, command_event>>
        \/ /\ e.action = "COMMAND" /\ command_event' = {e}
           /\ UNCHANGED <<stop_event, arm_event>>
    BY <1>1 DEF Publish, publish_mailboxes
  <1>4. EventIn({e}) = f /\ EventIn({}) = Lease!NoEvent
    BY <1>1, EmptySlot, FullSlot
  <1>5. e.action \in {"ARM", "COMMAND"} =>
            f \in Lease!EventOf({"ARM", "COMMAND"})
    <2>1. e.action \in {"ARM", "COMMAND"} =>
              e.stream_id \in {x.stream_id : x \in Requests} \ {0}
      BY <1>1, NonzeroStreams
    <2> QED
      BY <2>1 DEF Lease!EventOf, Lease!Client, ClientOf
  <1> HIDE DEF e
  <1>6. CASE /\ e.action \in {"STOP", "DISARM"} /\ stop_event' = {e}
             /\ arm_event' = {} /\ command_event' = {}
    <2>1. Lease!Stop.action = "STOP"
      BY DEF Lease!Stop, Lease!NoEvent
    <2>2. Lease!Publish(Lease!Stop)
      BY <1>2, <1>4, <1>6, <2>1 DEF Lease!Publish, Lease!Deliver
    <2> QED BY <2>2 DEF Lease!LeaseNext
  <1>7. CASE /\ e.action = "ARM" /\ arm_event' = {e}
             /\ UNCHANGED <<stop_event, command_event>>
    <2>1. f.action = "ARM"
      BY <1>7
    <2>2. Lease!Publish(f)
      BY <1>2, <1>4, <1>7, <2>1 DEF Lease!Publish, Lease!Deliver, EventIn
    <2> QED BY <1>5, <1>7, <2>2 DEF Lease!LeaseNext
  <1>8. CASE /\ e.action = "COMMAND" /\ command_event' = {e}
             /\ UNCHANGED <<stop_event, arm_event>>
    <2>1. f.action = "COMMAND"
      BY <1>8
    <2>2. Lease!Publish(f)
      BY <1>2, <1>4, <1>8, <2>1 DEF Lease!Publish, Lease!Deliver, EventIn
    <2> QED BY <1>5, <1>8, <2>2 DEF Lease!LeaseNext
  <1> QED
    BY <1>3, <1>6, <1>7, <1>8

\* The lease as MotionLease sees it.
LeaseOf == IF motion.active_stream_id = 0
           THEN [source |-> "NONE", stream |-> 0]
           ELSE [source |-> ClientOf(motion.active_source),
                 stream |-> motion.active_stream_id]
ArmedOf == motion.active_stream_id # 0
               /\ motion.state \in {"ARMED", "ACTIVE"}

\* The operators of MotionLease over the service's state.
LEMMA LeaseMapping ==
    /\ Lease!Withdraw <=> /\ LeaseOf' = Lease!NoLease /\ ArmedOf' = FALSE
                          /\ UNCHANGED Lease!mailboxes
    /\ Lease!Fault <=> /\ LeaseOf # Lease!NoLease /\ ArmedOf' = FALSE
                       /\ UNCHANGED <<Lease!mailboxes, LeaseOf>>
    /\ Lease!NoLease = [source |-> "NONE", stream |-> 0]
    /\ LeaseOf = Lease!NoLease <=> motion.active_stream_id = 0
  <1>1. LeaseOf = Lease!NoLease <=> motion.active_stream_id = 0
    BY DEF LeaseOf, Lease!NoLease
  <1> QED
    BY <1>1 DEF LeaseOf, ArmedOf, Lease!Withdraw, Lease!Fault, Lease!NoLease

\* A step that withdraws the lease and leaves the mailboxes alone.
LEMMA WithdrawRefines ==
    ASSUME UNCHANGED mailboxes, motion'.active_stream_id = 0
    PROVE  Lease!LeaseNext
  <1>1. UNCHANGED Lease!mailboxes
    BY DEF mailboxes, EventIn, Lease!mailboxes
  <1>2. LeaseOf' = Lease!NoLease /\ ArmedOf' = FALSE
    BY DEF LeaseOf, ArmedOf, Lease!NoLease
  <1> QED
    BY <1>1, <1>2, LeaseMapping DEF Lease!LeaseNext

\* A failure recorded while somebody holds the lease is a fault.
LEMMA FaultRefines ==
    ASSUME UNCHANGED mailboxes, SameHolder(motion, motion'),
           motion.active_stream_id # 0, motion'.state = "FAULT"
    PROVE  Lease!LeaseNext
  <1>1. UNCHANGED Lease!mailboxes
    BY DEF mailboxes, EventIn, Lease!mailboxes
  <1>2. LeaseOf # Lease!NoLease /\ ArmedOf' = FALSE /\ UNCHANGED LeaseOf
    BY DEF LeaseOf, ArmedOf, Lease!NoLease, SameHolder
  <1> QED
    BY <1>1, <1>2, LeaseMapping DEF Lease!LeaseNext

\* A cycle is a cycle: it takes the event that is due, and what it does to
\* the lease MotionLease allows.
LEMMA CycleRefines ==
    ASSUME IInv, Cycle
    PROVE  Lease!LeaseNext
  <1>1. MotionOK(motion) /\ MotionOK(motion') /\ (Ends \/ Goes \/ Arms)
    BY CycleResult DEF IInv
  <1>2. /\ stop_event' = {}
        /\ arm_event' = IF stop_event # {} THEN arm_event ELSE {}
        /\ command_event' = IF stop_event # {} \/ arm_event # {}
                            THEN command_event ELSE {}
    BY DEF Cycle, take_pending_event
  <1>3. EventIn({}) = Lease!NoEvent
    BY EmptySlot
  <1>4. EventIn(arm_event) = Lease!NoEvent <=> arm_event = {}
    BY EmptySlot, FullSlot DEF IInv, Slots, Slot
  <1>5. /\ EventIn(arm_event)' = IF stop_event # {} THEN EventIn(arm_event)
                                 ELSE Lease!NoEvent
        /\ EventIn(command_event)' =
               IF stop_event # {} \/ EventIn(arm_event) # Lease!NoEvent
               THEN EventIn(command_event) ELSE Lease!NoEvent
    BY <1>2, <1>3, <1>4 DEF EventIn
  <1>6. /\ LeaseOf = Lease!NoLease <=> motion.active_stream_id = 0
        /\ LeaseOf' = Lease!NoLease <=> motion'.active_stream_id = 0
    BY DEF LeaseOf, Lease!NoLease
  <1>7. Lease!Granted =
            IF stop_event # {} THEN Lease!NoLease
            ELSE IF arm_event # {} /\ LeaseOf = Lease!NoLease
            THEN [source |-> EventIn(arm_event).source,
                  stream |-> EventIn(arm_event).stream]
            ELSE LeaseOf
    BY <1>4 DEF Lease!Granted, LeaseOf
  <1>8. \/ /\ LeaseOf' = Lease!Granted
           /\ ArmedOf' = (LeaseOf' # Lease!NoLease
                             /\ (LeaseOf = Lease!NoLease \/ ArmedOf))
        \/ /\ ArmedOf \/ LeaseOf = Lease!NoLease
           /\ LeaseOf' = Lease!NoLease /\ ArmedOf' = FALSE
    <2>1. CASE Ends
      <3>1. LeaseOf' = Lease!NoLease /\ ArmedOf' = FALSE
        BY <1>6, <2>1 DEF Ends, ArmedOf
      <3>2. CASE stop_event # {}
        BY <1>7, <3>1, <3>2
      <3>3. CASE Live(motion)
        BY <1>6, <3>1, <3>3 DEF ArmedOf, Live
      <3> QED BY <2>1, <3>2, <3>3 DEF Ends
    <2>2. CASE Goes
      <3>1. /\ LeaseOf' = LeaseOf /\ ArmedOf' = ArmedOf
            /\ stop_event = {}
        BY <2>2 DEF Goes, SameHolder, LeaseOf, ArmedOf, Live
      <3>2. CASE LeaseOf = Lease!NoLease
        BY <1>6, <3>1, <3>2 DEF ArmedOf
      <3>3. CASE LeaseOf # Lease!NoLease
        <4>1. ArmedOf = (LeaseOf # Lease!NoLease
                            /\ (LeaseOf = Lease!NoLease \/ ArmedOf))
          BY <3>3 DEF ArmedOf
        <4> QED BY <1>7, <3>1, <3>3, <4>1
      <3> QED BY <3>2, <3>3
    <2>3. CASE Arms
      <3>1. PICK e \in arm_event :
               /\ arm_event = {e} /\ e.stream_id # 0
               /\ motion'.active_stream_id = e.stream_id
               /\ motion'.active_source = e.source
        BY <2>3 DEF Arms
      <3>2. e \in Event
        BY <3>1 DEF IInv, Slots, Slot
      <3>3. /\ EventIn(arm_event).source = ClientOf(e.source)
            /\ EventIn(arm_event).stream = e.stream_id
        BY <3>1, <3>2, FullSlot
      <3>4. LeaseOf' = [source |-> ClientOf(e.source), stream |-> e.stream_id]
        BY <3>1 DEF LeaseOf, ClientOf
      <3>5. /\ LeaseOf = Lease!NoLease /\ LeaseOf' # Lease!NoLease
            /\ ArmedOf' = TRUE
        BY <1>6, <2>3, <3>1 DEF Arms, ArmedOf
      <3>6. LeaseOf' = Lease!Granted
        BY <1>7, <2>3, <3>1, <3>3, <3>4, <3>5 DEF Arms
      <3> QED BY <3>5, <3>6
    <2> QED BY <1>1, <2>1, <2>2, <2>3
  <1>9. Lease!Cycle
    BY <1>2, <1>5, <1>8 DEF Lease!Cycle, LeaseOf, ArmedOf
  <1> QED
    BY <1>9 DEF Lease!LeaseNext

\* Recording an outcome disarms the holder or tells the lease nothing.
LEMMA RecordRefines ==
    ASSUME IInv, Record \/ FinalRecord
    PROVE  Lease!LeaseNext \/ UNCHANGED Lease!lease_vars
  <1> DEFINE p == IF Record THEN plan ELSE StopPlan
             n == record_actuation(motion, p, success)
  <1>1. motion' = n /\ UNCHANGED mailboxes
    BY DEF Record, FinalRecord
  <1>2. /\ p \in Plan /\ success \in BOOLEAN /\ p.action \in {"STOP", "APPLY"}
        /\ (p.action = "APPLY" /\ motion.active_stream_id # 0)
             => Live(motion)
    <2>1. StopPlan \in Plan /\ StopPlan.action = "STOP"
      BY ZeroInRange DEF StopPlan, Plan
    <2>2. CASE Record
      <3>1. pc = "record"
        BY <2>2 DEF Record
      <3> QED
        BY <2>1, <2>2, <3>1 DEF IInv, Scalars, PlanInHand, StopHoldsNoLease
    <2>3. CASE ~Record
      BY <2>1, <2>3 DEF IInv, Scalars
    <2> QED BY <2>2, <2>3
  <1> HIDE DEF p
  <1>3. /\ SameHolder(motion, n)
        /\ n.state = IF ~success THEN "FAULT"
                     ELSE IF p.action = "STOP" THEN motion.state
                     ELSE "ACTIVE"
    BY <1>2, RecordLeaves DEF IInv
  <1> HIDE DEF n
  <1>4. CASE motion.active_stream_id = 0
    BY <1>1, <1>3, <1>4, LeaseStutters
  <1>5. CASE motion.active_stream_id # 0 /\ ~success
    BY <1>1, <1>3, <1>5, FaultRefines
  <1>6. CASE motion.active_stream_id # 0 /\ success
    <2>1. Live(motion') <=> Live(motion)
      BY <1>1, <1>2, <1>3, <1>6 DEF Live
    <2> QED BY <1>1, <1>3, <2>1, LeaseStutters
  <1> QED
    BY <1>2, <1>4, <1>5, <1>6

\* The service implements MotionLease: what its clients are composed with is
\* what it does, emergency stops and failing drivers included.
THEOREM ServiceImplementsLease == Spec => ImplementsLease
  <1>1. Init => Lease!LeaseInit
    BY EmptySlot
       DEF Init, motion_init, Lease!LeaseInit, Lease!NoLease
  <1>2. IInv /\ [Next]_vars => [Lease!LeaseNext]_(Lease!lease_vars)
    <2> SUFFICES ASSUME IInv, [Next]_vars
                 PROVE  Lease!LeaseNext \/ UNCHANGED Lease!lease_vars
      OBVIOUS
    <2>1. CASE UNCHANGED <<mailboxes, motion>>
      BY <2>1, LeaseStutters DEF SameHolder, Live
    <2>2. CASE UNCHANGED vars
      BY <2>1, <2>2 DEF vars, model
    <2>3. CASE Start \/ BeginCycle \/ RequestShutdown \/ GateChanges \/ Advance
      BY <2>1, <2>3
         DEF Start, BeginCycle, RequestShutdown, GateChanges, Advance, model
    <2>4. CASE SerialStopAll \/ Execute \/ FinalStop
      BY <2>1, <2>4 DEF SerialStopAll, Execute, FinalStop, model
    <2>5. ASSUME EmergencyStop
          PROVE  Lease!LeaseNext \/ UNCHANGED Lease!lease_vars
      <3>1. UNCHANGED mailboxes
        BY <2>5 DEF EmergencyStop
      <3>2. motion' \in {motion, emergency_submit(motion, clock).motion}
        BY <2>5 DEF EmergencyStop, model
      <3>3. emergency_submit(motion, clock).motion.active_stream_id = 0
        BY EmergencyOutcome DEF IInv, Scalars, Withdrawn
      <3> QED BY <2>1, <3>1, <3>2, <3>3, WithdrawRefines
    <2> QED
      BY <2>2, <2>3, <2>4, <2>5, PublishRefines, CycleRefines, RecordRefines
         DEF Next, TaskStep
  <1> QED
    BY <1>1, <1>2, Inductive, PTL DEF Spec, ImplementsLease, Lease!LeaseSpec

\* Several clients share the one lease as MotionLease promises, and the
\* wheels change hands only at rest.
THEOREM LeaseSharing == Spec => LeaseIsShared
  BY ServiceImplementsLease, WheelsAreHandedOverAtRest DEF LeaseIsShared
=============================================================================
