-------------------------- MODULE PpmMotionSource --------------------------
(***************************************************************************)
(* components/ppm_motion_source: the task that turns the RC pilot's frames *)
(* into STOP, ARM and COMMAND events for the motion application            *)
(* (ppm_motion_model.c is its step function).                              *)
(*                                                                         *)
(* The receiver, the interlock's gate and the LAN client are the           *)
(* environment; the motion application is MotionLease.  Sticks are         *)
(* abstracted to neutral or not, and so are the commands made from them:   *)
(* the mark of an event says that its frame was neutral.                   *)
(***************************************************************************)
EXTENDS MotionLease

CONSTANTS
    FrameCounter,   \* 2^32, the modulus of valid_frame_sequence
    StreamCounter,  \* 2^64, the modulus of stream_nonce
    ArmPendingMax,  \* PPM_MOTION_ARM_PENDING_MAX_NEW_FRAMES (2)
    FramesPerStep   \* bound: frames accepted between two steps

ASSUME PpmConfig ==
    /\ {FrameCounter, StreamCounter, ArmPendingMax} \subseteq Nat \ {0}
    /\ StreamCounter > 1
    /\ FramesPerStep \in Nat /\ FramesPerStep < FrameCounter
    /\ Streams = 1..(StreamCounter - 1)

VARIABLES
    frame,      \* the receiver: sequence, stick position and CH5 of the frame
    valid,      \* receiver.signal_valid and priority_confirmed, as sampled
    arrived,    \* frames accepted since the last step
    ppm,        \* handle->model
    pc,         \* "step", or the event the task is about to publish
    rested      \* history: whether a neutral frame was sampled since the
                \* source's last STOP, and since anybody's last STOP

receiver == <<frame, valid, arrived>>
vars == <<receiver, ppm, pc, lease_vars, rested>>

Phase == {"INACTIVE", "WAIT_NEUTRAL", "ARM_PENDING", "ARMED"}


RcEvent(action, stream, neutral) ==
    [action |-> action, source |-> "RC", stream |-> stream,
     mark |-> neutral]

Init ==
    /\ frame = [sequence |-> 0, neutral |-> TRUE, low |-> FALSE]
    /\ valid = FALSE /\ arrived = 0
    /\ ppm = [phase |-> "INACTIVE", priority_active |-> FALSE,
              have_frame_sequence |-> FALSE, last_frame_sequence |-> 0,
              arm_pending_frames |-> 0, stream_nonce |-> 0, stream_id |-> 0]
    /\ pc = NoEvent
    /\ LeaseInit
    /\ rested = [own |-> FALSE, any |-> FALSE]

(* ---------------------------- environment ----------------------------- *)

AcceptFrame(neutral, low) ==
    /\ arrived < FramesPerStep
    /\ frame' = [sequence |-> (frame.sequence + 1) % FrameCounter,
                 neutral |-> neutral, low |-> low]
    /\ arrived' = arrived + 1 /\ valid' = TRUE
    /\ UNCHANGED <<ppm, pc, lease_vars, rested>>

\* The signal goes stale, a lock is not free, or the interlock's gate moves.
GateMoves ==
    /\ valid' = ~valid
    /\ UNCHANGED <<frame, arrived, ppm, pc, lease_vars, rested>>

(* ---------------------------- the step function ----------------------- *)

\* A status that cannot be read, for want of the lock, counts as no lease.
application_rc_active(readable) == readable /\ armed /\ lease.source = "RC"

new_frame(m) ==
    valid /\ (~m.have_frame_sequence \/ frame.sequence # m.last_frame_sequence)

seen_frame(m) ==
    IF valid THEN [m EXCEPT !.have_frame_sequence = TRUE,
                            !.last_frame_sequence = frame.sequence]
    ELSE m

\* The next nonzero stream.
next_stream(m) ==
    IF m.stream_nonce + 1 = StreamCounter THEN 1 ELSE m.stream_nonce + 1

release(m) == [m EXCEPT !.priority_active = FALSE, !.phase = "INACTIVE",
                        !.arm_pending_frames = 0, !.stream_id = 0]

wait_neutral(m) == [m EXCEPT !.phase = "WAIT_NEUTRAL",
                             !.arm_pending_frames = 0]

\* ARM_PENDING: the application took the ARM, or two frames were given away.
arm_pending(m, new, rc_active) ==
    IF rc_active
    THEN [m EXCEPT !.phase = "ARMED", !.arm_pending_frames = 0]
    ELSE IF ~new THEN m
    ELSE IF m.arm_pending_frames + 1 >= ArmPendingMax THEN wait_neutral(m)
    ELSE [m EXCEPT !.arm_pending_frames = @ + 1]

\* Mutant: the pilot's sticks need not be neutral to arm.
may_arm_anyhow == TRUE

may_arm == frame.neutral

\* ppm_motion_model_step: the model it leaves and the event it asks for.
step(old, rc_active) ==
    LET new == new_frame(old)
        m == seen_frame(old)
        s == next_stream(m)
    IN  IF ~(valid /\ frame.low)
        THEN <<release(m), IF m.priority_active THEN Stop ELSE NoEvent>>
        ELSE IF ~m.priority_active
        THEN <<[wait_neutral(m) EXCEPT !.priority_active = TRUE], Stop>>
        ELSE IF m.phase = "ARM_PENDING"
        THEN <<arm_pending(m, new, rc_active), NoEvent>>
        ELSE IF m.phase = "ARMED" /\ ~rc_active
        THEN <<wait_neutral(m), NoEvent>>
        ELSE IF ~new THEN <<m, NoEvent>>
        ELSE IF m.phase = "WAIT_NEUTRAL"
        THEN (IF ~may_arm THEN <<m, NoEvent>>
              ELSE <<[m EXCEPT !.stream_nonce = s, !.stream_id = s,
                               !.phase = "ARM_PENDING",
                               !.arm_pending_frames = 0],
                    RcEvent("ARM", s, TRUE)>>)
        ELSE <<m, RcEvent("COMMAND", m.stream_id, frame.neutral)>>

\* One turn of ppm_motion_task, up to the event it publishes; its readings of
\* the receiver and of the application, side by side, are one instant.
Step ==
    /\ pc = NoEvent
    /\ \E readable \in BOOLEAN :
         LET taken == step(ppm, application_rc_active(readable))
         IN  ppm' = taken[1] /\ pc' = taken[2]
    /\ arrived' = 0
    /\ rested' = IF new_frame(ppm) /\ frame.neutral
                 THEN [own |-> TRUE, any |-> TRUE] ELSE rested
    /\ UNCHANGED <<frame, valid, lease_vars>>

\* publish_output: an event the application is too busy for is dropped.
PublishOutput ==
    /\ pc # NoEvent /\ pc' = NoEvent
    /\ \/ /\ Deliver(pc)
          /\ rested' = IF pc = Stop THEN [own |-> FALSE, any |-> FALSE]
                       ELSE rested
       \/ UNCHANGED <<mailboxes, rested>>
    /\ UNCHANGED <<receiver, ppm, lease, armed>>

\* The LAN client publishes a STOP, or the ARM of a stream of its own.
LanPublishes ==
    /\ \/ Publish(Stop) /\ rested' = [rested EXCEPT !.any = FALSE]
       \/ /\ \E stream \in Streams :
               Publish([RcEvent("ARM", stream, TRUE) EXCEPT !.source = "LAN"])
          /\ UNCHANGED rested
    /\ UNCHANGED <<receiver, ppm, pc>>

ApplicationCycle == Cycle /\ UNCHANGED <<receiver, ppm, pc, rested>>

\* The application loses or disarms a lease between two cycles.
ApplicationStops ==
    (Withdraw \/ Fault) /\ UNCHANGED <<receiver, ppm, pc, rested>>

Next ==
    \/ \E neutral, low \in BOOLEAN : AcceptFrame(neutral, low)
    \/ GateMoves \/ Step \/ PublishOutput \/ LanPublishes
    \/ ApplicationCycle \/ ApplicationStops

Spec == Init /\ [][Next]_vars

(* ----------------------------- properties ----------------------------- *)

\* The source's fields and the mailboxes keep their types; an ARM is never
\* waited for over more than ArmPendingMax frames.
TypeOK ==
    /\ frame \in [sequence: 0..(FrameCounter - 1), neutral: BOOLEAN,
                  low: BOOLEAN]
    /\ ppm \in [phase: Phase, priority_active: BOOLEAN,
                have_frame_sequence: BOOLEAN,
                last_frame_sequence: 0..(FrameCounter - 1),
                arm_pending_frames: 0..(ArmPendingMax - 1),
                stream_nonce: 0..(StreamCounter - 1),
                stream_id: 0..(StreamCounter - 1)]
    /\ pc \in EventOf({"ARM", "COMMAND"}) \union {NoEvent, Stop}
    /\ LeaseTypeOK
    /\ rested \in [own: BOOLEAN, any: BOOLEAN]

HeldSticksDrive ==
    /\ command_event.source = "RC" /\ ~command_event.mark
    /\ Drives /\ ApplicationCycle

\* Once the source's STOP - PPM lost, CH5 released or a takeover - is in the
\* application's mailbox, sticks held off neutral do not set the robot
\* moving: a neutral frame was sampled since, however late the application
\* runs and whatever ARM or COMMAND was waiting there.
HandshakeAfterOwnStop == [][HeldSticksDrive => rested.own]_vars

\* The same of every STOP, the LAN client's and the serial operator's
\* included ("an external stop forces a fresh neutral-arm handshake").
HandshakeAfterAnyStop == [][HeldSticksDrive => rested.any]_vars
=============================================================================
