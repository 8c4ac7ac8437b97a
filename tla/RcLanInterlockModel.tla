------------------------ MODULE RcLanInterlockModel ------------------------
(***************************************************************************)
(* The RC/LAN interlock of components/robot_safety/                        *)
(* robot_safety_rc_lan_interlock_model.c: which of the two operators, the  *)
(* RC pilot or the LAN client, may drive.                                  *)
(*                                                                         *)
(* A pulse is abstracted to the side of active_max_us it falls on: "low"   *)
(* asks for PPM priority, "high" is the receiver's failsafe value,         *)
(* "absent" is a frame without the configured channel.                     *)
(***************************************************************************)
EXTENDS Naturals

CONSTANTS
    Enabled,        \* config.enabled
    ConfirmFrames,  \* config.transition_confirm_good_frames (3 on Rafa)
    Counter         \* 2^32, the modulus of the receiver's and epoch's counters

\* robot_safety_rc_lan_interlock_model_init refuses anything else.
ASSUME InterlockConfig ==
    /\ Enabled \in BOOLEAN
    /\ ConfirmFrames \in Nat \ {0}
    /\ Counter \in Nat \ {0}

Pulse == {"low", "high", "absent"}

\* The states an authority may be committed to, and those that are reported.
Committed == {"DISABLED", "NO_SIGNAL", "FAILSAFE", "PPM_PRIORITY"}
Lost == {"NO_SIGNAL", "PPM_LOST", "CHANNEL_UNAVAILABLE"}
Candidate == {"PPM_PRIORITY_CANDIDATE", "FAILSAFE_CANDIDATE"}
InterlockState == Committed \union Lost \union Candidate

\* robot_safety_rc_lan_interlock_model_t
Interlock ==
    [state: InterlockState, committed_state: Committed,
     candidate_state: Committed, candidate_valid_frames: Nat,
     last_observed_frame_sequence: 0..(Counter - 1),
     priority_epoch: 0..(Counter - 1)]

\* robot_safety_rc_lan_observation_t: an invalid signal reports sequence and
\* channels of the last accepted frame, or nothing when get_status failed.
Observation ==
    [signal_valid: BOOLEAN, valid_frame_sequence: 0..(Counter - 1),
     pulse: Pulse]

interlock_init ==
    LET start == IF Enabled THEN "NO_SIGNAL" ELSE "DISABLED" IN
    [state |-> start, committed_state |-> start,
     candidate_state |-> "DISABLED", candidate_valid_frames |-> 0,
     last_observed_frame_sequence |-> 0, priority_epoch |-> 0]

\* What the observation by itself says.
observed_state(m, o) ==
    IF ~Enabled THEN "DISABLED"
    ELSE IF ~o.signal_valid
    THEN (IF m.priority_epoch > 0 THEN "PPM_LOST" ELSE "NO_SIGNAL")
    ELSE CASE o.pulse = "absent" -> "CHANNEL_UNAVAILABLE"
           [] o.pulse = "low"    -> "PPM_PRIORITY"
           [] o.pulse = "high"   -> "FAILSAFE"

is_valid_new_frame(m, o) ==
    /\ o.signal_valid
    /\ o.valid_frame_sequence # 0
    /\ o.valid_frame_sequence # m.last_observed_frame_sequence

settle(m, state) ==
    [m EXCEPT !.candidate_valid_frames = 0, !.candidate_state = state,
              !.state = state]

\* Mutant: losing the signal keeps the frames already counted.
lose_keeps_count(m, next) == [m EXCEPT !.state = next]

lose(m, next) ==
    [m EXCEPT !.candidate_valid_frames = 0,
              !.candidate_state = m.committed_state, !.state = next]

\* The new frames in a row, this one included, that ask for next.
confirmations(m, next) ==
    IF m.candidate_state = next THEN m.candidate_valid_frames + 1 ELSE 1

confirmed(frames) == frames >= ConfirmFrames

\* One more new frame asks for next: commit it when enough of them do.
count_frame(m, next) ==
    LET frames == confirmations(m, next)
        counted == [m EXCEPT !.candidate_state = next]
    IN  IF confirmed(frames)
        THEN [counted EXCEPT
                !.committed_state = next, !.candidate_valid_frames = 0,
                !.state = next,
                !.priority_epoch = IF next = "PPM_PRIORITY"
                                   THEN (@ + 1) % Counter ELSE @]
        ELSE [counted EXCEPT
                !.candidate_valid_frames = frames,
                !.state = IF next = "PPM_PRIORITY"
                          THEN "PPM_PRIORITY_CANDIDATE"
                          ELSE "FAILSAFE_CANDIDATE"]

\* robot_safety_rc_lan_interlock_model_update
update(old, o) ==
    LET next == observed_state(old, o)
        m == IF is_valid_new_frame(old, o)
             THEN [old EXCEPT !.last_observed_frame_sequence =
                                  o.valid_frame_sequence]
             ELSE old
    IN  IF ~Enabled
        THEN [settle(m, next) EXCEPT !.committed_state = next]
        ELSE IF next \in Lost THEN lose(m, next)
        ELSE IF next = m.committed_state THEN settle(m, next)
        ELSE IF is_valid_new_frame(old, o) THEN count_frame(m, next)
        ELSE IF m.candidate_valid_frames = 0
        THEN [m EXCEPT !.state = m.committed_state]
        ELSE m

\* A candidate leaves the authority with the committed state.
authority_state(m) ==
    IF m.state \in Candidate THEN m.committed_state ELSE m.state

lan_allowed(m) ==
    authority_state(m) \in {"DISABLED", "NO_SIGNAL", "FAILSAFE", "PPM_LOST"}
=============================================================================
