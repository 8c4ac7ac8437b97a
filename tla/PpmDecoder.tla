----------------------------- MODULE PpmDecoder -----------------------------
(***************************************************************************)
(* components/ppm_decoder: the PPM receiver's frame decoder.  An interrupt *)
(* feeds the time of every rising edge to ppm_decoder_model.c; a reader    *)
(* takes a snapshot of the last published frame and of its age.            *)
(*                                                                         *)
(* The interrupt's critical section is one action: it reads the time of    *)
(* its edge just before it, and no other edge comes in between.  A reader  *)
(* reads the clock outside the critical section: edges come in between,    *)
(* and the frame it then finds may be younger than its reading.            *)
(*                                                                         *)
(* The times are the code's uint32_t microseconds, modulo Wrap.  Counters  *)
(* that only feed diagnostics (edges_seen, sync_gaps, invalid_pulses,      *)
(* incomplete_frames, overflow_pulses, rejected_frames) are left out.      *)
(***************************************************************************)
EXTENDS Naturals, Sequences

CONSTANTS
    channel_count,       \* config.channel_count (8 on Rafa)
    min_pulse_us,        \* config.min_pulse_us
    max_pulse_us,        \* config.max_pulse_us
    sync_threshold_us,   \* config.sync_threshold_us
    stale_timeout,       \* config.stale_timeout_ms, in the model's unit
    Wrap,                \* 2^32, the modulus of the timestamps
    CountMax,            \* UINT8_MAX
    MaxFrames,           \* bound: frames published
    MaxSilence,          \* bound: the true silence is counted up to here
    MaxWait              \* bound: from a reader's clock to its snapshot

\* What ppm_decoder_model_init and ppm_decoder_init accept.
ASSUME DecoderConfig ==
    /\ channel_count \in Nat \ {0} /\ min_pulse_us \in Nat \ {0}
    /\ min_pulse_us <= max_pulse_us /\ max_pulse_us < sync_threshold_us
    /\ stale_timeout \in Nat \ {0}
    /\ sync_threshold_us < Wrap /\ CountMax > channel_count
    /\ {max_pulse_us, sync_threshold_us, Wrap, CountMax, MaxFrames,
        MaxSilence, MaxWait} \subseteq Nat

VARIABLES
    now,       \* (uint32_t)esp_timer_get_time()
    model,     \* handle->model
    reading,   \* ppm_decoder_get_status's now_us, if one is under way
    pulses,    \* history: plausible pulses since the last sync gap
    silence,   \* history: true time since a frame was published
    waited     \* history: true time since the reader read the clock

decoderVars == <<now, model, reading, pulses, silence, waited>>

Never == MaxSilence
NoReader == Wrap

DecoderInit ==
    /\ now \in 0..(Wrap - 1)
    /\ model = [has_last_edge |-> FALSE, last_edge_us |-> 0,
                working_channels |-> <<>>, working_channel_count |-> 0,
                channels |-> <<>>, last_valid_frame_us |-> 0,
                valid_frames |-> 0]
    /\ reading = NoReader /\ waited = 0
    /\ pulses = <<>> /\ silence = Never

elapsed(since) == (now + Wrap - since) % Wrap

is_sync(pulse) == pulse >= sync_threshold_us
is_plausible(pulse) == pulse >= min_pulse_us /\ pulse <= max_pulse_us

\* Mutant: the pulses beyond the last channel are not counted.
take_pulse_clamped(m, pulse) ==
    IF m.working_channel_count < channel_count
    THEN [m EXCEPT !.working_channels = Append(@, pulse),
                   !.working_channel_count = @ + 1]
    ELSE m

\* A plausible pulse is the next channel, or counts as overflow.
take_pulse(m, pulse) ==
    IF m.working_channel_count < channel_count
    THEN [m EXCEPT !.working_channels = Append(@, pulse),
                   !.working_channel_count = @ + 1]
    ELSE IF m.working_channel_count < CountMax
    THEN [m EXCEPT !.working_channel_count = @ + 1]
    ELSE m

\* Mutant: a sync gap counts as a frame received, whatever came before it.
end_frame_stamped(m) ==
    LET whole == m.working_channel_count = channel_count
    IN  [m EXCEPT !.channels = IF whole THEN m.working_channels ELSE @,
                  !.last_valid_frame_us = now,
                  !.valid_frames = IF whole THEN @ + 1 ELSE @,
                  !.working_channels = <<>>, !.working_channel_count = 0]

\* A sync gap publishes a frame of exactly channel_count pulses.
end_frame(m) ==
    LET published == IF m.working_channel_count = channel_count
                     THEN [m EXCEPT !.channels = m.working_channels,
                                    !.last_valid_frame_us = now,
                                    !.valid_frames = @ + 1]
                     ELSE m
    IN  [published EXCEPT !.working_channels = <<>>,
                          !.working_channel_count = 0]

\* ppm_decoder_model_feed_rising_edge, called by ppm_isr_handler.
RisingEdge ==
    LET pulse == elapsed(model.last_edge_us)
        timed == [model EXCEPT !.has_last_edge = TRUE, !.last_edge_us = now]
    IN  /\ model.valid_frames < MaxFrames
        /\ model' = IF ~model.has_last_edge THEN timed
                    ELSE IF is_sync(pulse) THEN end_frame(timed)
                    ELSE IF is_plausible(pulse) THEN take_pulse(timed, pulse)
                    ELSE timed
        /\ pulses' = IF ~model.has_last_edge THEN pulses
                     ELSE IF is_sync(pulse) THEN <<>>
                     ELSE IF is_plausible(pulse)
                             /\ Len(pulses) <= channel_count
                     THEN Append(pulses, pulse) ELSE pulses
        /\ silence' = IF model'.valid_frames # model.valid_frames
                      THEN 0 ELSE silence
        /\ UNCHANGED <<now, reading, waited>>

\* ppm_decoder_get_status reads the clock; its snapshot comes later.
ReadClock ==
    /\ reading = NoReader /\ reading' = now
    /\ UNCHANGED <<now, model, pulses, silence, waited>>

\* The critical section that takes the snapshot, and the reader is done.
Snapshot ==
    /\ reading # NoReader /\ reading' = NoReader /\ waited' = 0
    /\ UNCHANGED <<now, model, pulses, silence>>

\* A microsecond passes.
Tick ==
    /\ reading # NoReader => waited < MaxWait
    /\ now' = (now + 1) % Wrap
    /\ silence' = IF silence < MaxSilence THEN silence + 1 ELSE silence
    /\ waited' = IF reading = NoReader THEN 0 ELSE waited + 1
    /\ UNCHANGED <<model, reading, pulses>>

DecoderNext == RisingEdge \/ Tick \/ ReadClock \/ Snapshot

DecoderSpec == DecoderInit /\ [][DecoderNext]_decoderVars

\* What ppm_decoder_model_snapshot finds with the reader's time: a zero
\* timestamp stands for "no frame yet".
last_frame_age == (reading + Wrap - model.last_valid_frame_us) % Wrap
signal_valid ==
    /\ model.last_valid_frame_us # 0
    /\ last_frame_age <= stale_timeout

(* ----------------------------- properties ----------------------------- *)

\* The decoder never holds more than a frame's channels, and publishes none
\* or all of them.
DecoderTypeOK ==
    /\ now \in 0..(Wrap - 1) /\ reading \in 0..(Wrap - 1) \union {NoReader}
    /\ model.last_edge_us \in 0..(Wrap - 1)
    /\ model.last_valid_frame_us \in 0..(Wrap - 1)
    /\ model.working_channel_count \in 0..CountMax
    /\ Len(model.working_channels) <= channel_count
    /\ Len(model.channels) \in {0, channel_count}
    /\ model.valid_frames \in 0..MaxFrames /\ silence \in 0..MaxSilence
    /\ waited \in 0..MaxWait

\* The true age of the last frame when the reader read the clock: negative
\* for a frame that was published since.
AgeAtReading == silence - waited

\* What a reader makes of the last frame, whatever came in while it waited
\* for its snapshot and through the wrap of the counter: the signal it sees
\* valid had a frame at most stale_timeout old when it read the clock, and a
\* frame that fresh is seen, unless a newer one came in between: its age is
\* below zero, which the unsigned difference takes for the oldest.  (A frame
\* accepted at the instant 0 counts as none, and the age starts again after
\* a whole turn of the counter.)
AgeIsTrue ==
    reading # NoReader /\ silence < MaxSilence =>
        (signal_valid <=> /\ AgeAtReading \in 0..stale_timeout
                          /\ model.last_valid_frame_us # 0)

\* Channels are replaced all at once, by the plausible pulses between two
\* sync gaps when there are exactly channel_count of them: never by a prefix
\* of a longer frame nor a mixture of two frames.
FramesAreWhole ==
    [][/\ model'.channels # model.channels
              => model'.valid_frames = model.valid_frames + 1
       /\ model'.valid_frames # model.valid_frames
              => model'.channels = pulses /\ Len(pulses) = channel_count]_decoderVars
=============================================================================
