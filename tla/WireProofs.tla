------------------------------ MODULE WireProofs ------------------------------
(***************************************************************************)
(* Proofs about what comes in over the wires, for every configuration: of  *)
(* the RC receiver, PpmDecoder, the frames and their age, and RobotSafety  *)
(* with the interlock; of the drives, BusExchange, their answers.  The     *)
(* first two subtract counters that wrap.                                  *)
(***************************************************************************)
EXTENDS RobotSafety, PpmDecoder, BusExchange, TLAPS

(* -------------------------- counters that wrap -------------------------- *)

\* % of a number within one modulus of 0, from either side.
LEMMA ModSmall == ASSUME NEW n \in Nat \ {0}, NEW x \in 0..(n - 1) PROVE x % n = x
  OBVIOUS

\* One turn too far comes back by one turn,
LEMMA ModOver == ASSUME NEW n \in Nat \ {0}, NEW x \in n..(2 * n - 1) PROVE x % n = x - n
  OBVIOUS

\* and below zero by one turn as well.
LEMMA ModUnder == ASSUME NEW n \in Nat \ {0}, NEW x \in (-n)..(-1) PROVE x % n = x + n
  OBVIOUS

\* A difference of two ticks moves by as much as the later one, until it wraps.
LEMMA LaterElapsed ==
    ASSUME NEW n \in Nat \ {0}, NEW later \in 0..(n - 1), NEW then \in 0..(n - 1), NEW d \in Nat,
           ((later - then) % n) + d < n
    PROVE  /\ (later + d) % n \in 0..(n - 1)
           /\ (((later + d) % n) - then) % n = ((later - then) % n) + d
  <1>1. (later - then) % n = IF later >= then THEN later - then ELSE later - then + n
    <2>1. CASE later >= then
      <3>1. later - then \in 0..(n - 1)
        BY <2>1
      <3> QED BY <2>1, <3>1, ModSmall
    <2>2. CASE later < then
      <3>1. later - then \in (-n)..(-1)
        BY <2>2
      <3> QED BY <2>2, <3>1, ModUnder
    <2> QED BY <2>1, <2>2
  <1>2. CASE later >= then /\ later + d < n
    <2>1. later + d \in 0..(n - 1) /\ later + d - then \in 0..(n - 1)
      BY <1>2
    <2>2. (later + d) % n = later + d
      BY <2>1, ModSmall
    <2>3. (later + d - then) % n = later + d - then
      BY <2>1, ModSmall
    <2> QED BY <1>1, <1>2, <2>2, <2>3
  <1>3. CASE later >= then /\ later + d >= n
    <2>1. later + d - then < n /\ later + d < 2 * n
      BY <1>1, <1>3
    <2>2. later + d \in n..(2 * n - 1)
      BY <1>3, <2>1
    <2>3. (later + d) % n = later + d - n
      BY <2>2, ModOver
    <2>4. later + d - n - then \in (-n)..(-1)
      BY <1>3, <2>1
    <2>5. (later + d - n - then) % n = later + d - n - then + n
      BY <2>4, ModUnder
    <2> QED BY <1>1, <1>3, <2>1, <2>3, <2>5
  <1>4. CASE later < then
    <2>1. later + d < then
      BY <1>1, <1>4
    <2>2. later + d \in 0..(n - 1) /\ later + d - then \in (-n)..(-1)
      BY <2>1
    <2>3. (later + d) % n = later + d
      BY <2>2, ModSmall
    <2>4. (later + d - then) % n = later + d - then + n
      BY <2>2, ModUnder
    <2> QED BY <1>1, <1>4, <2>1, <2>3, <2>4
  <1> QED BY <1>2, <1>3, <1>4

(* ----------------------------- the decoder ------------------------------ *)

\* The decoder's model, its channels any naturals.
DecoderModel ==
    [has_last_edge: BOOLEAN, last_edge_us: 0..(Wrap - 1),
     working_channels: Seq(Nat), working_channel_count: 0..CountMax,
     channels: Seq(Nat), last_valid_frame_us: 0..(Wrap - 1), valid_frames: Nat]

\* The working channels are the pulses since the gap; of a frame that is too
\* long the decoder keeps the first ones and the count that gives it away.
WorkIsPulses ==
    /\ pulses \in Seq(Nat) /\ Len(pulses) <= channel_count + 1
    /\ Len(model.working_channels) <= channel_count
    /\ IF Len(pulses) <= channel_count
       THEN model.working_channels = pulses /\ model.working_channel_count = Len(pulses)
       ELSE model.working_channel_count > channel_count

PublishedIsWhole == Len(model.channels) \in {0, channel_count}

WholeInv ==
    /\ now \in 0..(Wrap - 1) /\ model \in DecoderModel
    /\ WorkIsPulses /\ PublishedIsWhole
    /\ model.valid_frames <= MaxFrames /\ silence \in 0..MaxSilence
    /\ reading \in 0..Wrap /\ waited \in 0..MaxWait

\* What the configuration gives the provers.
LEMMA DecoderBounds ==
    /\ channel_count \in Nat /\ channel_count > 0 /\ min_pulse_us \in Nat /\ max_pulse_us \in Nat
    /\ sync_threshold_us \in Nat /\ stale_timeout \in Nat
    /\ Wrap \in Nat \ {0} /\ CountMax \in Nat /\ CountMax > channel_count
    /\ MaxFrames \in Nat /\ MaxSilence \in Nat /\ MaxWait \in Nat
  BY DecoderConfig

\* An interval of the wrapped clock is within its modulus.
LEMMA ElapsedType ==
    ASSUME NEW since \in 0..(Wrap - 1), now \in 0..(Wrap - 1)
    PROVE  elapsed(since) \in 0..(Wrap - 1)
  BY DecoderBounds DEF elapsed

\* An edge only moves the time of the last one.
Timed == [model EXCEPT !.has_last_edge = TRUE, !.last_edge_us = now]

\* It changes no field of the frame under assembly or of the published one.
LEMMA TimedFields ==
    ASSUME WholeInv
    PROVE  /\ Timed \in DecoderModel
           /\ Timed.working_channels = model.working_channels
           /\ Timed.working_channel_count = model.working_channel_count
           /\ Timed.channels = model.channels /\ Timed.valid_frames = model.valid_frames
           /\ Timed.last_valid_frame_us = model.last_valid_frame_us
  BY DEF WholeInv, Timed, DecoderModel

\* A pulse is appended, or counted only, or (at the count's end) dropped.
LEMMA TakenPulse ==
    ASSUME NEW m \in DecoderModel, NEW pulse \in Nat
    PROVE  LET t == take_pulse(m, pulse) IN
           /\ t \in DecoderModel
           /\ t.channels = m.channels /\ t.valid_frames = m.valid_frames
           /\ t.last_valid_frame_us = m.last_valid_frame_us
           /\ t.working_channels =
                IF m.working_channel_count < channel_count
                THEN Append(m.working_channels, pulse) ELSE m.working_channels
           /\ t.working_channel_count =
                IF m.working_channel_count < CountMax
                THEN m.working_channel_count + 1 ELSE m.working_channel_count
  <1> DEFINE t == take_pulse(m, pulse)
             longer == Append(m.working_channels, pulse)
             count == m.working_channel_count + 1
  <1>1. m.working_channel_count \in 0..CountMax /\ longer \in Seq(Nat)
    BY DEF DecoderModel
  <1>2. CASE m.working_channel_count < channel_count
    <2>1. count \in 0..CountMax /\ m.working_channel_count < CountMax
      BY <1>1, <1>2, DecoderBounds
    <2>2. t = [m EXCEPT !.working_channels = longer, !.working_channel_count = count]
      BY <1>2 DEF take_pulse
    <2> HIDE DEF t, longer, count
    <2> QED BY <1>1, <1>2, <2>1, <2>2 DEF DecoderModel, t, longer, count
  <1>3. CASE ~(m.working_channel_count < channel_count) /\ m.working_channel_count < CountMax
    <2>1. count \in 0..CountMax
      BY <1>1, <1>3, DecoderBounds
    <2>2. t = [m EXCEPT !.working_channel_count = count]
      BY <1>3 DEF take_pulse
    <2> HIDE DEF t, count
    <2> QED BY <1>3, <2>1, <2>2 DEF DecoderModel, t, count
  <1>4. CASE ~(m.working_channel_count < channel_count) /\ ~(m.working_channel_count < CountMax)
    BY <1>4 DEF take_pulse
  <1> QED BY <1>2, <1>3, <1>4

\* A gap publishes a frame of exactly channel_count pulses, and begins anew.
LEMMA EndedFrame ==
    ASSUME NEW m \in DecoderModel, now \in 0..(Wrap - 1)
    PROVE  LET e == end_frame(m)
               whole == m.working_channel_count = channel_count
           IN  /\ e \in DecoderModel
               /\ e.working_channels = <<>> /\ e.working_channel_count = 0
               /\ e.channels = IF whole THEN m.working_channels ELSE m.channels
               /\ e.valid_frames = IF whole THEN m.valid_frames + 1 ELSE m.valid_frames
               /\ e.last_valid_frame_us = IF whole THEN now ELSE m.last_valid_frame_us
  <1> DEFINE published == IF m.working_channel_count = channel_count
                          THEN [m EXCEPT !.channels = m.working_channels,
                                         !.last_valid_frame_us = now,
                                         !.valid_frames = m.valid_frames + 1]
                          ELSE m
  <1>1. /\ published \in DecoderModel
        /\ published.channels = IF m.working_channel_count = channel_count
                                THEN m.working_channels ELSE m.channels
        /\ published.valid_frames = IF m.working_channel_count = channel_count
                                    THEN m.valid_frames + 1 ELSE m.valid_frames
        /\ published.last_valid_frame_us = IF m.working_channel_count = channel_count
                                           THEN now ELSE m.last_valid_frame_us
    <2>1. CASE m.working_channel_count = channel_count
      <3>1. published = [m EXCEPT !.channels = m.working_channels, !.last_valid_frame_us = now,
                                  !.valid_frames = m.valid_frames + 1]
        BY <2>1
      <3>2. m.valid_frames + 1 \in Nat /\ m.working_channels \in Seq(Nat)
        BY DEF DecoderModel
      <3> HIDE DEF published
      <3> QED BY <2>1, <3>1, <3>2 DEF DecoderModel
    <2>2. CASE m.working_channel_count # channel_count
      <3>1. published = m
        BY <2>2
      <3> HIDE DEF published
      <3> QED BY <2>2, <3>1
    <2> QED BY <2>1, <2>2
  <1>2. end_frame(m) = [published EXCEPT !.working_channels = <<>>, !.working_channel_count = 0]
    BY DEF end_frame, DecoderModel
  <1>3. 0 \in 0..CountMax /\ <<>> \in Seq(Nat)
    BY DecoderBounds
  <1> HIDE DEF published
  <1> QED BY <1>1, <1>2, <1>3 DEF DecoderModel

\* What a step may do to the published frame.
WholeStep ==
    /\ model'.channels # model.channels => model'.valid_frames = model.valid_frames + 1
    /\ model'.valid_frames # model.valid_frames =>
         model'.channels = pulses /\ Len(pulses) = channel_count

\* An edge keeps the invariant and publishes whole frames only.
LEMMA EdgeStep == ASSUME WholeInv, RisingEdge PROVE WholeInv' /\ WholeStep
  <1> DEFINE pulse == elapsed(model.last_edge_us)
  <1>1. /\ now \in 0..(Wrap - 1) /\ model \in DecoderModel /\ model.last_edge_us \in 0..(Wrap - 1)
        /\ pulses \in Seq(Nat) /\ Len(pulses) \in Nat
        /\ model.working_channel_count \in Nat /\ model.valid_frames \in Nat
    BY DEF WholeInv, WorkIsPulses, DecoderModel
  <1>2. pulse \in Nat
    BY <1>1, ElapsedType, DecoderBounds
  <1>3. /\ model.valid_frames < MaxFrames /\ now' = now
        /\ model' = IF ~model.has_last_edge THEN Timed
                    ELSE IF is_sync(pulse) THEN end_frame(Timed)
                    ELSE IF is_plausible(pulse) THEN take_pulse(Timed, pulse)
                    ELSE Timed
        /\ pulses' = IF ~model.has_last_edge THEN pulses
                     ELSE IF is_sync(pulse) THEN <<>>
                     ELSE IF is_plausible(pulse) /\ Len(pulses) <= channel_count
                     THEN Append(pulses, pulse) ELSE pulses
        /\ silence' = IF model'.valid_frames # model.valid_frames THEN 0 ELSE silence
        /\ UNCHANGED <<reading, waited>>
    BY DEF RisingEdge, Timed
  <1>4. /\ silence' \in 0..MaxSilence /\ now' \in 0..(Wrap - 1)
        /\ reading' \in 0..Wrap /\ waited' \in 0..MaxWait
    BY <1>1, <1>3, DecoderBounds DEF WholeInv
  <1> HIDE DEF pulse
  <1>5. CASE model' = Timed /\ pulses' = pulses
    BY <1>1, <1>3, <1>4, <1>5, TimedFields
       DEF WholeInv, WorkIsPulses, PublishedIsWhole, WholeStep
  <1>6. CASE model' = end_frame(Timed) /\ pulses' = <<>>
    <2> DEFINE whole == model.working_channel_count = channel_count
    <2>1. /\ model' \in DecoderModel
          /\ model'.working_channels = <<>> /\ model'.working_channel_count = 0
          /\ model'.channels = IF whole THEN model.working_channels ELSE model.channels
          /\ model'.valid_frames = IF whole THEN model.valid_frames + 1 ELSE model.valid_frames
      BY <1>1, <1>6, TimedFields, EndedFrame
    <2>2. whole => model.working_channels = pulses /\ Len(pulses) = channel_count
      BY <1>1, DecoderBounds DEF WholeInv, WorkIsPulses
    <2>3. WorkIsPulses'
      BY <1>6, <2>1, DecoderBounds DEF WorkIsPulses
    <2>4. PublishedIsWhole' /\ WholeStep
      BY <1>1, <2>1, <2>2 DEF PublishedIsWhole, WholeStep, WholeInv
    <2>5. model'.valid_frames <= MaxFrames
      BY <1>1, <1>3, <2>1, DecoderBounds
    <2> QED BY <1>4, <2>1, <2>3, <2>4, <2>5 DEF WholeInv
  <1>7. CASE /\ model' = take_pulse(Timed, pulse)
             /\ pulses' = IF Len(pulses) <= channel_count THEN Append(pulses, pulse) ELSE pulses
    <2>1. /\ model' \in DecoderModel
          /\ model'.channels = model.channels /\ model'.valid_frames = model.valid_frames
          /\ model'.working_channels =
               IF model.working_channel_count < channel_count
               THEN Append(model.working_channels, pulse) ELSE model.working_channels
          /\ model'.working_channel_count =
               IF model.working_channel_count < CountMax
               THEN model.working_channel_count + 1 ELSE model.working_channel_count
      <3> DEFINE m == Timed
                 t == take_pulse(m, pulse)
      <3>1. /\ m \in DecoderModel /\ m.working_channels = model.working_channels
            /\ m.working_channel_count = model.working_channel_count
            /\ m.channels = model.channels /\ m.valid_frames = model.valid_frames
        BY TimedFields
      <3> HIDE DEF m
      <3>2. /\ t \in DecoderModel
            /\ t.channels = m.channels /\ t.valid_frames = m.valid_frames
            /\ t.working_channels = IF m.working_channel_count < channel_count
                                    THEN Append(m.working_channels, pulse) ELSE m.working_channels
            /\ t.working_channel_count = IF m.working_channel_count < CountMax
                                         THEN m.working_channel_count + 1
                                         ELSE m.working_channel_count
        BY <1>2, <3>1, TakenPulse
      <3>3. model' = t
        BY <1>7 DEF m
      <3> HIDE DEF t
      <3> QED BY <3>1, <3>2, <3>3
    <2>2. WorkIsPulses'
      <3>1. CASE Len(pulses) < channel_count
        <4>1. model.working_channels = pulses /\ model.working_channel_count = Len(pulses)
          BY <1>1, <3>1, DecoderBounds DEF WholeInv, WorkIsPulses
        <4>2. pulses' = Append(pulses, pulse) /\ model'.working_channels = Append(pulses, pulse)
              /\ model'.working_channel_count = Len(pulses) + 1
          BY <1>1, <1>7, <2>1, <3>1, <4>1, DecoderBounds
        <4>3. Len(Append(pulses, pulse)) = Len(pulses) + 1 /\ Append(pulses, pulse) \in Seq(Nat)
          BY <1>1, <1>2
        <4> QED BY <1>1, <3>1, <4>2, <4>3, DecoderBounds DEF WorkIsPulses
      <3>2. CASE Len(pulses) = channel_count
        <4>1. model.working_channels = pulses /\ model.working_channel_count = channel_count
          BY <1>1, <3>2, DecoderBounds DEF WholeInv, WorkIsPulses
        <4>2. pulses' = Append(pulses, pulse) /\ model'.working_channels = pulses
              /\ model'.working_channel_count = channel_count + 1
          BY <1>7, <2>1, <3>2, <4>1, DecoderBounds
        <4>3. Len(Append(pulses, pulse)) = channel_count + 1 /\ Append(pulses, pulse) \in Seq(Nat)
          BY <1>1, <1>2, <3>2
        <4> QED BY <3>2, <4>2, <4>3, DecoderBounds DEF WorkIsPulses
      <3>3. CASE Len(pulses) > channel_count
        <4>1. model.working_channel_count > channel_count
          BY <1>1, <3>3, DecoderBounds DEF WholeInv, WorkIsPulses
        <4>2. pulses' = pulses /\ model'.working_channels = model.working_channels
              /\ model'.working_channel_count > channel_count
          BY <1>1, <1>7, <2>1, <3>3, <4>1, DecoderBounds
        <4> QED BY <1>1, <3>3, <4>2, DecoderBounds DEF WholeInv, WorkIsPulses
      <3> QED BY <1>1, <3>1, <3>2, <3>3, DecoderBounds
    <2>3. PublishedIsWhole' /\ WholeStep /\ model'.valid_frames <= MaxFrames
      BY <2>1 DEF WholeInv, PublishedIsWhole, WholeStep
    <2> QED BY <1>4, <2>1, <2>2, <2>3 DEF WholeInv
  <1> QED BY <1>3, <1>5, <1>6, <1>7

\* So does the passing of time,
LEMMA TickStep == ASSUME WholeInv, Tick PROVE WholeInv' /\ WholeStep
  <1>1. /\ now' = (now + 1) % Wrap /\ UNCHANGED <<model, pulses, reading>>
        /\ silence' = IF silence < MaxSilence THEN silence + 1 ELSE silence
        /\ reading # NoReader => waited < MaxWait
        /\ waited' = IF reading = NoReader THEN 0 ELSE waited + 1
    BY DEF Tick
  <1>2. now' \in 0..(Wrap - 1) /\ silence' \in 0..MaxSilence
    BY <1>1, DecoderBounds DEF WholeInv
  <1>3. reading' \in 0..Wrap /\ waited' \in 0..MaxWait
    BY <1>1, DecoderBounds DEF WholeInv
  <1> QED BY <1>1, <1>2, <1>3 DEF WholeInv, WorkIsPulses, PublishedIsWhole, WholeStep

\* and so do the reader's two steps,
LEMMA ReaderStep == ASSUME WholeInv, ReadClock \/ Snapshot PROVE WholeInv' /\ WholeStep
  <1>1. /\ UNCHANGED <<now, model, pulses, silence>>
        /\ reading' \in {now, NoReader} /\ waited' \in {0, waited}
    BY DEF ReadClock, Snapshot
  <1>2. reading' \in 0..Wrap /\ waited' \in 0..MaxWait
    BY <1>1, DecoderBounds DEF WholeInv, NoReader
  <1> QED BY <1>1, <1>2 DEF WholeInv, WorkIsPulses, PublishedIsWhole, WholeStep

\* and the initial state satisfies the invariant,
LEMMA WholeInit == DecoderInit => WholeInv
  <1> SUFFICES ASSUME DecoderInit PROVE WholeInv
    OBVIOUS
  <1>1. /\ model = [has_last_edge |-> FALSE, last_edge_us |-> 0, working_channels |-> <<>>,
                    working_channel_count |-> 0, channels |-> <<>>, last_valid_frame_us |-> 0,
                    valid_frames |-> 0]
        /\ pulses = <<>> /\ silence = MaxSilence /\ now \in 0..(Wrap - 1)
        /\ reading = Wrap /\ waited = 0
    BY DEF DecoderInit, Never, NoReader
  <1>2. 0 \in 0..(Wrap - 1) /\ 0 \in 0..CountMax /\ <<>> \in Seq(Nat) /\ Len(<<>>) = 0
    BY DecoderBounds
  <1>3. model \in DecoderModel
    BY <1>1, <1>2 DEF DecoderModel
  <1> QED BY <1>1, <1>2, <1>3, DecoderBounds DEF WholeInv, WorkIsPulses, PublishedIsWhole

\* so that every step does both.
LEMMA WholeNext == WholeInv /\ [DecoderNext]_decoderVars => WholeInv' /\ [WholeStep]_decoderVars
  <1> SUFFICES ASSUME WholeInv, [DecoderNext]_decoderVars
               PROVE  WholeInv' /\ [WholeStep]_decoderVars
    OBVIOUS
  <1>1. CASE RisingEdge BY <1>1, EdgeStep
  <1>2. CASE Tick BY <1>2, TickStep
  <1>3. CASE ReadClock \/ Snapshot BY <1>3, ReaderStep
  <1>4. CASE UNCHANGED decoderVars
    BY <1>4 DEF decoderVars, WholeInv, WorkIsPulses, PublishedIsWhole
  <1> QED BY <1>1, <1>2, <1>3, <1>4 DEF DecoderNext

\* The decoder keeps its types and never more than a frame's channels.
THEOREM DecoderInvariance == DecoderSpec => []WholeInv
  BY WholeInit, WholeNext, PTL DEF DecoderSpec

\* Channels are replaced all at once, by the plausible pulses between two sync
\* gaps when there are exactly channel_count of them
\* (ppm_decoder_model_feed_rising_edge), for any configuration the decoder
\* accepts, any edge times and through every wrap of the clock.
THEOREM FramesAlwaysWhole == DecoderSpec => FramesAreWhole
  BY WholeNext, DecoderInvariance, PTL DEF DecoderSpec, FramesAreWhole, WholeStep

-----------------------------------------------------------------------------
\* The decoder's difference of two times is the one that wraps below 0.
LEMMA ElapsedIsDifference ==
    ASSUME NEW t \in 0..(Wrap - 1), NEW since \in 0..(Wrap - 1)
    PROVE  (t + Wrap - since) % Wrap = (t - since) % Wrap
  <1>1. CASE t >= since
    <2>1. t + Wrap - since \in Wrap..(2 * Wrap - 1) /\ t - since \in 0..(Wrap - 1)
      BY <1>1, DecoderBounds
    <2>2. (t + Wrap - since) % Wrap = t + Wrap - since - Wrap
      BY <2>1, DecoderBounds, ModOver
    <2>3. (t - since) % Wrap = t - since
      BY <2>1, DecoderBounds, ModSmall
    <2> QED BY <2>2, <2>3, DecoderBounds
  <1>2. CASE t < since
    <2>1. t + Wrap - since \in 0..(Wrap - 1) /\ t - since \in (-Wrap)..(-1)
      BY <1>2, DecoderBounds
    <2>2. (t + Wrap - since) % Wrap = t + Wrap - since
      BY <2>1, DecoderBounds, ModSmall
    <2>3. (t - since) % Wrap = t - since + Wrap
      BY <2>1, DecoderBounds, ModUnder
    <2> QED BY <2>2, <2>3, DecoderBounds
  <1> QED BY <1>1, <1>2, DecoderBounds

\* The time since the last frame, as long as less than a turn has gone by.
AgeInv ==
    silence < MaxSilence /\ model.last_valid_frame_us # 0 =>
        elapsed(model.last_valid_frame_us) = silence

\* The reader's time is as far behind as the reader has waited.
ReadingInv ==
    IF reading = NoReader THEN waited = 0 ELSE (now - reading) % Wrap = waited

\* An edge keeps the age of the last frame,
LEMMA AgeEdge == ASSUME WholeInv, AgeInv, RisingEdge PROVE AgeInv'
  <1> DEFINE pulse == elapsed(model.last_edge_us)
             whole == Timed.working_channel_count = channel_count
  <1>1. /\ now \in 0..(Wrap - 1) /\ model.last_edge_us \in 0..(Wrap - 1) /\ now' = now
        /\ model.valid_frames \in Nat /\ Timed \in DecoderModel
        /\ Timed.valid_frames = model.valid_frames
        /\ Timed.last_valid_frame_us = model.last_valid_frame_us
    BY TimedFields DEF WholeInv, DecoderModel, RisingEdge
  <1>2. pulse \in Nat
    BY <1>1, ElapsedType, DecoderBounds
  <1>3. /\ model' \in {Timed, end_frame(Timed), take_pulse(Timed, pulse)}
        /\ silence' = IF model'.valid_frames # model.valid_frames THEN 0 ELSE silence
    BY DEF RisingEdge, Timed
  <1> HIDE DEF pulse
  <1>4. \/ model'.valid_frames = model.valid_frames
           /\ model'.last_valid_frame_us = model.last_valid_frame_us
        \/ model'.valid_frames = model.valid_frames + 1 /\ model'.last_valid_frame_us = now
    <2>1. CASE model' = Timed
      BY <1>1, <2>1
    <2>2. CASE model' = end_frame(Timed)
      <3>1. /\ end_frame(Timed).valid_frames =
                 IF whole THEN Timed.valid_frames + 1 ELSE Timed.valid_frames
            /\ end_frame(Timed).last_valid_frame_us =
                 IF whole THEN now ELSE Timed.last_valid_frame_us
        BY <1>1, EndedFrame
      <3> QED BY <1>1, <2>2, <3>1
    <2>3. CASE model' = take_pulse(Timed, pulse)
      <3>1. /\ take_pulse(Timed, pulse).valid_frames = Timed.valid_frames
            /\ take_pulse(Timed, pulse).last_valid_frame_us = Timed.last_valid_frame_us
        BY <1>1, <1>2, TakenPulse
      <3> QED BY <1>1, <2>3, <3>1
    <2> QED BY <1>3, <2>1, <2>2, <2>3
  <1>5. CASE /\ model'.valid_frames = model.valid_frames
             /\ model'.last_valid_frame_us = model.last_valid_frame_us
    BY <1>1, <1>3, <1>5 DEF AgeInv, elapsed
  <1>6. CASE model'.valid_frames = model.valid_frames + 1 /\ model'.last_valid_frame_us = now
    <2>1. (now - now) % Wrap = 0
      BY <1>1, DecoderBounds, ModSmall
    <2>2. (now + Wrap - now) % Wrap = 0
      BY <1>1, <2>1, ElapsedIsDifference
    <2> QED BY <1>1, <1>3, <1>6, <2>2 DEF AgeInv, elapsed
  <1> QED BY <1>4, <1>5, <1>6

\* and so does time until the counter has gone round.
LEMMA AgeTick == ASSUME MaxSilence <= Wrap, WholeInv, AgeInv, Tick PROVE AgeInv'
  <1> DEFINE since == model.last_valid_frame_us
  <1>1. /\ now' = (now + 1) % Wrap /\ model' = model
        /\ silence' = IF silence < MaxSilence THEN silence + 1 ELSE silence
    BY DEF Tick
  <1>2. now \in 0..(Wrap - 1) /\ since \in 0..(Wrap - 1) /\ silence \in 0..MaxSilence
    BY DEF WholeInv, DecoderModel
  <1> HIDE DEF since
  <1> SUFFICES ASSUME silence' < MaxSilence, since # 0
               PROVE  (((now + 1) % Wrap) + Wrap - since) % Wrap = silence + 1
                      /\ silence' = silence + 1
    BY <1>1 DEF AgeInv, elapsed, since
  <1>3. silence + 1 < MaxSilence /\ silence' = silence + 1
    BY <1>1, <1>2, DecoderBounds
  <1>4. (now + Wrap - since) % Wrap = silence
    BY <1>2, <1>3, DecoderBounds DEF AgeInv, elapsed, since
  <1>5. (now - since) % Wrap = silence
    BY <1>2, <1>4, ElapsedIsDifference
  <1>6. /\ (now + 1) % Wrap \in 0..(Wrap - 1)
        /\ (((now + 1) % Wrap) - since) % Wrap = silence + 1
    BY <1>2, <1>3, <1>5, DecoderBounds, LaterElapsed
  <1> QED BY <1>2, <1>3, <1>6, ElapsedIsDifference

\* The reader's time stays what it is, and falls behind with every tick.
LEMMA ReadingTick == ASSUME MaxWait < Wrap, WholeInv, ReadingInv, Tick PROVE ReadingInv'
  <1>1. /\ now' = (now + 1) % Wrap /\ reading' = reading
        /\ reading # NoReader => waited < MaxWait
        /\ waited' = IF reading = NoReader THEN 0 ELSE waited + 1
    BY DEF Tick
  <1>2. now \in 0..(Wrap - 1) /\ reading \in 0..Wrap /\ waited \in 0..MaxWait
    BY DEF WholeInv
  <1>3. CASE reading = NoReader
    BY <1>1, <1>3 DEF ReadingInv
  <1>4. CASE reading # NoReader
    <2>1. reading \in 0..(Wrap - 1) /\ (now - reading) % Wrap = waited
      BY <1>2, <1>4, DecoderBounds DEF ReadingInv, NoReader
    <2>2. waited + 1 < Wrap
      BY <1>1, <1>2, <1>4, DecoderBounds
    <2>3. (((now + 1) % Wrap) - reading) % Wrap = waited + 1
      BY <1>2, <2>1, <2>2, DecoderBounds, LaterElapsed
    <2> QED BY <1>1, <1>4, <2>3 DEF ReadingInv
  <1> QED BY <1>3, <1>4

\* A wrapped time that is i behind another one is so within one turn.
LEMMA Behind ==
    ASSUME NEW n \in Nat \ {0}, NEW t \in 0..(n - 1), NEW a \in 0..(n - 1)
    PROVE  t - a \in {(t - a) % n, ((t - a) % n) - n}
  <1>1. CASE t >= a
    <2>1. t - a \in 0..(n - 1)
      BY <1>1
    <2>2. (t - a) % n = t - a
      BY <2>1, ModSmall
    <2> QED BY <2>1, <2>2
  <1>2. CASE t < a
    <2>1. t - a \in (-n)..(-1)
      BY <1>2
    <2>2. (t - a) % n = t - a + n
      BY <2>1, ModUnder
    <2> QED BY <2>1, <2>2
  <1> QED BY <1>1, <1>2

\* What the reader finds is the age at its reading, or wraps below zero.
LEMMA AgeIsFound ==
    ASSUME MaxSilence <= Wrap, MaxWait + stale_timeout < Wrap, WholeInv, AgeInv, ReadingInv
    PROVE  AgeIsTrue
  <1> DEFINE since == model.last_valid_frame_us
  <1> SUFFICES ASSUME reading # NoReader, silence < MaxSilence, since # 0
               PROVE  last_frame_age <= stale_timeout <=> AgeAtReading \in 0..stale_timeout
    BY DEF AgeIsTrue, signal_valid
  <1>1. /\ now \in 0..(Wrap - 1) /\ since \in 0..(Wrap - 1) /\ silence \in 0..(Wrap - 1)
        /\ reading \in 0..(Wrap - 1) /\ waited \in 0..MaxWait
    BY DecoderBounds DEF WholeInv, DecoderModel, NoReader
  <1>2. (now - reading) % Wrap = waited
    BY DEF ReadingInv
  <1>3. (now - since) % Wrap = silence
    BY <1>1, ElapsedIsDifference DEF AgeInv, elapsed
  <1>4. last_frame_age = (reading - since) % Wrap
    BY <1>1, ElapsedIsDifference DEF last_frame_age
  <1> HIDE DEF since
  <1>5. waited \in 0..(Wrap - 1)
    BY <1>1, DecoderBounds
  <1>6. /\ now - reading \in {waited, waited - Wrap}
        /\ now - since \in {silence, silence - Wrap}
        /\ reading - since \in {last_frame_age, last_frame_age - Wrap}
    BY <1>1, <1>2, <1>3, <1>4, DecoderBounds, Behind
  <1>7. last_frame_age \in 0..(Wrap - 1)
    BY <1>1, <1>4, DecoderBounds
  <1>8. last_frame_age = IF silence >= waited THEN silence - waited ELSE silence - waited + Wrap
    BY <1>1, <1>5, <1>6, <1>7, DecoderBounds
  <1> QED BY <1>1, <1>8, DecoderBounds DEF AgeAtReading

\* A reader sees a signal exactly when the last frame was at most
\* stale_timeout old when it read the clock, and not when it came in after
\* that: through every wrap of the counter up to a whole turn after the
\* frame, and however many edges come in before the snapshot, as long as the
\* reader does not wait for the rest of a turn
\* (ppm_decoder_get_status, ppm_decoder_model_snapshot).
THEOREM AgeAlwaysTrue ==
    ASSUME MaxSilence <= Wrap, MaxWait + stale_timeout < Wrap
    PROVE  DecoderSpec => []AgeIsTrue
  <1>1. DecoderInit => AgeInv /\ ReadingInv
    BY DEF DecoderInit, AgeInv, ReadingInv, Never
  <1>2. MaxWait < Wrap
    BY DecoderBounds
  <1>3. WholeInv /\ AgeInv /\ ReadingInv /\ [DecoderNext]_decoderVars => AgeInv' /\ ReadingInv'
    <2> SUFFICES ASSUME WholeInv, AgeInv, ReadingInv, [DecoderNext]_decoderVars
                 PROVE  AgeInv' /\ ReadingInv'
      OBVIOUS
    <2>1. CASE RisingEdge
      <3>1. UNCHANGED <<now, reading, waited>>
        BY <2>1 DEF RisingEdge
      <3> QED BY <2>1, <3>1, AgeEdge DEF ReadingInv
    <2>2. CASE Tick BY <1>2, <2>2, AgeTick, ReadingTick
    <2>3. CASE ReadClock
      <3>1. now \in 0..(Wrap - 1) /\ (now - now) % Wrap = 0
        BY DecoderBounds, ModSmall DEF WholeInv
      <3> QED BY <2>3, <3>1 DEF ReadClock, AgeInv, ReadingInv, elapsed
    <2>4. CASE Snapshot BY <2>4 DEF Snapshot, AgeInv, ReadingInv, elapsed
    <2>5. CASE UNCHANGED decoderVars BY <2>5 DEF decoderVars, AgeInv, ReadingInv, elapsed
    <2> QED BY <2>1, <2>2, <2>3, <2>4, <2>5 DEF DecoderNext
  <1>4. WholeInv /\ AgeInv /\ ReadingInv => AgeIsTrue
    BY AgeIsFound
  <1> QED BY <1>1, <1>3, <1>4, DecoderInvariance, PTL DEF DecoderSpec

(* ------------------ the interlock and the safety task ------------------- *)

\* The side a pulse asks for.
Side(pulse) == IF pulse = "low" THEN "PPM_PRIORITY" ELSE "FAILSAFE"

\* A state that is no loss and no candidate is the committed one.
StateIsCommitted == interlock.state \in Committed \ Lost => interlock.state = interlock.committed_state

\* The frames the interlock counts are a run of frames that really came, and
\* the last frame it saw, read again, says what it said.
CountIsReal ==
    interlock.candidate_valid_frames > 0 =>
        /\ run.pulse \in {"low", "high"} /\ interlock.candidate_state = Side(run.pulse)
        /\ run.frames >= interlock.candidate_valid_frames
        /\ receiver.sequence = interlock.last_observed_frame_sequence => receiver.pulse = run.pulse

\* The interlock has not seen a frame the receiver has not.
SeenIsPast == interlock.last_observed_frame_sequence <= receiver.sequence

\* An interlock that is off commits to nobody.
OffIsDisabled == ~Enabled => interlock.committed_state = "DISABLED"

InterlockInv == TypeOK /\ StateIsCommitted /\ OffIsDisabled /\ CountIsReal /\ SeenIsPast

\* The receiver's observations.
LEMMA ObservationType ==
    ASSUME TypeOK, NEW ok \in BOOLEAN
    PROVE  receiver_status(ok) \in Observation
  BY InterlockConfig DEF TypeOK, receiver_status, Observation, Pulse

\* What a sample says of the state: the side of its pulse when there is a signal, a loss otherwise.
LEMMA ObservedState ==
    ASSUME NEW m \in Interlock, NEW o \in Observation
    PROVE  /\ observed_state(m, o) \in Committed \union Lost
           /\ ~Enabled <=> observed_state(m, o) = "DISABLED"
           /\ observed_state(m, o) \notin Lost /\ Enabled =>
                /\ o.signal_valid /\ o.pulse \in {"low", "high"}
                /\ observed_state(m, o) = Side(o.pulse)
  BY InterlockConfig DEF Interlock, Observation, observed_state, Committed, Lost, Pulse, Side

\* A frame that is noticed changes what was seen, and nothing else.
Noticed(m, o) ==
    IF is_valid_new_frame(m, o)
    THEN [m EXCEPT !.last_observed_frame_sequence = o.valid_frame_sequence]
    ELSE m

\* Noticing a frame remembers its sequence and nothing else.
LEMMA NoticedFields ==
    ASSUME NEW m \in Interlock, NEW o \in Observation
    PROVE  /\ Noticed(m, o) \in Interlock
           /\ Noticed(m, o).last_observed_frame_sequence =
                IF is_valid_new_frame(m, o) THEN o.valid_frame_sequence
                                            ELSE m.last_observed_frame_sequence
           /\ Noticed(m, o).state = m.state
           /\ Noticed(m, o).committed_state = m.committed_state
           /\ Noticed(m, o).candidate_state = m.candidate_state
           /\ Noticed(m, o).candidate_valid_frames = m.candidate_valid_frames
  <1>1. o.valid_frame_sequence \in 0..(Counter - 1)
    BY DEF Observation
  <1>2. CASE is_valid_new_frame(m, o)
    BY <1>1, <1>2 DEF Noticed, Interlock
  <1>3. CASE ~is_valid_new_frame(m, o)
    BY <1>3 DEF Noticed
  <1> QED BY <1>2, <1>3

\* The branches of update. With the interlock off, or the receiver not heard,
\* or a frame for the committed side, nothing is counted.
LEMMA SettleFields ==
    ASSUME NEW m \in Interlock, NEW state \in Committed
    PROVE  /\ settle(m, state) \in Interlock
           /\ settle(m, state).candidate_valid_frames = 0 /\ settle(m, state).state = state
           /\ settle(m, state).committed_state = m.committed_state
           /\ settle(m, state).last_observed_frame_sequence = m.last_observed_frame_sequence
  BY DEF settle, Interlock, InterlockState

\* A loss of signal forgets the count of the candidate's frames.
LEMMA LoseFields ==
    ASSUME NEW m \in Interlock, NEW state \in Lost
    PROVE  /\ lose(m, state) \in Interlock
           /\ lose(m, state).candidate_valid_frames = 0 /\ lose(m, state).state = state
           /\ lose(m, state).last_observed_frame_sequence = m.last_observed_frame_sequence
  <1>1. state \in InterlockState BY DEF InterlockState
  <1> QED BY <1>1 DEF lose, Interlock

\* Counting a frame commits the candidate or leaves it one frame nearer.
LEMMA CountedFrame ==
    ASSUME NEW m \in Interlock, NEW next \in {"PPM_PRIORITY", "FAILSAFE"},
           m.candidate_valid_frames < ConfirmFrames
    PROVE  LET u == count_frame(m, next)
               frames == confirmations(m, next)
           IN  /\ u \in Interlock
               /\ u.last_observed_frame_sequence = m.last_observed_frame_sequence
               /\ u.candidate_state = next
               /\ \/ /\ frames >= ConfirmFrames /\ u.candidate_valid_frames = 0
                     /\ u.state = next /\ u.committed_state = next
                  \/ /\ frames < ConfirmFrames /\ u.candidate_valid_frames = frames
                     /\ u.state \in Candidate /\ u.committed_state = m.committed_state
  <1> DEFINE frames == confirmations(m, next)
             epoch == IF next = "PPM_PRIORITY" THEN (m.priority_epoch + 1) % Counter
                                               ELSE m.priority_epoch
             waits == IF next = "PPM_PRIORITY" THEN "PPM_PRIORITY_CANDIDATE"
                                               ELSE "FAILSAFE_CANDIDATE"
  <1>1. frames \in Nat /\ ConfirmFrames \in Nat
    BY InterlockConfig DEF confirmations, Interlock
  <1>2. epoch \in 0..(Counter - 1)
    <2>1. m.priority_epoch + 1 \in Nat /\ Counter \in Nat \ {0} /\ m.priority_epoch \in 0..(Counter - 1)
      BY InterlockConfig DEF Interlock
    <2> QED BY <2>1
  <1>3. /\ next \in Committed /\ next \in InterlockState
        /\ waits \in InterlockState /\ waits \in Candidate
    BY DEF Committed, InterlockState, Candidate
  <1>4. CASE frames >= ConfirmFrames
    <2>1. count_frame(m, next) = [m EXCEPT !.candidate_state = next, !.committed_state = next,
                                    !.candidate_valid_frames = 0, !.state = next,
                                    !.priority_epoch = epoch]
      BY <1>4 DEF count_frame, confirmed, Interlock
    <2> HIDE DEF epoch, waits, frames
    <2>2. 0 \in Nat
      OBVIOUS
    <2> QED BY <1>2, <1>3, <1>4, <2>1, <2>2 DEF Interlock, frames
  <1>5. CASE frames < ConfirmFrames
    <2>0. ~(frames >= ConfirmFrames)
      BY <1>1, <1>5
    <2>1. count_frame(m, next) = [m EXCEPT !.candidate_state = next,
                                    !.candidate_valid_frames = frames, !.state = waits]
      BY <2>0 DEF count_frame, confirmed, Interlock
    <2> HIDE DEF epoch, waits, frames
    <2> QED BY <1>1, <1>3, <1>5, <2>1 DEF Interlock, frames
  <1> QED BY <1>1, <1>4, <1>5

\* The three things update may do: settle or lose, count a new frame, or keep
\* what it has because it sees no new frame.
Settled(m, next, u) ==
    /\ u.candidate_valid_frames = 0 /\ u.state = next
    /\ u.state \notin Lost => u.committed_state = next
    /\ u.state \notin Lost /\ Enabled => m.committed_state = next

CountedOne(m, o, next, u) ==
    /\ Enabled /\ next \notin Lost /\ is_valid_new_frame(m, o) /\ u.candidate_state = next
    /\ \/ /\ confirmations(m, next) >= ConfirmFrames /\ u.candidate_valid_frames = 0
          /\ u.state = next /\ u.committed_state = next
       \/ /\ u.candidate_valid_frames = confirmations(m, next)
          /\ u.state \in Candidate /\ u.committed_state = m.committed_state

KeptCount(m, o, next, u) ==
    /\ Enabled /\ next \notin Lost /\ ~is_valid_new_frame(m, o)
    /\ u.candidate_valid_frames = m.candidate_valid_frames
    /\ u.candidate_state = m.candidate_state
    /\ u.committed_state = m.committed_state
    /\ u.state = IF m.candidate_valid_frames = 0 THEN m.committed_state ELSE m.state

\* The three outcomes of an update: nothing new, one more confirmation, a transition.
LEMMA UpdateResult ==
    ASSUME NEW m \in Interlock, NEW o \in Observation, m.candidate_valid_frames < ConfirmFrames
    PROVE  LET next == observed_state(m, o)
               u == update(m, o)
           IN  /\ u \in Interlock /\ u.candidate_valid_frames < ConfirmFrames
               /\ u.last_observed_frame_sequence =
                    IF is_valid_new_frame(m, o) THEN o.valid_frame_sequence
                                                ELSE m.last_observed_frame_sequence
               /\ Settled(m, next, u) \/ CountedOne(m, o, next, u) \/ KeptCount(m, o, next, u)
  <1> DEFINE next == observed_state(m, o)
             u == update(m, o)
             n == Noticed(m, o)
             new == is_valid_new_frame(m, o)
  <1>1. /\ n \in Interlock /\ n.candidate_valid_frames = m.candidate_valid_frames
        /\ n.committed_state = m.committed_state /\ n.candidate_state = m.candidate_state
        /\ n.state = m.state
        /\ n.last_observed_frame_sequence = IF new THEN o.valid_frame_sequence
                                                   ELSE m.last_observed_frame_sequence
    BY NoticedFields
  <1>2. /\ next \in Committed \union Lost /\ (~Enabled <=> next = "DISABLED")
        /\ next \notin Lost /\ Enabled => next \in {"PPM_PRIORITY", "FAILSAFE"}
    BY ObservedState DEF Side
  <1>3. u = IF ~Enabled THEN [settle(n, next) EXCEPT !.committed_state = next]
            ELSE IF next \in Lost THEN lose(n, next)
            ELSE IF next = n.committed_state THEN settle(n, next)
            ELSE IF new THEN count_frame(n, next)
            ELSE IF n.candidate_valid_frames = 0 THEN [n EXCEPT !.state = n.committed_state]
            ELSE n
    BY DEF update, Noticed
  <1>4. 0 < ConfirmFrames /\ next \in InterlockState /\ n.committed_state \in Committed
    BY <1>1, <1>2, InterlockConfig DEF InterlockState, Interlock
  <1>5. confirmations(n, next) = confirmations(m, next)
    BY <1>1 DEF confirmations
  <1> HIDE DEF n, next, u, new
  <1>6. CASE ~Enabled
    <2>1. next \in Committed /\ next \notin Lost
      BY <1>2, <1>6 DEF Committed, Lost
    <2>2. /\ settle(n, next) \in Interlock /\ settle(n, next).candidate_valid_frames = 0
          /\ settle(n, next).state = next
          /\ settle(n, next).last_observed_frame_sequence = n.last_observed_frame_sequence
      BY <1>1, <2>1, SettleFields
    <2> DEFINE s == settle(n, next)
    <2>3. u = [s EXCEPT !.committed_state = next]
      BY <1>3, <1>6
    <2> HIDE DEF s
    <2>4. /\ u \in Interlock /\ u.candidate_valid_frames = s.candidate_valid_frames
          /\ u.state = s.state /\ u.committed_state = next
          /\ u.last_observed_frame_sequence = s.last_observed_frame_sequence
      <3>1. s \in Interlock BY <2>2 DEF s
      <3> QED BY <2>1, <2>3, <3>1 DEF Interlock
    <2> QED BY <1>1, <1>4, <1>6, <2>2, <2>4 DEF Settled, s, next, u, new
  <1>7. CASE Enabled /\ next \in Lost
    <2>1. u = lose(n, next)
      BY <1>3, <1>7
    <2> QED BY <1>1, <1>4, <1>7, <2>1, LoseFields DEF Settled, next, u, new
  <1>8. CASE Enabled /\ next \notin Lost /\ next = n.committed_state
    <2>1. u = settle(n, next) /\ next \in Committed
      BY <1>3, <1>4, <1>8
    <2> QED BY <1>1, <1>4, <1>8, <2>1, SettleFields DEF Settled, next, u, new
  <1>9. CASE Enabled /\ next \notin Lost /\ next # n.committed_state /\ new
    <2>1. u = count_frame(n, next)
      BY <1>3, <1>9
    <2>2. n.candidate_valid_frames < ConfirmFrames /\ next \in {"PPM_PRIORITY", "FAILSAFE"}
      BY <1>1, <1>2, <1>9
    <2>3. /\ u \in Interlock
          /\ u.last_observed_frame_sequence = n.last_observed_frame_sequence
          /\ u.candidate_state = next
          /\ \/ /\ confirmations(n, next) >= ConfirmFrames /\ u.candidate_valid_frames = 0
                /\ u.state = next /\ u.committed_state = next
             \/ /\ confirmations(n, next) < ConfirmFrames
                /\ u.candidate_valid_frames = confirmations(n, next)
                /\ u.state \in Candidate /\ u.committed_state = n.committed_state
      BY <1>1, <2>1, <2>2, CountedFrame
    <2> QED BY <1>1, <1>4, <1>5, <1>9, <2>3 DEF CountedOne, next, u, new
  <1>10. CASE Enabled /\ next \notin Lost /\ next # n.committed_state /\ ~new
    <2>1. u = IF n.candidate_valid_frames = 0 THEN [n EXCEPT !.state = n.committed_state] ELSE n
      BY <1>3, <1>10
    <2>2. n.committed_state \in InterlockState
      BY <1>4 DEF InterlockState
    <2>3. /\ u \in Interlock
          /\ u.last_observed_frame_sequence = n.last_observed_frame_sequence
          /\ u.candidate_valid_frames = n.candidate_valid_frames
          /\ u.candidate_state = n.candidate_state
          /\ u.committed_state = n.committed_state
          /\ u.state = IF n.candidate_valid_frames = 0 THEN n.committed_state ELSE n.state
      BY <1>1, <2>1, <2>2 DEF Interlock
    <2> QED BY <1>1, <1>10, <2>3 DEF KeptCount, next, u, new
  <1> QED BY <1>6, <1>7, <1>8, <1>9, <1>10 DEF next, u

-----------------------------------------------------------------------------
\* The invariant speaks of these variables beside the types.
LEMMA KeepInterlock ==
    ASSUME InterlockInv, TypeOK', UNCHANGED <<interlock, run>>,
           receiver'.sequence = receiver.sequence, receiver'.pulse = receiver.pulse
    PROVE  InterlockInv'
  BY DEF InterlockInv, StateIsCommitted, OffIsDisabled, CountIsReal, SeenIsPast

\* The initial state satisfies the inductive invariant.
LEMMA SafetyInit == Init => InterlockInv
  <1> SUFFICES ASSUME Init PROVE InterlockInv
    OBVIOUS
  <1> DEFINE unheard == [signal_valid |-> FALSE, valid_frame_sequence |-> 0, pulse |-> "absent"]
             next == observed_state(interlock_init, unheard)
  <1>1. /\ ConfirmFrames \in Nat /\ 0 < ConfirmFrames /\ 0 \in 0..(Counter - 1)
        /\ MaxAge \in Nat /\ 0 \in 0..(TickCounter - 1) /\ FramesPerTick \in Nat
    BY InterlockConfig, SafetyConfig
  <1>2. unheard \in Observation
    BY <1>1 DEF Observation, Pulse
  <1>3. /\ interlock_init \in Interlock /\ interlock_init.candidate_valid_frames < ConfirmFrames
        /\ interlock_init.last_observed_frame_sequence = 0
    BY <1>1, InterlockConfig DEF interlock_init, Interlock, InterlockState, Committed
  <1>4. ~is_valid_new_frame(interlock_init, unheard)
    BY DEF is_valid_new_frame
  <1>5. Enabled => next \in Lost
    BY InterlockConfig DEF observed_state, Lost
  <1>6. interlock = update(interlock_init, unheard)
    BY DEF Init
  <1> HIDE DEF unheard, next
  <1>7. /\ interlock \in Interlock /\ interlock.candidate_valid_frames < ConfirmFrames
        /\ interlock.last_observed_frame_sequence = 0
        /\ interlock.candidate_valid_frames = 0 /\ interlock.state = next
        /\ interlock.state \notin Lost => interlock.committed_state = next
    BY <1>2, <1>3, <1>4, <1>5, <1>6, UpdateResult DEF Settled, CountedOne, KeptCount, next
  <1>8. /\ NeverSeen.sequence = 0 /\ NeverSeen.pulse = "absent" /\ NeverSeen.age = MaxAge
        /\ NoRun.pulse = "absent" /\ NoRun.frames = 0
    BY DEF NeverSeen, NoRun
  <1>9. NoRun \in [pulse: Pulse, frames: 0..ConfirmFrames]
    BY <1>1 DEF NoRun, Pulse
  <1>10. lan_allowed(interlock) \in BOOLEAN
    BY DEF lan_allowed
  <1>11. status \in [task_running: BOOLEAN, rc_loss_active: BOOLEAN, motor_fault_active: BOOLEAN,
                     priority_epoch: 0..(Counter - 1), lan_control_allowed: BOOLEAN]
    BY <1>1, <1>10 DEF Init
  <1>12. TypeOK
    <2>1. {rc_signal_seen, rc_loss_active, motor_fault_active, motor_fault} \subseteq BOOLEAN
      BY DEF Init
    <2>2. /\ receiver \in [sequence: 0..(Counter - 1), pulse: Pulse, age: 0..MaxAge]
          /\ run \in [pulse: Pulse, frames: 0..ConfirmFrames]
      BY <1>1, <1>9 DEF Init, NeverSeen, Pulse
    <2> QED BY <1>1, <1>7, <1>11, <2>1, <2>2 DEF Init, TypeOK
  <1>13. OffIsDisabled
    <2>1. ~Enabled => next = "DISABLED" /\ next \notin Lost
      BY DEF observed_state, Lost, next
    <2> QED BY <1>7, <2>1 DEF OffIsDisabled
  <1> QED BY <1>7, <1>8, <1>12, <1>13 DEF Init, InterlockInv, StateIsCommitted, CountIsReal, SeenIsPast

\* A frame that arrives keeps it: the run of agreeing frames grows or starts again.
LEMMA AcceptStep ==
    ASSUME InterlockInv, NEW pulse \in Pulses, AcceptFrame(pulse)
    PROVE  InterlockInv'
  <1>1. /\ receiver.sequence \in 0..(Counter - 1) /\ receiver.sequence < Counter - 1
        /\ arrived \in 0..FramesPerTick /\ arrived < FramesPerTick
        /\ interlock \in Interlock /\ Counter \in Nat \ {0} /\ FramesPerTick \in Nat
        /\ MaxAge \in Nat /\ pulse \in Pulse
    BY InterlockConfig, SafetyConfig DEF InterlockInv, TypeOK, AcceptFrame
  <1>2. /\ receiver' = [sequence |-> receiver.sequence + 1, pulse |-> pulse, age |-> 0]
        /\ arrived' = arrived + 1
        /\ UNCHANGED <<motor_fault, tick, pc, interlock, locals, last_stop_tick, status, run>>
    BY DEF AcceptFrame
  <1>3. TypeOK'
    BY <1>1, <1>2 DEF InterlockInv, TypeOK, locals
  <1>4. /\ interlock.last_observed_frame_sequence \in 0..(Counter - 1)
        /\ interlock.last_observed_frame_sequence <= receiver.sequence
    BY <1>1 DEF Interlock, InterlockInv, SeenIsPast
  <1>5. /\ interlock.last_observed_frame_sequence <= receiver'.sequence
        /\ receiver'.sequence # interlock.last_observed_frame_sequence
    BY <1>1, <1>2, <1>4
  <1> QED BY <1>2, <1>3, <1>5 DEF InterlockInv, StateIsCommitted, OffIsDisabled, CountIsReal, SeenIsPast

\* What the history of a run says of the frame just sampled.
LEMMA RunType ==
    ASSUME TypeOK, NEW o \in Observation
    PROVE  /\ RunAfter(o) \in [pulse: Pulse, frames: 0..ConfirmFrames]
           /\ o.signal_valid /\ o.pulse # "absent" =>
                LET before == IF o.pulse = run.pulse THEN run.frames ELSE 0 IN
                /\ RunAfter(o).pulse = o.pulse
                /\ RunAfter(o).frames >= before
                /\ is_valid_new_frame(interlock, o) /\ before < ConfirmFrames
                     => RunAfter(o).frames >= before + 1
  <1> DEFINE before == IF o.pulse = run.pulse THEN run.frames ELSE 0
             heard == o.signal_valid /\ o.pulse # "absent"
             one == IF is_valid_new_frame(interlock, o) THEN 1 ELSE 0
  <1>1. /\ run.frames \in 0..ConfirmFrames /\ o.pulse \in Pulse /\ ConfirmFrames \in Nat \ {0}
        /\ before \in 0..ConfirmFrames
    BY InterlockConfig DEF TypeOK, Observation
  <1>2. CASE heard
    <2> DEFINE frames == IF before = ConfirmFrames THEN before ELSE before + one
    <2>1. RunAfter(o) = [pulse |-> o.pulse, frames |-> frames]
      BY <1>2 DEF RunAfter
    <2>2. frames \in 0..ConfirmFrames /\ frames >= before
      BY <1>1
    <2>3. is_valid_new_frame(interlock, o) /\ before < ConfirmFrames => frames >= before + 1
      BY <1>1
    <2> HIDE DEF frames
    <2> QED BY <1>1, <2>1, <2>2, <2>3
  <1>3. CASE ~heard
    <2>1. RunAfter(o) = NoRun
      BY <1>3 DEF RunAfter
    <2> QED BY <1>1, <1>3, <2>1 DEF NoRun, Pulse
  <1> QED BY <1>2, <1>3

\* A change of the LAN's permission between two samples that heard the receiver.
TakesOver ==
    /\ lan_allowed(interlock') # lan_allowed(interlock)
    /\ interlock.state \notin Lost /\ interlock'.state \notin Lost

\* While the receiver is heard the committed side alone decides.
LEMMA CommittedDecides ==
    ASSUME NEW m \in Interlock, m.state \notin Lost,
           m.state \in Committed \ Lost => m.state = m.committed_state
    PROVE  lan_allowed(m) = (m.committed_state \in {"DISABLED", "NO_SIGNAL", "FAILSAFE"})
  <1>1. m.state \in (Committed \ Lost) \union Candidate
    BY DEF Interlock, InterlockState
  <1>2. authority_state(m) = m.committed_state
    BY <1>1 DEF authority_state
  <1>3. m.committed_state \in Committed
    BY DEF Interlock
  <1> QED BY <1>2, <1>3 DEF lan_allowed, Committed

\* A sample keeps it, and a transition happens on a full run only.
LEMMA SampleStep ==
    ASSUME InterlockInv, Sample
    PROVE  InterlockInv' /\ (TakesOver => run'.frames >= ConfirmFrames)
  <1>1. PICK ok \in BOOLEAN :
          /\ interlock' = update(interlock, receiver_status(ok))
          /\ rc_signal_seen' = (rc_signal_seen \/ receiver_status(ok).signal_valid)
          /\ rc_loss_active' = (/\ ok /\ rc_signal_seen' /\ ~receiver_status(ok).signal_valid
                                /\ receiver.age >= LossTimeout)
          /\ run' = RunAfter(receiver_status(ok))
    BY DEF Sample
  <1> DEFINE o == receiver_status(ok)
             next == observed_state(interlock, o)
             new == is_valid_new_frame(interlock, o)
  <1>2. /\ o \in Observation /\ interlock \in Interlock
        /\ interlock.candidate_valid_frames < ConfirmFrames /\ TypeOK
    BY ObservationType DEF InterlockInv, TypeOK
  <1>3. /\ interlock' \in Interlock /\ interlock'.candidate_valid_frames < ConfirmFrames
        /\ interlock'.last_observed_frame_sequence =
             IF new THEN o.valid_frame_sequence ELSE interlock.last_observed_frame_sequence
        /\ \/ Settled(interlock, next, interlock') \/ CountedOne(interlock, o, next, interlock')
           \/ KeptCount(interlock, o, next, interlock')
    BY <1>1, <1>2, UpdateResult
  <1>4. /\ run' \in [pulse: Pulse, frames: 0..ConfirmFrames]
        /\ o.signal_valid /\ o.pulse # "absent" =>
             LET before == IF o.pulse = run.pulse THEN run.frames ELSE 0 IN
             /\ run'.pulse = o.pulse /\ run'.frames >= before
             /\ new /\ before < ConfirmFrames => run'.frames >= before + 1
    BY <1>1, <1>2, RunType
  <1>5. /\ next \in Committed \union Lost
        /\ next \notin Lost /\ Enabled =>
             /\ o.signal_valid /\ o.pulse \in {"low", "high"} /\ next = Side(o.pulse)
    BY <1>2, ObservedState
  <1>6. o.signal_valid => o.valid_frame_sequence = receiver.sequence /\ o.pulse = receiver.pulse
    BY DEF receiver_status
  <1>7. new <=> /\ o.signal_valid /\ o.valid_frame_sequence # 0
                /\ o.valid_frame_sequence # interlock.last_observed_frame_sequence
    BY DEF is_valid_new_frame
  <1> HIDE DEF o, next, new
  <1>8. UNCHANGED <<receiver, motor_fault, tick, last_stop_tick, status>> /\ pc' = "record"
    BY DEF Sample
  <1>9. TypeOK'
    <2>1. {rc_signal_seen', rc_loss_active', motor_fault_active', motor_fault'} \subseteq BOOLEAN
      <3>1. rc_loss_active' \in BOOLEAN /\ rc_signal_seen' \in BOOLEAN
        BY <1>1
      <3>2. motor_fault_active' = (StopOnMotorFault /\ motor_fault)
        BY DEF Sample
      <3> QED BY <1>2, <1>8, <3>1, <3>2 DEF TypeOK
    <2>2. arrived' \in 0..FramesPerTick
      BY SafetyConfig DEF Sample
    <2> QED BY <1>2, <1>3, <1>4, <1>8, <2>1, <2>2 DEF TypeOK
  <1>10. SeenIsPast'
    BY <1>3, <1>6, <1>7, <1>8 DEF SeenIsPast, InterlockInv, TypeOK
  <1>11. StateIsCommitted'
    <2>1. CASE Settled(interlock, next, interlock')
      BY <2>1 DEF Settled, StateIsCommitted
    <2>2. CASE CountedOne(interlock, o, next, interlock')
      BY <2>2 DEF CountedOne, StateIsCommitted, Candidate, Committed
    <2>3. CASE KeptCount(interlock, o, next, interlock')
      BY <2>3 DEF KeptCount, StateIsCommitted, InterlockInv
    <2> QED BY <1>3, <2>1, <2>2, <2>3
  <1>12. ConfirmFrames \in Nat /\ run.frames \in 0..ConfirmFrames /\ run'.frames \in 0..ConfirmFrames
         /\ interlock.candidate_valid_frames \in Nat /\ receiver.sequence \in Nat
         /\ interlock.last_observed_frame_sequence \in Nat
    BY <1>2, <1>4, InterlockConfig DEF TypeOK, Interlock
  \* A new frame that is counted comes to as many as the run has.
  <1>13. ASSUME Enabled, next \notin Lost, new
         PROVE  run'.frames >= confirmations(interlock, next) \/ run'.frames >= ConfirmFrames
    <2>1. /\ run'.frames >= IF o.pulse = run.pulse THEN run.frames ELSE 0
          /\ (IF o.pulse = run.pulse THEN run.frames ELSE 0) < ConfirmFrames =>
               run'.frames >= (IF o.pulse = run.pulse THEN run.frames ELSE 0) + 1
      BY <1>4, <1>5, <1>13
    <2>2. CASE interlock.candidate_state = next /\ interlock.candidate_valid_frames > 0
      <3>1. run.pulse = o.pulse /\ run.frames >= interlock.candidate_valid_frames
        BY <1>5, <1>13, <2>2 DEF InterlockInv, CountIsReal, Side
      <3> QED BY <1>12, <2>1, <2>2, <3>1 DEF confirmations
    <2>3. CASE ~(interlock.candidate_state = next /\ interlock.candidate_valid_frames > 0)
      <3>1. confirmations(interlock, next) = 1
        BY <1>12, <2>3 DEF confirmations
      <3> QED BY <1>12, <2>1, <3>1
    <2> QED BY <2>2, <2>3
  <1>14. CountIsReal'
    <2>1. CASE Settled(interlock, next, interlock')
      BY <2>1 DEF Settled, CountIsReal
    <2>2. CASE CountedOne(interlock, o, next, interlock')
      <3>1. Enabled /\ next \notin Lost /\ new
        BY <2>2 DEF CountedOne, new
      <3>2. /\ o.pulse \in {"low", "high"} /\ run'.pulse = o.pulse /\ next = Side(run'.pulse)
            /\ receiver'.pulse = run'.pulse
        BY <1>4, <1>5, <1>6, <1>8, <3>1
      <3>3. interlock'.candidate_valid_frames > 0 =>
              interlock'.candidate_valid_frames = confirmations(interlock, next)
        BY <1>12, <2>2 DEF CountedOne
      <3> QED BY <1>3, <1>12, <1>13, <2>2, <3>1, <3>2, <3>3 DEF CountedOne, CountIsReal, Interlock
    <2>3. CASE KeptCount(interlock, o, next, interlock')
      <3>1. /\ Enabled /\ next \notin Lost /\ ~new
            /\ interlock'.candidate_valid_frames = interlock.candidate_valid_frames
            /\ interlock'.candidate_state = interlock.candidate_state
        BY <2>3 DEF KeptCount, new
      <3> SUFFICES ASSUME interlock.candidate_valid_frames > 0 PROVE CountIsReal'
        BY <3>1 DEF CountIsReal
      <3>2. /\ run.pulse \in {"low", "high"} /\ interlock.candidate_state = Side(run.pulse)
            /\ run.frames >= interlock.candidate_valid_frames
            /\ receiver.sequence = interlock.last_observed_frame_sequence =>
                 receiver.pulse = run.pulse
        BY DEF InterlockInv, CountIsReal
      <3>3. receiver.sequence = interlock.last_observed_frame_sequence
        BY <1>5, <1>6, <1>7, <1>12, <3>1 DEF InterlockInv, SeenIsPast
      <3>4. o.pulse = run.pulse /\ run'.pulse = run.pulse /\ run'.frames >= run.frames
        BY <1>4, <1>5, <1>6, <3>1, <3>2, <3>3
      <3> QED BY <1>3, <1>8, <1>12, <3>1, <3>2, <3>4 DEF CountIsReal
    <2> QED BY <1>3, <2>1, <2>2, <2>3
  <1>15. OffIsDisabled'
    <2>1. ~Enabled => next = "DISABLED" /\ next \notin Lost
      BY <1>2, ObservedState DEF Lost, next
    <2>2. ~Enabled => Settled(interlock, next, interlock')
      BY <1>3 DEF CountedOne, KeptCount
    <2> QED BY <2>1, <2>2 DEF Settled, OffIsDisabled
  <1>16. TakesOver => run'.frames >= ConfirmFrames
    <2> SUFFICES ASSUME TakesOver PROVE run'.frames >= ConfirmFrames
      OBVIOUS
    <2>1. interlock'.committed_state # interlock.committed_state
      BY <1>2, <1>3, <1>11, CommittedDecides DEF TakesOver, InterlockInv, StateIsCommitted
    <2>2. CASE Settled(interlock, next, interlock')
      <3>1. ~Enabled
        BY <2>1, <2>2 DEF Settled, TakesOver
      <3> QED BY <1>15, <2>1, <3>1 DEF InterlockInv, OffIsDisabled
    <2>3. CASE CountedOne(interlock, o, next, interlock')
      <3>1. Enabled /\ next \notin Lost /\ new /\ confirmations(interlock, next) >= ConfirmFrames
        BY <2>1, <2>3 DEF CountedOne, new
      <3>2. confirmations(interlock, next) \in Nat
        BY <1>12 DEF confirmations
      <3> QED BY <1>12, <1>13, <3>1, <3>2
    <2>4. CASE KeptCount(interlock, o, next, interlock')
      BY <2>1, <2>4 DEF KeptCount
    <2> QED BY <1>3, <2>2, <2>3, <2>4
  <1> QED BY <1>9, <1>10, <1>11, <1>14, <1>15, <1>16 DEF InterlockInv

\* The recording of the status,
LEMMA RecordStep == ASSUME InterlockInv, Record PROVE InterlockInv'
  <1>1. lan_allowed(interlock) \in BOOLEAN
    BY DEF lan_allowed
  <1>2. status' \in [task_running: BOOLEAN, rc_loss_active: BOOLEAN, motor_fault_active: BOOLEAN,
                     priority_epoch: 0..(Counter - 1), lan_control_allowed: BOOLEAN]
    <2>1. interlock.priority_epoch \in 0..(Counter - 1)
      BY DEF InterlockInv, TypeOK, Interlock
    <2>2. rc_loss_active \in BOOLEAN /\ motor_fault_active \in BOOLEAN
      BY DEF InterlockInv, TypeOK
    <2>3. PICK locked \in BOOLEAN :
            status' = IF locked
                      THEN [task_running |-> TRUE, rc_loss_active |-> rc_loss_active,
                            motor_fault_active |-> motor_fault_active,
                            priority_epoch |-> interlock.priority_epoch,
                            lan_control_allowed |-> lan_allowed(interlock)]
                      ELSE status
      BY DEF Record
    <2>4. CASE locked BY <1>1, <2>1, <2>2, <2>3, <2>4
    <2>5. CASE ~locked BY <2>3, <2>5 DEF InterlockInv, TypeOK
    <2> QED BY <2>4, <2>5
  <1>3. UNCHANGED <<receiver, arrived, motor_fault, tick, interlock, locals, last_stop_tick, run>>
        /\ pc' = "stop"
    BY DEF Record, environment
  <1>4. TypeOK'
    BY <1>2, <1>3 DEF InterlockInv, TypeOK, locals
  <1> QED BY <1>3, <1>4, KeepInterlock

\* Frames age to a bound.
LEMMA OlderType == ASSUME NEW age \in 0..MaxAge, NEW d \in Nat PROVE Older(age, d) \in 0..MaxAge
  BY SafetyConfig DEF Older

\* the stop call,
LEMMA RequestStep == ASSUME InterlockInv, RequestStop PROVE InterlockInv'
  <1>1. PICK d \in 0..MaxStopTime :
          /\ tick' = (tick + d) % TickCounter
          /\ receiver' = [receiver EXCEPT !.age = Older(@, d)]
    BY DEF RequestStop
  <1>2. /\ UNCHANGED <<arrived, motor_fault, interlock, locals, status, run>>
        /\ last_stop_tick' = tick /\ pc' = "sleep"
    BY DEF RequestStop
  <1>3. /\ tick \in 0..(TickCounter - 1) /\ TickCounter \in Nat \ {0} /\ d \in Nat
        /\ receiver.age \in 0..MaxAge
    BY SafetyConfig DEF InterlockInv, TypeOK
  <1>4. tick' \in 0..(TickCounter - 1)
    BY <1>1, <1>3
  <1> DEFINE age == Older(receiver.age, d)
  <1>5. age \in 0..MaxAge
    BY <1>3, OlderType
  <1> HIDE DEF age
  <1>6. receiver' = [receiver EXCEPT !.age = age]
    BY <1>1 DEF age
  <1>7. /\ receiver' \in [sequence: 0..(Counter - 1), pulse: Pulse, age: 0..MaxAge]
        /\ receiver'.sequence = receiver.sequence /\ receiver'.pulse = receiver.pulse
    BY <1>5, <1>6 DEF InterlockInv, TypeOK
  <1>8. TypeOK'
    BY <1>2, <1>4, <1>7 DEF InterlockInv, TypeOK, locals
  <1> QED BY <1>2, <1>7, <1>8, KeepInterlock

\* the wake-up of the task,
LEMMA WakeStep == ASSUME InterlockInv, Wake PROVE InterlockInv'
  <1>1. /\ UNCHANGED <<arrived, motor_fault, interlock, locals, last_stop_tick, status, run>>
        /\ tick' = (tick + 1) % TickCounter /\ pc' = "sample"
        /\ receiver' = [receiver EXCEPT !.age = Older(@, 1)]
    BY DEF Wake
  <1>2. /\ tick \in 0..(TickCounter - 1) /\ TickCounter \in Nat \ {0}
        /\ receiver.age \in 0..MaxAge
    BY SafetyConfig DEF InterlockInv, TypeOK
  <1>3. tick' \in 0..(TickCounter - 1)
    BY <1>1, <1>2
  <1> DEFINE age == Older(receiver.age, 1)
  <1>4. age \in 0..MaxAge
    BY <1>2, OlderType
  <1> HIDE DEF age
  <1>5. receiver' = [receiver EXCEPT !.age = age]
    BY <1>1 DEF age
  <1>6. /\ receiver' \in [sequence: 0..(Counter - 1), pulse: Pulse, age: 0..MaxAge]
        /\ receiver'.sequence = receiver.sequence /\ receiver'.pulse = receiver.pulse
    BY <1>4, <1>5 DEF InterlockInv, TypeOK
  <1>7. TypeOK'
    BY <1>1, <1>3, <1>6 DEF InterlockInv, TypeOK, locals
  <1> QED BY <1>1, <1>6, <1>7, KeepInterlock

\* the steps that touch neither the interlock nor a frame,
LEMMA QuietStep ==
    ASSUME InterlockInv, MotorChanges \/ NoStop \/ UNCHANGED vars
    PROVE  InterlockInv'
  <1>1. CASE MotorChanges
    <2>1. TypeOK'
      BY <1>1 DEF MotorChanges, InterlockInv, TypeOK, locals
    <2> QED BY <1>1, <2>1, KeepInterlock DEF MotorChanges
  <1>2. CASE NoStop
    <2>1. TypeOK'
      BY <1>2 DEF NoStop, InterlockInv, TypeOK, locals, environment
    <2> QED BY <1>2, <2>1, KeepInterlock DEF NoStop, environment
  <1>3. CASE UNCHANGED vars
    <2>1. TypeOK'
      BY <1>3 DEF vars, InterlockInv, TypeOK, locals, environment
    <2> QED BY <1>3, <2>1, KeepInterlock DEF vars, environment
  <1> QED BY <1>1, <1>2, <1>3

\* and hence every step keep it.
LEMMA InterlockNext == InterlockInv /\ [Next]_vars => InterlockInv'
  <1> SUFFICES ASSUME InterlockInv, [Next]_vars PROVE InterlockInv'
    OBVIOUS
  <1>1. CASE \E pulse \in Pulses : AcceptFrame(pulse) BY <1>1, AcceptStep
  <1>2. CASE Sample BY <1>2, SampleStep
  <1>3. CASE Record BY <1>3, RecordStep
  <1>4. CASE RequestStop BY <1>4, RequestStep
  <1>5. CASE Wake BY <1>5, WakeStep
  <1>6. CASE MotorChanges \/ NoStop \/ UNCHANGED vars BY <1>6, QuietStep
  <1> QED BY <1>1, <1>2, <1>3, <1>4, <1>5, <1>6 DEF Next

\* The inductive invariant of the interlock holds in every reachable state.
THEOREM InterlockInvariance == Spec => []InterlockInv
  BY SafetyInit, InterlockNext, PTL DEF Spec

\* Only Sample moves the interlock.
LEMMA TakeoverStep ==
    ASSUME InterlockInv, [Next]_vars, TakesOver
    PROVE  run'.frames >= ConfirmFrames
  <1>1. interlock' # interlock
    BY DEF TakesOver
  <1>2. Sample
    BY <1>1 DEF Next, vars, AcceptFrame, MotorChanges, Record, RequestStop, NoStop, Wake
  <1> QED BY <1>2, SampleStep

\* The interlock keeps its types, and while the receiver is heard the authority
\* passes only on ConfirmFrames distinct frames in a row (the interlock's
\* update), for any number of confirmations and any interleaving of frames,
\* losses and samples.
THEOREM InterlockAlwaysHolds == Spec => InterlockHolds
  <1>1. InterlockInv => TypeOK
    BY DEF InterlockInv
  <1>2. InterlockInv /\ [Next]_vars =>
          [(/\ lan_allowed(interlock') # lan_allowed(interlock)
            /\ interlock.state \notin Lost /\ interlock'.state \notin Lost)
              => run'.frames >= ConfirmFrames]_vars
    BY TakeoverStep DEF TakesOver
  <1> QED BY <1>1, <1>2, InterlockInvariance, PTL DEF Spec, InterlockHolds, OneFrameIsNotEnough

-----------------------------------------------------------------------------
\* The ticks since the last stop, as the task computes them.
Elapsed == (tick - last_stop_tick) % TickCounter

\* No hazard has waited longer than that, and asleep with a hazard the task is
\* too soon after its last stop for the counter to have gone round.
StopInv ==
    /\ tick \in 0..(TickCounter - 1) /\ last_stop_tick \in 0..(TickCounter - 1)
    /\ waiting \in Nat /\ waiting <= Elapsed
    /\ pc = "sleep" /\ Hazard => Elapsed < TickCounter - 1

\* A period and a stop call are shorter than the tick counter's range.
LEMMA StopBounds ==
    /\ TickCounter \in Nat \ {0} /\ StopRepeat \in Nat \ {0} /\ MaxStopTime \in Nat
    /\ StopRepeat < TickCounter - 1 /\ MaxStopTime < TickCounter - 1
  BY SafetyConfig

\* The bound on waiting holds initially,
LEMMA StopInit == Init => StopInv
  <1> SUFFICES ASSUME Init PROVE StopInv
    OBVIOUS
  <1>1. tick = 0 /\ last_stop_tick = 0 /\ waiting = 0 /\ pc = "sample"
    BY DEF Init
  <1>2. 0 % TickCounter = 0
    BY StopBounds, ModSmall
  <1> QED BY <1>1, <1>2, StopBounds DEF StopInv, Elapsed

\* and every step keeps it.
LEMMA StopNext == StopInv /\ [Next]_vars => StopInv'
  <1> SUFFICES ASSUME StopInv, [Next]_vars PROVE StopInv'
    OBVIOUS
  <1>1. /\ tick \in 0..(TickCounter - 1) /\ last_stop_tick \in 0..(TickCounter - 1)
        /\ waiting \in Nat /\ waiting <= Elapsed /\ Elapsed \in 0..(TickCounter - 1)
    BY StopBounds DEF StopInv, Elapsed
  <1>2. ASSUME UNCHANGED <<tick, last_stop_tick>>, waiting' \in {waiting, 0},
               pc' = "sleep" /\ Hazard' => Elapsed < TickCounter - 1
        PROVE  StopInv'
    <2>1. Elapsed' = Elapsed
      BY <1>2 DEF Elapsed
    <2> QED BY <1>1, <1>2, <2>1 DEF StopInv
  <1>3. CASE (\E pulse \in Pulses : AcceptFrame(pulse)) \/ MotorChanges \/ UNCHANGED vars
    <2>1. UNCHANGED <<tick, last_stop_tick, waiting, pc, locals>>
      BY <1>3 DEF AcceptFrame, MotorChanges, vars
    <2>2. Hazard' = Hazard
      BY <2>1 DEF Hazard, locals
    <2> QED BY <1>2, <2>1, <2>2 DEF StopInv
  <1>4. CASE Sample \/ Record
    BY <1>2, <1>4 DEF Sample, Record
  <1>5. CASE NoStop
    <2>1. UNCHANGED <<tick, last_stop_tick, locals>> /\ waiting' \in {waiting, 0}
      BY <1>5 DEF NoStop
    <2>2. Hazard' = Hazard
      BY <2>1 DEF Hazard, locals
    <2>3. Hazard => Elapsed < StopRepeat
      BY <1>1, <1>5, StopBounds DEF NoStop, stop_due, Elapsed
    <2> QED BY <1>1, <1>2, <2>1, <2>2, <2>3, StopBounds
  <1>6. CASE RequestStop
    <2>1. PICK d \in 0..MaxStopTime : tick' = (tick + d) % TickCounter /\ waiting' = d
      BY <1>6 DEF RequestStop
    <2>2. last_stop_tick' = tick
      BY <1>6 DEF RequestStop
    <2>3. (tick - tick) % TickCounter = 0
      BY <1>1, StopBounds, ModSmall
    <2>4. /\ (tick + d) % TickCounter \in 0..(TickCounter - 1)
          /\ (((tick + d) % TickCounter) - tick) % TickCounter = d
      BY <1>1, <2>3, StopBounds, LaterElapsed
    <2>5. Elapsed' = d
      BY <2>1, <2>2, <2>4 DEF Elapsed
    <2> QED BY <1>1, <2>1, <2>2, <2>4, <2>5, StopBounds DEF StopInv
  <1>7. CASE Wake
    <2>1. /\ tick' = (tick + 1) % TickCounter /\ last_stop_tick' = last_stop_tick
          /\ waiting' = (IF Hazard THEN waiting + 1 ELSE 0) /\ pc = "sleep" /\ pc' = "sample"
      BY <1>7 DEF Wake
    <2>2. tick' \in 0..(TickCounter - 1)
      BY <1>1, <2>1, StopBounds
    <2>3. Elapsed' \in 0..(TickCounter - 1)
      BY <1>1, <2>1, <2>2, StopBounds DEF Elapsed
    <2>4. CASE Hazard
      <3>1. Elapsed < TickCounter - 1
        BY <2>1, <2>4 DEF StopInv
      <3>2. (((tick + 1) % TickCounter) - last_stop_tick) % TickCounter = Elapsed + 1
        BY <1>1, <3>1, StopBounds, LaterElapsed DEF Elapsed
      <3>3. Elapsed' = Elapsed + 1
        BY <2>1, <3>2 DEF Elapsed
      <3> QED BY <1>1, <2>1, <2>2, <2>4, <3>3, StopBounds DEF StopInv
    <2>5. CASE ~Hazard
      BY <1>1, <2>1, <2>2, <2>3, <2>5, StopBounds DEF StopInv
    <2> QED BY <2>4, <2>5
  <1> QED BY <1>3, <1>4, <1>5, <1>6, <1>7 DEF Next

\* While a hazard lasts a stop is requested at least every StopRepeat ticks
\* (robot_safety's task), for any width of the tick counter that leaves room
\* for the slowest stop call, and through its wrap.
THEOREM StopAlwaysTimely == Spec => StopIsTimely
  <1>1. Spec => []StopInv
    BY StopInit, StopNext, PTL DEF Spec
  <1>2. StopInv /\ [Next]_vars => [(NoStop /\ Hazard) => waiting < StopRepeat]_vars
    <2> SUFFICES ASSUME StopInv, NoStop, Hazard PROVE waiting < StopRepeat
      OBVIOUS
    <2>1. /\ Elapsed \in Nat /\ waiting \in Nat /\ waiting <= Elapsed
      BY StopBounds DEF StopInv, Elapsed
    <2>2. ~(Elapsed >= StopRepeat)
      BY DEF NoStop, stop_due, Elapsed
    <2> QED BY <2>1, <2>2, StopBounds
  <1> QED BY <1>1, <1>2, PTL DEF Spec, StopIsTimely

(* ------------------- requests and answers on the bus -------------------- *)

\* The functions and registers of the frames.
Words ==
    {"POSITION", "SPEED", "CURRENT", "STATUS", "ERROR_CODE", "PAIR", "TARGET", "NONE",
     "READ_HOLDING", "WRITE_SINGLE", "EXCEPTION", "NOISE"}
AnyFrame == [to : Addresses, function : Words, what : Words, value : Speeds]
Request == AnyFrame \cup {Noise("NONE")}
Entry == [answer : AnyFrame, late : BOOLEAN]

\* What a drive may answer.
Replies(request) ==
    {request, Frame(request.to, "EXCEPTION", request.function, 0), Noise(request.to)}

\* The reads a poll has before it: the primary ones come first, and the speed
\* is read right after the position.
ReadsInOrder(left) ==
    /\ left \in Seq(Words)
    /\ \A i \in 1..(Len(left) - 1) :
         /\ left[i + 1] = "SPEED" => left[i] = "POSITION"
         /\ left[i + 1] \in Primary => left[i] \in Primary

BusType ==
    /\ call \in [Task -> [request : Request, attempts : Nat]]
    /\ bus_lock \in Task \cup {"free"}
    /\ received \in Seq(AnyFrame)
    /\ on_its_way \in Seq(Entry)
    /\ targets \in [Addresses -> Speeds]
    /\ poll \in [to : Addresses \cup {"NONE"}, left : Seq(Words), failed : BOOLEAN]
    /\ came_from \in [Primary -> Words]
    /\ counted \in BOOLEAN
    /\ disturbed \in BOOLEAN
    /\ in_poll => poll.to \in Addresses
    /\ ReadsInOrder(poll.left)

\* Each task asks for what its part of the firmware asks for, and the bus is
\* held during a call only.
CallsAreKnown ==
    /\ \A t \in Task : ~in_call(t) => call[t] = Idle
    /\ in_call("poll") => in_poll /\ call["poll"].request = Read(poll.to, Head(poll.left))
    /\ call["poll"].attempts \in {0, 1}
    /\ \A t \in Task \ {"poll"} : in_call(t) => call[t].request \in Calls(t)
    /\ bus_lock # "free" => in_call(bus_lock)

\* An answer that is not late is to the request of the bus's holder.
LateIsKnown ==
    \A i \in DOMAIN on_its_way :
        ~on_its_way[i].late =>
            bus_lock # "free" /\ on_its_way[i].answer \in Replies(call[bus_lock].request)

\* The echo of a write is true as long as nothing came after it: while the
\* bus is free every one that is left, during a write those of the same write.
EchoIsTrue ==
    /\ bus_lock = "free" =>
         \A i \in DOMAIN on_its_way :
            on_its_way[i].answer.function = "WRITE_SINGLE" =>
                targets[on_its_way[i].answer.to] = on_its_way[i].answer.value
    /\ bus_lock # "free" /\ call[bus_lock].request.function = "WRITE_SINGLE" =>
         /\ \A i \in DOMAIN on_its_way :
                on_its_way[i].answer = call[bus_lock].request =>
                    targets[call[bus_lock].request.to] = call[bus_lock].request.value
         /\ \A i \in DOMAIN received :
                received[i] = call[bus_lock].request =>
                    targets[call[bus_lock].request.to] = call[bus_lock].request.value

\* A late answer that the read of the speed may meet is that of the read
\* before it, or of a maintenance read.
SpeedIsNext == in_poll /\ Head(poll.left) = "SPEED"
SpeedMeets ==
    SpeedIsNext =>
        /\ bus_lock \in {"free", "poll"} =>
             \A i \in DOMAIN on_its_way :
                on_its_way[i].late /\ on_its_way[i].answer.function = "READ_HOLDING" =>
                    on_its_way[i].answer.what \in {"POSITION", "PAIR"}
        /\ bus_lock = "poll" =>
             \A i \in DOMAIN received :
                received[i].function = "READ_HOLDING" =>
                    received[i].what \in {"POSITION", "PAIR", "SPEED"}

\* While the primary reads of a poll that was not disturbed go well, an answer
\* to a read that is on the bus is that of the read under way, and only one.
GoesWell == in_poll /\ ~disturbed /\ ~poll.failed /\ Head(poll.left) \in Primary
PollIsAlone ==
    /\ in_poll /\ ~disturbed => call["gateway"].request.function # "READ_HOLDING"
    /\ GoesWell /\ bus_lock # "poll" =>
         \A i \in DOMAIN on_its_way : on_its_way[i].answer.function # "READ_HOLDING"
    /\ GoesWell /\ bus_lock = "poll" =>
         /\ \A i \in DOMAIN on_its_way :
              on_its_way[i].answer.function = "READ_HOLDING" =>
                i = Len(on_its_way) /\ ~on_its_way[i].late
         /\ \A i \in DOMAIN received :
              received[i].function = "READ_HOLDING" =>
                /\ received[i] = call["poll"].request
                /\ \A j \in DOMAIN on_its_way : on_its_way[j].answer.function # "READ_HOLDING"

\* The values whose read is over in such a poll are their own.
Over(what) == \A i \in DOMAIN poll.left : poll.left[i] # what
OverIsOwn ==
    /\ in_poll => ~counted
    /\ in_poll /\ ~disturbed /\ ~poll.failed =>
         \A what \in Primary : Over(what) => came_from[what] = what

BusInv ==
    /\ BusType /\ CallsAreKnown /\ LateIsKnown /\ EchoIsTrue
    /\ SpeedMeets /\ PollIsAlone /\ OverIsOwn /\ FeedbackIsItsOwn

\* The slow reads begin with the fast ones, and the speed follows the position.
LEMMA ReadsAreInOrder ==
    ASSUME NEW left \in {fast_reads, slow_reads}
    PROVE  /\ ReadsInOrder(left)
           /\ left # <<>>
           /\ Head(left) = "POSITION"
           /\ \A what \in Primary : \E i \in DOMAIN left : left[i] = what
  <1>1. fast_reads \in Seq(Words) /\ Len(fast_reads) = 3
        /\ fast_reads[1] = "POSITION" /\ fast_reads[2] = "SPEED" /\ fast_reads[3] = "CURRENT"
    BY DEF fast_reads, Words
  <1>2. ASSUME NEW slow, slow = <<"STATUS", "ERROR_CODE">>
        PROVE  slow \in Seq(Words) /\ Len(slow) = 2 /\ slow[1] = "STATUS" /\ slow[2] = "ERROR_CODE"
    BY <1>2 DEF Words
  <1>3. slow_reads \in Seq(Words) /\ Len(slow_reads) = 5
        /\ slow_reads[1] = "POSITION" /\ slow_reads[2] = "SPEED" /\ slow_reads[3] = "CURRENT"
        /\ slow_reads[4] = "STATUS" /\ slow_reads[5] = "ERROR_CODE"
    <2> DEFINE slow == <<"STATUS", "ERROR_CODE">>
    <2>1. slow \in Seq(Words) /\ Len(slow) = 2 /\ slow[1] = "STATUS" /\ slow[2] = "ERROR_CODE"
      BY <1>2
    <2>2. slow_reads = fast_reads \o slow
      BY DEF slow_reads
    <2> HIDE DEF slow
    <2>3. /\ slow_reads \in Seq(Words) /\ Len(slow_reads) = Len(fast_reads) + Len(slow)
          /\ \A i \in 1..Len(fast_reads) : slow_reads[i] = fast_reads[i]
          /\ \A i \in 1..Len(slow) : slow_reads[Len(fast_reads) + i] = slow[i]
      <3>1. fast_reads \in Seq(Words) /\ slow \in Seq(Words)
        BY <1>1, <2>1
      <3> QED BY <2>2, <3>1
    <2>4. /\ slow_reads \in Seq(Words) /\ Len(slow_reads) = 3 + 2
          /\ \A i \in 1..3 : slow_reads[i] = fast_reads[i]
          /\ \A i \in 1..2 : slow_reads[3 + i] = slow[i]
      BY <1>1, <2>1, <2>3
    <2>5. slow_reads[3 + 1] = slow[1] /\ slow_reads[3 + 2] = slow[2]
      BY <2>4
    <2> QED BY <1>1, <2>1, <2>4, <2>5
  <1>4. left \in Seq(Words) /\ Len(left) \in {3, 5} /\ DOMAIN left = 1..Len(left)
        /\ left[1] = "POSITION" /\ left[2] = "SPEED" /\ left[3] = "CURRENT"
        /\ (Len(left) = 5 => left[4] = "STATUS" /\ left[5] = "ERROR_CODE")
    BY <1>1, <1>3
  <1>5. ReadsInOrder(left)
    <2> SUFFICES ASSUME NEW i \in 1..(Len(left) - 1)
                 PROVE  /\ left[i + 1] = "SPEED" => left[i] = "POSITION"
                        /\ left[i + 1] \in Primary => left[i] \in Primary
      BY <1>4 DEF ReadsInOrder
    <2>1. i \in {1, 2, 3, 4} /\ (i \in {3, 4} => Len(left) = 5)
      BY <1>4
    <2>2. CASE i = 1
      BY <1>4, <2>2 DEF Primary
    <2>3. CASE i = 2
      BY <1>4, <2>3 DEF Primary
    <2>4. CASE i = 3
      BY <1>4, <2>1, <2>4 DEF Primary
    <2>5. CASE i = 4
      BY <1>4, <2>1, <2>5 DEF Primary
    <2> QED BY <2>1, <2>2, <2>3, <2>4, <2>5
  <1>6. left # <<>> /\ Head(left) = "POSITION"
    BY <1>4
  <1>7. 1 \in DOMAIN left /\ 2 \in DOMAIN left /\ 3 \in DOMAIN left
    BY <1>4
  <1>8. \A what \in Primary : \E i \in DOMAIN left : left[i] = what
    BY <1>4, <1>7 DEF Primary
  <1> QED BY <1>5, <1>6, <1>8

\* The order holds for what is left after a read, and the read before the
\* speed was the position.
LEMMA OrderKept ==
    ASSUME NEW left, ReadsInOrder(left), left # <<>>
    PROVE  /\ ReadsInOrder(Tail(left))
           /\ Tail(left) # <<>> /\ Head(Tail(left)) = "SPEED" => Head(left) = "POSITION"
           /\ Tail(left) # <<>> /\ Head(Tail(left)) \in Primary => Head(left) \in Primary
           /\ Head(left) \in Words
           /\ \A what : (\A i \in DOMAIN Tail(left) : Tail(left)[i] # what) =>
                what = Head(left) \/ (\A i \in DOMAIN left : left[i] # what)
           /\ Len(left) = 1 <=> Tail(left) = <<>>
  <1>1. /\ left \in Seq(Words) /\ Tail(left) \in Seq(Words)
        /\ Len(left) \in Nat /\ Len(left) >= 1 /\ Len(Tail(left)) = Len(left) - 1
        /\ DOMAIN left = 1..Len(left) /\ DOMAIN Tail(left) = 1..(Len(left) - 1)
        /\ Head(left) = left[1]
        /\ \A i \in 1..(Len(left) - 1) : Tail(left)[i] = left[i + 1]
    BY DEF ReadsInOrder
  <1>2. ReadsInOrder(Tail(left))
    BY <1>1 DEF ReadsInOrder
  <1>3. Len(left) = 1 <=> Tail(left) = <<>>
    BY <1>1
  <1>4. ASSUME Tail(left) # <<>>
        PROVE  /\ Head(Tail(left)) = "SPEED" => Head(left) = "POSITION"
               /\ Head(Tail(left)) \in Primary => Head(left) \in Primary
    <2>1. Len(left) >= 2
      BY <1>1, <1>3, <1>4
    <2>2. 1 \in 1..(Len(left) - 1)
      BY <1>1, <2>1
    <2>3. Head(Tail(left)) = Tail(left)[1]
      BY <1>1, <1>4
    <2>4. Tail(left)[1] = left[1 + 1]
      BY <1>1, <2>2
    <2> QED BY <1>1, <2>2, <2>3, <2>4 DEF ReadsInOrder
  <1>5. ASSUME NEW what, \A i \in DOMAIN Tail(left) : Tail(left)[i] # what, what # Head(left),
               NEW i \in DOMAIN left
        PROVE  left[i] # what
    <2>1. CASE i = 1
      BY <1>1, <1>5, <2>1
    <2>2. CASE i # 1
      <3>1. i - 1 \in 1..(Len(left) - 1) /\ (i - 1) + 1 = i
        BY <1>1, <2>2
      <3> QED BY <1>1, <1>5, <3>1
    <2> QED BY <2>1, <2>2
  <1>6. Head(left) \in Words
    BY <1>1
  <1> QED BY <1>1, <1>2, <1>3, <1>4, <1>5, <1>6

\* At most one answer to a request, and it joins the queue at the end.
LEMMA Queued ==
    ASSUME NEW queue \in Seq(Entry), NEW frames \in Seq(AnyFrame), Len(frames) <= 1, NEW new,
           new = queue \o [i \in DOMAIN frames |-> [answer |-> frames[i], late |-> FALSE]]
    PROVE  /\ new \in Seq(Entry)
           /\ \A i \in DOMAIN new :
                \/ i \in DOMAIN queue /\ new[i] = queue[i]
                \/ /\ i = Len(new) /\ i \notin DOMAIN queue
                   /\ 1 \in DOMAIN frames /\ new[i] = [answer |-> frames[1], late |-> FALSE]
  <1> DEFINE fresh == [i \in DOMAIN frames |-> [answer |-> frames[i], late |-> FALSE]]
  <1>1. DOMAIN frames = 1..Len(frames) /\ Len(frames) \in {0, 1}
    <2>1. DOMAIN frames = 1..Len(frames) /\ Len(frames) \in Nat
      OBVIOUS
    <2> QED BY <2>1
  <1>2. \A i \in DOMAIN frames : frames[i] \in AnyFrame
    BY <1>1
  <1>3. fresh \in Seq(Entry)
    <2>1. \A i \in 1..Len(frames) : [answer |-> frames[i], late |-> FALSE] \in Entry
      BY <1>1, <1>2 DEF Entry
    <2>2. fresh \in [1..Len(frames) -> Entry]
      BY <1>1, <2>1
    <2>3. Len(frames) \in Nat
      OBVIOUS
    <2> QED BY <2>2, <2>3
  <1>4. Len(fresh) = Len(frames)
    BY <1>1, <1>3
  <1> HIDE DEF fresh
  <1>5. new = queue \o fresh
    BY DEF fresh
  <1>6. new \in Seq(Entry) /\ Len(new) = Len(queue) + Len(fresh)
    BY <1>3, <1>5
  <1>7. DOMAIN new = 1..(Len(queue) + Len(frames)) /\ DOMAIN queue = 1..Len(queue) /\ Len(queue) \in Nat
    BY <1>4, <1>6
  <1>8. ASSUME NEW i \in DOMAIN new
        PROVE  \/ i \in DOMAIN queue /\ new[i] = queue[i]
               \/ /\ i = Len(new) /\ i \notin DOMAIN queue
                  /\ 1 \in DOMAIN frames /\ new[i] = [answer |-> frames[1], late |-> FALSE]
    <2>1. CASE i <= Len(queue)
      BY <1>3, <1>5, <1>7, <2>1
    <2>2. CASE i > Len(queue)
      <3>1. i = Len(queue) + 1 /\ Len(frames) = 1
        BY <1>1, <1>7, <2>2
      <3>2. new[i] = fresh[i - Len(queue)]
        BY <1>3, <1>4, <1>5, <1>7, <2>2
      <3>3. fresh[1] = [answer |-> frames[1], late |-> FALSE]
        BY <1>1, <3>1 DEF fresh
      <3> QED BY <1>1, <1>4, <1>6, <1>7, <3>1, <3>2, <3>3
    <2> QED BY <1>7, <2>1, <2>2
  <1> QED BY <1>6, <1>8

\* The first answer of the queue arrives, the others move up.
LEMMA Arrived ==
    ASSUME NEW queue \in Seq(Entry), queue # <<>>, NEW buffer \in Seq(AnyFrame), NEW now_in,
           now_in = IF Len(buffer) < 2 THEN Append(buffer, Head(queue).answer) ELSE buffer
    PROVE  /\ Tail(queue) \in Seq(Entry)
           /\ \A i \in DOMAIN Tail(queue) : i + 1 \in DOMAIN queue /\ Tail(queue)[i] = queue[i + 1]
           /\ Len(queue) \in Nat /\ Len(Tail(queue)) = Len(queue) - 1
           /\ 1 \in DOMAIN queue /\ Head(queue) = queue[1]
           /\ DOMAIN Tail(queue) = 1..(Len(queue) - 1)
           /\ now_in \in Seq(AnyFrame)
           /\ \A i \in DOMAIN now_in :
                \/ i \in DOMAIN buffer /\ now_in[i] = buffer[i]
                \/ now_in[i] = queue[1].answer
  <1>1. /\ Tail(queue) \in Seq(Entry) /\ Len(queue) \in Nat /\ Len(Tail(queue)) = Len(queue) - 1
        /\ DOMAIN Tail(queue) = 1..(Len(queue) - 1) /\ DOMAIN queue = 1..Len(queue)
        /\ Len(queue) >= 1 /\ Head(queue) = queue[1] /\ queue[1] \in Entry
        /\ \A i \in 1..(Len(queue) - 1) : Tail(queue)[i] = queue[i + 1]
    OBVIOUS
  <1>2. queue[1].answer \in AnyFrame
    BY <1>1 DEF Entry
  <1>3. /\ now_in \in Seq(AnyFrame)
        /\ \A i \in DOMAIN now_in :
                \/ i \in DOMAIN buffer /\ now_in[i] = buffer[i]
                \/ now_in[i] = queue[1].answer
    BY <1>1, <1>2
  <1> QED BY <1>1, <1>3

\* Only one frame by itself, that the request accepts, is a good answer.
LEMMA OneGoodAnswer ==
    ASSUME NEW request, NEW frames \in Seq(AnyFrame), judged(request, frames) = "OK"
    PROVE  1 \in DOMAIN frames /\ Head(frames) = frames[1] /\ accepts(request, frames[1])
  <1>1. frames # <<>> /\ ~(Len(frames) > 1)
    BY DEF judged
  <1>2. ~(Head(frames).function = "NOISE") /\ ~is_exception(request, Head(frames))
    BY <1>1 DEF judged
  <1>3. accepts(request, Head(frames))
    BY <1>1, <1>2 DEF judged
  <1> QED BY <1>1, <1>3

\* A frame holds what it was made of.
LEMMA FrameHolds ==
    ASSUME NEW to, NEW function, NEW what, NEW value
    PROVE  /\ Frame(to, function, what, value).to = to
           /\ Frame(to, function, what, value).function = function
           /\ Frame(to, function, what, value).what = what
           /\ Frame(to, function, what, value).value = value
           /\ to \in Addresses /\ function \in Words /\ what \in Words /\ value \in Speeds
                => Frame(to, function, what, value) \in AnyFrame
  BY DEF Frame, AnyFrame

\* What the tasks ask for are frames to a drive of the bus.
LEMMA CallsAreFrames ==
    ASSUME BusAssumption, NEW t \in Task, NEW request \in Calls(t)
    PROVE  /\ request \in AnyFrame
           /\ \/ request.function = "WRITE_SINGLE" /\ request.what = "TARGET"
              \/ t = "gateway" /\ request.function = "READ_HOLDING" /\ request.what = "PAIR"
  <1>1. ASSUME NEW a \in Addresses, NEW v \in Speeds, request = Write(a, v)
        PROVE  request \in AnyFrame /\ request.function = "WRITE_SINGLE" /\ request.what = "TARGET"
    BY <1>1, FrameHolds DEF Write, Words
  <1>2. ASSUME NEW a \in Addresses, request = Read(a, "PAIR")
        PROVE  request \in AnyFrame /\ request.function = "READ_HOLDING" /\ request.what = "PAIR"
    BY <1>2, FrameHolds DEF Read, Speeds, Words
  <1>3. \/ \E a \in Addresses, v \in Speeds : request = Write(a, v)
        \/ t = "gateway" /\ \E a \in Addresses : request = Read(a, "PAIR")
    BY DEF Calls, BusAssumption, Speeds
  <1> QED BY <1>1, <1>2, <1>3

\* What a drive answers to a frame are frames.
LEMMA RepliesAreFrames ==
    ASSUME NEW request \in AnyFrame, NEW answer \in Replies(request)
    PROVE  answer \in AnyFrame
  <1>1. request.to \in Addresses /\ request.function \in Words
    BY DEF AnyFrame
  <1>2. 0 \in Speeds
    BY DEF Speeds
  <1> QED BY <1>1, <1>2, FrameHolds DEF Replies, Noise, Words

\* Only the answer to the request itself can be taken for a read or a write.
LEMMA ReplyKinds ==
    ASSUME NEW request, NEW answer \in Replies(request),
           answer.function \in {"READ_HOLDING", "WRITE_SINGLE"}
    PROVE  answer = request
  BY FrameHolds DEF Replies, Noise

\* In a call the request is a frame.
LEMMA RequestIsFrame ==
    ASSUME BusAssumption, BusType, CallsAreKnown, NEW t \in Task, in_call(t)
    PROVE  /\ call[t].request \in AnyFrame
           /\ call[t].request.function \in {"READ_HOLDING", "WRITE_SINGLE"}
  <1>1. CASE t = "poll"
    <2>1. in_poll /\ call[t].request = Read(poll.to, Head(poll.left)) /\ poll.to \in Addresses
      BY <1>1 DEF CallsAreKnown, BusType
    <2>2. Head(poll.left) \in Words
      <3>1. poll.left \in Seq(Words) /\ poll.left # <<>>
        BY <2>1 DEF BusType, in_poll
      <3> QED BY <3>1
    <2>3. 0 \in Speeds
      BY DEF Speeds
    <2> QED BY <2>1, <2>2, <2>3, FrameHolds DEF Read, Words
  <1>2. CASE t # "poll"
    BY <1>2, CallsAreFrames DEF CallsAreKnown
  <1> QED BY <1>1, <1>2

\* An attempt that ends touches its own task's call only; that of the poll returns.
LEMMA CallAfter ==
    ASSUME BusType, CallsAreKnown, NEW t \in Task, in_call(t), NEW outcome, AttemptEnds(t, outcome)
    PROVE  /\ call' \in [Task -> [request : Request, attempts : Nat]]
           /\ \A u \in Task : u # t => call'[u] = call[u]
           /\ \/ call'[t] = Idle
              \/ t # "poll" /\ call'[t].attempts > 0 /\ call'[t].request = call[t].request
  <1> DEFINE more == left_after(t, outcome)
  <1>1. /\ call \in [Task -> [request : Request, attempts : Nat]]
        /\ call[t].attempts \in Nat /\ call[t].request \in Request
    BY DEF BusType
  <1>2. call[t].attempts \in Nat \ {0} /\ (t = "poll" => call[t].attempts = 1)
    BY <1>1 DEF in_call, CallsAreKnown
  <1>3. more \in Nat /\ (t = "poll" => more = 0)
    BY <1>2 DEF left_after
  <1>4. Idle \in [request : Request, attempts : Nat]
    BY DEF Idle, Request
  <1>5. call' = [call EXCEPT ![t] = IF more = 0 THEN Idle ELSE [call[t] EXCEPT !.attempts = more]]
    BY DEF AttemptEnds
  <1> HIDE DEF more
  <1>6. [call[t] EXCEPT !.attempts = more] = [request |-> call[t].request, attempts |-> more]
    BY <1>1
  <1>7. [request |-> call[t].request, attempts |-> more] \in [request : Request, attempts : Nat]
    BY <1>1, <1>3
  <1>8. /\ call' \in [Task -> [request : Request, attempts : Nat]]
        /\ \A u \in Task : u # t => call'[u] = call[u]
        /\ call'[t] = IF more = 0 THEN Idle ELSE [request |-> call[t].request, attempts |-> more]
    BY <1>1, <1>4, <1>5, <1>6, <1>7
  <1> QED BY <1>3, <1>8

\* The parts that are about the calls, for a step of task t that leaves the
\* drive and the reads of the poll.
LEMMA CallsStayKnown ==
    ASSUME CallsAreKnown, NEW t \in Task,
           \A u \in Task : u # t => call'[u] = call[u],
           \/ call'[t] = Idle
           \/ t # "poll" /\ call'[t].attempts > 0 /\ call'[t].request = call[t].request /\ in_call(t),
           t # "poll" => UNCHANGED poll,
           bus_lock' # "free" => bus_lock' = bus_lock /\ bus_lock # t, bus_lock \in Task \cup {"free"}
    PROVE  CallsAreKnown'
  <1>1. Idle.attempts = 0
    BY DEF Idle
  <1>2. \A u \in Task : ~in_call(u)' => call'[u] = Idle
    BY <1>1 DEF CallsAreKnown, in_call
  <1>3. call'["poll"].attempts \in {0, 1}
    BY <1>1 DEF CallsAreKnown, Task
  <1>4. \A u \in Task \ {"poll"} : in_call(u)' => call'[u].request \in Calls(u)
    BY <1>1 DEF CallsAreKnown, in_call
  <1>5. in_call("poll")' => in_poll' /\ call'["poll"].request = Read(poll'.to, Head(poll'.left))
    BY <1>1 DEF CallsAreKnown, in_call, in_poll, Task
  <1>6. bus_lock' # "free" => in_call(bus_lock)'
    BY DEF CallsAreKnown, in_call
  <1> QED BY <1>2, <1>3, <1>4, <1>5, <1>6 DEF CallsAreKnown
\* The bus starts silent, between polls.
LEMMA BusStarts ==
    ASSUME BusAssumption, BusInit
    PROVE  BusInv
  <1>1. ~in_poll /\ (\A t \in Task : ~in_call(t))
    BY DEF BusInit, in_poll, in_call, Idle
  <1>2. BusType
    <2>1. call \in [Task -> [request : Request, attempts : Nat]]
      BY DEF BusInit, Idle, Request
    <2>2. received \in Seq(AnyFrame) /\ on_its_way \in Seq(Entry)
      BY DEF BusInit
    <2>3. poll \in [to : Addresses \cup {"NONE"}, left : Seq(Words), failed : BOOLEAN]
      BY DEF BusInit
    <2>4. ReadsInOrder(poll.left)
      BY DEF BusInit, ReadsInOrder
    <2>5. came_from \in [Primary -> Words] /\ targets \in [Addresses -> Speeds]
      BY DEF BusInit, Words, Speeds
    <2> QED BY <1>1, <2>1, <2>2, <2>3, <2>4, <2>5 DEF BusInit, BusType
  <1>3. CallsAreKnown
    BY <1>1 DEF BusInit, CallsAreKnown, Idle, Task
  <1>4. LateIsKnown /\ EchoIsTrue /\ SpeedMeets
    BY <1>1 DEF BusInit, LateIsKnown, EchoIsTrue, SpeedMeets, SpeedIsNext
  <1>5. PollIsAlone /\ OverIsOwn
    BY <1>1 DEF BusInit, PollIsAlone, GoesWell, OverIsOwn
  <1>6. FeedbackIsItsOwn
    BY DEF BusInit, FeedbackIsItsOwn, SpeedIsItsOwn, GoodPollIsItsOwn, Primary
  <1> QED BY <1>2, <1>3, <1>4, <1>5, <1>6 DEF BusInv

\* A poll begins: all its reads are before it.
LEMMA BeginPollStep ==
    ASSUME BusAssumption, BusInv, NEW d \in Addresses, BeginPoll(d)
    PROVE  BusInv'
  <1> DEFINE reads == reads_of(d)
  <1>1. /\ ReadsInOrder(reads) /\ reads # <<>> /\ Head(reads) = "POSITION"
        /\ \A what \in Primary : \E i \in DOMAIN reads : reads[i] = what
    BY ReadsAreInOrder DEF reads_of
  <1>2. reads \in Seq(Words)
    BY <1>1 DEF ReadsInOrder
  <1> HIDE DEF reads
  <1>3. /\ ~in_poll /\ in_poll'
        /\ poll' = [to |-> d, left |-> reads, failed |-> FALSE]
        /\ came_from' = [what \in Primary |-> "NONE"] /\ ~counted' /\ counted' \in BOOLEAN
        /\ UNCHANGED <<call, bus_lock, received, on_its_way, targets>>
    BY <1>1 DEF BeginPoll, in_poll, reads
  <1>4. /\ disturbed' \in BOOLEAN
        /\ ~disturbed' => /\ \A i \in DOMAIN on_its_way : on_its_way[i].answer.function # "READ_HOLDING"
                          /\ call["gateway"].request.function # "READ_HOLDING"
    BY DEF BeginPoll
  <1>5. BusType /\ CallsAreKnown /\ LateIsKnown /\ EchoIsTrue
    BY DEF BusInv
  <1>6. BusType'
    <2>1. poll' \in [to : Addresses \cup {"NONE"}, left : Seq(Words), failed : BOOLEAN]
          /\ poll'.to \in Addresses /\ ReadsInOrder(poll'.left)
      BY <1>1, <1>2, <1>3
    <2>2. came_from' \in [Primary -> Words]
      BY <1>3 DEF Words
    <2> QED BY <1>3, <1>4, <1>5, <2>1, <2>2 DEF BusType
  <1>7. ~in_call("poll") /\ bus_lock # "poll"
    BY <1>3, <1>5 DEF CallsAreKnown
  <1>8. CallsAreKnown'
    BY <1>3, <1>5, <1>7 DEF CallsAreKnown, in_call
  <1>9. LateIsKnown' /\ EchoIsTrue'
    BY <1>3, <1>5 DEF LateIsKnown, EchoIsTrue
  <1>10. SpeedMeets'
    BY <1>1, <1>3 DEF SpeedMeets, SpeedIsNext
  <1>11. PollIsAlone'
    <2>1. GoesWell' => ~disturbed'
      BY DEF GoesWell
    <2> QED BY <1>3, <1>4, <1>7, <2>1 DEF PollIsAlone
  <1>12. OverIsOwn'
    BY <1>1, <1>3 DEF OverIsOwn, Over
  <1>13. FeedbackIsItsOwn'
    BY <1>3 DEF FeedbackIsItsOwn, SpeedIsItsOwn, GoodPollIsItsOwn, Primary
  <1> QED BY <1>6, <1>8, <1>9, <1>10, <1>11, <1>12, <1>13 DEF BusInv

\* A task asks: a maintenance read during a poll disturbs it.
LEMMA CallStep ==
    ASSUME BusAssumption, BusInv, NEW t \in Task, Call(t)
    PROVE  BusInv'
  <1>1. PICK request \in IF t # "poll" THEN Calls(t)
                         ELSE IF in_poll THEN {Read(poll.to, Head(poll.left))} ELSE {} :
            /\ call' = [call EXCEPT ![t] = [request |-> request, attempts |-> attempts(t)]]
            /\ disturbed' = (disturbed \/ (in_poll /\ request.what = "PAIR"))
    BY DEF Call
  <1>2. ~in_call(t) /\ UNCHANGED <<bus_lock, received, on_its_way, targets, poll, came_from, counted>>
    BY DEF Call, polling
  <1>3. BusType /\ CallsAreKnown /\ LateIsKnown /\ EchoIsTrue
    BY DEF BusInv
  <1>4. request \in AnyFrame
    <2>1. CASE t # "poll"
      BY <1>1, <2>1, CallsAreFrames
    <2>2. CASE t = "poll"
      <3>1. in_poll /\ request = Read(poll.to, Head(poll.left))
        BY <1>1, <2>2
      <3>2. poll.to \in Addresses /\ Head(poll.left) \in Words
        BY <1>3, <3>1, OrderKept DEF BusType, in_poll
      <3> QED BY <3>1, <3>2, FrameHolds DEF Read, Words, Speeds
    <2> QED BY <2>1, <2>2
  <1>5. attempts(t) \in Nat \ {0} /\ (t = "poll" => attempts(t) = 1)
    BY DEF attempts, BusAssumption
  <1>6. /\ call' \in [Task -> [request : Request, attempts : Nat]]
        /\ call'[t].request = request /\ call'[t].attempts = attempts(t)
        /\ \A u \in Task : u # t => call'[u] = call[u]
    BY <1>1, <1>3, <1>4, <1>5 DEF BusType, Request
  <1>7. bus_lock # t /\ (bus_lock # "free" => bus_lock \in Task /\ call'[bus_lock] = call[bus_lock])
    <2>1. bus_lock \in Task \cup {"free"} /\ (bus_lock # "free" => in_call(bus_lock)) /\ t # "free"
      BY <1>3 DEF CallsAreKnown, BusType, Task
    <2>2. bus_lock # t
      BY <1>2, <2>1
    <2> QED BY <1>6, <2>1, <2>2
  <1>8. BusType'
    BY <1>1, <1>2, <1>3, <1>6 DEF BusType, in_poll
  <1>9. CallsAreKnown'
    <2>1. t # "poll" => request \in Calls(t)
      BY <1>1
    <2>2. t = "poll" => in_poll /\ request = Read(poll.to, Head(poll.left))
      BY <1>1
    <2>3. \A u \in Task : ~in_call(u)' => call'[u] = Idle
      BY <1>3, <1>5, <1>6 DEF CallsAreKnown, in_call
    <2>4. call'["poll"].attempts \in {0, 1}
      BY <1>3, <1>5, <1>6 DEF CallsAreKnown, Task
    <2>5. \A u \in Task \ {"poll"} : in_call(u)' => call'[u].request \in Calls(u)
      BY <1>3, <1>6, <2>1 DEF CallsAreKnown, in_call
    <2>6. in_call("poll")' => in_poll' /\ call'["poll"].request = Read(poll'.to, Head(poll'.left))
      BY <1>2, <1>3, <1>6, <2>2 DEF CallsAreKnown, in_call, in_poll, Task
    <2>7. bus_lock' # "free" => in_call(bus_lock)'
      BY <1>2, <1>3, <1>7 DEF CallsAreKnown, in_call
    <2> QED BY <2>3, <2>4, <2>5, <2>6, <2>7 DEF CallsAreKnown
  <1>10. LateIsKnown' /\ EchoIsTrue'
    BY <1>2, <1>3, <1>7 DEF LateIsKnown, EchoIsTrue
  <1>11. SpeedMeets'
    BY <1>2 DEF BusInv, SpeedMeets, SpeedIsNext, in_poll
  <1>12. PollIsAlone'
    <2>1. PollIsAlone /\ (disturbed' \/ ~disturbed)
      BY <1>1 DEF BusInv
    <2>2. in_poll' /\ ~disturbed' => call'["gateway"].request.function # "READ_HOLDING"
      <3>1. CASE t = "gateway"
        BY <1>1, <1>2, <1>6, <3>1, CallsAreFrames DEF in_poll
      <3>2. CASE t # "gateway"
        BY <1>2, <1>6, <2>1, <3>2 DEF PollIsAlone, in_poll, Task
      <3> QED BY <3>1, <3>2
    <2>3. GoesWell' => GoesWell
      BY <1>2, <2>1 DEF GoesWell, in_poll
    <2>4. bus_lock = "poll" => call'["poll"] = call["poll"]
      BY <1>7
    <2> QED BY <1>2, <2>1, <2>2, <2>3, <2>4 DEF PollIsAlone
  <1>13. OverIsOwn' /\ FeedbackIsItsOwn'
    BY <1>1, <1>2 DEF BusInv, OverIsOwn, Over, in_poll, FeedbackIsItsOwn, SpeedIsItsOwn, GoodPollIsItsOwn
  <1> QED BY <1>8, <1>9, <1>10, <1>11, <1>12, <1>13 DEF BusInv

\* What an exchange adds to the queue and to the registers of the drives.
LEMMA ExchangeAdds ==
    ASSUME BusAssumption, BusType, CallsAreKnown, NEW t \in Task, Exchange(t),
           NEW request, request = call[t].request
    PROVE  /\ request \in AnyFrame
           /\ on_its_way' \in Seq(Entry)
           /\ targets' \in [Addresses -> Speeds]
           /\ \/ targets' = targets
              \/ request.function = "WRITE_SINGLE" /\ targets' = [targets EXCEPT ![request.to] = request.value]
           /\ \A i \in DOMAIN on_its_way' :
                \/ i \in DOMAIN on_its_way /\ on_its_way'[i] = on_its_way[i]
                \/ /\ i = Len(on_its_way') /\ i \notin DOMAIN on_its_way
                   /\ ~on_its_way'[i].late /\ on_its_way'[i].answer \in Replies(request)
                   /\ request.function = "WRITE_SINGLE" /\ on_its_way'[i].answer = request =>
                        targets'[request.to] = request.value
  <1>1. PICK reaction \in Reaction :
            /\ targets' = written(request, reaction)
            /\ on_its_way' = on_its_way \o [i \in DOMAIN replies(request, reaction) |->
                   [answer |-> replies(request, reaction)[i], late |-> FALSE]]
    BY DEF Exchange
  <1>2. request \in AnyFrame /\ request.function \in {"READ_HOLDING", "WRITE_SINGLE"}
    BY RequestIsFrame DEF Exchange
  <1>3. request.to \in Addresses /\ request.value \in Speeds
    BY <1>2 DEF AnyFrame
  <1>4. targets \in [Addresses -> Speeds] /\ on_its_way \in Seq(Entry)
    BY DEF BusType
  <1>5. /\ targets' \in [Addresses -> Speeds]
        /\ \/ targets' = targets
           \/ request.function = "WRITE_SINGLE" /\ targets' = [targets EXCEPT ![request.to] = request.value]
    BY <1>1, <1>3, <1>4 DEF written
  <1>6. reaction = "answers" /\ request.function = "WRITE_SINGLE" => targets'[request.to] = request.value
    BY <1>1, <1>3, <1>4 DEF written
  <1>7. PICK frames : frames = replies(request, reaction)
    OBVIOUS
  <1>8. /\ frames \in Seq(AnyFrame) /\ Len(frames) <= 1
        /\ 1 \in DOMAIN frames => /\ frames[1] \in Replies(request)
                                  /\ frames[1] = request => reaction = "answers"
    <2>1. \A answer \in Replies(request) : answer \in AnyFrame
      BY <1>2, RepliesAreFrames
    <2>2. CASE reaction = "answers"
      <3>1. frames = <<request>>
        BY <1>7, <2>2 DEF replies
      <3> QED BY <1>2, <2>2, <3>1 DEF Replies
    <2>3. ASSUME NEW refusal, refusal \in Replies(request), refusal # request, frames = <<refusal>>
          PROVE  /\ frames \in Seq(AnyFrame) /\ Len(frames) <= 1
                 /\ 1 \in DOMAIN frames => frames[1] \in Replies(request) /\ frames[1] # request
      BY <2>1, <2>3
    <2>4. CASE reaction = "refuses"
      <3> DEFINE refusal == Frame(request.to, "EXCEPTION", request.function, 0)
      <3>1. frames = <<refusal>>
        BY <1>7, <2>4 DEF replies
      <3>2. refusal \in Replies(request) /\ refusal.function = "EXCEPTION"
        BY FrameHolds DEF Replies
      <3>3. refusal # request
        BY <1>2, <3>2
      <3> QED BY <2>3, <3>1, <3>2, <3>3
    <2>5. CASE reaction = "garbled"
      <3> DEFINE refusal == Noise(request.to)
      <3>1. frames = <<refusal>>
        BY <1>7, <2>5 DEF replies
      <3>2. refusal \in Replies(request) /\ refusal.function = "NOISE"
        BY FrameHolds DEF Replies, Noise
      <3>3. refusal # request
        BY <1>2, <3>2
      <3> QED BY <2>3, <3>1, <3>2, <3>3
    <2>6. CASE reaction \in {"missed", "unheard"}
      <3>1. frames = <<>>
        BY <1>7, <2>6 DEF replies
      <3> QED BY <3>1
    <2> QED BY <2>2, <2>4, <2>5, <2>6 DEF Reaction
  <1>9. /\ on_its_way' \in Seq(Entry)
        /\ \A i \in DOMAIN on_its_way' :
                \/ i \in DOMAIN on_its_way /\ on_its_way'[i] = on_its_way[i]
                \/ /\ i = Len(on_its_way') /\ i \notin DOMAIN on_its_way
                   /\ 1 \in DOMAIN frames /\ on_its_way'[i] = [answer |-> frames[1], late |-> FALSE]
    <2>1. on_its_way' = on_its_way \o [i \in DOMAIN frames |-> [answer |-> frames[i], late |-> FALSE]]
      BY <1>1, <1>7
    <2>2. PICK queue, new : queue = on_its_way /\ new = on_its_way'
      OBVIOUS
    <2>3. /\ queue \in Seq(Entry) /\ frames \in Seq(AnyFrame) /\ Len(frames) <= 1
          /\ new = queue \o [i \in DOMAIN frames |-> [answer |-> frames[i], late |-> FALSE]]
      BY <1>4, <1>8, <2>1, <2>2
    <2>4. /\ new \in Seq(Entry)
          /\ \A i \in DOMAIN new :
                \/ i \in DOMAIN queue /\ new[i] = queue[i]
                \/ /\ i = Len(new) /\ i \notin DOMAIN queue
                   /\ 1 \in DOMAIN frames /\ new[i] = [answer |-> frames[1], late |-> FALSE]
      BY <2>3, Queued
    <2> QED BY <2>2, <2>4
  <1> QED BY <1>2, <1>5, <1>6, <1>8, <1>9

\* An exchange begins: what is left on the bus is older than its request.
LEMMA ExchangeStep ==
    ASSUME BusAssumption, BusInv, NEW t \in Task, Exchange(t)
    PROVE  BusInv'
  <1>1. PICK request : request = call[t].request
    OBVIOUS
  <1>2. /\ in_call(t) /\ bus_lock = "free" /\ bus_lock' = t /\ received' = <<>> /\ t # "free"
        /\ UNCHANGED <<call, poll, came_from, counted, disturbed>>
    BY DEF Exchange, lock_is_free, flushed, polling, Task
  <1>3. BusType /\ CallsAreKnown /\ LateIsKnown /\ EchoIsTrue
    BY DEF BusInv
  <1>4. /\ request \in AnyFrame
        /\ on_its_way' \in Seq(Entry)
        /\ targets' \in [Addresses -> Speeds]
        /\ \/ targets' = targets
           \/ request.function = "WRITE_SINGLE" /\ targets' = [targets EXCEPT ![request.to] = request.value]
        /\ \A i \in DOMAIN on_its_way' :
             \/ i \in DOMAIN on_its_way /\ on_its_way'[i] = on_its_way[i]
             \/ /\ i = Len(on_its_way') /\ i \notin DOMAIN on_its_way
                /\ ~on_its_way'[i].late /\ on_its_way'[i].answer \in Replies(request)
                /\ request.function = "WRITE_SINGLE" /\ on_its_way'[i].answer = request =>
                     targets'[request.to] = request.value
    BY <1>1, <1>3, ExchangeAdds
  <1>5. \A i \in DOMAIN on_its_way : on_its_way[i].late
    BY <1>2, <1>3 DEF LateIsKnown
  <1>6. BusType'
    <2>1. received' \in Seq(AnyFrame)
      BY <1>2
    <2> QED BY <1>2, <1>3, <1>4, <2>1 DEF BusType, in_poll
  <1>7. CallsAreKnown'
    BY <1>2, <1>3 DEF CallsAreKnown, in_call, in_poll
  <1>8. LateIsKnown'
    BY <1>1, <1>2, <1>4, <1>5 DEF LateIsKnown
  <1>9. EchoIsTrue'
    <2> SUFFICES ASSUME request.function = "WRITE_SINGLE", NEW i \in DOMAIN on_its_way',
                        on_its_way'[i].answer = request
                 PROVE  targets'[request.to] = request.value
      BY <1>1, <1>2 DEF EchoIsTrue
    <2>1. request.to \in Addresses /\ request.value \in Speeds /\ targets \in [Addresses -> Speeds]
      BY <1>3, <1>4 DEF AnyFrame, BusType
    <2>2. CASE i \in DOMAIN on_its_way /\ on_its_way'[i] = on_its_way[i]
      <3>1. targets[request.to] = request.value
        BY <1>2, <1>3, <2>2 DEF EchoIsTrue
      <3> QED BY <1>4, <2>1, <3>1
    <2>3. CASE ~(i \in DOMAIN on_its_way /\ on_its_way'[i] = on_its_way[i])
      BY <1>4, <2>3
    <2> QED BY <2>2, <2>3
  <1>10. SpeedMeets'
    BY <1>2, <1>4 DEF BusInv, SpeedMeets, SpeedIsNext, in_poll
  <1>11. PollIsAlone'
    <2>1. PollIsAlone /\ (in_poll' <=> in_poll) /\ (GoesWell' <=> GoesWell)
      BY <1>2 DEF BusInv, in_poll, GoesWell
    <2>2. GoesWell => \A i \in DOMAIN on_its_way : on_its_way[i].answer.function # "READ_HOLDING"
      BY <1>2, <2>1 DEF PollIsAlone
    <2>3. GoesWell /\ t # "poll" => request.function # "READ_HOLDING"
      <3>1. CASE t = "gateway"
        BY <1>1, <2>1, <3>1 DEF PollIsAlone, GoesWell
      <3>2. CASE t = "motion"
        BY <1>1, <1>2, <1>3, <3>2, CallsAreFrames DEF CallsAreKnown
      <3> QED BY <3>1, <3>2 DEF Task
    <2>4. GoesWell /\ t # "poll" =>
             \A i \in DOMAIN on_its_way' : on_its_way'[i].answer.function # "READ_HOLDING"
      BY <1>4, <2>2, <2>3, ReplyKinds
    <2>5. GoesWell =>
             \A i \in DOMAIN on_its_way' :
                on_its_way'[i].answer.function = "READ_HOLDING" =>
                    i = Len(on_its_way') /\ ~on_its_way'[i].late
      BY <1>4, <2>2
    <2>6. \A i \in DOMAIN received' : FALSE
      BY <1>2
    <2>7. in_poll' /\ ~disturbed' => call'["gateway"].request.function # "READ_HOLDING"
      BY <1>2, <2>1 DEF PollIsAlone
    <2> QED BY <1>2, <2>1, <2>4, <2>5, <2>6, <2>7 DEF PollIsAlone
  <1>12. OverIsOwn' /\ FeedbackIsItsOwn'
    BY <1>2 DEF BusInv, OverIsOwn, Over, in_poll, FeedbackIsItsOwn, SpeedIsItsOwn, GoodPollIsItsOwn
  <1> QED BY <1>6, <1>7, <1>8, <1>9, <1>10, <1>11, <1>12 DEF BusInv

\* An answer arrives, late or not.
LEMMA ArriveStep ==
    ASSUME BusAssumption, BusInv, Arrive
    PROVE  BusInv'
  <1>1. /\ on_its_way # <<>> /\ on_its_way' = Tail(on_its_way)
        /\ received' = IF Len(received) < 2 THEN Append(received, Head(on_its_way).answer) ELSE received
        /\ UNCHANGED <<call, bus_lock, targets, poll, came_from, counted, disturbed>>
    BY DEF Arrive, polling
  <1>2. BusType /\ CallsAreKnown /\ LateIsKnown /\ EchoIsTrue
    BY DEF BusInv
  <1>3. on_its_way \in Seq(Entry) /\ received \in Seq(AnyFrame)
    BY <1>2 DEF BusType
  <1>4. /\ on_its_way' \in Seq(Entry)
        /\ \A i \in DOMAIN on_its_way' :
              i + 1 \in DOMAIN on_its_way /\ on_its_way'[i] = on_its_way[i + 1]
        /\ Len(on_its_way) \in Nat /\ Len(on_its_way') = Len(on_its_way) - 1
        /\ 1 \in DOMAIN on_its_way
        /\ DOMAIN on_its_way' = 1..(Len(on_its_way) - 1)
        /\ received' \in Seq(AnyFrame)
        /\ \A i \in DOMAIN received' :
             \/ i \in DOMAIN received /\ received'[i] = received[i]
             \/ received'[i] = on_its_way[1].answer
    BY <1>1, <1>3, Arrived
  <1>5. BusType'
    BY <1>1, <1>2, <1>4 DEF BusType, in_poll
  <1>6. CallsAreKnown'
    BY <1>1, <1>2 DEF CallsAreKnown, in_call, in_poll
  <1>7. LateIsKnown'
    BY <1>1, <1>2, <1>4 DEF LateIsKnown
  <1>8. EchoIsTrue'
    BY <1>1, <1>2, <1>4 DEF EchoIsTrue
  <1>9. SpeedMeets'
    <2>1. SpeedMeets /\ (SpeedIsNext' <=> SpeedIsNext)
      BY <1>1 DEF BusInv, SpeedIsNext, in_poll
    <2>2. SpeedIsNext /\ bus_lock \in {"free", "poll"} =>
             \A i \in DOMAIN on_its_way' :
                on_its_way'[i].late /\ on_its_way'[i].answer.function = "READ_HOLDING" =>
                    on_its_way'[i].answer.what \in {"POSITION", "PAIR"}
      BY <1>4, <2>1 DEF SpeedMeets
    <2>3. ASSUME SpeedIsNext, bus_lock = "poll", on_its_way[1].answer.function = "READ_HOLDING"
          PROVE  on_its_way[1].answer.what \in {"POSITION", "PAIR", "SPEED"}
      <3>1. CASE on_its_way[1].late
        BY <1>4, <2>1, <2>3, <3>1 DEF SpeedMeets
      <3>2. CASE ~on_its_way[1].late
        <4>1. on_its_way[1].answer = call["poll"].request
          BY <1>2, <1>4, <2>3, <3>2, ReplyKinds DEF LateIsKnown
        <4>2. call["poll"].request = Read(poll.to, "SPEED")
          BY <1>2, <2>3 DEF CallsAreKnown, SpeedIsNext
        <4> QED BY <4>1, <4>2, FrameHolds DEF Read
      <3> QED BY <3>1, <3>2
    <2>4. SpeedIsNext /\ bus_lock = "poll" =>
             \A i \in DOMAIN received' :
                received'[i].function = "READ_HOLDING" =>
                    received'[i].what \in {"POSITION", "PAIR", "SPEED"}
      BY <1>4, <2>1, <2>3 DEF SpeedMeets
    <2> QED BY <1>1, <2>1, <2>2, <2>4 DEF SpeedMeets
  <1>10. PollIsAlone'
    <2>1. PollIsAlone /\ (in_poll' <=> in_poll) /\ (GoesWell' <=> GoesWell)
      BY <1>1 DEF BusInv, in_poll, GoesWell
    <2>2. in_poll' /\ ~disturbed' => call'["gateway"].request.function # "READ_HOLDING"
      BY <1>1, <2>1 DEF PollIsAlone
    <2>3. GoesWell /\ bus_lock # "poll" =>
             \A i \in DOMAIN on_its_way' : on_its_way'[i].answer.function # "READ_HOLDING"
      BY <1>4, <2>1 DEF PollIsAlone
    <2>4. ASSUME GoesWell, bus_lock = "poll", NEW i \in DOMAIN on_its_way',
                 on_its_way'[i].answer.function = "READ_HOLDING"
          PROVE  i = Len(on_its_way') /\ ~on_its_way'[i].late
      <3>1. i + 1 \in DOMAIN on_its_way /\ on_its_way'[i] = on_its_way[i + 1]
        BY <1>4
      <3>2. i + 1 = Len(on_its_way) /\ ~on_its_way[i + 1].late
        BY <2>1, <2>4, <3>1 DEF PollIsAlone
      <3>3. i \in Nat /\ i = Len(on_its_way) - 1
        BY <1>4, <3>2
      <3> QED BY <1>4, <3>1, <3>2, <3>3
    <2>5. ASSUME GoesWell, bus_lock = "poll", on_its_way[1].answer.function = "READ_HOLDING"
          PROVE  /\ on_its_way[1].answer = call["poll"].request
                 /\ \A j \in DOMAIN on_its_way' : FALSE
      <3>1. 1 = Len(on_its_way) /\ ~on_its_way[1].late
        BY <1>4, <2>1, <2>5 DEF PollIsAlone
      <3>2. on_its_way[1].answer = call["poll"].request
        BY <1>2, <1>4, <2>5, <3>1, ReplyKinds DEF LateIsKnown
      <3>3. DOMAIN on_its_way' = 1..(Len(on_its_way) - 1)
        BY <1>4
      <3>4. PICK n : n = Len(on_its_way)
        OBVIOUS
      <3>5. DOMAIN on_its_way' = 1..(n - 1) /\ n = 1
        BY <3>1, <3>3, <3>4
      <3>6. \A j \in 1..(n - 1) : FALSE
        BY <3>5
      <3> QED BY <3>2, <3>5, <3>6
    <2>6. ASSUME GoesWell, bus_lock = "poll", NEW i \in DOMAIN received',
                 received'[i].function = "READ_HOLDING"
          PROVE  /\ received'[i] = call["poll"].request
                 /\ \A j \in DOMAIN on_its_way' : on_its_way'[j].answer.function # "READ_HOLDING"
      <3>1. CASE i \in DOMAIN received /\ received'[i] = received[i]
        BY <1>4, <2>1, <2>6, <3>1 DEF PollIsAlone
      <3>2. CASE received'[i] = on_its_way[1].answer
        BY <2>5, <2>6, <3>2
      <3> QED BY <1>4, <3>1, <3>2
    <2> QED BY <1>1, <2>1, <2>2, <2>3, <2>4, <2>6 DEF PollIsAlone
  <1>11. OverIsOwn' /\ FeedbackIsItsOwn'
    BY <1>1 DEF BusInv, OverIsOwn, Over, in_poll, FeedbackIsItsOwn, SpeedIsItsOwn, GoodPollIsItsOwn
  <1> QED BY <1>5, <1>6, <1>7, <1>8, <1>9, <1>10, <1>11 DEF BusInv

\* A read of the poll ends: what the values it leaves came from.
LEMMA ReadEnds ==
    ASSUME BusInv, in_call("poll"), NEW outcome, ReadDone(outcome), UNCHANGED disturbed,
           outcome = "OK" =>
                /\ Head(poll.left) = "SPEED" => Head(received).what \in {"SPEED", "PAIR"}
                /\ GoesWell => Head(received).what = Head(poll.left)
                /\ Head(received).what \in Words
    PROVE  /\ in_poll
           /\ poll' \in [to : Addresses \cup {"NONE"}, left : Seq(Words), failed : BOOLEAN]
           /\ poll'.to = poll.to
           /\ ReadsInOrder(poll'.left)
           /\ came_from' \in [Primary -> Words] /\ counted' \in BOOLEAN
           /\ SpeedIsNext' => Head(poll.left) = "POSITION"
           /\ GoesWell' => GoesWell /\ outcome = "OK"
           /\ OverIsOwn' /\ FeedbackIsItsOwn'
  <1> DEFINE left == poll.left
  <1>1. BusType /\ CallsAreKnown /\ OverIsOwn /\ FeedbackIsItsOwn
    BY DEF BusInv
  <1>2. in_poll /\ ReadsInOrder(left) /\ left # <<>>
    BY <1>1 DEF CallsAreKnown, BusType, in_poll
  <1>3. /\ ReadsInOrder(Tail(left)) /\ Head(left) \in Words
        /\ Tail(left) # <<>> /\ Head(Tail(left)) = "SPEED" => Head(left) = "POSITION"
        /\ Tail(left) # <<>> /\ Head(Tail(left)) \in Primary => Head(left) \in Primary
        /\ \A what : (\A i \in DOMAIN Tail(left) : Tail(left)[i] # what) =>
                what = Head(left) \/ (\A i \in DOMAIN left : left[i] # what)
        /\ Len(left) = 1 <=> Tail(left) = <<>>
    BY <1>2, OrderKept
  <1>4. PICK failed : failed = primary_failed(outcome)
    OBVIOUS
  <1>5. poll \in [to : Addresses \cup {"NONE"}, left : Seq(Words), failed : BOOLEAN]
    BY <1>1 DEF BusType
  <1>6. failed \in BOOLEAN /\ (~failed => ~poll.failed /\ (Head(left) \in Primary => outcome = "OK"))
    BY <1>4, <1>5 DEF primary_failed
  <1>7. Tail(left) \in Seq(Words)
    BY <1>3 DEF ReadsInOrder
  <1>8. poll' = [to |-> poll.to, left |-> Tail(left), failed |-> failed]
    BY <1>4, <1>5 DEF ReadDone
  <1>9. /\ poll' \in [to : Addresses \cup {"NONE"}, left : Seq(Words), failed : BOOLEAN]
        /\ poll'.to = poll.to /\ poll'.left = Tail(left) /\ poll'.failed = failed
    BY <1>5, <1>6, <1>7, <1>8
  <1>10. /\ counted' = (Len(left) = 1 /\ ~failed)
         /\ came_from' = IF outcome = "OK" /\ Head(left) \in Primary
                         THEN [came_from EXCEPT ![Head(left)] = Head(received).what]
                         ELSE came_from
    BY <1>4 DEF ReadDone
  <1>11. came_from \in [Primary -> Words]
    BY <1>1 DEF BusType
  <1>12. came_from' \in [Primary -> Words] /\ counted' \in BOOLEAN
    BY <1>10, <1>11
  <1>13. SpeedIsNext' => Head(left) = "POSITION"
    BY <1>3, <1>9 DEF SpeedIsNext, in_poll
  <1>14. GoesWell' => GoesWell /\ outcome = "OK"
    BY <1>2, <1>3, <1>6, <1>9 DEF GoesWell, in_poll
  <1>15. ASSUME ~disturbed, ~failed, NEW what \in Primary, \A i \in DOMAIN Tail(left) : Tail(left)[i] # what
         PROVE  came_from'[what] = what
    <2>1. CASE Head(left) \in Primary
      <3>1. GoesWell /\ outcome = "OK"
        BY <1>2, <1>6, <1>15, <2>1 DEF GoesWell
      <3>2. came_from' = [came_from EXCEPT ![Head(left)] = Head(left)]
        BY <1>10, <2>1, <3>1
      <3>3. what # Head(left) => came_from[what] = what
        BY <1>1, <1>2, <1>3, <1>6, <1>15 DEF OverIsOwn, Over
      <3> QED BY <1>11, <3>2, <3>3
    <2>2. CASE Head(left) \notin Primary
      <3>1. came_from' = came_from /\ what # Head(left)
        BY <1>10, <2>2
      <3> QED BY <1>1, <1>2, <1>3, <1>6, <1>15, <3>1 DEF OverIsOwn, Over
    <2> QED BY <2>1, <2>2
  <1>16. OverIsOwn'
    <2>1. in_poll' => ~counted'
      BY <1>3, <1>9, <1>10 DEF in_poll
    <2>2. in_poll' /\ ~disturbed' /\ ~poll'.failed =>
            \A what \in Primary : (\A i \in DOMAIN poll'.left : poll'.left[i] # what) => came_from'[what] = what
      BY <1>9, <1>15
    <2> QED BY <2>1, <2>2 DEF OverIsOwn, Over
  <1>17. FeedbackIsItsOwn'
    <2>1. GoodPollIsItsOwn'
      <3> SUFFICES ASSUME counted', ~disturbed, NEW what \in Primary PROVE came_from'[what] = what
        BY DEF GoodPollIsItsOwn
      <3>1. ~failed /\ Tail(left) = <<>>
        BY <1>3, <1>10
      <3>2. \A i \in DOMAIN Tail(left) : FALSE
        BY <3>1
      <3> QED BY <1>15, <3>1, <3>2
    <2>2. SpeedIsItsOwn'
      <3>1. SpeedIsItsOwn
        BY <1>1 DEF FeedbackIsItsOwn
      <3>2. "SPEED" \in Primary
        BY DEF Primary
      <3> QED BY <1>10, <1>11, <3>1, <3>2 DEF SpeedIsItsOwn
    <2> QED BY <2>1, <2>2 DEF FeedbackIsItsOwn
  <1> QED BY <1>2, <1>9, <1>3, <1>12, <1>13, <1>14, <1>16, <1>17

\* What a good answer to a read of the poll may be.
LEMMA GoodRead ==
    ASSUME BusInv, bus_lock = "poll", judged(call["poll"].request, received) = "OK"
    PROVE  /\ 1 \in DOMAIN received /\ Head(received) = received[1]
           /\ received[1].function = "READ_HOLDING"
           /\ Head(received).what \in Words
           /\ Head(poll.left) = "SPEED" => Head(received).what \in {"SPEED", "PAIR"}
           /\ GoesWell => Head(received).what = Head(poll.left)
  <1>1. BusType /\ CallsAreKnown /\ SpeedMeets /\ PollIsAlone
    BY DEF BusInv
  <1>2. /\ in_poll /\ call["poll"].request = Read(poll.to, Head(poll.left))
        /\ received \in Seq(AnyFrame)
    BY <1>1 DEF CallsAreKnown, BusType
  <1>3. /\ call["poll"].request.function = "READ_HOLDING"
        /\ call["poll"].request.what = Head(poll.left)
    BY <1>2, FrameHolds DEF Read
  <1>4. /\ 1 \in DOMAIN received /\ Head(received) = received[1]
        /\ accepts(call["poll"].request, received[1])
    BY <1>2, OneGoodAnswer
  <1>5. /\ received[1].function = "READ_HOLDING"
        /\ quantity(received[1].what) = quantity(Head(poll.left))
    BY <1>3, <1>4 DEF accepts
  <1>6. received[1] \in AnyFrame
    BY <1>2, <1>4
  <1>7. received[1].what \in Words
    BY <1>6 DEF AnyFrame
  <1>8. ASSUME Head(poll.left) = "SPEED" PROVE received[1].what \in {"SPEED", "PAIR"}
    <2>1. received[1].what \in {"POSITION", "PAIR", "SPEED"}
      BY <1>1, <1>2, <1>4, <1>5, <1>8 DEF SpeedMeets, SpeedIsNext
    <2> QED BY <1>5, <1>8, <2>1 DEF quantity
  <1>9. ASSUME GoesWell PROVE received[1].what = Head(poll.left)
    BY <1>1, <1>3, <1>4, <1>5, <1>9 DEF PollIsAlone
  <1> QED BY <1>4, <1>5, <1>7, <1>8, <1>9

\* The end of an exchange: what has not arrived is late from then on.
LEMMA ReceiveStep ==
    ASSUME BusAssumption, BusInv, NEW t \in Task, Receive(t)
    PROVE  BusInv'
  <1>1. PICK outcome : outcome = judged(call[t].request, received)
    OBVIOUS
  <1>2. PICK request : request = call[t].request
    OBVIOUS
  <1>3. /\ bus_lock = t /\ bus_lock' = "free" /\ received' = <<>> /\ t # "free"
        /\ \A i \in DOMAIN on_its_way : ~on_its_way[i].late
        /\ on_its_way' = [i \in DOMAIN on_its_way |-> [on_its_way[i] EXCEPT !.late = TRUE]]
        /\ AttemptEnds(t, outcome) /\ UNCHANGED <<targets, disturbed>>
        /\ IF t = "poll" THEN ReadDone(outcome) ELSE UNCHANGED <<poll, came_from, counted>>
    BY <1>1 DEF Receive, AttemptEnds, polling, Task
  <1>4. BusType /\ CallsAreKnown /\ LateIsKnown /\ EchoIsTrue /\ PollIsAlone
    BY DEF BusInv
  <1>5. in_call(t)
    BY <1>3, <1>4 DEF CallsAreKnown
  <1>6. /\ call' \in [Task -> [request : Request, attempts : Nat]]
        /\ \A u \in Task : u # t => call'[u] = call[u]
        /\ \/ call'[t] = Idle
           \/ t # "poll" /\ call'[t].attempts > 0 /\ call'[t].request = call[t].request
    BY <1>3, <1>4, <1>5, CallAfter
  <1>7. /\ on_its_way' \in Seq(Entry) /\ DOMAIN on_its_way' = DOMAIN on_its_way
        /\ \A i \in DOMAIN on_its_way' :
              on_its_way'[i].late /\ on_its_way'[i].answer = on_its_way[i].answer
    <2>1. PICK queue \in Seq(Entry) : queue = on_its_way
      BY <1>4 DEF BusType
    <2>2. PICK new : new = [i \in DOMAIN queue |-> [queue[i] EXCEPT !.late = TRUE]]
      OBVIOUS
    <2>3. new = on_its_way'
      BY <1>3, <2>1, <2>2
    <2>4. /\ DOMAIN queue = 1..Len(queue) /\ Len(queue) \in Nat
          /\ \A i \in DOMAIN queue : queue[i] \in Entry
      BY <2>1
    <2>5. \A i \in DOMAIN queue :
             new[i] \in Entry /\ new[i].late /\ new[i].answer = queue[i].answer
      BY <2>2, <2>4 DEF Entry
    <2>6. new \in [1..Len(queue) -> Entry]
      BY <2>2, <2>4, <2>5
    <2>7. new \in Seq(Entry) /\ DOMAIN new = DOMAIN queue
      BY <2>4, <2>6
    <2> QED BY <2>1, <2>3, <2>5, <2>7
  <1>8. \A i \in DOMAIN on_its_way' : on_its_way'[i].answer \in Replies(request)
    BY <1>2, <1>3, <1>4, <1>7 DEF LateIsKnown
  <1>9. CallsAreKnown'
    BY <1>3, <1>4, <1>5, <1>6, CallsStayKnown DEF BusType
  <1>10. LateIsKnown'
    BY <1>7 DEF LateIsKnown
  <1>11. EchoIsTrue'
    <2> SUFFICES ASSUME NEW i \in DOMAIN on_its_way', on_its_way'[i].answer.function = "WRITE_SINGLE"
                 PROVE  targets[on_its_way'[i].answer.to] = on_its_way'[i].answer.value
      BY <1>3 DEF EchoIsTrue
    <2>1. on_its_way[i].answer = request
      BY <1>7, <1>8, ReplyKinds
    <2> QED BY <1>2, <1>3, <1>4, <1>7, <2>1 DEF EchoIsTrue
  <1>12. Idle.request.function = "NOISE"
    BY FrameHolds DEF Idle, Noise
  <1>13. CASE t = "poll"
    <2>1. request = Read(poll.to, Head(poll.left)) /\ in_poll
      BY <1>2, <1>4, <1>5, <1>13 DEF CallsAreKnown
    <2>2. outcome = "OK" =>
             /\ Head(poll.left) = "SPEED" => Head(received).what \in {"SPEED", "PAIR"}
             /\ GoesWell => Head(received).what = Head(poll.left)
             /\ Head(received).what \in Words
             /\ 1 \in DOMAIN received /\ received[1].function = "READ_HOLDING"
      BY <1>1, <1>3, <1>13, GoodRead
    <2>3. /\ poll' \in [to : Addresses \cup {"NONE"}, left : Seq(Words), failed : BOOLEAN]
          /\ poll'.to = poll.to
          /\ ReadsInOrder(poll'.left)
          /\ came_from' \in [Primary -> Words] /\ counted' \in BOOLEAN
          /\ SpeedIsNext' => Head(poll.left) = "POSITION"
          /\ GoesWell' => GoesWell /\ outcome = "OK"
          /\ OverIsOwn' /\ FeedbackIsItsOwn'
      BY <1>3, <1>5, <1>13, <2>2, ReadEnds
    <2>4. BusType'
      <3>1. received' \in Seq(AnyFrame)
        BY <1>3
      <3> QED BY <1>3, <1>4, <1>6, <1>7, <2>1, <2>3, <3>1 DEF BusType
    <2>5. SpeedMeets'
      <3> SUFFICES ASSUME SpeedIsNext', NEW i \in DOMAIN on_its_way',
                          on_its_way'[i].answer.function = "READ_HOLDING"
                   PROVE  on_its_way'[i].answer.what = "POSITION"
        BY <1>3 DEF SpeedMeets
      <3>1. on_its_way'[i].answer = Read(poll.to, "POSITION")
        BY <1>8, <2>1, <2>3, ReplyKinds
      <3> QED BY <3>1, FrameHolds DEF Read
    <2>6. PollIsAlone'
      <3>1. in_poll' /\ ~disturbed' => call'["gateway"].request.function # "READ_HOLDING"
        BY <1>3, <1>4, <1>6, <1>13, <2>1 DEF PollIsAlone, Task
      <3>2. GoesWell' => \A i \in DOMAIN on_its_way' : on_its_way'[i].answer.function # "READ_HOLDING"
        BY <1>3, <1>4, <1>7, <1>13, <2>2, <2>3 DEF PollIsAlone
      <3> QED BY <1>3, <3>1, <3>2 DEF PollIsAlone
    <2> QED BY <1>9, <1>10, <1>11, <2>3, <2>4, <2>5, <2>6 DEF BusInv
  <1>14. CASE t # "poll"
    <2>1. UNCHANGED <<poll, came_from, counted, disturbed>>
      BY <1>3, <1>14
    <2>2. BusType'
      <3>1. received' \in Seq(AnyFrame)
        BY <1>3
      <3> QED BY <1>3, <1>4, <1>6, <1>7, <2>1, <3>1 DEF BusType, in_poll
    <2>3. SpeedMeets'
      <3> SUFFICES ASSUME NEW i \in DOMAIN on_its_way',
                          on_its_way'[i].answer.function = "READ_HOLDING"
                   PROVE  on_its_way'[i].answer.what = "PAIR"
        BY <1>3 DEF SpeedMeets
      <3>1. on_its_way'[i].answer = request
        BY <1>8, ReplyKinds
      <3> QED BY <1>2, <1>4, <1>5, <1>14, <3>1, CallsAreFrames DEF CallsAreKnown
    <2>4. PollIsAlone'
      <3>1. (in_poll' <=> in_poll) /\ (GoesWell' <=> GoesWell)
        BY <2>1 DEF in_poll, GoesWell
      <3>2. in_poll' /\ ~disturbed' => call'["gateway"].request.function # "READ_HOLDING"
        BY <1>4, <1>6, <1>12, <2>1, <3>1 DEF PollIsAlone, Task
      <3>3. GoesWell' => \A i \in DOMAIN on_its_way' : on_its_way'[i].answer.function # "READ_HOLDING"
        BY <1>3, <1>4, <1>7, <1>14, <3>1 DEF PollIsAlone
      <3> QED BY <1>3, <3>2, <3>3 DEF PollIsAlone
    <2>5. OverIsOwn' /\ FeedbackIsItsOwn'
      BY <2>1 DEF BusInv, OverIsOwn, Over, in_poll, FeedbackIsItsOwn, SpeedIsItsOwn, GoodPollIsItsOwn
    <2> QED BY <1>9, <1>10, <1>11, <2>2, <2>3, <2>4, <2>5 DEF BusInv
  <1> QED BY <1>13, <1>14

\* An attempt that did not get the bus sends nothing.
LEMMA BusyStep ==
    ASSUME BusAssumption, BusInv, NEW t \in Task, Busy(t)
    PROVE  BusInv'
  <1>1. /\ in_call(t) /\ bus_lock \notin {"free", t}
        /\ AttemptEnds(t, "BUS_BUSY") /\ UNCHANGED <<bus_lock, received, on_its_way, targets, disturbed>>
        /\ IF t = "poll" THEN ReadDone("BUS_BUSY") ELSE UNCHANGED <<poll, came_from, counted>>
    BY DEF Busy, AttemptEnds, polling
  <1>2. BusType /\ CallsAreKnown /\ LateIsKnown /\ EchoIsTrue /\ PollIsAlone
    BY DEF BusInv
  <1>3. /\ call' \in [Task -> [request : Request, attempts : Nat]]
        /\ \A u \in Task : u # t => call'[u] = call[u]
        /\ \/ call'[t] = Idle
           \/ t # "poll" /\ call'[t].attempts > 0 /\ call'[t].request = call[t].request
    BY <1>1, <1>2, CallAfter
  <1>4. bus_lock \in Task /\ call'[bus_lock] = call[bus_lock]
    BY <1>1, <1>2, <1>3 DEF BusType
  <1>5. CallsAreKnown'
    BY <1>1, <1>2, <1>3, CallsStayKnown DEF BusType
  <1>6. LateIsKnown' /\ EchoIsTrue'
    BY <1>1, <1>2, <1>4 DEF LateIsKnown, EchoIsTrue
  <1>7. Idle.request.function = "NOISE"
    BY FrameHolds DEF Idle, Noise
  <1>8. CASE t = "poll"
    <2>1. /\ in_poll
          /\ poll' \in [to : Addresses \cup {"NONE"}, left : Seq(Words), failed : BOOLEAN]
          /\ poll'.to = poll.to
          /\ ReadsInOrder(poll'.left)
          /\ came_from' \in [Primary -> Words] /\ counted' \in BOOLEAN
          /\ ~GoesWell'
          /\ OverIsOwn' /\ FeedbackIsItsOwn'
      BY <1>1, <1>8, ReadEnds
    <2>2. BusType'
      BY <1>1, <1>2, <1>3, <2>1 DEF BusType
    <2>3. SpeedMeets'
      BY <1>1, <1>8 DEF SpeedMeets
    <2>4. PollIsAlone'
      BY <1>1, <1>2, <1>3, <1>8, <2>1 DEF PollIsAlone, Task
    <2> QED BY <1>5, <1>6, <2>1, <2>2, <2>3, <2>4 DEF BusInv
  <1>9. CASE t # "poll"
    <2>1. UNCHANGED <<poll, came_from, counted, disturbed>>
      BY <1>1, <1>9
    <2>2. BusType'
      BY <1>1, <1>2, <1>3, <2>1 DEF BusType, in_poll
    <2>3. SpeedMeets'
      BY <1>1, <2>1 DEF BusInv, SpeedMeets, SpeedIsNext, in_poll
    <2>4. PollIsAlone'
      <3>1. (in_poll' <=> in_poll) /\ (GoesWell' <=> GoesWell)
        BY <2>1 DEF in_poll, GoesWell
      <3>2. in_poll' /\ ~disturbed' => call'["gateway"].request.function # "READ_HOLDING"
        BY <1>2, <1>3, <1>7, <2>1, <3>1 DEF PollIsAlone, Task
      <3>3. call'["poll"] = call["poll"]
        BY <1>3, <1>9 DEF Task
      <3> QED BY <1>1, <1>2, <3>1, <3>2, <3>3 DEF PollIsAlone
    <2>5. OverIsOwn' /\ FeedbackIsItsOwn'
      BY <2>1 DEF BusInv, OverIsOwn, Over, in_poll, FeedbackIsItsOwn, SpeedIsItsOwn, GoodPollIsItsOwn
    <2> QED BY <1>5, <1>6, <2>2, <2>3, <2>4, <2>5 DEF BusInv
  <1> QED BY <1>8, <1>9

\* Every step of the bus keeps its invariant.
LEMMA BusStep ==
    ASSUME BusAssumption, BusInv, [BusNext]_busVars
    PROVE  BusInv'
  <1>1. CASE UNCHANGED busVars
    BY <1>1 DEF busVars, BusInv, BusType, CallsAreKnown, LateIsKnown, EchoIsTrue, SpeedMeets, SpeedIsNext,
                PollIsAlone, GoesWell, OverIsOwn, Over, FeedbackIsItsOwn, SpeedIsItsOwn, GoodPollIsItsOwn,
                in_poll, in_call
  <1> QED BY <1>1, BeginPollStep, CallStep, ExchangeStep, ArriveStep, ReceiveStep, BusyStep DEF BusNext

\* The invariant of the bus.
LEMMA BusAlwaysInv == ASSUME BusAssumption PROVE BusSpec => []BusInv
  <1>1. BusInit => BusInv
    BY BusStarts
  <1>2. BusInv /\ [BusNext]_busVars => BusInv'
    BY BusStep
  <1> QED BY <1>1, <1>2, PTL DEF BusSpec

\* For any drives, retries and slow cycle: a value that a poll keeps as the
\* speed was read as such, and a poll that counts as good and was not
\* disturbed holds the values it asked for (svd48_device_poll, transact).
THEOREM FeedbackAlwaysItsOwn == ASSUME BusAssumption PROVE BusSpec => []FeedbackIsItsOwn
  <1>1. BusInv => FeedbackIsItsOwn
    BY DEF BusInv
  <1> QED BY <1>1, BusAlwaysInv, PTL

\* For any drives, retries and other writers: a write that is acknowledged is
\* in the drive's register when the exchange ends (transact, exchange_uart).
THEOREM AcknowledgedWriteAlwaysHolds == ASSUME BusAssumption PROVE BusSpec => AcknowledgedWriteHolds
  <1> DEFINE Step == \A t \in Task :
        (/\ bus_lock = t /\ bus_lock' = "free"
         /\ call[t].request.function = "WRITE_SINGLE"
         /\ judged(call[t].request, received) = "OK")
            => targets[call[t].request.to] = call[t].request.value
  <1>1. ASSUME BusInv, [BusNext]_busVars PROVE [Step]_busVars
    <2> SUFFICES ASSUME NEW t \in Task, bus_lock = t, call[t].request.function = "WRITE_SINGLE",
                        judged(call[t].request, received) = "OK"
                 PROVE  targets[call[t].request.to] = call[t].request.value
      OBVIOUS
    <2>1. received \in Seq(AnyFrame) /\ EchoIsTrue /\ bus_lock # "free"
      BY <1>1 DEF BusInv, BusType, Task
    <2>2. 1 \in DOMAIN received /\ accepts(call[t].request, received[1])
      BY <2>1, OneGoodAnswer
    <2>3. received[1] = call[t].request
      BY <2>2 DEF accepts
    <2> QED BY <2>1, <2>2, <2>3 DEF EchoIsTrue
  <1> QED BY <1>1, BusAlwaysInv, PTL DEF BusSpec, AcknowledgedWriteHolds
=============================================================================
