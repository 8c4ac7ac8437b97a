----------------------------- MODULE IbusReceiver -----------------------------
(***************************************************************************)
(* components/ibus_receiver in its i-BUS modes: ibus_rx_task assembles the *)
(* bytes of the UART into frames, process_frame publishes the channels of  *)
(* a frame whose checksum fits, and the console may change the mode, which *)
(* resets the status but not the frame the task is assembling.  (In PPM    *)
(* mode the receiver hands on what PpmDecoder has decoded.)                *)
(*                                                                         *)
(* A byte is a number below Base instead of 256 and a frame has two        *)
(* channels instead of fourteen; header, command, little-endian values and *)
(* the two checksum bytes are the code's.  Time is counted in frames.  The *)
(* lock is held for microseconds and never missed.  Counters and the raw   *)
(* sample are left out, and the channels are set to None instead of zeros. *)
(***************************************************************************)
EXTENDS Naturals, Sequences, Functions

CONSTANTS
    Values,        \* low bytes of a channel value
    ErrorGap,      \* bound on the line: frames from one error to the next
    StaleTimeout   \* stale_timeout_ms, in frames

Base    == 16
Header  == 2  \* 0x20
Command == 4  \* 0x40
High    == 1  \* the high byte of a channel value, 0x03..0x07 of a servo pulse
Channel == 1..2
None    == <<>>

ASSUME IbusAssumption ==
    /\ Values \subseteq 0..(Base - 1)
    /\ ErrorGap \in Nat /\ StaleTimeout \in Nat

Payload == [Channel -> Values]

VARIABLES
    wire,      \* the bytes of the transmitted frame that are still to come
    sent,      \* the channels of that frame
    errorless, \* frames begun since the last error, at most ErrorGap
    rx_frame,  \* ibus_rx_task's frame[0..frame_index)
    channels,  \* handle->channels
    quiet      \* frames begun since one was accepted or the status was reset

ibusVars == <<wire, sent, errorless, rx_frame, channels, quiet>>

-----------------------------------------------------------------------------
total(bytes) == FoldFunction(+, 0, bytes)

\* ibus_checksum, over all bytes but the last two
ibus_checksum(bytes) ==
    LET sum == Base * Base - 1 - total(bytes)
    IN  <<sum % Base, sum \div Base>>

BodyLength  == 2 + 2 * 2
FrameLength == BodyLength + 2

\* What the transmitter sends.
Encode(p) ==
    LET body == <<Header, Command, p[1], High, p[2], High>>
    IN  body \o ibus_checksum(body)

\* Mutant: the checksum is not compared.
checksum_unread(f) == TRUE

checksum_fits(f) ==
    ibus_checksum(SubSeq(f, 1, BodyLength)) = SubSeq(f, BodyLength + 1, FrameLength)

\* process_frame
process_frame(f) ==
    IF checksum_fits(f)
    THEN channels' = [c \in Channel |-> f[1 + 2 * c]] /\ quiet' = 0
    ELSE UNCHANGED <<channels, quiet>>

continues(byte) == Len(rx_frame) > 1 \/ byte = Command

\* One byte of ibus_rx_task's loop: the header, the command, the rest.
receive(byte) ==
    LET grown == Append(rx_frame, byte)
    IN  \/ /\ rx_frame = <<>>
           /\ rx_frame' = IF byte = Header THEN grown ELSE <<>>
           /\ UNCHANGED <<channels, quiet>>
        \/ /\ rx_frame # <<>> /\ ~continues(byte)      \* record_bad_header
           /\ rx_frame' = IF byte = Header THEN <<Header>> ELSE <<>>
           /\ UNCHANGED <<channels, quiet>>
        \/ /\ rx_frame # <<>> /\ continues(byte)
           /\ IF Len(grown) = FrameLength
              THEN process_frame(grown) /\ rx_frame' = <<>>
              ELSE rx_frame' = grown /\ UNCHANGED <<channels, quiet>>

-----------------------------------------------------------------------------
Transmit ==
    /\ wire = <<>>
    /\ \E p \in Payload : sent' = p /\ wire' = Encode(p)
    /\ errorless' = IF errorless < ErrorGap THEN errorless + 1 ELSE errorless
    /\ quiet' = IF quiet <= StaleTimeout THEN quiet + 1 ELSE quiet
    /\ UNCHANGED <<rx_frame, channels>>

DeliverByte ==
    /\ wire # <<>>
    /\ receive(Head(wire))
    /\ wire' = Tail(wire)
    /\ UNCHANGED <<sent, errorless>>

\* An error on the line, some frames after the last one: the frame counts anew.
Disturb == errorless = ErrorGap /\ errorless' = 0 /\ UNCHANGED sent

\* uart_read_bytes has lost a byte.
LoseByte ==
    /\ Disturb
    /\ wire # <<>> /\ wire' = Tail(wire)
    /\ UNCHANGED <<rx_frame, channels, quiet>>

\* A byte arrives as another.
CorruptByte ==
    /\ Disturb
    /\ wire # <<>> /\ wire' = Tail(wire)
    /\ \E byte \in 0..(Base - 1) : byte # Head(wire) /\ receive(byte)

\* ibus_receiver_set_mode to the mode the transmitter uses: the UART's input
\* is flushed and the runtime state reset; the task keeps its partial frame.
SetMode ==
    /\ Disturb
    /\ \E lost \in 0..Len(wire) : wire' = SubSeq(wire, lost + 1, Len(wire))
    /\ channels' = None /\ quiet' = 0
    /\ UNCHANGED rx_frame

\* The receiver starts somewhere in a transmitted frame.
IbusInit ==
    /\ sent \in Payload
    /\ \E lost \in 0..FrameLength : wire = SubSeq(Encode(sent), lost + 1, FrameLength)
    /\ errorless = 0
    /\ rx_frame = <<>> /\ channels = None /\ quiet = 0

IbusNext == Transmit \/ DeliverByte \/ LoseByte \/ CorruptByte \/ SetMode

IbusSpec == IbusInit /\ [][IbusNext]_ibusVars

\* ibus_receiver_get_status: there is a last frame, and it is not too old.
ibus_signal_valid == channels # None /\ quiet <= StaleTimeout

-----------------------------------------------------------------------------
IbusTypeOK ==
    /\ Len(wire) <= FrameLength
    /\ sent \in Payload
    /\ errorless \in 0..ErrorGap
    /\ Len(rx_frame) < FrameLength
    /\ channels \in Payload \cup {None}
    /\ quiet \in 0..(StaleTimeout + 1)

\* Channels that are published are those of the frame on the line, however
\* the task's frame was begun: after a lost or a changed byte, or in another
\* mode (ibus_receiver.c:184-268, 437-460).
ChannelsWereSent == [][channels' \in {channels, None, sent}]_channels

\* One error costs the frame it hits and the frame the task then assembles
\* across: with StaleTimeout frames of patience the signal is never lost to
\* it, although the task looks for a header only between frames
\* (ibus_receiver.c:223-268).  Without a signal is the receiver only from its
\* start or a mode change, which forgets the last frame, to the next good
\* frame, and that takes no longer than StaleTimeout either.
SignalSurvives ==
    ibus_signal_valid \/ (channels = None /\ quiet <= StaleTimeout)
=============================================================================
