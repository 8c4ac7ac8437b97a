------------------------------- MODULE MCWires -------------------------------
(***************************************************************************)
(* What comes in over the wires: the pilot's frames over PPM or i-BUS, the *)
(* task that makes events of them, and the drives' answers on the RS-485   *)
(* bus.  The four parts share no state; focus says which of them a         *)
(* behaviour is about, the others rest where they began.                   *)
(***************************************************************************)
EXTENDS PpmMotionSource, PpmDecoder, IbusReceiver, BusExchange

VARIABLE focus

ibusRest == wire = <<>> /\ \A c \in Channel : sent[c] = CHOOSE v \in Values : TRUE

WiresInit ==
    /\ focus \in {"source", "decoder", "ibus", "bus"}
    /\ Init /\ DecoderInit /\ IbusInit /\ BusInit
    /\ focus # "decoder" => now = 0
    /\ focus # "ibus" => ibusRest

WiresNext ==
    \/ focus = "source" /\ Next /\ UNCHANGED <<decoderVars, ibusVars, busVars, focus>>
    \/ focus = "decoder" /\ DecoderNext /\ UNCHANGED <<vars, ibusVars, busVars, focus>>
    \/ focus = "ibus" /\ IbusNext /\ UNCHANGED <<vars, decoderVars, busVars, focus>>
    \/ focus = "bus" /\ BusNext /\ UNCHANGED <<vars, decoderVars, ibusVars, focus>>

WiresSpec == WiresInit /\ [][WiresNext]_<<vars, decoderVars, ibusVars, busVars, focus>>

\* Every part keeps its types, a decoded frame its bounds, and one error on
\* the i-BUS line costs no more than the receiver's patience (the buffers of
\* ppm_decoder_model.c, ibus_receiver.c and rs485_transport.c).
SignalsAreSound ==
    CASE focus = "source"  -> TypeOK
      [] focus = "decoder" -> DecoderTypeOK /\ AgeIsTrue
      [] focus = "ibus"    -> IbusTypeOK /\ SignalSurvives
      [] focus = "bus"     -> BusTypeOK
=============================================================================
