----------------------------- MODULE BusExchange -----------------------------
(***************************************************************************)
(* The requests and answers on one RS-485 bus: bus_transport serialises    *)
(* them under the bus lock, rs485_transport exchanges the bytes with the   *)
(* UART, svd48_device judges the answers, retries, and keeps what its polls*)
(* read.  Three tasks share the bus: the poll (POLL_ONCE runs the same     *)
(* one), the motion output and maintenance through the gateway.            *)
(*                                                                         *)
(* A frame is a record; one that is damaged, cut short or received with    *)
(* another fails its CRC: "NOISE".  An answer names its registers here,    *)
(* which a Modbus answer to a read does not: the driver's checks look only *)
(* at what the frame holds.  The drives are external: they answer in order,*)
(* and an answer arrives before the end of the next exchange.  A cancelled *)
(* transport is left to RobotComposition.                                  *)
(***************************************************************************)
EXTENDS Naturals, SequencesExt

CONSTANTS
    Addresses,   \* the drives of the bus
    Retries,     \* config.retries of the drives
    SlowEvery,   \* SVD48_POLL_SLOW_DIVIDER
    GatewaySpeeds \* bound: the speeds that maintenance writes

ASSUME BusAssumption ==
    Addresses # {} /\ Retries \in Nat /\ SlowEvery \in Nat \ {0} /\ GatewaySpeeds \subseteq {0, 1}

Task == {"poll", "motion", "gateway"}
Speeds == {0, 1}
Primary == {"POSITION", "SPEED", "CURRENT"}

\* the reads of a poll; "STATUS" stands for the four slow ones of two registers
\* Mutant: the current is read before the speed
fast_reads_current_first == <<"POSITION", "CURRENT", "SPEED">>
fast_reads == <<"POSITION", "SPEED", "CURRENT">>
slow_reads == fast_reads \o <<"STATUS", "ERROR_CODE">>
Observations == ToSet(slow_reads)

quantity(what) == IF what \in {"POSITION", "ERROR_CODE"} THEN 4 ELSE 2

Frame(to, function, what, value) ==
    [to |-> to, function |-> function, what |-> what, value |-> value]
Read(to, what) == Frame(to, "READ_HOLDING", what, 0)
Write(to, value) == Frame(to, "WRITE_SINGLE", "TARGET", value)
Noise(to) == Frame(to, "NOISE", "NONE", 0)

\* svd48_channel_set_target_rpm, and READ_REG of two targets by the gateway
Calls(t) ==
    IF t = "gateway"
    THEN {Write(a, v) : a \in Addresses, v \in GatewaySpeeds}
         \cup {Read(a, "PAIR") : a \in Addresses}
    ELSE {Write(a, v) : a \in Addresses, v \in Speeds}

\* how often a request is sent at most: the reads of a poll are not retried
attempts(t) == IF t = "poll" THEN 1 ELSE Retries + 1

VARIABLES
    call,       \* of each task: its request and the attempts it may still make, 0 outside a call
    bus_lock,   \* the task whose exchange is on, or "free"
    received,   \* the frames in the UART's receive buffer
    on_its_way, \* the answers that have not arrived, with whether they are late
    targets,    \* the given-speed register of each drive
    poll,       \* the poll: its drive, the reads that are left, whether a primary one failed
    poll_cycle, \* of each drive, modulo SlowEvery
    came_from,  \* the registers the values of the last poll came from, where they are primary ones
    counted,    \* whether finish_poll recorded the last poll as good
    disturbed   \* history: a read that is not the last poll's was on the bus during it

busVars == <<call, bus_lock, received, on_its_way, targets, poll, poll_cycle,
             came_from, counted, disturbed>>
polling == <<poll, poll_cycle, came_from, counted>>

Idle == [request |-> Noise("NONE"), attempts |-> 0]
in_call(t) == call[t].attempts > 0
in_poll == poll.left # <<>>

-----------------------------------------------------------------------------
(* transact: how an answer is judged.                                      *)

\* read_response_context_t, write_single_response_context_t
\* Mutant: the echo of a write is not compared with the request
accepts_any_echo(request, answer) ==
    /\ answer.to = request.to
    /\ answer.function = request.function
    /\ request.function = "READ_HOLDING" => quantity(answer.what) = quantity(request.what)
accepts(request, answer) ==
    /\ answer.to = request.to
    /\ answer.function = request.function
    /\ IF request.function = "READ_HOLDING"
       THEN quantity(answer.what) = quantity(request.what)
       ELSE answer = request

is_exception(request, answer) ==
    answer.to = request.to /\ answer.function = "EXCEPTION" /\ answer.what = request.function

judged(request, frames) ==
    IF frames = <<>> THEN "TIMEOUT"
    ELSE IF Len(frames) > 1 \/ Head(frames).function = "NOISE" THEN "CRC_ERROR"
    ELSE IF is_exception(request, Head(frames)) THEN "EXCEPTION"
    ELSE IF accepts(request, Head(frames)) THEN "OK" ELSE "BAD_RESPONSE"

retryable(outcome) == outcome \in {"TIMEOUT", "BUS_BUSY", "CRC_ERROR", "BAD_RESPONSE"}

\* the attempts left after one that ended so
left_after(t, outcome) == IF retryable(outcome) THEN call[t].attempts - 1 ELSE 0

-----------------------------------------------------------------------------
(* svd48_device_poll.                                                      *)

reads_of(d) == IF poll_cycle[d] = 0 THEN slow_reads ELSE fast_reads

BeginPoll(d) ==
    /\ ~in_poll
    /\ poll' = [to |-> d, left |-> reads_of(d), failed |-> FALSE]
    /\ poll_cycle' = [poll_cycle EXCEPT ![d] = (@ + 1) % SlowEvery]
    /\ came_from' = [what \in Primary |-> "NONE"]
    /\ counted' = FALSE
    /\ disturbed' = \/ \E i \in DOMAIN on_its_way : on_its_way[i].answer.function = "READ_HOLDING"
                    \/ call["gateway"].request.function = "READ_HOLDING"
    /\ UNCHANGED <<call, bus_lock, received, on_its_way, targets>>

\* Only the primary reads count for the link.
primary_failed(outcome) == poll.failed \/ (outcome # "OK" /\ Head(poll.left) \in Primary)

\* update_pair or mark_observation_failure, and after the last read finish_poll
ReadDone(outcome) ==
    /\ poll' = [poll EXCEPT !.left = Tail(@), !.failed = primary_failed(outcome)]
    /\ came_from' = IF outcome = "OK" /\ Head(poll.left) \in Primary
                    THEN [came_from EXCEPT ![Head(poll.left)] = Head(received).what]
                    ELSE came_from
    /\ counted' = (Len(poll.left) = 1 /\ ~primary_failed(outcome))
    /\ UNCHANGED poll_cycle

-----------------------------------------------------------------------------
(* The calls of the tasks and their exchanges.                             *)

Call(t) ==
    /\ ~in_call(t)
    /\ \E request \in IF t # "poll" THEN Calls(t)
                      ELSE IF in_poll THEN {Read(poll.to, Head(poll.left))} ELSE {} :
            /\ call' = [call EXCEPT ![t] = [request |-> request, attempts |-> attempts(t)]]
            /\ disturbed' = (disturbed \/ (in_poll /\ request.what = "PAIR"))
    /\ UNCHANGED <<bus_lock, received, on_its_way, targets, polling>>

\* The drive misses the request, or takes it and answers, refuses it with an
\* exception, is not understood, or is not heard.
Reaction == {"missed", "answers", "refuses", "garbled", "unheard"}

replies(request, reaction) ==
    CASE reaction = "answers" -> <<request>>
      [] reaction = "refuses" -> <<Frame(request.to, "EXCEPTION", request.function, 0)>>
      [] reaction = "garbled" -> <<Noise(request.to)>>
      [] OTHER -> <<>>

written(request, reaction) ==
    IF request.function = "WRITE_SINGLE" /\ reaction \notin {"missed", "refuses"}
    THEN [targets EXCEPT ![request.to] = request.value]
    ELSE targets

\* acquire_bus, then exchange_uart up to the end of the transmission: what is
\* in the receive buffer is thrown away before the request is sent.
lock_is_free == bus_lock = "free"
flushed(frames) == <<>>

Exchange(t) ==
    /\ in_call(t)
    /\ bus_lock # t
    /\ lock_is_free
    /\ bus_lock' = t
    /\ received' = flushed(received)
    /\ \E reaction \in Reaction :
        /\ targets' = written(call[t].request, reaction)
        /\ on_its_way' = on_its_way \o [i \in DOMAIN replies(call[t].request, reaction) |->
               [answer |-> replies(call[t].request, reaction)[i], late |-> FALSE]]
    /\ UNCHANGED <<call, polling, disturbed>>

Arrive ==
    /\ on_its_way # <<>>
    /\ received' = IF Len(received) < 2 THEN Append(received, Head(on_its_way).answer) ELSE received
    /\ on_its_way' = Tail(on_its_way)
    /\ UNCHANGED <<call, bus_lock, targets, polling, disturbed>>

\* An attempt is over; at the end of the last one the call returns.
AttemptEnds(t, outcome) ==
    LET more == left_after(t, outcome)
    IN  /\ call' = [call EXCEPT ![t] = IF more = 0 THEN Idle ELSE [@ EXCEPT !.attempts = more]]
        /\ IF t = "poll" THEN ReadDone(outcome) ELSE UNCHANGED polling
        /\ UNCHANGED <<targets, disturbed>>

\* The gap after the answer or the response timeout ends the exchange.
Receive(t) ==
    /\ bus_lock = t
    /\ \A i \in DOMAIN on_its_way : ~on_its_way[i].late
    /\ bus_lock' = "free"
    /\ on_its_way' = [i \in DOMAIN on_its_way |-> [on_its_way[i] EXCEPT !.late = TRUE]]
    /\ AttemptEnds(t, judged(call[t].request, received))
    /\ received' = <<>>

\* The lock is not free within the response timeout.
Busy(t) ==
    /\ in_call(t)
    /\ bus_lock \notin {"free", t}
    /\ AttemptEnds(t, "BUS_BUSY")
    /\ UNCHANGED <<bus_lock, received, on_its_way>>

-----------------------------------------------------------------------------
BusInit ==
    /\ call = [t \in Task |-> Idle]
    /\ bus_lock = "free"
    /\ received = <<>> /\ on_its_way = <<>>
    /\ targets = [a \in Addresses |-> 0]
    /\ poll = [to |-> "NONE", left |-> <<>>, failed |-> FALSE]
    /\ poll_cycle = [a \in Addresses |-> 0]
    /\ came_from = [what \in Primary |-> "NONE"]
    /\ counted = FALSE /\ disturbed = FALSE

BusNext ==
    \/ \E a \in Addresses : BeginPoll(a)
    \/ \E t \in Task : Call(t) \/ Exchange(t) \/ Receive(t) \/ Busy(t)
    \/ Arrive

BusSpec == BusInit /\ [][BusNext]_busVars

-----------------------------------------------------------------------------
Frames ==
    {Frame(a, "EXCEPTION", f, 0) : a \in Addresses, f \in {"READ_HOLDING", "WRITE_SINGLE"}}
    \cup {Noise(a) : a \in Addresses} \cup {Read(a, what) : a \in Addresses, what \in Observations}
    \cup Calls("gateway") \cup Calls("motion")

\* At most two answers are anywhere, and the lock is held during a call only.
BusTypeOK ==
    /\ \A t \in Task :
           call[t] # Idle => call[t].request \in Frames /\ call[t].attempts \in 1..(Retries + 1)
    /\ bus_lock = "free" \/ in_call(bus_lock)
    /\ \A i \in DOMAIN received : received[i] \in Frames
    /\ \A i \in DOMAIN on_its_way :
           on_its_way[i].answer \in Frames /\ on_its_way[i].late \in BOOLEAN
    /\ Len(on_its_way) <= 2
    /\ targets \in [Addresses -> Speeds]
    /\ ToSet(poll.left) \subseteq Observations
    /\ poll_cycle \in [Addresses -> 0..(SlowEvery - 1)]
    /\ counted \in BOOLEAN /\ disturbed \in BOOLEAN

\* A write of one register that is acknowledged is in the drive's register
\* when it returns, whatever was lost, late or written by the other task: an
\* echo of the same write can only be of an attempt nothing came after.
AcknowledgedWriteHolds ==
    [][\A t \in Task :
        (/\ bus_lock = t /\ bus_lock' = "free"
         /\ call[t].request.function = "WRITE_SINGLE"
         /\ judged(call[t].request, received) = "OK")
            => targets[call[t].request.to] = call[t].request.value]_busVars

\* What the snapshot gives as speed is never another observation: a late
\* position, the read before it, has another length.
SpeedIsItsOwn == came_from["SPEED"] \in {"NONE", "SPEED", "PAIR"}

\* A poll that counts as good for the link holds the three values it asked
\* for, unless a maintenance read or an earlier read was on the bus: a value
\* taken for the next one leaves its own read failed.
GoodPollIsItsOwn == counted /\ ~disturbed => \A what \in Primary : came_from[what] = what

\* What the link takes for a drive's feedback was read as such.
FeedbackIsItsOwn == SpeedIsItsOwn /\ GoodPollIsItsOwn
=============================================================================
