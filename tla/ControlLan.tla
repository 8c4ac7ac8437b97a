----------------------------- MODULE ControlLan -----------------------------
(***************************************************************************)
(* components/control_lan: the UDP ingress that turns the LAN client's     *)
(* packets into STOP, ARM and COMMAND events, and revokes its own stream   *)
(* when the RC/LAN interlock takes the authority away.                     *)
(*                                                                         *)
(* The network loses, duplicates and reorders packets, so that any packet  *)
(* may arrive at any time; packets that do not parse or authenticate are   *)
(* answered and change nothing.  The safety task's published status moves  *)
(* by itself, between the task's reading of it and the events that follow  *)
(* too.  The motion application is MotionLease; the mark of an event says  *)
(* that its stream had been armed after the last takeover, when the event  *)
(* was admitted.  Timestamps and response texts are left out.              *)
(***************************************************************************)
EXTENDS MotionLease

CONSTANTS
    Packets,         \* the ARM and COMMAND packets the network delivers
    EpochCounter,    \* 2^32, the modulus of the revocation epoch
    MovesPerRead     \* bound: status changes between two readings of it

ASSUME LanConfig ==
    /\ Packets \subseteq [action: {"ARM", "COMMAND"}, stream: Streams,
                         sequence: Nat \ {0}]
    /\ EpochCounter \in Nat /\ MovesPerRead \in Nat
    /\ MovesPerRead < EpochCounter

VARIABLES
    status,     \* what robot_safety publishes: lan_allowed, revocation_epoch
    moves,      \* status changes since the task last read it
    lan,        \* the handle's stream, last_sequence and authority epoch
    at,         \* where control_lan_task is
    authority,  \* its reading of status
    packet,     \* the event of the packet in hand, and its sequence
    renewed,    \* history: streams an ARM was admitted for since the
                \* last takeover
    dropped     \* history: the application was too busy to take an event

task == <<lan, at, authority, packet>>
lanVars == <<lease_vars, status, moves, task, renewed, dropped>>

NoStream == [stream_active |-> FALSE, active_stream |-> 0,
             last_sequence |-> 0, active_authority_epoch |-> 0]

Epoch == 0..(EpochCounter - 1)
Authority == [lan_allowed: BOOLEAN, revocation_epoch: Epoch]
NoPacket == [event |-> NoEvent, sequence |-> 0]

LanInit ==
    /\ LeaseInit
    /\ status = [lan_allowed |-> TRUE, revocation_epoch |-> 0] /\ moves = 0
    /\ lan = NoStream /\ at = "loop" /\ authority = status
    /\ packet = NoPacket /\ renewed = {} /\ dropped = FALSE

(* ---------------------------- environment ----------------------------- *)

\* The interlock gives LAN the authority or takes it away; a confirmed
\* takeover by PPM, and nothing else, has a new epoch.
StatusChanges ==
    /\ moves < MovesPerRead /\ moves' = moves + 1
    /\ \E allowed, takeover \in BOOLEAN :
         /\ status' = [lan_allowed |-> allowed,
                       revocation_epoch |->
                           (status.revocation_epoch + IF takeover THEN 1 ELSE 0)
                               % EpochCounter]
         /\ renewed' = IF takeover THEN {} ELSE renewed
    /\ UNCHANGED <<lease_vars, task, dropped>>

\* ppm_motion_source publishes a STOP or an ARM of its own.
RcPublishes ==
    /\ \/ Publish(Stop)
       \/ \E s \in Streams : Publish([action |-> "ARM", source |-> "RC",
                                      stream |-> s, mark |-> TRUE])
    /\ UNCHANGED <<status, moves, task, renewed, dropped>>

Application ==
    /\ Cycle \/ Withdraw \/ Fault
    /\ UNCHANGED <<status, moves, task, renewed, dropped>>

(* ------------------------------ the task ------------------------------ *)

\* event_callback: publish to the motion application, which may be busy.
Callback(event, accepted) ==
    IF accepted THEN Publish(event) /\ UNCHANGED dropped
    ELSE dropped' = TRUE /\ UNCHANGED lease_vars

retire_active_stream == NoStream

\* Mutant: the epoch of the stream is not compared.
revokes_blocked_only(read) == lan.stream_active /\ ~read.lan_allowed

\* Mutant: only a new epoch revokes.
revokes_new_epoch_only(read) ==
    /\ lan.stream_active
    /\ lan.active_authority_epoch # read.revocation_epoch

\* The stream in force is not allowed, or was armed before a takeover.
revokes(read) ==
    /\ lan.stream_active
    /\ \/ ~read.lan_allowed
       \/ lan.active_authority_epoch # read.revocation_epoch

\* enforce_authority: stop and retire the stream, whether the STOP is
\* accepted or not.
enforce_authority(read) ==
    IF revokes(read)
    THEN /\ lan' = retire_active_stream
         /\ \E accepted \in BOOLEAN : Callback(Stop, accepted)
    ELSE UNCHANGED <<lan, lease_vars, dropped>>

\* control_lan_authority_status: blocked when the status cannot be read.
authority_status ==
    {status, [lan_allowed |-> FALSE, revocation_epoch |-> 0]}

CheckAuthority ==
    /\ authority' \in authority_status /\ moves' = 0
    /\ enforce_authority(authority')
    /\ UNCHANGED status

\* Every turn of the task begins with the authority, packet or no packet.
CheckLoop ==
    /\ at = "loop" /\ at' = "receive"
    /\ CheckAuthority /\ UNCHANGED <<packet, renewed>>

\* Nothing arrives for CONTROL_LAN_SOCKET_TIMEOUT_US, or nothing valid does.
ReceiveNothing ==
    /\ at = "receive" /\ at' = "loop"
    /\ UNCHANGED <<lease_vars, status, moves, lan, authority, packet, renewed,
                   dropped>>

\* A STOP or DISARM packet (the stream it names does not matter), an ARM or
\* a COMMAND.
Receive ==
    /\ at = "receive" /\ at' = "packet"
    /\ \/ packet' = [event |-> Stop, sequence |-> 0]
       \/ \E p \in Packets :
            packet' = [event |-> [action |-> p.action, source |-> "LAN",
                                  stream |-> p.stream, mark |-> TRUE],
                       sequence |-> p.sequence]
    /\ UNCHANGED <<lease_vars, status, moves, lan, authority, renewed, dropped>>

\* The authority is read again for the packet in hand.
CheckPacket ==
    /\ at = "packet" /\ at' = "handle"
    /\ CheckAuthority
    /\ renewed' = IF packet.event.action = "ARM"
                  THEN renewed \union {packet.event.stream} ELSE renewed
    /\ packet' = [packet EXCEPT !.event.mark =
                      @ /\ packet.event.stream \in renewed' \union {0}]

\* The packet is for the stream in force.
same_stream == lan.stream_active /\ packet.event.stream = lan.active_stream

\* validate_event_order accepts the packet.
in_order ==
    CASE packet.event.action = "STOP" -> TRUE
      [] packet.event.action = "COMMAND" ->
           same_stream /\ packet.sequence > lan.last_sequence
      [] packet.event.action = "ARM" ->
           same_stream => packet.sequence > lan.last_sequence

\* Mutant: an ARM replaces the stream in force without stopping it.
switches_without_stop == FALSE

\* An ARM of another stream stops the one in force first.
switches ==
    packet.event.action = "ARM" /\ lan.stream_active /\ ~same_stream

\* handle_packet up to its callback: refuse the packet, or go on to submit.
Handle ==
    /\ at = "handle"
    /\ IF \/ ~authority.lan_allowed /\ packet.event.action # "STOP"
          \/ ~in_order
       THEN at' = "loop" /\ UNCHANGED <<lease_vars, lan, dropped>>
       ELSE IF switches
       THEN \E accepted \in BOOLEAN :
              /\ Callback(Stop, accepted)
              /\ lan' = retire_active_stream
              /\ at' = IF accepted THEN "submit" ELSE "loop"
       ELSE at' = "submit" /\ UNCHANGED <<lease_vars, lan, dropped>>
    /\ UNCHANGED <<status, moves, authority, packet, renewed>>

\* commit_event_order
commit_event_order(accepted) ==
    IF packet.event.action = "STOP" THEN retire_active_stream
    ELSE IF ~accepted THEN lan
    ELSE IF packet.event.action = "ARM" /\ ~same_stream
    THEN [stream_active |-> TRUE, active_stream |-> packet.event.stream,
          last_sequence |-> packet.sequence,
          active_authority_epoch |-> authority.revocation_epoch]
    ELSE [lan EXCEPT !.last_sequence = packet.sequence]

Submit ==
    /\ at = "submit" /\ at' = "loop"
    /\ \E accepted \in BOOLEAN :
         /\ Callback(packet.event, accepted)
         /\ lan' = commit_event_order(accepted)
    /\ packet' = NoPacket
    /\ UNCHANGED <<status, moves, authority, renewed>>

TaskStep ==
    CheckLoop \/ ReceiveNothing \/ Receive \/ CheckPacket \/ Handle \/ Submit

LanNext == StatusChanges \/ RcPublishes \/ Application \/ TaskStep

\* The task's socket calls time out, and the motion application's task runs.
LanFairness == WF_lanVars(TaskStep) /\ WF_lanVars(Application /\ Cycle)

LanSpec == LanInit /\ [][LanNext]_lanVars /\ LanFairness

(* ----------------------------- properties ----------------------------- *)

\* The handle, the task's locals and the mailboxes keep their types; a
\* retired stream leaves neither a sequence nor an epoch behind.
LanTypeOK ==
    /\ LeaseTypeOK
    /\ {status, authority} \subseteq Authority /\ moves \in 0..MovesPerRead
    /\ lan \in [stream_active: BOOLEAN, active_stream: Streams \union {0},
                last_sequence: Nat, active_authority_epoch: Epoch]
    /\ (~lan.stream_active => lan = NoStream)
    /\ at \in {"loop", "receive", "packet", "handle", "submit"}
    /\ packet.event \in EventOf({"ARM", "COMMAND"}) \union {NoEvent, Stop}
    /\ packet.sequence \in Nat
    /\ renewed \subseteq Streams /\ dropped \in BOOLEAN

\* "An old LAN stream cannot resume automatically": a command that drives
\* came in after an ARM of its stream that is newer than the last takeover,
\* even if LAN was blocked and allowed again while the task was not looking.
NoSilentResume ==
    [][(Application /\ Cycle /\ Drives /\ command_event.source = "LAN")
           => command_event.mark]_lanVars

\* As long as the application took every event, a LAN lease is the
\* ingress's own stream, or a STOP for it is waiting: none is left behind
\* that the ingress has retired and would no longer revoke.
NoOrphanLease ==
    lease.source = "LAN" /\ ~stop_event /\ at # "submit" /\ ~dropped =>
        lan.stream_active /\ lan.active_stream = lease.stream

\* The ingress's own state is consistent and watches the lease it caused.
LeaseIsWatched == LanTypeOK /\ NoOrphanLease

\* While the interlock keeps LAN blocked, the LAN lease ends, whatever the
\* client sends or does not send.  (An event that was dropped may be the
\* STOP of a stream the ingress has already retired: then the lease is left
\* to expire.)
BlockedLanStops ==
    ~status.lan_allowed
        ~> (status.lan_allowed \/ lease.source # "LAN" \/ dropped)
=============================================================================
