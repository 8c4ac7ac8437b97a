---------------------------- MODULE ClientProofs ----------------------------
(***************************************************************************)
(* Proofs about the two clients of MotionLease, ControlLan and             *)
(* PpmMotionSource: for any streams, packets, counters and any status      *)
(* changes between two readings, an old stream never resumes and held      *)
(* sticks never start the robot.                                           *)
(***************************************************************************)
EXTENDS ControlLan, PpmMotionSource, TLAPS

(***************************************************************************)
(* control_lan: the inductive invariant.                                   *)
(***************************************************************************)

\* What the stream in force does not account for is being stopped: an ARM that
\* waits and a lease of the LAN client are its own.
OwnStream(stream) == lan.stream_active /\ lan.active_stream = stream

ArmIsOwn == arm_event.source = "LAN" /\ ~dropped => OwnStream(arm_event.stream)

LeaseIsOwn ==
    lease.source = "LAN" /\ ~stop_event /\ ~dropped => OwnStream(lease.stream)

\* An ARM about to be submitted finds no other stream in force.
ArmFindsRoom ==
    at = "submit" /\ packet.event.action = "ARM" =>
        ~lan.stream_active \/ same_stream

\* The packet in hand, from its reception to its end.
InHand == at \in {"packet", "handle", "submit"}

PacketOK ==
    /\ packet \in [event: EventOf({"ARM", "COMMAND"}) \union {NoEvent, Stop}, sequence: Nat]
    /\ InHand => packet.event = Stop \/ packet.event.source = "LAN"
    /\ at = "packet" => packet.event.mark
    /\ packet.event.action \in {"ARM", "COMMAND"} => packet.event.source = "LAN"
    /\ at = "submit" /\ packet.event # Stop => authority.lan_allowed

\* The epoch e lies at most as many takeovers back as the status has moved
\* since it was read, and if none, the stream was armed after the last one.
Since(e, stream) ==
    \E k \in 0..moves :
        /\ status.revocation_epoch \in {e + k, e + k - EpochCounter}
        /\ k = 0 => stream \in renewed

StreamIsRecent ==
    lan.stream_active => Since(lan.active_authority_epoch, lan.active_stream)

ArmIsRecent ==
    /\ at \in {"handle", "submit"} /\ packet.event.action = "ARM"
    /\ authority.lan_allowed
    => Since(authority.revocation_epoch, packet.event.stream)

\* A command of a stream that was not armed again after the last takeover is
\* never of the stream in force.
CommandsAreMarked ==
    /\ command_event.source = "LAN" => command_event.mark
    /\ at = "handle" /\ packet.event.action = "COMMAND" /\ ~packet.event.mark
           => ~same_stream
    /\ at = "submit" /\ packet.event.action = "COMMAND" =>
         packet.event.mark /\ same_stream

LanInv ==
    /\ LanTypeOK /\ ArmIsOwn /\ LeaseIsOwn /\ ArmFindsRoom /\ PacketOK
    /\ StreamIsRecent /\ ArmIsRecent /\ CommandsAreMarked

(***************************************************************************)
(* ppm_motion_source: the inductive invariant.                             *)
(***************************************************************************)

\* Whatever of the pilot's may lead to a movement rests on a neutral frame that
\* came after the source's last STOP.
PilotRested ==
    /\ pc.action = "ARM" => rested.own
    /\ arm_event.source = "RC" => rested.own
    /\ lease.source = "RC" /\ ~stop_event => rested.own

(***************************************************************************)
(* Lemmas about MotionLease.                                               *)
(***************************************************************************)

\* No stream is zero, and the events differ in what they ask for.
LEMMA EventFacts ==
    /\ 0 \notin Streams
    /\ NoEvent.source = "NONE" /\ NoEvent.action = "NONE" /\ NoEvent.mark
    /\ NoLease.source = "NONE"
    /\ Stop.action = "STOP" /\ Stop.source = "NONE" /\ Stop.stream = 0 /\ Stop.mark
    /\ \A event \in EventOf({"ARM", "COMMAND"}) :
         event.source \in Client /\ event.stream \in Streams /\ event.mark \in BOOLEAN
  BY LeaseAssumption DEF NoEvent, NoLease, Stop, EventOf

\* A STOP is marked: marking it again leaves it as it is.
LEMMA StopIsMarked == [Stop EXCEPT !.mark = TRUE] = Stop
  <1>1. PICK m : m = TRUE
    OBVIOUS
  <1> DEFINE stop == [action |-> "STOP", source |-> "NONE", stream |-> 0, mark |-> m]
  <1>2. [[action |-> "NONE", source |-> "NONE", stream |-> 0, mark |-> m]
            EXCEPT !.action = "STOP"] = stop
    OBVIOUS
  <1>3. Stop = stop
    BY <1>1, <1>2, Zenon DEF Stop, NoEvent
  <1>4. [stop EXCEPT !.mark = m] = stop
    OBVIOUS
  <1> QED BY <1>1, <1>3, <1>4, Zenon

\* A STOP evicts what waits.
LEMMA DeliverStop ==
    ASSUME Deliver(Stop)
    PROVE  stop_event' = TRUE /\ arm_event' = NoEvent /\ command_event' = NoEvent
  BY EventFacts DEF Deliver

\* An ARM replaces the one that waits.
LEMMA DeliverArm ==
    ASSUME NEW event, event.action = "ARM", Deliver(event)
    PROVE  arm_event' = event /\ UNCHANGED <<stop_event, command_event>>
  BY DEF Deliver

\* A COMMAND replaces the one that waits.
LEMMA DeliverCommand ==
    ASSUME NEW event, event.action = "COMMAND", Deliver(event)
    PROVE  command_event' = event /\ UNCHANGED <<stop_event, arm_event>>
  BY DEF Deliver

\* The mailboxes keep their types.
LEMMA DeliverType ==
    ASSUME LeaseTypeOK, NEW event \in EventOf({"ARM", "COMMAND"}) \union {Stop},
           Deliver(event), UNCHANGED <<lease, armed>>
    PROVE  LeaseTypeOK'
  <1>1. CASE event = Stop
    BY <1>1, DeliverStop DEF LeaseTypeOK
  <1>2. CASE event \in EventOf({"ARM", "COMMAND"}) /\ event.action = "ARM"
    <2>1. event \in EventOf({"ARM"})
      BY <1>2 DEF EventOf
    <2> QED BY <1>2, <2>1, DeliverArm DEF LeaseTypeOK
  <1>3. CASE event \in EventOf({"ARM", "COMMAND"}) /\ event.action = "COMMAND"
    <2>1. event \in EventOf({"COMMAND"})
      BY <1>3 DEF EventOf
    <2> QED BY <1>3, <2>1, DeliverCommand DEF LeaseTypeOK
  <1> QED BY <1>1, <1>2, <1>3 DEF EventOf

\* The application's steps keep the types.
LEMMA ApplicationType ==
    ASSUME LeaseTypeOK, Cycle \/ Withdraw \/ Fault
    PROVE  LeaseTypeOK'
  <1>1. CASE Cycle
    <2>1. Granted \in [source: Client, stream: Streams] \union {NoLease}
      <3>1. arm_event # NoEvent =>
              arm_event.source \in Client /\ arm_event.stream \in Streams
        BY DEF LeaseTypeOK, EventOf
      <3> QED BY <3>1 DEF Granted, LeaseTypeOK
    <2>2. /\ stop_event' = FALSE /\ arm_event' \in {arm_event, NoEvent}
          /\ command_event' \in {command_event, NoEvent}
          /\ \/ lease' = Granted /\ armed' = (lease' # NoLease /\ (lease = NoLease \/ armed))
             \/ lease' = NoLease /\ armed' = FALSE
      BY <1>1 DEF Cycle
    <2>3. lease' \in [source: Client, stream: Streams] \union {NoLease}
      BY <2>1, <2>2
    <2>4. armed' \in BOOLEAN /\ (armed' => lease' # NoLease)
      BY <2>2
    <2> QED BY <2>2, <2>3, <2>4 DEF LeaseTypeOK
  <1>2. CASE Withdraw
    BY <1>2 DEF Withdraw, LeaseTypeOK, mailboxes
  <1>3. CASE Fault
    BY <1>3 DEF Fault, LeaseTypeOK, mailboxes
  <1> QED BY <1>1, <1>2, <1>3

\* The application grants what waits, keeps the lease or ends it, and takes
\* the mailboxes' events without putting any in.
LEMMA ApplicationGrants ==
    ASSUME LeaseTypeOK, Cycle \/ Withdraw \/ Fault
    PROVE  /\ arm_event' \in {arm_event, NoEvent}
           /\ command_event' \in {command_event, NoEvent}
           /\ \/ lease' = NoLease
              \/ lease' = lease /\ stop_event' = stop_event
              \/ lease' = [source |-> arm_event.source, stream |-> arm_event.stream]
  <1>1. CASE Cycle
    <2>1. /\ stop_event' = FALSE /\ arm_event' \in {arm_event, NoEvent}
          /\ command_event' \in {command_event, NoEvent}
          /\ lease' \in {Granted, NoLease}
      BY <1>1 DEF Cycle
    <2>2. stop_event \in BOOLEAN
      BY DEF LeaseTypeOK
    <2>3. \/ Granted = NoLease
          \/ Granted = lease /\ ~stop_event
          \/ Granted = [source |-> arm_event.source, stream |-> arm_event.stream]
      BY DEF Granted
    <2> QED BY <2>1, <2>2, <2>3
  <1>2. CASE Withdraw
    BY <1>2 DEF Withdraw, mailboxes
  <1>3. CASE Fault
    BY <1>3 DEF Fault, mailboxes
  <1> QED BY <1>1, <1>2, <1>3

(***************************************************************************)
(* control_lan: every step keeps the invariant.                            *)
(***************************************************************************)

\* Zero is an epoch.
LEMMA ZeroEpoch == 0 \in Epoch /\ EpochCounter \in Nat /\ MovesPerRead \in Nat
                   /\ MovesPerRead < EpochCounter /\ EpochCounter > 0
  BY LanConfig DEF Epoch

\* A handle without a stream is of the right type.
LEMMA NoStreamType ==
    /\ NoStream \in [stream_active: BOOLEAN, active_stream: Streams \union {0},
                     last_sequence: Nat, active_authority_epoch: Epoch]
    /\ ~NoStream.stream_active
  BY ZeroEpoch DEF NoStream

\* The invariant holds when the task starts.
LEMMA LanStart == LanInit => LanInv
  <1> SUFFICES ASSUME LanInit PROVE LanInv
    OBVIOUS
  <1> USE DEF LanInit, LeaseInit
  <1>1. LeaseTypeOK
    BY DEF LeaseTypeOK
  <1>2. status \in Authority /\ authority = status /\ moves \in 0..MovesPerRead
    BY ZeroEpoch DEF Authority
  <1>3. LanTypeOK
    BY <1>1, <1>2, NoStreamType DEF LanTypeOK, NoPacket, NoEvent
  <1>4. ArmIsOwn /\ LeaseIsOwn
    BY EventFacts DEF ArmIsOwn, LeaseIsOwn
  <1>5. ArmFindsRoom /\ PacketOK /\ ArmIsRecent
    BY EventFacts DEF ArmFindsRoom, PacketOK, ArmIsRecent, InHand, NoPacket, NoEvent
  <1>6. StreamIsRecent /\ CommandsAreMarked
    BY EventFacts, NoStreamType DEF StreamIsRecent, CommandsAreMarked
  <1> QED BY <1>3, <1>4, <1>5, <1>6 DEF LanInv

\* A takeover adds one to the distance; nothing else changes it.
LEMMA SinceMoves ==
    ASSUME LanTypeOK, moves < MovesPerRead, moves' = moves + 1,
           NEW allowed \in BOOLEAN, NEW takeover \in BOOLEAN,
           status' = [lan_allowed |-> allowed,
                      revocation_epoch |->
                          (status.revocation_epoch + IF takeover THEN 1 ELSE 0)
                              % EpochCounter],
           renewed' = IF takeover THEN {} ELSE renewed,
           NEW e \in Epoch, NEW stream, Since(e, stream)
    PROVE  \E k \in 0..moves' :
              /\ status'.revocation_epoch \in {e + k, e + k - EpochCounter}
              /\ k = 0 => stream \in renewed'
  <1> DEFINE x == status.revocation_epoch
             y == status'.revocation_epoch
  <1>1. x \in Nat /\ x < EpochCounter /\ e \in Nat /\ e < EpochCounter
        /\ moves \in Nat
    BY ZeroEpoch DEF LanTypeOK, Authority, Epoch
  <1>2. PICK k \in 0..moves : /\ x \in {e + k, e + k - EpochCounter}
                              /\ k = 0 => stream \in renewed
    BY DEF Since
  <1>3. CASE takeover
    <2>1. y = (x + 1) % EpochCounter
      BY <1>3
    <2>2. y = IF x + 1 = EpochCounter THEN 0 ELSE x + 1
      <3>1. CASE x + 1 = EpochCounter
        <4>1. EpochCounter % EpochCounter = 0
          BY ZeroEpoch
        <4> QED BY <2>1, <3>1, <4>1
      <3>2. CASE x + 1 < EpochCounter
        BY <1>1, <2>1, <3>2, ZeroEpoch
      <3> QED BY <1>1, <3>1, <3>2, ZeroEpoch
    <2> HIDE DEF x, y
    <2>3. y \in {e + (k + 1), e + (k + 1) - EpochCounter}
      BY <1>1, <1>2, <2>2, ZeroEpoch
    <2>4. k + 1 \in 0..moves' /\ k + 1 # 0
      BY <1>1, <1>2
    <2> QED BY <2>3, <2>4 DEF y
  <1>4. CASE ~takeover
    <2>1. y = (x + 0) % EpochCounter
      BY <1>4
    <2>2. y = x
      BY <1>1, <2>1, ZeroEpoch
    <2>3. k \in 0..moves' /\ renewed' = renewed
      BY <1>1, <1>4
    <2> QED BY <1>2, <2>2, <2>3
  <1> QED BY <1>3, <1>4

\* The safety task publishes.
LEMMA StatusInv ==
    ASSUME LanInv, StatusChanges
    PROVE  LanInv'
  <1> USE DEF LanInv
  <1>1. /\ moves < MovesPerRead /\ moves' = moves + 1
        /\ UNCHANGED <<stop_event, arm_event, command_event, lease, armed,
                       lan, at, authority, packet, dropped>>
    BY DEF StatusChanges, lease_vars, mailboxes, task
  <1>2. PICK allowed, takeover \in BOOLEAN :
          /\ status' = [lan_allowed |-> allowed,
                        revocation_epoch |->
                            (status.revocation_epoch + IF takeover THEN 1 ELSE 0)
                                % EpochCounter]
          /\ renewed' = IF takeover THEN {} ELSE renewed
    BY DEF StatusChanges
  <1>3. LanTypeOK'
    <2>1. status.revocation_epoch \in Nat
      BY DEF LanTypeOK, Authority, Epoch
    <2>2. \A i \in Nat : i % EpochCounter \in Epoch
      BY ZeroEpoch DEF Epoch
    <2>3. status.revocation_epoch + (IF takeover THEN 1 ELSE 0) \in Nat
      BY <2>1
    <2>4. status' \in Authority
      BY <1>2, <2>2, <2>3 DEF Authority
    <2>5. moves' \in 0..MovesPerRead
      BY <1>1, ZeroEpoch DEF LanTypeOK
    <2>6. renewed' \subseteq Streams
      BY <1>2 DEF LanTypeOK
    <2>7. LeaseTypeOK'
      BY <1>1 DEF LanTypeOK, LeaseTypeOK
    <2> QED BY <1>1, <2>4, <2>5, <2>6, <2>7 DEF LanTypeOK
  <1>4. (ArmIsOwn /\ LeaseIsOwn /\ ArmFindsRoom /\ PacketOK /\ CommandsAreMarked)'
    BY <1>1 DEF ArmIsOwn, LeaseIsOwn, OwnStream, ArmFindsRoom, same_stream,
                PacketOK, InHand, CommandsAreMarked
  <1>5. StreamIsRecent'
    <2> SUFFICES ASSUME lan.stream_active
                 PROVE  Since(lan.active_authority_epoch, lan.active_stream)'
      BY <1>1 DEF StreamIsRecent
    <2>1. lan.active_authority_epoch \in Epoch
      BY DEF LanTypeOK
    <2>2. Since(lan.active_authority_epoch, lan.active_stream)
      BY DEF StreamIsRecent
    <2>3. PICK e, stream : e = lan.active_authority_epoch /\ stream = lan.active_stream
      OBVIOUS
    <2>4. e \in Epoch /\ Since(e, stream)
      BY <2>1, <2>2, <2>3
    <2>5. \E k \in 0..moves' :
            /\ status'.revocation_epoch \in {e + k, e + k - EpochCounter}
            /\ k = 0 => stream \in renewed'
      BY <1>1, <1>2, <2>4, SinceMoves
    <2>6. e = lan'.active_authority_epoch /\ stream = lan'.active_stream
      BY <1>1, <2>3
    <2> QED BY <2>5, <2>6 DEF Since
  <1>6. ArmIsRecent'
    <2> SUFFICES ASSUME at \in {"handle", "submit"}, packet.event.action = "ARM",
                        authority.lan_allowed
                 PROVE  Since(authority.revocation_epoch, packet.event.stream)'
      BY <1>1 DEF ArmIsRecent
    <2>1. authority.revocation_epoch \in Epoch
      BY DEF LanTypeOK, Authority
    <2>2. Since(authority.revocation_epoch, packet.event.stream)
      BY DEF ArmIsRecent
    <2>3. PICK e, stream : e = authority.revocation_epoch /\ stream = packet.event.stream
      OBVIOUS
    <2>4. e \in Epoch /\ Since(e, stream)
      BY <2>1, <2>2, <2>3
    <2>5. \E k \in 0..moves' :
            /\ status'.revocation_epoch \in {e + k, e + k - EpochCounter}
            /\ k = 0 => stream \in renewed'
      BY <1>1, <1>2, <2>4, SinceMoves
    <2>6. e = authority'.revocation_epoch /\ stream = packet'.event.stream
      BY <1>1, <2>3
    <2> QED BY <2>5, <2>6 DEF Since
  <1> QED BY <1>3, <1>4, <1>5, <1>6

\* The pilot's source publishes.
LEMMA RcInv ==
    ASSUME LanInv, RcPublishes
    PROVE  LanInv'
  <1> USE DEF LanInv
  <1>1. UNCHANGED <<lease, armed, status, moves, lan, at, authority, packet,
                    renewed, dropped>>
    BY DEF RcPublishes, Publish, task
  <1>2. \/ Deliver(Stop)
        \/ \E event \in EventOf({"ARM"}) : event.source = "RC" /\ Deliver(event)
    <2>1. \A s \in Streams :
            [action |-> "ARM", source |-> "RC", stream |-> s, mark |-> TRUE]
                \in EventOf({"ARM"})
      BY DEF EventOf, Client
    <2> QED BY <2>1 DEF RcPublishes, Publish
  <1>3. LeaseTypeOK'
    <2>1. \A event \in EventOf({"ARM"}) : event \in EventOf({"ARM", "COMMAND"})
      BY DEF EventOf
    <2>2. LeaseTypeOK
      BY DEF LanTypeOK
    <2> QED BY <1>1, <1>2, <2>1, <2>2, DeliverType
  <1>4. LanTypeOK'
    BY <1>1, <1>3 DEF LanTypeOK
  <1>5. (ArmFindsRoom /\ PacketOK /\ StreamIsRecent /\ ArmIsRecent)'
    BY <1>1 DEF ArmFindsRoom, same_stream, PacketOK, InHand, StreamIsRecent,
                ArmIsRecent, Since
  <1>6. (ArmIsOwn /\ LeaseIsOwn /\ CommandsAreMarked)'
    <2>1. CASE Deliver(Stop)
      BY <1>1, <2>1, DeliverStop, EventFacts
         DEF ArmIsOwn, LeaseIsOwn, OwnStream, CommandsAreMarked, same_stream
    <2>2. ASSUME NEW event \in EventOf({"ARM"}), event.source = "RC", Deliver(event)
          PROVE  (ArmIsOwn /\ LeaseIsOwn /\ CommandsAreMarked)'
      <3>1. event.action = "ARM"
        BY DEF EventOf
      <3> QED
        BY <1>1, <2>2, <3>1, DeliverArm
           DEF ArmIsOwn, LeaseIsOwn, OwnStream, CommandsAreMarked, same_stream
    <2> QED BY <1>2, <2>1, <2>2
  <1> QED BY <1>4, <1>5, <1>6

\* The application takes an event, loses its lease or fails.
LEMMA ApplicationInv ==
    ASSUME LanInv, Application
    PROVE  LanInv'
  <1> USE DEF LanInv
  <1>1. UNCHANGED <<status, moves, lan, at, authority, packet, renewed, dropped>>
    BY DEF Application, task
  <1>2. LeaseTypeOK /\ (Cycle \/ Withdraw \/ Fault)
    BY DEF Application, LanTypeOK
  <1>3. LanTypeOK'
    BY <1>1, <1>2, ApplicationType DEF LanTypeOK
  <1>4. (ArmFindsRoom /\ PacketOK /\ StreamIsRecent /\ ArmIsRecent)'
    BY <1>1 DEF ArmFindsRoom, same_stream, PacketOK, InHand, StreamIsRecent,
                ArmIsRecent, Since
  <1>5. /\ arm_event' \in {arm_event, NoEvent}
        /\ command_event' \in {command_event, NoEvent}
        /\ \/ lease' = NoLease
           \/ lease' = lease /\ stop_event' = stop_event
           \/ lease' = [source |-> arm_event.source, stream |-> arm_event.stream]
    BY <1>2, ApplicationGrants
  <1>6. (ArmIsOwn /\ CommandsAreMarked)'
    BY <1>1, <1>5, EventFacts
       DEF ArmIsOwn, OwnStream, CommandsAreMarked, same_stream
  <1>7. LeaseIsOwn'
    <2>1. CASE lease' = NoLease
      BY <2>1, EventFacts DEF LeaseIsOwn
    <2>2. CASE lease' = lease /\ stop_event' = stop_event
      BY <1>1, <2>2 DEF LeaseIsOwn, OwnStream
    <2>3. CASE lease' = [source |-> arm_event.source, stream |-> arm_event.stream]
      BY <1>1, <2>3 DEF LeaseIsOwn, ArmIsOwn, OwnStream
    <2> QED BY <1>5, <2>1, <2>2, <2>3
  <1> QED BY <1>3, <1>4, <1>6, <1>7

\* What a reading of the authority leaves: the stream in force, of its epoch,
\* or none, and then a STOP is on its way or was dropped.
LEMMA CheckLeaves ==
    ASSUME LanInv, CheckAuthority
    PROVE  /\ authority' \in Authority /\ moves' = 0 /\ status' = status
           /\ authority'.lan_allowed => authority' = status
           /\ \/ /\ UNCHANGED <<lan, lease_vars, dropped>>
                 /\ lan.stream_active =>
                      /\ authority'.lan_allowed
                      /\ lan.active_authority_epoch = authority'.revocation_epoch
              \/ lan' = NoStream /\ dropped' = TRUE /\ UNCHANGED lease_vars
              \/ lan' = NoStream /\ Deliver(Stop) /\ UNCHANGED <<lease, armed, dropped>>
  <1> DEFINE blocked == [lan_allowed |-> FALSE, revocation_epoch |-> 0]
  <1>1. authority' \in {status, blocked} /\ moves' = 0 /\ status' = status
        /\ enforce_authority(authority')
    BY DEF CheckAuthority, authority_status
  <1>2. authority' \in Authority
    <2>1. status \in Authority
      BY DEF LanInv, LanTypeOK
    <2>2. blocked \in Authority
      BY ZeroEpoch DEF Authority
    <2> QED BY <1>1, <2>1, <2>2
  <1>3. ASSUME authority'.lan_allowed PROVE authority' = status
    <2>1. blocked.lan_allowed = FALSE
      OBVIOUS
    <2> HIDE DEF blocked
    <2> QED BY <1>1, <1>3, <2>1
  <1>4. CASE revokes(authority')
    <2>1. lan' = NoStream /\ \E accepted \in BOOLEAN : Callback(Stop, accepted)
      BY <1>1, <1>4 DEF enforce_authority, retire_active_stream
    <2> QED BY <1>1, <1>2, <1>3, <2>1 DEF Callback, Publish
  <1>5. CASE ~revokes(authority')
    <2>1. UNCHANGED <<lan, lease_vars, dropped>>
      BY <1>1, <1>5 DEF enforce_authority
    <2>2. lan.stream_active =>
            /\ authority'.lan_allowed
            /\ lan.active_authority_epoch = authority'.revocation_epoch
      BY <1>5 DEF revokes
    <2> QED BY <1>1, <1>2, <1>3, <2>1, <2>2
  <1> QED BY <1>4, <1>5

\* The part of the invariant that a reading of the authority keeps, whatever
\* it does with the packet.
LEMMA CheckKeeps ==
    ASSUME LanInv, CheckAuthority, renewed \subseteq renewed'
    PROVE  /\ LeaseTypeOK' /\ ArmIsOwn' /\ LeaseIsOwn' /\ StreamIsRecent'
           /\ (command_event.source = "LAN" => command_event.mark)'
           /\ {status, authority}' \subseteq Authority
           /\ moves' \in 0..MovesPerRead /\ dropped' \in BOOLEAN
           /\ lan' \in [stream_active: BOOLEAN, active_stream: Streams \union {0},
                        last_sequence: Nat, active_authority_epoch: Epoch]
           /\ (~lan.stream_active => lan = NoStream)'
           /\ lan'.stream_active =>
                authority'.lan_allowed /\ lan'.active_stream \in renewed'
  <1> USE DEF LanInv
  <1>1. /\ authority' \in Authority /\ moves' = 0 /\ status' = status
        /\ authority'.lan_allowed => authority' = status
    BY CheckLeaves
  <1>2. moves' \in 0..MovesPerRead
    BY <1>1, ZeroEpoch
  <1>3. {status, authority}' \subseteq Authority
    BY <1>1 DEF LanTypeOK
  <1>4. ASSUME lan' = NoStream, command_event' \in {command_event, NoEvent},
               dropped' = TRUE \/ (stop_event' = TRUE /\ arm_event' = NoEvent)
        PROVE  /\ ArmIsOwn' /\ LeaseIsOwn' /\ StreamIsRecent'
               /\ (command_event.source = "LAN" => command_event.mark)'
               /\ lan' \in [stream_active: BOOLEAN, active_stream: Streams \union {0},
                             last_sequence: Nat, active_authority_epoch: Epoch]
               /\ (~lan.stream_active => lan = NoStream)'
               /\ ~lan'.stream_active
    <2>1. (command_event.source = "LAN" => command_event.mark)'
      BY <1>4, EventFacts DEF CommandsAreMarked
    <2>2. ArmIsOwn' /\ LeaseIsOwn'
      BY <1>4, EventFacts DEF ArmIsOwn, LeaseIsOwn
    <2> QED BY <1>4, <2>1, <2>2, NoStreamType DEF StreamIsRecent
  <1>5. CASE lan' = NoStream /\ dropped' = TRUE /\ UNCHANGED lease_vars
    <2>1. UNCHANGED <<stop_event, arm_event, command_event, lease, armed>>
      BY <1>5 DEF lease_vars, mailboxes
    <2>2. LeaseTypeOK'
      BY <2>1 DEF LanTypeOK, LeaseTypeOK
    <2> QED BY <1>1, <1>2, <1>3, <1>4, <1>5, <2>1, <2>2
  <1>6. CASE lan' = NoStream /\ Deliver(Stop) /\ UNCHANGED <<lease, armed, dropped>>
    <2>1. stop_event' = TRUE /\ arm_event' = NoEvent /\ command_event' = NoEvent
      BY <1>6, DeliverStop
    <2>2. LeaseTypeOK'
      BY <1>6, DeliverType DEF LanTypeOK
    <2>3. dropped' \in BOOLEAN
      BY <1>6 DEF LanTypeOK
    <2> QED BY <1>1, <1>2, <1>3, <1>4, <1>6, <2>1, <2>2, <2>3
  <1>7. CASE /\ UNCHANGED <<lan, lease_vars, dropped>>
             /\ lan.stream_active =>
                  /\ authority'.lan_allowed
                  /\ lan.active_authority_epoch = authority'.revocation_epoch
    <2>1. UNCHANGED <<stop_event, arm_event, command_event, lease, armed, lan, dropped>>
      BY <1>7 DEF lease_vars, mailboxes
    <2>2. LeaseTypeOK' /\ ArmIsOwn' /\ LeaseIsOwn' /\ dropped' \in BOOLEAN
          /\ (command_event.source = "LAN" => command_event.mark)'
      BY <2>1 DEF LanTypeOK, LeaseTypeOK, ArmIsOwn, LeaseIsOwn, OwnStream, CommandsAreMarked
    <2>3. ASSUME lan.stream_active
          PROVE  lan.active_stream \in renewed
                 /\ status.revocation_epoch = lan.active_authority_epoch
      <3>1. status.revocation_epoch = lan.active_authority_epoch
        BY <1>1, <1>7, <2>3
      <3>2. PICK k \in 0..moves :
              /\ status.revocation_epoch \in {lan.active_authority_epoch + k,
                                              lan.active_authority_epoch + k - EpochCounter}
              /\ k = 0 => lan.active_stream \in renewed
        BY <2>3 DEF StreamIsRecent, Since
      <3>3. lan.active_authority_epoch \in Nat /\ k \in Nat /\ k < EpochCounter
        <4>1. moves \in Nat /\ moves < EpochCounter
          BY ZeroEpoch DEF LanTypeOK
        <4>2. lan.active_authority_epoch \in Nat
          BY ZeroEpoch DEF LanTypeOK, Epoch
        <4> QED BY <3>2, <4>1, <4>2, ZeroEpoch
      <3>4. k = 0
        BY <3>1, <3>2, <3>3, ZeroEpoch
      <3> QED BY <3>1, <3>2, <3>4
    <2>4. StreamIsRecent'
      <3> SUFFICES ASSUME lan.stream_active
                   PROVE  Since(lan.active_authority_epoch, lan.active_stream)'
        BY <2>1 DEF StreamIsRecent
      <3>1. lan.active_authority_epoch \in Nat
        BY ZeroEpoch DEF LanTypeOK, Epoch
      <3>2. status'.revocation_epoch = lan'.active_authority_epoch + 0
        BY <1>1, <2>1, <2>3, <3>1
      <3>3. lan'.active_stream \in renewed' /\ 0 \in 0..moves'
        BY <1>1, <2>1, <2>3
      <3> QED BY <3>2, <3>3 DEF Since
    <2> QED BY <1>1, <1>2, <1>7, <1>3, <2>1, <2>2, <2>3, <2>4 DEF LanTypeOK
  <1> QED BY <1>5, <1>6, <1>7, CheckLeaves

\* The task reads the authority at the beginning of its loop.
LEMMA CheckLoopInv ==
    ASSUME LanInv, CheckLoop
    PROVE  LanInv'
  <1> USE DEF LanInv
  <1>1. /\ at' = "receive" /\ CheckAuthority /\ packet' = packet /\ renewed' = renewed
    BY DEF CheckLoop
  <1>2. /\ LeaseTypeOK' /\ ArmIsOwn' /\ LeaseIsOwn' /\ StreamIsRecent'
        /\ (command_event.source = "LAN" => command_event.mark)'
        /\ {status, authority}' \subseteq Authority
        /\ moves' \in 0..MovesPerRead /\ dropped' \in BOOLEAN
        /\ lan' \in [stream_active: BOOLEAN, active_stream: Streams \union {0},
                     last_sequence: Nat, active_authority_epoch: Epoch]
        /\ (~lan.stream_active => lan = NoStream)'
    BY <1>1, CheckKeeps
  <1>3. LanTypeOK'
    BY <1>1, <1>2 DEF LanTypeOK
  <1>4. (ArmFindsRoom /\ PacketOK /\ ArmIsRecent /\ CommandsAreMarked)'
    BY <1>1, <1>2 DEF ArmFindsRoom, PacketOK, InHand, ArmIsRecent, CommandsAreMarked
  <1> QED BY <1>2, <1>3, <1>4

\* The task receives nothing, or a packet.
LEMMA ReceiveInv ==
    ASSUME LanInv, ReceiveNothing \/ Receive
    PROVE  LanInv'
  <1> USE DEF LanInv
  <1>1. /\ UNCHANGED <<stop_event, arm_event, command_event, lease, armed, status,
                       moves, lan, authority, renewed, dropped>>
        /\ at' \in {"loop", "packet"}
    BY DEF ReceiveNothing, Receive, lease_vars, mailboxes
  <1>2. \/ at' = "loop" /\ packet' = packet
        \/ packet'.event = Stop
        \/ packet'.event.source = "LAN" /\ packet'.event.mark
    BY DEF ReceiveNothing, Receive
  <1>3. /\ packet' \in [event: EventOf({"ARM", "COMMAND"}) \union {NoEvent, Stop},
                        sequence: Nat]
        /\ packet'.event.action \in {"ARM", "COMMAND"} => packet'.event.source = "LAN"
    <2>1. CASE packet' = packet
      BY <2>1 DEF PacketOK
    <2>2. CASE packet' = [event |-> Stop, sequence |-> 0]
      BY <2>2, EventFacts
    <2>3. ASSUME NEW p \in Packets,
                 packet' = [event |-> [action |-> p.action, source |-> "LAN",
                                       stream |-> p.stream, mark |-> TRUE],
                            sequence |-> p.sequence]
          PROVE  /\ packet' \in [event: EventOf({"ARM", "COMMAND"}) \union {NoEvent, Stop},
                                 sequence: Nat]
                 /\ packet'.event.source = "LAN"
      <3>1. p.action \in {"ARM", "COMMAND"} /\ p.stream \in Streams /\ p.sequence \in Nat
        BY LanConfig
      <3>2. [action |-> p.action, source |-> "LAN", stream |-> p.stream, mark |-> TRUE]
                \in EventOf({"ARM", "COMMAND"})
        BY <3>1 DEF EventOf, Client
      <3> QED BY <2>3, <3>1, <3>2
    <2> QED BY <2>1, <2>2, <2>3 DEF ReceiveNothing, Receive
  <1>4. LanTypeOK'
    BY <1>1, <1>3 DEF LanTypeOK, LeaseTypeOK
  <1>5. (ArmIsOwn /\ LeaseIsOwn /\ StreamIsRecent)'
    BY <1>1 DEF ArmIsOwn, LeaseIsOwn, OwnStream, StreamIsRecent, Since
  <1>6. (ArmFindsRoom /\ PacketOK /\ ArmIsRecent /\ CommandsAreMarked)'
    BY <1>1, <1>2, <1>3, EventFacts
       DEF ArmFindsRoom, PacketOK, InHand, ArmIsRecent, CommandsAreMarked
  <1> QED BY <1>4, <1>5, <1>6

\* The task reads the authority for the packet in hand, and marks it.
LEMMA CheckPacketInv ==
    ASSUME LanInv, CheckPacket
    PROVE  LanInv'
  <1> USE DEF LanInv
  <1>1. /\ at = "packet" /\ at' = "handle" /\ CheckAuthority
        /\ renewed' = IF packet.event.action = "ARM"
                      THEN renewed \union {packet.event.stream} ELSE renewed
    BY DEF CheckPacket
  <1> DEFINE admitted == packet.event.stream \in renewed' \union {0}
  <1>2. PICK event : /\ event = packet.event
                     /\ event = Stop \/ event \in EventOf({"ARM", "COMMAND"})
                     /\ event = Stop \/ event.source = "LAN"
    <2>1. packet.event = Stop \/ packet.event.source = "LAN"
      BY <1>1 DEF PacketOK, InHand
    <2> QED BY <2>1, EventFacts DEF PacketOK
  <1>3. PICK marked, mark :
                      /\ marked = packet'.event /\ mark = (event.mark /\ admitted)
                      /\ marked = [event EXCEPT !.mark = mark]
                      /\ packet'.sequence = packet.sequence
                      /\ packet' = [event |-> marked, sequence |-> packet.sequence]
    BY <1>2 DEF CheckPacket, PacketOK
  <1>4. renewed \subseteq renewed' /\ renewed' \subseteq Streams
    <2>1. packet.event.action = "ARM" => packet.event.stream \in Streams
      BY <1>2, EventFacts
    <2> QED BY <1>1, <2>1 DEF LanTypeOK
  <1>5. /\ LeaseTypeOK' /\ ArmIsOwn' /\ LeaseIsOwn' /\ StreamIsRecent'
        /\ (command_event.source = "LAN" => command_event.mark)'
        /\ {status, authority}' \subseteq Authority
        /\ moves' \in 0..MovesPerRead /\ dropped' \in BOOLEAN
        /\ lan' \in [stream_active: BOOLEAN, active_stream: Streams \union {0},
                     last_sequence: Nat, active_authority_epoch: Epoch]
        /\ (~lan.stream_active => lan = NoStream)'
        /\ lan'.stream_active => lan'.active_stream \in renewed'
    BY <1>1, <1>4, CheckKeeps
  <1>6. CASE event = Stop
    <2>1. marked = Stop
      <3>1. event.mark /\ admitted
        BY <1>2, <1>6, EventFacts
      <3>2. mark = TRUE
        <4> HIDE DEF admitted
        <4> QED BY <1>3, <3>1
      <3>3. marked = [Stop EXCEPT !.mark = TRUE]
        BY <1>3, <1>6, <3>2
      <3> QED BY <3>3, StopIsMarked
    <2>2. packet.sequence \in Nat
      BY DEF LanTypeOK
    <2>3. LanTypeOK'
      BY <1>1, <1>3, <1>4, <1>5, <2>1, <2>2 DEF LanTypeOK
    <2>4. PacketOK'
      BY <1>1, <1>3, <2>1, <2>2, EventFacts DEF PacketOK
    <2>5. (ArmFindsRoom /\ ArmIsRecent /\ CommandsAreMarked)'
      BY <1>1, <1>3, <1>5, <2>1, EventFacts DEF ArmFindsRoom, ArmIsRecent, CommandsAreMarked
    <2> QED BY <1>5, <2>3, <2>4, <2>5
  <1>7. CASE event \in EventOf({"ARM", "COMMAND"}) /\ event.source = "LAN"
    <2>1. /\ marked \in EventOf({"ARM", "COMMAND"}) /\ marked.source = "LAN"
          /\ marked.action = event.action /\ marked.stream = event.stream
          /\ marked.mark = (event.mark /\ admitted)
      <3> HIDE DEF admitted
      <3> QED BY <1>3, <1>7 DEF EventOf
    <2>2. packet.sequence \in Nat
      BY DEF LanTypeOK
    <2>3. LanTypeOK'
      BY <1>1, <1>3, <1>4, <1>5, <2>1, <2>2 DEF LanTypeOK
    <2>4. PacketOK' /\ ArmFindsRoom'
      BY <1>1, <1>3, <2>1, <2>2 DEF PacketOK, ArmFindsRoom
    <2>5. ArmIsRecent'
      <3> SUFFICES ASSUME packet'.event.action = "ARM", authority'.lan_allowed
                   PROVE  Since(authority.revocation_epoch, packet.event.stream)'
        BY DEF ArmIsRecent
      <3>1. moves' = 0 /\ status' = status /\ authority' = status
        BY <1>1, CheckLeaves
      <3>2. packet'.event.stream \in renewed'
        BY <1>1, <1>2, <1>3, <2>1
      <3>3. status'.revocation_epoch = authority'.revocation_epoch + 0
        <4>1. status.revocation_epoch \in Nat
          BY ZeroEpoch DEF LanTypeOK, Authority, Epoch
        <4> QED BY <3>1, <4>1
      <3>4. 0 \in 0..moves'
        BY <3>1
      <3> QED BY <3>2, <3>3, <3>4 DEF Since
    <2>6. CommandsAreMarked'
      <3>1. ASSUME packet'.event.action = "COMMAND", ~packet'.event.mark
            PROVE  ~same_stream'
        <4>1. event.mark
          BY <1>1, <1>2 DEF PacketOK
        <4>2. packet'.event.stream \notin renewed'
          BY <1>2, <1>3, <2>1, <3>1, <4>1
        <4> QED BY <1>5, <4>2 DEF same_stream
      <3> QED BY <1>1, <1>5, <3>1 DEF CommandsAreMarked
    <2> QED BY <1>5, <2>3, <2>4, <2>5, <2>6
  <1> QED BY <1>2, <1>6, <1>7

\* What the application's callback does: the event is published, or dropped.
LEMMA CallbackStop ==
    ASSUME LanInv, NEW accepted \in BOOLEAN, Callback(Stop, accepted), lan' = NoStream
    PROVE  /\ LeaseTypeOK' /\ ArmIsOwn' /\ LeaseIsOwn' /\ StreamIsRecent'
           /\ (command_event.source = "LAN" => command_event.mark)'
           /\ dropped' \in BOOLEAN
  <1> USE DEF LanInv
  <1>1. StreamIsRecent'
    BY NoStreamType DEF StreamIsRecent
  <1>2. CASE accepted
    <2>1. Deliver(Stop) /\ UNCHANGED <<lease, armed, dropped>>
      BY <1>2 DEF Callback, Publish
    <2>2. stop_event' = TRUE /\ arm_event' = NoEvent /\ command_event' = NoEvent
      BY <2>1, DeliverStop
    <2>3. LeaseTypeOK'
      BY <2>1, DeliverType DEF LanTypeOK
    <2>4. ArmIsOwn' /\ LeaseIsOwn' /\ (command_event.source = "LAN" => command_event.mark)'
      BY <2>2, EventFacts DEF ArmIsOwn, LeaseIsOwn
    <2> QED BY <1>1, <2>1, <2>3, <2>4 DEF LanTypeOK
  <1>3. CASE ~accepted
    <2>1. dropped' = TRUE
          /\ UNCHANGED <<stop_event, arm_event, command_event, lease, armed>>
      BY <1>3 DEF Callback, lease_vars, mailboxes
    <2>2. LeaseTypeOK'
      BY <2>1 DEF LanTypeOK, LeaseTypeOK
    <2> QED BY <1>1, <2>1, <2>2 DEF ArmIsOwn, LeaseIsOwn, CommandsAreMarked
  <1> QED BY <1>2, <1>3

\* The packet is refused, or found in order.
LEMMA HandleInv ==
    ASSUME LanInv, Handle
    PROVE  LanInv'
  <1> USE DEF LanInv
  <1>1. at = "handle" /\ UNCHANGED <<status, moves, authority, packet, renewed>>
    BY DEF Handle
  <1>2. \/ /\ \/ ~authority.lan_allowed /\ packet.event.action # "STOP"
              \/ ~in_order
           /\ at' = "loop" /\ UNCHANGED <<lease_vars, lan, dropped>>
        \/ /\ authority.lan_allowed \/ packet.event.action = "STOP"
           /\ in_order /\ switches
           /\ \E accepted \in BOOLEAN :
                /\ Callback(Stop, accepted) /\ lan' = NoStream
                /\ at' \in {"submit", "loop"}
        \/ /\ authority.lan_allowed \/ packet.event.action = "STOP"
           /\ in_order /\ ~switches
           /\ at' = "submit" /\ UNCHANGED <<lease_vars, lan, dropped>>
    BY DEF Handle, retire_active_stream
  <1>3. (PacketOK /\ ArmIsRecent)'
    <2>1. at' \in {"loop", "submit"}
      BY <1>2
    <2>2. at' = "submit" => authority.lan_allowed \/ packet.event.action = "STOP"
      BY <1>2
    <2>3. packet.event.action = "STOP" => packet.event = Stop
      BY <1>1, EventFacts DEF LanTypeOK, NoEvent, EventOf
    <2> QED BY <1>1, <2>1, <2>2, <2>3
            DEF PacketOK, InHand, ArmIsRecent, Since
  <1>4. CASE UNCHANGED <<lease_vars, lan, dropped>>
    <2>1. UNCHANGED <<stop_event, arm_event, command_event, lease, armed, lan, dropped>>
      BY <1>4 DEF lease_vars, mailboxes
    <2>2. at' \in {"loop", "submit"}
          /\ (at' = "submit" => in_order /\ (~switches \/ lan' = NoStream))
      BY <1>2
    <2>3. LanTypeOK'
      BY <1>1, <2>1, <2>2 DEF LanTypeOK, LeaseTypeOK
    <2>4. (ArmIsOwn /\ LeaseIsOwn /\ StreamIsRecent)'
      BY <1>1, <2>1 DEF ArmIsOwn, LeaseIsOwn, OwnStream, StreamIsRecent, Since
    <2>5. ArmFindsRoom'
      BY <1>1, <2>1, <2>2, NoStreamType DEF ArmFindsRoom, same_stream, switches
    <2>6. CommandsAreMarked'
      BY <1>1, <2>1, <2>2 DEF CommandsAreMarked, same_stream, in_order
    <2> QED BY <1>3, <2>3, <2>4, <2>5, <2>6
  <1>5. ASSUME NEW accepted \in BOOLEAN, switches, Callback(Stop, accepted),
               lan' = NoStream, at' \in {"submit", "loop"}
        PROVE  LanInv'
    <2>1. /\ LeaseTypeOK' /\ ArmIsOwn' /\ LeaseIsOwn' /\ StreamIsRecent'
          /\ (command_event.source = "LAN" => command_event.mark)'
          /\ dropped' \in BOOLEAN
      BY <1>5, CallbackStop
    <2>2. LanTypeOK'
      BY <1>1, <1>5, <2>1, NoStreamType DEF LanTypeOK
    <2>3. ArmFindsRoom'
      BY <1>5, NoStreamType DEF ArmFindsRoom
    <2>4. CommandsAreMarked'
      BY <1>1, <1>5, <2>1 DEF CommandsAreMarked, switches
    <2> QED BY <1>3, <2>1, <2>2, <2>3, <2>4
  <1> QED BY <1>2, <1>4, <1>5

\* The event is submitted, and the order committed.
LEMMA SubmitInv ==
    ASSUME LanInv, Submit
    PROVE  LanInv'
  <1> USE DEF LanInv
  <1>1. /\ at = "submit" /\ at' = "loop" /\ packet' = NoPacket
        /\ UNCHANGED <<status, moves, authority, renewed>>
    BY DEF Submit
  <1>2. PICK accepted \in BOOLEAN : /\ Callback(packet.event, accepted)
                                    /\ lan' = commit_event_order(accepted)
    BY DEF Submit
  <1>3. (PacketOK /\ ArmFindsRoom /\ ArmIsRecent)'
    BY <1>1 DEF PacketOK, InHand, ArmFindsRoom, ArmIsRecent, NoPacket, NoEvent
  <1>4. ASSUME LeaseTypeOK', ArmIsOwn', LeaseIsOwn', StreamIsRecent', dropped' \in BOOLEAN,
               (command_event.source = "LAN" => command_event.mark)',
               lan' \in [stream_active: BOOLEAN, active_stream: Streams \union {0},
                         last_sequence: Nat, active_authority_epoch: Epoch],
               (~lan.stream_active => lan = NoStream)'
        PROVE  LanInv'
    <2>1. LanTypeOK'
      BY <1>1, <1>4, EventFacts DEF LanTypeOK, NoPacket
    <2>2. CommandsAreMarked'
      BY <1>1, <1>4 DEF CommandsAreMarked
    <2> QED BY <1>3, <1>4, <2>1, <2>2
  <1>5. CASE packet.event = Stop
    <2>1. lan' = NoStream
      BY <1>2, <1>5, EventFacts DEF commit_event_order, retire_active_stream
    <2>2. Callback(Stop, accepted)
      BY <1>2, <1>5
    <2> QED BY <1>4, <2>1, <2>2, CallbackStop, NoStreamType
  <1>6. CASE packet.event # Stop
    <2>1. PICK event : /\ event = packet.event
                       /\ event \in EventOf({"ARM", "COMMAND"}) /\ event.source = "LAN"
      <3>1. packet.event.source = "LAN"
        BY <1>1, <1>6 DEF PacketOK, InHand
      <3> QED BY <1>6, <3>1, EventFacts DEF LanTypeOK
    <2>2. event.action \in {"ARM", "COMMAND"} /\ event.stream \in Streams
      BY <2>1 DEF EventOf
    <2>3. authority.lan_allowed
      BY <1>1, <1>6 DEF PacketOK
    <2>4. CASE ~accepted
      <3>1. dropped' = TRUE
            /\ UNCHANGED <<stop_event, arm_event, command_event, lease, armed>>
        BY <1>2, <2>4 DEF Callback, lease_vars, mailboxes
      <3>2. lan' = lan
        BY <1>2, <2>1, <2>2, <2>4 DEF commit_event_order
      <3>3. StreamIsRecent'
        BY <1>1, <3>2 DEF StreamIsRecent, Since
      <3>4. LeaseTypeOK' /\ ArmIsOwn' /\ LeaseIsOwn'
            /\ (command_event.source = "LAN" => command_event.mark)'
        BY <3>1 DEF LanTypeOK, LeaseTypeOK, ArmIsOwn, LeaseIsOwn, CommandsAreMarked
      <3> QED BY <1>4, <3>1, <3>2, <3>3, <3>4 DEF LanTypeOK
    <2>5. CASE accepted /\ event.action = "COMMAND"
      <3>1. Deliver(event) /\ UNCHANGED <<lease, armed, dropped>>
        BY <1>2, <2>1, <2>5 DEF Callback, Publish
      <3>2. command_event' = event /\ UNCHANGED <<stop_event, arm_event>>
        BY <2>5, <3>1, DeliverCommand
      <3>3. lan' = [lan EXCEPT !.last_sequence = packet.sequence]
        BY <1>2, <2>1, <2>5 DEF commit_event_order
      <3>4. lan' \in [stream_active: BOOLEAN, active_stream: Streams \union {0},
                      last_sequence: Nat, active_authority_epoch: Epoch]
            /\ lan'.stream_active = lan.stream_active
            /\ lan'.active_stream = lan.active_stream
            /\ lan'.active_authority_epoch = lan.active_authority_epoch
        BY <3>3 DEF LanTypeOK
      <3>5. lan.stream_active
        BY <1>1, <2>1, <2>5 DEF CommandsAreMarked, same_stream
      <3>6. StreamIsRecent'
        BY <1>1, <3>4 DEF StreamIsRecent, Since
      <3>7. LeaseTypeOK'
        BY <2>1, <3>1, DeliverType DEF LanTypeOK
      <3>8. ArmIsOwn' /\ LeaseIsOwn'
        BY <3>1, <3>2, <3>4 DEF ArmIsOwn, LeaseIsOwn, OwnStream
      <3>9. command_event'.mark
        BY <1>1, <2>1, <2>5, <3>2 DEF CommandsAreMarked
      <3> QED BY <1>4, <3>1, <3>4, <3>5, <3>6, <3>7, <3>8, <3>9 DEF LanTypeOK
    <2>6. CASE accepted /\ event.action = "ARM"
      <3>1. Deliver(event) /\ UNCHANGED <<lease, armed, dropped>>
        BY <1>2, <2>1, <2>6 DEF Callback, Publish
      <3>2. arm_event' = event /\ UNCHANGED <<stop_event, command_event>>
        BY <2>6, <3>1, DeliverArm
      <3>3. LeaseTypeOK'
        BY <2>1, <3>1, DeliverType DEF LanTypeOK
      <3>4. (command_event.source = "LAN" => command_event.mark)' /\ dropped' \in BOOLEAN
        BY <3>1, <3>2 DEF CommandsAreMarked, LanTypeOK
      <3>5. CASE same_stream
        <4>1. lan' = [lan EXCEPT !.last_sequence = packet.sequence]
          BY <1>2, <2>1, <2>6, <3>5 DEF commit_event_order
        <4>2. lan' \in [stream_active: BOOLEAN, active_stream: Streams \union {0},
                        last_sequence: Nat, active_authority_epoch: Epoch]
              /\ lan'.stream_active = lan.stream_active
              /\ lan'.active_stream = lan.active_stream
              /\ lan'.active_authority_epoch = lan.active_authority_epoch
          BY <4>1 DEF LanTypeOK
        <4>3. lan'.stream_active /\ lan'.active_stream = event.stream
          BY <2>1, <3>5, <4>2 DEF same_stream
        <4>4. StreamIsRecent'
          BY <1>1, <4>2 DEF StreamIsRecent, Since
        <4>5. ArmIsOwn' /\ LeaseIsOwn'
          BY <3>1, <3>2, <4>2, <4>3 DEF ArmIsOwn, LeaseIsOwn, OwnStream
        <4> QED BY <1>4, <3>3, <3>4, <4>2, <4>3, <4>4, <4>5
      <3>6. CASE ~same_stream
        <4>1. lan' = [stream_active |-> TRUE, active_stream |-> event.stream,
                      last_sequence |-> packet.sequence,
                      active_authority_epoch |-> authority.revocation_epoch]
          BY <1>2, <2>1, <2>6, <3>6 DEF commit_event_order
        <4>2. /\ lan'.stream_active /\ lan'.active_stream = event.stream
              /\ lan'.active_authority_epoch = authority.revocation_epoch
          BY <4>1
        <4>3. lan' \in [stream_active: BOOLEAN, active_stream: Streams \union {0},
                        last_sequence: Nat, active_authority_epoch: Epoch]
          <5>1. authority.revocation_epoch \in Epoch /\ packet.sequence \in Nat
            BY DEF LanTypeOK, Authority
          <5> QED BY <2>2, <4>1, <5>1
        <4>4. ~lan.stream_active
          BY <1>1, <2>1, <2>6, <3>6 DEF ArmFindsRoom
        <4>5. StreamIsRecent'
          <5>1. Since(authority.revocation_epoch, event.stream)
            BY <1>1, <2>1, <2>3, <2>6 DEF ArmIsRecent
          <5> QED BY <1>1, <4>2, <5>1 DEF StreamIsRecent, Since
        <4>6. ArmIsOwn' /\ LeaseIsOwn'
          BY <3>1, <3>2, <4>2, <4>4 DEF ArmIsOwn, LeaseIsOwn, OwnStream
        <4> QED BY <1>4, <3>3, <3>4, <4>2, <4>3, <4>5, <4>6
      <3> QED BY <3>5, <3>6
    <2> QED BY <2>2, <2>4, <2>5, <2>6
  <1> QED BY <1>5, <1>6

\* Every step of the system keeps the invariant.
LEMMA LanStep == LanInv /\ [LanNext]_lanVars => LanInv'
  <1> SUFFICES ASSUME LanInv, [LanNext]_lanVars PROVE LanInv'
    OBVIOUS
  <1>1. CASE UNCHANGED lanVars
    <2>1. UNCHANGED <<stop_event, arm_event, command_event, lease, armed, status, moves,
                      lan, at, authority, packet, renewed, dropped>>
      BY <1>1 DEF lanVars, lease_vars, mailboxes, task
    <2>2. LanTypeOK'
      BY <2>1 DEF LanInv, LanTypeOK, LeaseTypeOK
    <2>3. (ArmIsOwn /\ LeaseIsOwn /\ ArmFindsRoom /\ PacketOK)'
      BY <2>1 DEF LanInv, ArmIsOwn, LeaseIsOwn, OwnStream, ArmFindsRoom, same_stream,
                  PacketOK, InHand
    <2>4. (StreamIsRecent /\ ArmIsRecent /\ CommandsAreMarked)'
      BY <2>1 DEF LanInv, StreamIsRecent, ArmIsRecent, Since, CommandsAreMarked, same_stream
    <2> QED BY <2>2, <2>3, <2>4 DEF LanInv
  <1>2. CASE StatusChanges
    BY <1>2, StatusInv
  <1>3. CASE RcPublishes
    BY <1>3, RcInv
  <1>4. CASE Application
    BY <1>4, ApplicationInv
  <1>5. CASE CheckLoop
    BY <1>5, CheckLoopInv
  <1>6. CASE ReceiveNothing \/ Receive
    BY <1>6, ReceiveInv
  <1>7. CASE CheckPacket
    BY <1>7, CheckPacketInv
  <1>8. CASE Handle
    BY <1>8, HandleInv
  <1>9. CASE Submit
    BY <1>9, SubmitInv
  <1> QED
    BY <1>1, <1>2, <1>3, <1>4, <1>5, <1>6, <1>7, <1>8, <1>9 DEF LanNext, TaskStep

\* The invariant of the LAN ingress always holds.
THEOREM LanInductive == LanSpec => []LanInv
  BY LanStart, LanStep, PTL DEF LanSpec

\* The ingress's state is consistent, and as long as the application took every
\* event a LAN lease is of the stream in force, so that the next reading of the
\* authority can revoke it (control_lan.c, enforce_authority).
THEOREM LanLeaseWatched == LanSpec => []LeaseIsWatched
  <1>1. LanInv => LeaseIsWatched
    <2> SUFFICES ASSUME LanInv, lease.source = "LAN", ~stop_event, ~dropped
                 PROVE  lan.stream_active /\ lan.active_stream = lease.stream
      BY DEF LeaseIsWatched, NoOrphanLease, LanInv
    <2> QED BY DEF LanInv, LeaseIsOwn, OwnStream
  <1> QED BY <1>1, LanInductive, PTL

\* A command of the LAN client that drives was admitted after its stream had been
\* armed later than the last takeover: an old stream never resumes by itself,
\* however often the status changes between two readings of it.
THEOREM LanNeverResumes == LanSpec => NoSilentResume
  <1>1. LanInv => [(Application /\ Cycle /\ Drives /\ command_event.source = "LAN")
                      => command_event.mark]_lanVars
    BY DEF LanInv, CommandsAreMarked
  <1> QED BY <1>1, LanInductive, PTL DEF NoSilentResume

(***************************************************************************)
(* ppm_motion_source: the handshake.                                       *)
(***************************************************************************)

\* While the pilot has the priority the source is in a phase of the handshake,
\* and beyond its beginning it has a stream.
PhaseHasStream ==
    /\ ppm.priority_active => ppm.phase # "INACTIVE"
    /\ ppm.phase \in {"ARM_PENDING", "ARMED"} => ppm.stream_id # 0

PilotInv == TypeOK /\ PhaseHasStream /\ PilotRested

\* What the counters' configuration says.
LEMMA PilotBounds ==
    /\ FrameCounter \in Nat \ {0} /\ StreamCounter \in Nat \ {0}
    /\ ArmPendingMax \in Nat \ {0} /\ StreamCounter > 1
    /\ \A s \in 1..(StreamCounter - 1) : s \in Streams
  BY PpmConfig

\* The source's model and what the step function returns.
SourceModel ==
    [phase: Phase, priority_active: BOOLEAN, have_frame_sequence: BOOLEAN,
     last_frame_sequence: 0..(FrameCounter - 1),
     arm_pending_frames: 0..(ArmPendingMax - 1),
     stream_nonce: 0..(StreamCounter - 1), stream_id: 0..(StreamCounter - 1)]

\* The invariant holds when the task starts.
LEMMA PilotStart == Init => PilotInv
  <1> SUFFICES ASSUME Init PROVE PilotInv
    OBVIOUS
  <1> USE DEF Init, LeaseInit
  <1>1. LeaseTypeOK
    BY DEF LeaseTypeOK
  <1>2. frame \in [sequence: 0..(FrameCounter - 1), neutral: BOOLEAN, low: BOOLEAN]
    BY PilotBounds
  <1>3. ppm \in SourceModel
    BY PilotBounds DEF SourceModel, Phase
  <1>4. TypeOK
    BY <1>1, <1>2, <1>3 DEF TypeOK, SourceModel
  <1> QED BY <1>4, EventFacts DEF PilotInv, PhaseHasStream, PilotRested

\* A frame arrives, or the gate moves.
LEMMA ReceiverInv ==
    ASSUME PilotInv,
           \/ \E neutral, low \in BOOLEAN : AcceptFrame(neutral, low)
           \/ GateMoves
    PROVE  PilotInv'
  <1>1. UNCHANGED <<ppm, pc, stop_event, arm_event, command_event, lease, armed, rested>>
    BY DEF AcceptFrame, GateMoves, lease_vars, mailboxes
  <1>2. frame' \in [sequence: 0..(FrameCounter - 1), neutral: BOOLEAN, low: BOOLEAN]
    <2>1. (frame.sequence + 1) % FrameCounter \in 0..(FrameCounter - 1)
      <3>1. frame.sequence + 1 \in Nat
        BY DEF PilotInv, TypeOK
      <3> QED BY <3>1, PilotBounds
    <2> QED BY <2>1 DEF AcceptFrame, GateMoves, PilotInv, TypeOK
  <1> QED BY <1>1, <1>2 DEF PilotInv, TypeOK, PhaseHasStream, PilotRested, LeaseTypeOK

\* What the step function leaves is orderly, and it asks for an ARM only on a new
\* neutral frame.
LEMMA StepResult ==
    ASSUME TypeOK, PhaseHasStream, NEW rc_active \in BOOLEAN
    PROVE  LET n == step(ppm, rc_active)[1]
           IN  /\ n \in SourceModel
               /\ n.priority_active => n.phase # "INACTIVE"
               /\ n.phase \in {"ARM_PENDING", "ARMED"} => n.stream_id # 0
               /\ step(ppm, rc_active)[2] \in EventOf({"ARM", "COMMAND"}) \union {NoEvent, Stop}
               /\ step(ppm, rc_active)[2].action = "ARM" => new_frame(ppm) /\ frame.neutral
  <1> DEFINE new == new_frame(ppm)
             Orderly(n) == /\ n \in SourceModel
                           /\ n.priority_active => n.phase # "INACTIVE"
                           /\ n.phase \in {"ARM_PENDING", "ARMED"} => n.stream_id # 0
             Good(r) == /\ Orderly(r[1])
                        /\ r[2] \in EventOf({"ARM", "COMMAND"}) \union {NoEvent, Stop}
                        /\ r[2].action = "ARM" => new /\ frame.neutral
  <1>1. PICK m : m = seen_frame(ppm) /\ Orderly(m)
    <2>1. ppm \in SourceModel /\ frame.sequence \in 0..(FrameCounter - 1)
      BY DEF TypeOK, SourceModel
    <2>2. Orderly(seen_frame(ppm))
      BY <2>1 DEF seen_frame, SourceModel, PhaseHasStream
    <2> QED BY <2>2
  <1>2. PICK s : s = next_stream(m) /\ s \in 1..(StreamCounter - 1) /\ s \in Streams
    <2>1. next_stream(m) \in 1..(StreamCounter - 1)
      BY <1>1, PilotBounds DEF next_stream, SourceModel
    <2> QED BY <2>1, PilotBounds
  <1>3. 0 \in 0..(ArmPendingMax - 1) /\ 0 \in 0..(StreamCounter - 1)
    BY PilotBounds
  <1>4. Orderly(release(m)) /\ Orderly(wait_neutral(m))
        /\ Orderly([wait_neutral(m) EXCEPT !.priority_active = TRUE])
    <2>1. PICK r : /\ r = release(m)
                   /\ r = [m EXCEPT !.priority_active = FALSE, !.phase = "INACTIVE",
                                    !.arm_pending_frames = 0, !.stream_id = 0]
      BY DEF release
    <2>2. PICK w : /\ w = wait_neutral(m)
                   /\ w = [m EXCEPT !.phase = "WAIT_NEUTRAL", !.arm_pending_frames = 0]
      BY DEF wait_neutral
    <2>3. r \in SourceModel /\ ~r.priority_active /\ r.phase = "INACTIVE"
      BY <1>1, <2>1, <1>3 DEF SourceModel, Phase
    <2>4. w \in SourceModel /\ w.phase = "WAIT_NEUTRAL"
      BY <1>1, <2>2, <1>3 DEF SourceModel, Phase
    <2>5. PICK v : v = [w EXCEPT !.priority_active = TRUE]
      OBVIOUS
    <2>6. v \in SourceModel /\ v.phase = "WAIT_NEUTRAL"
      BY <2>4, <2>5 DEF SourceModel
    <2> QED BY <2>1, <2>2, <2>3, <2>4, <2>5, <2>6
  <1>5. Orderly(arm_pending(m, new, rc_active)) \/ m.phase # "ARM_PENDING"
    <2> SUFFICES ASSUME m.phase = "ARM_PENDING" PROVE Orderly(arm_pending(m, new, rc_active))
      OBVIOUS
    <2>1. Orderly([m EXCEPT !.phase = "ARMED", !.arm_pending_frames = 0])
      <3>1. PICK n : n = [m EXCEPT !.phase = "ARMED", !.arm_pending_frames = 0]
        OBVIOUS
      <3>2. n \in SourceModel /\ n.phase = "ARMED" /\ n.stream_id = m.stream_id
        BY <1>1, <1>3, <3>1 DEF SourceModel, Phase
      <3>3. m.stream_id # 0
        BY <1>1
      <3> QED BY <3>1, <3>2, <3>3
    <2>2. ASSUME ~(m.arm_pending_frames + 1 >= ArmPendingMax)
          PROVE  Orderly([m EXCEPT !.arm_pending_frames = @ + 1])
      <3>1. m.arm_pending_frames + 1 \in 0..(ArmPendingMax - 1)
        BY <1>1, <2>2, PilotBounds DEF SourceModel
      <3> QED BY <1>1, <3>1 DEF SourceModel
    <2> HIDE DEF Orderly
    <2> QED BY <1>1, <1>4, <2>1, <2>2 DEF arm_pending
  <1>6. Orderly([m EXCEPT !.stream_nonce = s, !.stream_id = s, !.phase = "ARM_PENDING",
                          !.arm_pending_frames = 0])
    <2>1. PICK n : n = [m EXCEPT !.stream_nonce = s, !.stream_id = s,
                                 !.phase = "ARM_PENDING", !.arm_pending_frames = 0]
      OBVIOUS
    <2>2. s \in 0..(StreamCounter - 1) /\ s # 0
      BY <1>2, PilotBounds
    <2>3. n \in SourceModel /\ n.phase = "ARM_PENDING" /\ n.stream_id # 0
      BY <1>1, <1>3, <2>1, <2>2 DEF SourceModel, Phase
    <2> QED BY <2>1, <2>3
  <1>7. NoEvent.action # "ARM" /\ Stop.action # "ARM"
    BY EventFacts
  <1>8. RcEvent("ARM", s, TRUE) \in EventOf({"ARM", "COMMAND"})
    BY <1>2 DEF RcEvent, EventOf, Client
  <1>9. ASSUME m.priority_active, m.phase \notin {"ARM_PENDING", "WAIT_NEUTRAL"}
        PROVE  /\ RcEvent("COMMAND", m.stream_id, frame.neutral) \in EventOf({"ARM", "COMMAND"})
               /\ RcEvent("COMMAND", m.stream_id, frame.neutral).action # "ARM"
    <2>1. m.phase = "ARMED" /\ m.stream_id \in 1..(StreamCounter - 1)
      BY <1>1, <1>9, PilotBounds DEF SourceModel, Phase
    <2>2. m.stream_id \in Streams /\ frame.neutral \in BOOLEAN
      BY <2>1, PilotBounds DEF TypeOK
    <2> QED BY <2>2 DEF RcEvent, EventOf, Client
  <1>10. Good(step(ppm, rc_active))
    <2> HIDE DEF Orderly, new
    <2>1. CASE ~(valid /\ frame.low)
      BY <1>1, <1>4, <1>7, <2>1 DEF step, new
    <2>2. CASE valid /\ frame.low /\ ~m.priority_active
      BY <1>1, <1>4, <1>7, <2>2 DEF step, new
    <2>3. CASE valid /\ frame.low /\ m.priority_active /\ m.phase = "ARM_PENDING"
      BY <1>1, <1>5, <1>7, <2>3 DEF step, new
    <2>4. CASE /\ valid /\ frame.low /\ m.priority_active
               /\ m.phase = "ARMED" /\ ~rc_active
      BY <1>1, <1>4, <1>7, <2>4 DEF step, new
    <2>5. CASE /\ valid /\ frame.low /\ m.priority_active /\ m.phase # "ARM_PENDING"
               /\ m.phase # "ARMED" \/ rc_active
      <3>1. CASE ~new
        BY <1>1, <1>7, <2>5, <3>1 DEF step, new
      <3>2. CASE new /\ m.phase = "WAIT_NEUTRAL" /\ ~frame.neutral
        BY <1>1, <1>7, <2>5, <3>2 DEF step, new, may_arm
      <3>3. CASE new /\ m.phase = "WAIT_NEUTRAL" /\ frame.neutral
        BY <1>1, <1>2, <1>6, <1>8, <2>5, <3>3 DEF step, new, may_arm
      <3>4. CASE new /\ m.phase # "WAIT_NEUTRAL"
        BY <1>1, <1>9, <2>5, <3>4 DEF step, new
      <3> QED BY <3>1, <3>2, <3>3, <3>4
    <2> QED BY <2>1, <2>2, <2>3, <2>4, <2>5
  <1> QED BY <1>10

\* One turn of the task, up to the event it publishes.
LEMMA StepInv ==
    ASSUME PilotInv, Step
    PROVE  PilotInv'
  <1> USE DEF PilotInv
  <1>0. PICK rc_active \in BOOLEAN :
            ppm' = step(ppm, rc_active)[1] /\ pc' = step(ppm, rc_active)[2]
    <2>1. \A readable \in BOOLEAN : application_rc_active(readable) \in BOOLEAN
      BY DEF application_rc_active
    <2> QED BY <2>1 DEF Step
  <1>1. /\ ppm' = step(ppm, rc_active)[1] /\ pc' = step(ppm, rc_active)[2]
        /\ UNCHANGED <<frame, stop_event, arm_event, command_event, lease, armed>>
    BY <1>0 DEF Step, lease_vars, mailboxes
  <1>2. rested' = rested \/ rested' = [own |-> TRUE, any |-> TRUE]
    BY DEF Step
  <1>3. new_frame(ppm) /\ frame.neutral => rested'.own
    BY DEF Step
  <1>4. /\ ppm' \in SourceModel
        /\ ppm'.priority_active => ppm'.phase # "INACTIVE"
        /\ ppm'.phase \in {"ARM_PENDING", "ARMED"} => ppm'.stream_id # 0
        /\ pc' \in EventOf({"ARM", "COMMAND"}) \union {NoEvent, Stop}
        /\ pc'.action = "ARM" => rested'.own
    BY <1>1, <1>3, StepResult
  <1>5. TypeOK'
    <2>1. rested \in [own: BOOLEAN, any: BOOLEAN]
      BY DEF TypeOK
    <2>2. rested' \in [own: BOOLEAN, any: BOOLEAN]
      <3>1. CASE rested' = rested
        BY <2>1, <3>1
      <3>2. CASE rested' = [own |-> TRUE, any |-> TRUE]
        BY <3>2
      <3> QED BY <1>2, <3>1, <3>2
    <2>3. LeaseTypeOK'
      BY <1>1 DEF TypeOK, LeaseTypeOK
    <2> QED BY <1>1, <1>4, <2>2, <2>3 DEF TypeOK, SourceModel
  <1>6. PilotRested'
    BY <1>1, <1>2, <1>4 DEF PilotRested
  <1> QED BY <1>4, <1>5, <1>6 DEF PhaseHasStream

\* The task publishes its event, or the application is too busy for it.
LEMMA PublishOutputInv ==
    ASSUME PilotInv, PublishOutput
    PROVE  PilotInv'
  <1> USE DEF PilotInv
  <1>1. pc # NoEvent /\ pc' = NoEvent /\ UNCHANGED <<frame, ppm, lease, armed>>
    BY DEF PublishOutput, receiver
  <1>2. PhaseHasStream'
    BY <1>1 DEF PhaseHasStream
  <1>3. CASE UNCHANGED <<mailboxes, rested>>
    BY <1>1, <1>2, <1>3, EventFacts
       DEF TypeOK, LeaseTypeOK, PilotRested, mailboxes
  <1>4. CASE /\ Deliver(pc)
             /\ rested' = IF pc = Stop THEN [own |-> FALSE, any |-> FALSE] ELSE rested
    <2>1. PICK event : /\ event = pc
                       /\ event \in EventOf({"ARM", "COMMAND"}) \union {Stop}
      BY <1>1 DEF TypeOK
    <2>2. Deliver(event)
      BY <1>4, <2>1
    <2>3. LeaseTypeOK'
      BY <1>1, <2>1, <2>2, DeliverType DEF TypeOK
    <2>4. TypeOK'
      BY <1>1, <1>4, <2>3 DEF TypeOK
    <2>5. PilotRested'
      <3>1. CASE event = Stop
        <4>1. stop_event' = TRUE /\ arm_event' = NoEvent
          BY <2>2, <3>1, DeliverStop
        <4> QED BY <1>1, <4>1, EventFacts DEF PilotRested
      <3>2. CASE event \in EventOf({"ARM", "COMMAND"}) /\ event.action = "ARM"
        <4>1. event # Stop
          BY <3>2, EventFacts
        <4>2. arm_event' = event /\ stop_event' = stop_event /\ rested' = rested
          BY <1>4, <2>1, <2>2, <3>2, <4>1, DeliverArm
        <4> QED BY <1>1, <2>1, <3>2, <4>2, EventFacts DEF PilotRested
      <3>3. CASE event \in EventOf({"ARM", "COMMAND"}) /\ event.action = "COMMAND"
        <4>1. event # Stop
          BY <3>3, EventFacts
        <4>2. arm_event' = arm_event /\ stop_event' = stop_event /\ rested' = rested
          BY <1>4, <2>1, <2>2, <3>3, <4>1, DeliverCommand
        <4> QED BY <1>1, <4>2, EventFacts DEF PilotRested
      <3> QED BY <2>1, <3>1, <3>2, <3>3 DEF EventOf
    <2> QED BY <1>2, <2>4, <2>5
  <1> QED BY <1>3, <1>4 DEF PublishOutput

\* The LAN client publishes.
LEMMA LanPublishesInv ==
    ASSUME PilotInv, LanPublishes
    PROVE  PilotInv'
  <1> USE DEF PilotInv
  <1>1. UNCHANGED <<frame, ppm, pc, lease, armed>>
    BY DEF LanPublishes, receiver, Publish
  <1>2. PhaseHasStream'
    BY <1>1 DEF PhaseHasStream
  <1>3. CASE Deliver(Stop) /\ rested' = [rested EXCEPT !.any = FALSE]
    <2>1. stop_event' = TRUE /\ arm_event' = NoEvent
      BY <1>3, DeliverStop
    <2>2. LeaseTypeOK'
      BY <1>1, <1>3, DeliverType DEF TypeOK
    <2>3. rested' \in [own: BOOLEAN, any: BOOLEAN] /\ rested'.own = rested.own
      BY <1>3 DEF TypeOK
    <2>4. TypeOK'
      BY <1>1, <2>2, <2>3 DEF TypeOK
    <2>5. PilotRested'
      BY <1>1, <2>1, <2>3, EventFacts DEF PilotRested
    <2> QED BY <1>2, <2>4, <2>5
  <1>4. ASSUME NEW stream \in Streams,
               Deliver([RcEvent("ARM", stream, TRUE) EXCEPT !.source = "LAN"]),
               rested' = rested
        PROVE  PilotInv'
    <2>1. PICK event : event = [RcEvent("ARM", stream, TRUE) EXCEPT !.source = "LAN"]
      OBVIOUS
    <2>2. event \in EventOf({"ARM", "COMMAND"}) /\ event.action = "ARM" /\ event.source = "LAN"
      BY <2>1 DEF RcEvent, EventOf, Client
    <2>3. Deliver(event)
      BY <1>4, <2>1
    <2>4. arm_event' = event /\ stop_event' = stop_event
      BY <2>2, <2>3, DeliverArm
    <2>5. LeaseTypeOK'
      BY <1>1, <2>2, <2>3, DeliverType DEF TypeOK
    <2>6. TypeOK' /\ PilotRested'
      BY <1>1, <1>4, <2>2, <2>4, <2>5 DEF TypeOK, PilotRested
    <2> QED BY <1>2, <2>6
  <1> QED BY <1>3, <1>4 DEF LanPublishes, Publish

\* The application takes an event, loses its lease or fails.
LEMMA PilotApplicationInv ==
    ASSUME PilotInv, ApplicationCycle \/ ApplicationStops
    PROVE  PilotInv'
  <1> USE DEF PilotInv
  <1>1. /\ UNCHANGED <<frame, ppm, pc, rested>>
        /\ Cycle \/ Withdraw \/ Fault
    BY DEF ApplicationCycle, ApplicationStops, receiver
  <1>2. LeaseTypeOK'
    BY <1>1, ApplicationType DEF TypeOK
  <1>3. /\ arm_event' \in {arm_event, NoEvent}
        /\ \/ lease' = NoLease
           \/ lease' = lease /\ stop_event' = stop_event
           \/ lease' = [source |-> arm_event.source, stream |-> arm_event.stream]
    BY <1>1, ApplicationGrants DEF TypeOK
  <1>4. TypeOK' /\ PhaseHasStream'
    BY <1>1, <1>2 DEF TypeOK, PhaseHasStream
  <1>5. PilotRested'
    BY <1>1, <1>3, EventFacts DEF PilotRested
  <1> QED BY <1>4, <1>5

\* Every step of the system keeps the invariant.
LEMMA PilotStep == PilotInv /\ [Next]_vars => PilotInv'
  <1> SUFFICES ASSUME PilotInv, [Next]_vars PROVE PilotInv'
    OBVIOUS
  <1>1. CASE UNCHANGED vars
    <2>1. UNCHANGED <<frame, ppm, pc, stop_event, arm_event, command_event, lease, armed,
                      rested>>
      BY <1>1 DEF vars, receiver, lease_vars, mailboxes
    <2> QED BY <2>1 DEF PilotInv, TypeOK, LeaseTypeOK, PhaseHasStream, PilotRested
  <1>2. CASE GateMoves \/ \E neutral, low \in BOOLEAN : AcceptFrame(neutral, low)
    BY <1>2, ReceiverInv
  <1>3. CASE Step
    BY <1>3, StepInv
  <1>4. CASE PublishOutput
    BY <1>4, PublishOutputInv
  <1>5. CASE LanPublishes
    BY <1>5, LanPublishesInv
  <1>6. CASE ApplicationCycle \/ ApplicationStops
    BY <1>6, PilotApplicationInv
  <1> QED BY <1>1, <1>2, <1>3, <1>4, <1>5, <1>6 DEF Next

\* The invariant of the pilot's source always holds.
THEOREM PilotInductive == Spec => []PilotInv
  BY PilotStart, PilotStep, PTL DEF Spec

\* The source's fields keep their types, and an ARM is never waited for over more
\* than ArmPendingMax frames (ppm_motion_model.c).
THEOREM PilotTypeCorrect == Spec => []TypeOK
  <1>1. PilotInv => TypeOK
    BY DEF PilotInv
  <1> QED BY <1>1, PilotInductive, PTL

\* Sticks held off neutral never start the robot once the source's own STOP was
\* published: a neutral frame came in between, however late the application runs
\* (ppm_motion_source.c, publish_output).
THEOREM PilotShakesHands == Spec => HandshakeAfterOwnStop
  <1>1. PilotInv => [HeldSticksDrive => rested.own]_vars
    <2> SUFFICES ASSUME PilotInv, HeldSticksDrive PROVE rested.own
      OBVIOUS
    <2>1. command_event.source = "RC" /\ ~stop_event
          /\ lease = [source |-> command_event.source, stream |-> command_event.stream]
      BY DEF HeldSticksDrive, Drives
    <2>2. lease.source = "RC"
      BY <2>1
    <2> QED BY <2>1, <2>2 DEF PilotInv, PilotRested
  <1> QED BY <1>1, PilotInductive, PTL DEF HandshakeAfterOwnStop

=============================================================================
