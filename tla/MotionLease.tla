---------------------------- MODULE MotionLease ----------------------------
(***************************************************************************)
(* What components/motion_application promises to the tasks that publish   *)
(* into it: three one-slot mailboxes, served STOP first, and one lease.    *)
(* A client sees a STOP evict what was published before it, an ARM win     *)
(* the lease only when nobody holds it, and the lease withdrawn at any     *)
(* time (expiry, safety gate, actuation, emergency stop).                  *)
(*                                                                         *)
(* MotionApplicationService implements this specification; the client      *)
(* modules PpmMotionSource and ControlLan are composed with it.            *)
(***************************************************************************)
EXTENDS Naturals

CONSTANT Streams    \* the nonzero stream identifiers

ASSUME LeaseAssumption == Streams \subseteq Nat \ {0}

VARIABLES
    stop_event, arm_event, command_event,   \* the three mailboxes
    lease,                                  \* who may drive, on what stream
    armed                                   \* the holder's commands are taken

mailboxes == <<stop_event, arm_event, command_event>>
lease_vars == <<mailboxes, lease, armed>>

Client == {"RC", "LAN"}

NoLease == [source |-> "NONE", stream |-> 0]

\* An event; mark is what a client module wants to know of it later.
NoEvent == [action |-> "NONE", source |-> "NONE", stream |-> 0, mark |-> TRUE]
Stop == [NoEvent EXCEPT !.action = "STOP"]
EventOf(actions) ==
    [action: actions, source: Client, stream: Streams, mark: BOOLEAN]

LeaseInit ==
    /\ stop_event = FALSE /\ arm_event = NoEvent /\ command_event = NoEvent
    /\ lease = NoLease /\ armed = FALSE

\* motion_application_service_publish; a DISARM is a STOP.
Deliver(event) ==
    CASE event.action = "STOP" ->
           /\ stop_event' = TRUE
           /\ arm_event' = NoEvent /\ command_event' = NoEvent
      [] event.action = "ARM" ->
           /\ arm_event' = event /\ UNCHANGED <<stop_event, command_event>>
      [] event.action = "COMMAND" ->
           /\ command_event' = event /\ UNCHANGED <<stop_event, arm_event>>

Publish(event) == Deliver(event) /\ UNCHANGED <<lease, armed>>

\* The lease once the event that is due has been taken and not refused.
Granted ==
    IF stop_event THEN NoLease
    ELSE IF arm_event # NoEvent /\ lease = NoLease
    THEN [source |-> arm_event.source, stream |-> arm_event.stream]
    ELSE lease

\* The command the cycle takes is the one that drives the wheels.
Drives ==
    /\ ~stop_event /\ arm_event = NoEvent /\ command_event # NoEvent
    /\ armed
    /\ lease = [source |-> command_event.source,
                stream |-> command_event.stream]

\* One cycle of the application takes one event; it may refuse an ARM, and
\* it may withdraw a lease that is armed.
Cycle ==
    /\ stop_event' = FALSE
    /\ arm_event' = IF stop_event THEN arm_event ELSE NoEvent
    /\ command_event' = IF stop_event \/ arm_event # NoEvent
                        THEN command_event ELSE NoEvent
    /\ \/ /\ lease' = Granted
          /\ armed' = (lease' # NoLease /\ (lease = NoLease \/ armed))
       \/ /\ armed \/ lease = NoLease
          /\ lease' = NoLease /\ armed' = FALSE

\* An emergency stop leaves the mailboxes alone.
Withdraw == lease' = NoLease /\ armed' = FALSE /\ UNCHANGED mailboxes

\* An actuation call that fails leaves the lease with its holder, disarmed:
\* nobody can arm until somebody stops.
Fault ==
    /\ lease # NoLease /\ armed' = FALSE
    /\ UNCHANGED <<mailboxes, lease>>

LeaseNext ==
    \/ Publish(Stop)
    \/ \E event \in EventOf({"ARM", "COMMAND"}) : Publish(event)
    \/ Cycle \/ Withdraw \/ Fault

LeaseSpec == LeaseInit /\ [][LeaseNext]_lease_vars

(* ----------------------------- properties ----------------------------- *)

\* The mailboxes hold events of their kind, and only a holder is armed.
LeaseTypeOK ==
    /\ stop_event \in BOOLEAN
    /\ arm_event \in EventOf({"ARM"}) \union {NoEvent}
    /\ command_event \in EventOf({"COMMAND"}) \union {NoEvent}
    /\ lease \in [source: Client, stream: Streams] \union {NoLease}
    /\ armed \in BOOLEAN /\ (armed => lease # NoLease)
=============================================================================
