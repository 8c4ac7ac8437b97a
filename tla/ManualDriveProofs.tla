--------------------------- MODULE ManualDriveProofs ---------------------------
(***************************************************************************)
(* Proofs about ManualDrive, and with it about ActuationCoordinator, for   *)
(* any callers, any registry of endpoints, any requests and any number of  *)
(* register writes that fail: what an answer says of the wheels is so, and *)
(* what fails is stopped.                                                  *)
(***************************************************************************)
EXTENDS ManualDrive, FiniteSetTheorems, TLAPS

(***************************************************************************)
(* What is known of a wheel when a caller's write has returned.            *)
(***************************************************************************)

\* The wheel rests, or somebody the lock does not keep out wrote it since.
Resting(c, e) == Speed(e) = 0 \/ e \in touched[c]

\* The wheel rests, or both writes of its stop were lost, or somebody wrote it.
Stopped(c, e) == Resting(c, e) \/ e \in missed[c].endpoints

\* The wheel turns as the request asks, or somebody wrote it since.
Obeys(c, r) == Speed(r.endpoint) = r.rpm \/ r.endpoint \in touched[c]

\* The wheel has the request's target, or somebody wrote it since.
Targets(c, r) == drive[r.endpoint].target = r.rpm \/ r.endpoint \in touched[c]

Aimed(c, e) == Targets(c, StopOf(e))

(***************************************************************************)
(* The inductive invariant: the calls of the coordinator.                  *)
(***************************************************************************)

Holds(c) == call[c].pc \notin {"idle", "acquire"}
asks(c, i) == call[c].requests[i].endpoint

\* The endpoints before the one the call has come to.
Before(c) == {asks(c, i) : i \in 1..(call[c].index - 1)}

Applying == {"target", "start", "undo_zero", "undo_halt"}
RollingBack == {"rollback_zero", "rollback_halt"}
Stopping == {"zero", "halt"}

CallRecord ==
    [pc: {"idle", "acquire", "release"} \cup Applying \cup RollingBack \cup Stopping,
     kind: {"none", "apply", "stop"}, requests: Seq(Setpoints), index: Nat,
     applied: SUBSET RegisteredEndpoints, ok: BOOLEAN,
     result: {"FAILURE", "PARTIAL", "SUCCESS"}, undone: Nat]

\* A stop asks for rest, of one endpoint or of all.
IsStop(requests) ==
    /\ \A i \in DOMAIN requests : requests[i].rpm = 0
    /\ Len(requests) = 1 \/ requests = everything

CallShape(c) ==
    /\ call[c].pc = "idle" => call[c] = Idle
    /\ call[c].pc # "idle" =>
         /\ manual[c].pc = "idle"
         /\ call[c].requests \in RequestSeqs /\ call[c].kind \in {"apply", "stop"}
         /\ call[c].kind = "stop" => IsStop(call[c].requests)
    /\ call[c].pc = "acquire" =>
         /\ call[c].index = 0 /\ call[c].undone = 0
         /\ call[c].applied = {} /\ call[c].result = "FAILURE"
    /\ Holds(c) => lock = c /\ call[c].index \in 1..Len(call[c].requests)

\* Up to the endpoint the call has come to, the wheels turn as asked.
ApplyWork(c) ==
    call[c].pc \in Applying =>
        /\ call[c].kind = "apply" /\ call[c].undone = 0 /\ call[c].result = "FAILURE"
        /\ call[c].applied = Before(c)
        /\ call[c].pc \in {"target", "start"} =>
             \A i \in 1..(call[c].index - 1) : Obeys(c, call[c].requests[i])
        /\ call[c].pc = "start" => Targets(c, request(c))

\* Up to the endpoint the rollback has come to, they are stopped again.
RollbackWork(c) ==
    call[c].pc \in RollingBack =>
        /\ call[c].kind = "apply" /\ call[c].result # "SUCCESS"
        /\ call[c].applied = Before(c) /\ call[c].undone + 1 < call[c].index
        /\ Stopped(c, request(c).endpoint)
        /\ \A i \in 1..call[c].undone : Stopped(c, asks(c, i))

StopWork(c) ==
    call[c].pc \in Stopping =>
        /\ call[c].kind = "stop" /\ call[c].undone = 0 /\ call[c].applied \subseteq Before(c)
        /\ \A i \in 1..(call[c].index - 1) : Stopped(c, asks(c, i))
        /\ \A e \in call[c].applied : Resting(c, e)

\* A zero that reached the drive is still its target.
ZeroHolds(c) ==
    call[c].pc \in {"halt", "undo_halt", "rollback_halt"} /\ missed[c].reached =>
        Aimed(c, stopping(c))

ReleaseWork(c) ==
    call[c].pc = "release" =>
        /\ call[c].undone <= call[c].index
        /\ call[c].result = "SUCCESS" =>
             \A i \in 1..Len(call[c].requests) : Obeys(c, call[c].requests[i])
        /\ call[c].kind = "stop" =>
             \A i \in 1..Len(call[c].requests) : Stopped(c, asks(c, i))
        /\ (/\ call[c].kind = "apply" /\ call[c].result # "SUCCESS"
            /\ request(c).endpoint \in Required) =>
             \A e \in call[c].applied \cup {request(c).endpoint} : Stopped(c, e)

CallWork(c) ==
    ApplyWork(c) /\ RollbackWork(c) /\ StopWork(c) /\ ZeroHolds(c) /\ ReleaseWork(c)

(***************************************************************************)
(* ... and around the coordinator.                                         *)
(***************************************************************************)

Begins == {"idle", "download"}
StopsWheels == {"zero", "halt", "note"}

ManualRecord ==
    [pc: {"idle", "target", "start", "zero", "halt", "note", "record", "answer", "download",
          "restart"},
     kind: {"none", "apply", "stop", "enable_one", "enable_all", "move", "update"},
     requests: Seq(Setpoints), index: Nat, ok: BOOLEAN, zeroed: BOOLEAN, stopped: BOOLEAN]

\* The commands that are about all wheels name them all.
NamesAll(requests) == \A e \in RegisteredEndpoints : \E i \in DOMAIN requests : requests[i].endpoint = e

ManualShape(o) ==
    /\ manual[o].pc \in {"target", "start"} \cup StopsWheels =>
         /\ manual[o].requests \in RequestSeqs
         /\ manual[o].kind \in {"enable_one", "enable_all", "move", "update"}
    /\ manual[o].index <= Len(manual[o].requests) + 1
    /\ manual[o].pc \in {"target", "start", "zero", "halt", "note"} =>
         manual[o].index \in 1..Len(manual[o].requests)
    /\ manual[o].pc = "record" /\ ~about_all(o) =>
         manual[o].index \in 1..Len(manual[o].requests)
    /\ manual[o].pc \notin {"idle", "download"} /\ about_all(o) /\ manual[o].kind # "update" =>
         NamesAll(manual[o].requests)
    /\ manual[o].pc \in {"download", "restart", "note"} => manual[o].kind = "update"
    /\ manual[o].kind = "update" => manual[o].pc \notin {"target", "start"}
    /\ manual[o].pc \in StopsWheels => (manual[o].kind # "update" <=> ~manual[o].ok)
    /\ manual[o].kind = "update" => manual[o].ok
    /\ manual[o].pc = "download" => manual[o].requests = <<>> /\ manual[o].index = 1 /\ manual[o].stopped

\* No wheel is started before all have their targets.
TargetWork(o) ==
    /\ manual[o].pc = "target" =>
         manual[o].ok /\ \A i \in 1..(manual[o].index - 1) : Targets(o, manual[o].requests[i])
    /\ manual[o].pc = "start" =>
         manual[o].ok /\ \A i \in DOMAIN manual[o].requests : Targets(o, manual[o].requests[i])

wheel(o, i) == manual[o].requests[i].endpoint

\* One wheel after the other is stopped; stopped says whether all answered.
StopWheelsWork(o) ==
    manual[o].pc \in StopsWheels =>
        /\ \A i \in 1..(manual[o].index - 1) :
             /\ Stopped(o, wheel(o, i))
             /\ manual[o].stopped => Resting(o, wheel(o, i))
        /\ manual[o].pc = "halt" /\ missed[o].reached => Aimed(o, asked(o).endpoint)
        /\ manual[o].pc = "note" => Resting(o, asked(o).endpoint)

DoneWork(o) ==
    manual[o].pc \in {"record", "answer", "restart"} =>
        /\ ~manual[o].ok => \A i \in DOMAIN manual[o].requests : Stopped(o, wheel(o, i))
        /\ manual[o].kind = "update" /\ manual[o].pc # "answer" =>
             \A i \in DOMAIN manual[o].requests : Resting(o, wheel(o, i))

ManualWork(o) == TargetWork(o) /\ StopWheelsWork(o) /\ DoneWork(o)

Scalars ==
    /\ drive \in [RegisteredEndpoints -> [target: Nat, started: BOOLEAN]]
    /\ lock \in Callers \cup {"nobody"} /\ faults \in 0..MaxFaults
    /\ lock # "nobody" => Holds(lock)
    /\ call \in [Callers -> CallRecord] /\ manual \in [Callers -> ManualRecord]
    /\ missed \in [Callers -> [reached: BOOLEAN, endpoints: SUBSET RegisteredEndpoints]]
    /\ touched \in [Callers -> SUBSET RegisteredEndpoints]
    /\ last_command \in [RegisteredEndpoints -> Nat]

CallerOK(c) == CallShape(c) /\ CallWork(c) /\ ManualShape(c) /\ ManualWork(c)

DriveInv == Scalars /\ \A c \in Callers : CallerOK(c)

(***************************************************************************)
(* Lemmas: the constants, and what a step leaves alone.                    *)
(***************************************************************************)

\* The registry is a sequence of endpoints, and a caller is not nobody.
LEMMA Registry ==
    /\ Len(Endpoints) \in Nat \ {0} /\ DOMAIN Endpoints = 1..Len(Endpoints)
    /\ \A i \in 1..Len(Endpoints) : Endpoints[i] \in RegisteredEndpoints
    /\ \A i, j \in 1..Len(Endpoints) : Endpoints[i] = Endpoints[j] => i = j
    /\ \A c \in Callers : c # "nobody"
  <1>1. Endpoints \in Seq(RegisteredEndpoints) /\ Endpoints # <<>>
    BY CoordinatorAssumption
  <1>2. Len(Endpoints) \in Nat /\ DOMAIN Endpoints = 1..Len(Endpoints)
    BY <1>1
  <1>3. Len(Endpoints) # 0
    BY <1>1
  <1> QED BY <1>1, <1>2, <1>3, CoordinatorAssumption

\* The stop of one endpoint is a request,
LEMMA StopOfType ==
    ASSUME NEW e \in RegisteredEndpoints
    PROVE  /\ StopOf(e) \in Setpoints /\ StopOf(e).endpoint = e /\ StopOf(e).rpm = 0
           /\ <<StopOf(e)>> \in RequestSeqs /\ IsStop(<<StopOf(e)>>)
  BY DEF StopOf, Setpoints, RequestSeqs, IsStop

\* and so is the stop of all.
LEMMA EverythingType ==
    /\ everything \in RequestSeqs /\ IsStop(everything) /\ NamesAll(everything)
    /\ Len(everything) = Len(Endpoints)
    /\ \A i \in 1..Len(Endpoints) : everything[i] = StopOf(Endpoints[i])
  <1>1. /\ \A i \in 1..Len(Endpoints) : everything[i] = StopOf(Endpoints[i])
        /\ DOMAIN everything = 1..Len(Endpoints)
    BY DEF everything
  <1>2. everything \in Seq(Setpoints) /\ Len(everything) = Len(Endpoints)
    <2>1. everything \in [1..Len(Endpoints) -> Setpoints]
      BY Registry, StopOfType DEF everything
    <2> QED BY <2>1, Registry
  <1>3. everything # <<>>
    BY <1>2, Registry
  <1>7. \A i \in 1..Len(Endpoints) :
            everything[i].endpoint = Endpoints[i] /\ everything[i].rpm = 0
    BY <1>1 DEF StopOf
  <1>4. \A i, j \in DOMAIN everything : everything[i].endpoint = everything[j].endpoint => i = j
    <2> SUFFICES ASSUME NEW i \in 1..Len(Endpoints), NEW j \in 1..Len(Endpoints),
                        everything[i].endpoint = everything[j].endpoint
                 PROVE  i = j
      BY <1>1
    <2>1. Endpoints[i] = Endpoints[j]
      BY <1>7
    <2> QED BY <2>1, Registry
  <1>5. IsStop(everything)
    BY <1>1, <1>7 DEF IsStop
  <1>6. NamesAll(everything)
    BY <1>1, <1>7 DEF NamesAll, RegisteredEndpoints
  <1> QED BY <1>1, <1>2, <1>3, <1>4, <1>5, <1>6 DEF RequestSeqs

\* What a sequence of requests holds.
LEMMA RequestsType ==
    ASSUME NEW r \in RequestSeqs
    PROVE  /\ Len(r) \in Nat \ {0} /\ DOMAIN r = 1..Len(r) /\ r \in Seq(Setpoints)
           /\ \A i \in 1..Len(r) : /\ r[i] \in Setpoints
                                   /\ r[i].endpoint \in RegisteredEndpoints /\ r[i].rpm \in Nat
           /\ \A i, j \in 1..Len(r) : r[i].endpoint = r[j].endpoint => i = j
  <1>1. r \in Seq(Setpoints) /\ r # <<>>
    BY DEF RequestSeqs
  <1>2. Len(r) \in Nat /\ DOMAIN r = 1..Len(r)
    BY <1>1
  <1>3. Len(r) # 0
    BY <1>1
  <1>4. \A i \in 1..Len(r) : r[i] \in Setpoints
    BY <1>1, <1>2
  <1> QED BY <1>1, <1>2, <1>3, <1>4 DEF RequestSeqs, Setpoints

\* A caller that has something to lose by what others write.
HasClaims(c) == Holds(c) \/ manual[c].pc \notin Begins

\* Others' writes are noticed: the lock or touched sees to it.
LEMMA TouchedByOthers ==
    ASSUME DriveInv, NEW c \in Callers, NEW zeroed, Touches(c, zeroed),
           manual[c].pc = "idle" => lock = c,
           NEW w \in Callers, w # c, HasClaims(w)
    PROVE  /\ touched[w] \subseteq touched'[w]
           /\ \A e \in RegisteredEndpoints : drive'[e] = drive[e] \/ e \in touched'[w]
  <1> DEFINE changed == {e \in RegisteredEndpoints : drive'[e] # drive[e]}
  <1>1. \/ manual[w].pc \notin Begins
        \/ call[w].pc # "idle" /\ manual[c].pc # "idle"
    BY DEF HasClaims, Holds, DriveInv, CallerOK, CallShape
  <1>2. touched'[w] = touched[w] \cup changed
    BY <1>1 DEF Touches, Begins
  <1> QED BY <1>2

\* The claims of a caller about a wheel survive a step that is noticed.
LEMMA ClaimsSurvive ==
    ASSUME NEW w \in Callers, missed'[w] = missed[w], touched[w] \subseteq touched'[w],
           NEW e \in RegisteredEndpoints, drive'[e] = drive[e] \/ e \in touched'[w]
    PROVE  /\ Resting(w, e) => Resting(w, e)'
           /\ Stopped(w, e) => Stopped(w, e)'
           /\ Aimed(w, e) => Aimed(w, e)'
           /\ \A r \in Setpoints : r.endpoint = e => /\ Obeys(w, r) => Obeys(w, r)'
                                                     /\ Targets(w, r) => Targets(w, r)'
  BY DEF Resting, Stopped, Aimed, Obeys, Targets, Speed, StopOf
\* A caller that holds the lock has come to one of its requests.
LEMMA HolderFacts ==
    ASSUME DriveInv, NEW c \in Callers, Holds(c)
    PROVE  /\ lock = c /\ manual[c].pc = "idle" /\ call[c] \in CallRecord
           /\ call[c].requests \in RequestSeqs /\ call[c].kind \in {"apply", "stop"}
           /\ call[c].kind = "stop" => IsStop(call[c].requests)
           /\ Len(call[c].requests) \in Nat
           /\ call[c].index \in 1..Len(call[c].requests) /\ call[c].index \in Nat
           /\ \A i \in 1..Len(call[c].requests) : /\ asks(c, i) \in RegisteredEndpoints
                                                  /\ call[c].requests[i] \in Setpoints
           /\ \A i, j \in 1..Len(call[c].requests) : asks(c, i) = asks(c, j) => i = j
           /\ request(c) = call[c].requests[call[c].index] /\ request(c) \in Setpoints
           /\ request(c).endpoint \in RegisteredEndpoints
           /\ call[c].applied \subseteq RegisteredEndpoints /\ call[c].undone \in Nat
           /\ CallWork(c)
  <1>1. call[c] \in CallRecord /\ CallShape(c) /\ CallWork(c)
    BY DEF DriveInv, Scalars, CallerOK
  <1>2. /\ lock = c /\ manual[c].pc = "idle"
        /\ call[c].requests \in RequestSeqs /\ call[c].kind \in {"apply", "stop"}
        /\ call[c].kind = "stop" => IsStop(call[c].requests)
        /\ call[c].index \in 1..Len(call[c].requests)
    BY <1>1 DEF CallShape, Holds
  <1>3. /\ Len(call[c].requests) \in Nat
        /\ \A i \in 1..Len(call[c].requests) : /\ asks(c, i) \in RegisteredEndpoints
                                               /\ call[c].requests[i] \in Setpoints
        /\ \A i, j \in 1..Len(call[c].requests) : asks(c, i) = asks(c, j) => i = j
    BY <1>2, RequestsType DEF asks
  <1> QED BY <1>1, <1>2, <1>3 DEF request, CallRecord, asks

\* A caller around the coordinator has come to one of its requests, too.
LEMMA WriterFacts ==
    ASSUME DriveInv, NEW o \in Callers, manual[o].pc \in {"target", "start"} \cup StopsWheels
    PROVE  /\ call[o].pc = "idle" /\ manual[o] \in ManualRecord
           /\ manual[o].requests \in RequestSeqs
           /\ DOMAIN manual[o].requests = 1..Len(manual[o].requests)
           /\ Len(manual[o].requests) \in Nat
           /\ manual[o].index \in 1..Len(manual[o].requests) /\ manual[o].index \in Nat
           /\ \A i \in 1..Len(manual[o].requests) : /\ wheel(o, i) \in RegisteredEndpoints
                                                    /\ manual[o].requests[i] \in Setpoints
           /\ \A i, j \in 1..Len(manual[o].requests) : wheel(o, i) = wheel(o, j) => i = j
           /\ asked(o) = manual[o].requests[manual[o].index] /\ asked(o) \in Setpoints
           /\ asked(o).endpoint \in RegisteredEndpoints
           /\ manual[o].kind \in {"enable_one", "enable_all", "move", "update"}
           /\ ManualWork(o) /\ ManualShape(o)
  <1>1. manual[o] \in ManualRecord /\ CallShape(o) /\ ManualShape(o) /\ ManualWork(o)
    BY DEF DriveInv, Scalars, CallerOK
  <1>2. /\ manual[o].requests \in RequestSeqs /\ call[o].pc = "idle"
        /\ manual[o].kind \in {"enable_one", "enable_all", "move", "update"}
        /\ manual[o].index \in 1..Len(manual[o].requests)
    BY <1>1 DEF ManualShape, CallShape, StopsWheels
  <1>3. /\ Len(manual[o].requests) \in Nat
        /\ DOMAIN manual[o].requests = 1..Len(manual[o].requests)
        /\ \A i \in 1..Len(manual[o].requests) : /\ wheel(o, i) \in RegisteredEndpoints
                                                 /\ manual[o].requests[i] \in Setpoints
        /\ \A i, j \in 1..Len(manual[o].requests) : wheel(o, i) = wheel(o, j) => i = j
    BY <1>2, RequestsType DEF wheel
  <1>4. asked(o) = manual[o].requests[manual[o].index] /\ wheel(o, manual[o].index) = asked(o).endpoint
    BY DEF asked, wheel
  <1>5. manual[o].index \in Nat
    BY <1>1 DEF ManualRecord
  <1> QED BY <1>1, <1>2, <1>3, <1>4, <1>5

\* A caller whose state a step leaves alone keeps what is known of it, if it
\* has no claims or the step's writes are noticed.
LEMMA CallerSurvives ==
    ASSUME DriveInv, NEW w \in Callers,
           call'[w] = call[w], manual'[w] = manual[w], missed'[w] = missed[w],
           Holds(w) => lock' = w,
           HasClaims(w) =>
               /\ touched[w] \subseteq touched'[w]
               /\ \A e \in RegisteredEndpoints : drive'[e] = drive[e] \/ e \in touched'[w]
    PROVE  CallerOK(w)'
  <1>1. CallerOK(w) /\ call[w] \in CallRecord /\ manual[w] \in ManualRecord
    BY DEF DriveInv, Scalars
  <1>2. /\ Holds(w)' <=> Holds(w)
        /\ request(w)' = request(w) /\ stopping(w)' = stopping(w) /\ Before(w)' = Before(w)
        /\ \A i : asks(w, i)' = asks(w, i)
        /\ \A i : wheel(w, i)' = wheel(w, i)
        /\ asked(w)' = asked(w)
        /\ about_all(w)' <=> about_all(w)
    BY DEF Holds, request, stopping, Before, asks, wheel, asked, about_all
  <1>3. CallShape(w)'
    BY <1>1, <1>2 DEF CallerOK, CallShape
  <1>4. ManualShape(w)'
    BY <1>1, <1>2 DEF CallerOK, ManualShape
  <1>5. ASSUME HasClaims(w), NEW e \in RegisteredEndpoints
        PROVE  /\ Resting(w, e) => Resting(w, e)'
               /\ Stopped(w, e) => Stopped(w, e)'
               /\ Aimed(w, e) => Aimed(w, e)'
               /\ \A r \in Setpoints : r.endpoint = e => /\ Obeys(w, r) => Obeys(w, r)'
                                                         /\ Targets(w, r) => Targets(w, r)'
    BY <1>5, ClaimsSurvive
  <1>6. \A r \in Setpoints : r.endpoint \in RegisteredEndpoints
    BY DEF Setpoints
  <1>7. CallWork(w)'
    <2>1. CASE Holds(w)
      <3>1. HasClaims(w)
        BY <2>1 DEF HasClaims
      <3>2. ApplyWork(w) /\ RollbackWork(w) /\ StopWork(w) /\ ZeroHolds(w) /\ ReleaseWork(w)
        BY <1>1 DEF CallerOK, CallWork
      <3>3. /\ call[w].index \in Nat /\ Len(call[w].requests) \in Nat
            /\ call[w].index <= Len(call[w].requests)
            /\ request(w) \in Setpoints /\ request(w).endpoint \in RegisteredEndpoints
            /\ call[w].applied \subseteq RegisteredEndpoints /\ call[w].undone \in Nat
            /\ \A i \in 1..Len(call[w].requests) : /\ asks(w, i) \in RegisteredEndpoints
                                                   /\ call[w].requests[i] \in Setpoints
        BY <2>1, HolderFacts
      <3>4. \A i \in 1..Len(call[w].requests) :
                Obeys(w, call[w].requests[i]) => Obeys(w, call[w].requests[i])'
        BY <1>2, <1>5, <1>6, <3>1, <3>3 DEF Obeys, Speed
      <3>5. \A i \in 1..Len(call[w].requests) : Stopped(w, asks(w, i)) => Stopped(w, asks(w, i))'
        BY <1>2, <1>5, <3>1, <3>3 DEF Stopped, Resting, Speed
      <3>6. /\ Targets(w, request(w)) => Targets(w, request(w))'
            /\ Stopped(w, request(w).endpoint) => Stopped(w, request(w).endpoint)'
        <4>1. Targets(w, request(w)) => Targets(w, request(w))'
          BY <1>2, <1>5, <3>1, <3>3 DEF Targets
        <4>2. Stopped(w, request(w).endpoint) => Stopped(w, request(w).endpoint)'
          BY <1>2, <1>5, <3>1, <3>3 DEF Stopped, Resting, Speed
        <4> QED BY <4>1, <4>2
      <3>7. \A e \in RegisteredEndpoints : /\ Resting(w, e) => Resting(w, e)'
                                           /\ Stopped(w, e) => Stopped(w, e)'
        BY <1>5, <3>1
      <3>8. ApplyWork(w)'
        BY <1>2, <3>2, <3>3, <3>4, <3>6 DEF ApplyWork, Targets, Obeys, Speed
      <3>9. RollbackWork(w)'
        BY <1>2, <3>2, <3>3, <3>5, <3>6 DEF RollbackWork, Stopped, Resting, Speed
      <3>10. StopWork(w)'
        BY <1>2, <3>2, <3>3, <3>5, <3>7 DEF StopWork
      <3>11. ZeroHolds(w)'
        <4> SUFFICES ASSUME call[w].pc \in {"halt", "undo_halt", "rollback_halt"},
                            missed[w].reached
                     PROVE  Aimed(w, stopping(w))'
          BY DEF ZeroHolds
        <4>1. stopping(w) \in RegisteredEndpoints
          <5>1. call[w].pc = "rollback_halt" => call[w].undone + 1 \in 1..Len(call[w].requests)
            BY <3>2, <3>3 DEF RollbackWork, RollingBack
          <5> QED BY <3>3, <5>1 DEF stopping, asks
        <4>2. Aimed(w, stopping(w))
          BY <3>2 DEF ZeroHolds
        <4> QED BY <1>2, <1>5, <3>1, <4>1, <4>2 DEF Aimed, Targets, StopOf
      <3>12. ReleaseWork(w)'
        BY <1>2, <3>2, <3>3, <3>4, <3>5, <3>6, <3>7
           DEF ReleaseWork, Stopped, Resting, Obeys, Speed
      <3> QED BY <3>8, <3>9, <3>10, <3>11, <3>12 DEF CallWork
    <2>2. CASE ~Holds(w)
      BY <1>2, <2>2
         DEF Holds, CallWork, ApplyWork, RollbackWork, StopWork, ZeroHolds, ReleaseWork,
             Applying, RollingBack, Stopping
    <2> QED BY <2>1, <2>2
  <1>8. ManualWork(w)'
    <2>1. CASE manual[w].pc \notin Begins
      <3>1. HasClaims(w)
        BY <2>1 DEF HasClaims
      <3>2. ManualWork(w) /\ ManualShape(w)
        BY <1>1 DEF CallerOK
      <3>3. /\ \A i \in DOMAIN manual[w].requests : /\ wheel(w, i) \in RegisteredEndpoints
                                                    /\ manual[w].requests[i] \in Setpoints
            /\ DOMAIN manual[w].requests = 1..Len(manual[w].requests)
            /\ Len(manual[w].requests) \in Nat /\ manual[w].index \in Nat
        <4>1. manual[w].requests \in Seq(Setpoints) /\ manual[w].index \in Nat
          BY <1>1 DEF ManualRecord
        <4>2. /\ DOMAIN manual[w].requests = 1..Len(manual[w].requests)
              /\ Len(manual[w].requests) \in Nat
          BY <4>1
        <4>3. \A i \in DOMAIN manual[w].requests : manual[w].requests[i] \in Setpoints
          BY <4>1, <4>2
        <4> QED BY <1>6, <4>1, <4>2, <4>3 DEF wheel
      <3>4. \A i \in DOMAIN manual[w].requests :
                Targets(w, manual[w].requests[i]) => Targets(w, manual[w].requests[i])'
        BY <1>2, <1>5, <1>6, <3>1, <3>3 DEF Targets
      <3>5. \A i \in DOMAIN manual[w].requests :
                /\ Stopped(w, wheel(w, i)) => Stopped(w, wheel(w, i))'
                /\ Resting(w, wheel(w, i)) => Resting(w, wheel(w, i))'
        BY <1>2, <1>5, <3>1, <3>3 DEF Stopped, Resting, Speed
      <3>6. TargetWork(w)'
        <4> SUFFICES ASSUME manual[w].pc \in {"target", "start"}
                     PROVE  TargetWork(w)'
          BY DEF TargetWork
        <4>1. TargetWork(w) /\ manual[w].index \in 1..Len(manual[w].requests)
          BY <3>2, WriterFacts DEF ManualWork
        <4>2. \A i \in 1..(manual[w].index - 1) : i \in DOMAIN manual[w].requests
          BY <3>3, <4>1
        <4> QED BY <3>3, <3>4, <4>1, <4>2 DEF TargetWork, Targets
      <3>7. StopWheelsWork(w)'
        <4> SUFFICES ASSUME manual[w].pc \in StopsWheels
                     PROVE  StopWheelsWork(w)'
          BY DEF StopWheelsWork
        <4>1. asked(w).endpoint \in RegisteredEndpoints /\ manual[w].index \in 1..Len(manual[w].requests)
          BY WriterFacts
        <4>2. /\ Resting(w, asked(w).endpoint) => Resting(w, asked(w).endpoint)'
              /\ Aimed(w, asked(w).endpoint) => Aimed(w, asked(w).endpoint)'
          BY <1>2, <1>5, <3>1, <4>1 DEF Resting, Speed, Aimed, Targets, StopOf
        <4> QED BY <1>2, <3>2, <3>3, <3>5, <4>1, <4>2
                   DEF ManualWork, StopWheelsWork, Stopped, Resting, Speed, Aimed, Targets, StopOf
      <3>8. DoneWork(w)'
        BY <1>2, <3>2, <3>3, <3>5 DEF ManualWork, DoneWork, Stopped, Resting, Speed
      <3> QED BY <3>6, <3>7, <3>8 DEF ManualWork
    <2>2. CASE manual[w].pc \in Begins
      BY <2>2 DEF Begins, ManualWork, TargetWork, StopWheelsWork, StopsWheels, DoneWork
    <2> QED BY <2>1, <2>2
  <1> QED BY <1>3, <1>4, <1>7, <1>8 DEF CallerOK

\* The steps of one caller leave the others what is known of them.
LEMMA OthersSurvive ==
    ASSUME DriveInv, NEW c \in Callers,
           \A w \in Callers \ {c} :
               call'[w] = call[w] /\ manual'[w] = manual[w] /\ missed'[w] = missed[w],
           \/ lock' = lock
           \/ lock = "nobody"
           \/ lock = c,
           \/ drive' = drive /\ \A w \in Callers \ {c} : touched'[w] = touched[w]
           \/ /\ manual[c].pc = "idle" => lock = c
              /\ \E zeroed : Touches(c, zeroed)
    PROVE  \A w \in Callers \ {c} : CallerOK(w)'
  <1> SUFFICES ASSUME NEW w \in Callers, w # c
               PROVE  CallerOK(w)'
    OBVIOUS
  <1>1. call'[w] = call[w] /\ manual'[w] = manual[w] /\ missed'[w] = missed[w]
    OBVIOUS
  <1>2. Holds(w) => lock' = w
    BY Registry DEF DriveInv, CallerOK, CallShape
  <1>3. HasClaims(w) =>
            /\ touched[w] \subseteq touched'[w]
            /\ \A e \in RegisteredEndpoints : drive'[e] = drive[e] \/ e \in touched'[w]
    <2>1. CASE drive' = drive /\ \A x \in Callers \ {c} : touched'[x] = touched[x]
      BY <2>1
    <2>2. CASE /\ manual[c].pc = "idle" => lock = c
               /\ \E zeroed : Touches(c, zeroed)
      BY <2>2, TouchedByOthers
    <2> QED BY <2>1, <2>2
  <1> QED BY <1>1, <1>2, <1>3, CallerSurvives

\* What a register write changes.
LEMMA WriteFacts ==
    ASSUME DriveInv, NEW c \in Callers, NEW e \in RegisteredEndpoints,
           NEW registers \in [target: Nat, started: BOOLEAN], NEW outcome \in Outcome,
           NEW zeroed, Write(e, registers, outcome), Touches(c, zeroed)
    PROVE  /\ drive' \in [RegisteredEndpoints -> [target: Nat, started: BOOLEAN]]
           /\ faults' \in 0..MaxFaults
           /\ touched' \in [Callers -> SUBSET RegisteredEndpoints]
           /\ \A x \in RegisteredEndpoints : x \in touched'[c] <=> x \in touched[c] \ zeroed
           /\ \A x \in RegisteredEndpoints : x # e => drive'[x] = drive[x]
           /\ drive'[e] = IF outcome = "lost" THEN drive[e] ELSE registers
  <1>1. drive \in [RegisteredEndpoints -> [target: Nat, started: BOOLEAN]]
        /\ faults \in 0..MaxFaults /\ touched \in [Callers -> SUBSET RegisteredEndpoints]
    BY DEF DriveInv, Scalars
  <1>2. faults' \in 0..MaxFaults
    BY <1>1, CoordinatorAssumption DEF Write
  <1>3. /\ touched' \in [Callers -> SUBSET RegisteredEndpoints]
        /\ \A x \in RegisteredEndpoints : x \in touched'[c] <=> x \in touched[c] \ zeroed
    BY <1>1 DEF Touches
  <1> QED BY <1>1, <1>2, <1>3 DEF Write

\* The claims about a wheel that a caller does not write.
LEMMA OwnClaims ==
    ASSUME NEW c \in Callers, NEW e \in RegisteredEndpoints, drive'[e] = drive[e],
           e \in touched[c] => e \in touched'[c],
           e \in missed[c].endpoints => e \in missed'[c].endpoints
    PROVE  /\ Resting(c, e) => Resting(c, e)'
           /\ Stopped(c, e) => Stopped(c, e)'
           /\ \A r \in Setpoints : r.endpoint = e => /\ Obeys(c, r) => Obeys(c, r)'
                                                     /\ Targets(c, r) => Targets(c, r)'
  BY DEF Resting, Stopped, Obeys, Targets, Speed

\* A caller that does nothing around the coordinator still does not,
LEMMA ManualIdle ==
    ASSUME DriveInv, NEW c \in Callers, manual'[c] = manual[c], manual[c].pc = "idle"
    PROVE  ManualShape(c)' /\ ManualWork(c)'
  <1>1. ManualShape(c)
    BY DEF DriveInv, CallerOK
  <1>2. ManualShape(c)'
    BY <1>1 DEF ManualShape, about_all
  <1>3. ManualWork(c)'
    BY DEF ManualWork, TargetWork, StopWheelsWork, DoneWork, StopsWheels
  <1> QED BY <1>2, <1>3

\* and one without a call has none.
LEMMA CallIdle ==
    ASSUME DriveInv, NEW c \in Callers, call'[c] = Idle
    PROVE  CallShape(c)' /\ CallWork(c)'
  BY DEF Idle, CallShape, CallWork, Holds, ApplyWork, RollbackWork, StopWork, ZeroHolds,
         ReleaseWork, Applying, RollingBack, Stopping

\* The invariant is kept caller by caller.
LEMMA Assembled ==
    ASSUME NEW c \in Callers, Scalars', CallShape(c)', CallWork(c)', ManualShape(c)',
           ManualWork(c)', \A w \in Callers \ {c} : CallerOK(w)'
    PROVE  DriveInv'
  BY DEF DriveInv, CallerOK

\* A coordinated call begins.
LEMMA BeginStep ==
    ASSUME DriveInv, NEW c \in Callers, NEW kind \in {"apply", "stop"}, NEW requests \in RequestSeqs,
           kind = "stop" => IsStop(requests), Begin(c, kind, requests), manual[c].pc = "idle",
           UNCHANGED <<last_command, manual, touched>>
    PROVE  DriveInv'
  <1>1. /\ call \in [Callers -> CallRecord] /\ requests \in Seq(Setpoints)
        /\ lock # "nobody" => lock \in Callers /\ Holds(lock)
    BY RequestsType DEF DriveInv, Scalars
  <1>2. call'[c] = [Idle EXCEPT !.pc = "acquire", !.kind = kind, !.requests = requests]
    BY <1>1 DEF Begin
  <1>3. call'[c] = [pc |-> "acquire", kind |-> kind, requests |-> requests, index |-> 0,
                    applied |-> {}, ok |-> TRUE, result |-> "FAILURE", undone |-> 0]
    BY <1>2 DEF Idle
  <1>4. call'[c] \in CallRecord
    BY <1>1, <1>3 DEF CallRecord
  <1>5. call' \in [Callers -> CallRecord]
    BY <1>1, <1>4 DEF Begin
  <1>6. \A w \in Callers \ {c} : call'[w] = call[w]
    BY <1>1 DEF Begin
  <1>7. lock # "nobody" => Holds(lock)'
    BY <1>1, <1>6 DEF Begin, Holds
  <1>8. Scalars'
    BY <1>5, <1>7 DEF DriveInv, Scalars, Begin
  <1>9. CallShape(c)'
    BY <1>3 DEF CallShape, Holds
  <1>10. CallWork(c)'
    BY <1>3 DEF CallWork, ApplyWork, RollbackWork, StopWork, ZeroHolds,
                ReleaseWork, Applying, RollingBack, Stopping
  <1>11. ManualShape(c)' /\ ManualWork(c)'
    BY ManualIdle
  <1>12. \A w \in Callers \ {c} : CallerOK(w)'
    BY <1>6, OthersSurvive DEF Begin
  <1> QED BY <1>8, <1>9, <1>10, <1>11, <1>12, Assembled

\* A register write of a coordinated call: what remains is to show that the
\* call knows what it claims.
LEMMA HolderStep ==
    ASSUME DriveInv, NEW c \in Callers, Holds(c), NEW e \in RegisteredEndpoints,
           NEW registers \in [target: Nat, started: BOOLEAN], NEW outcome \in Outcome,
           NEW zeroed, Write(e, registers, outcome), Touches(c, zeroed),
           UNCHANGED <<lock, last_command, manual>>,
           NEW next \in CallRecord, call' = [call EXCEPT ![c] = next],
           next.pc \notin {"idle", "acquire"},
           next.requests = call[c].requests, next.kind = call[c].kind,
           next.index \in 1..Len(next.requests),
           NEW hist \in [reached: BOOLEAN, endpoints: SUBSET RegisteredEndpoints],
           missed' = [missed EXCEPT ![c] = hist],
           CallWork(c)'
    PROVE  DriveInv'
  <1>1. /\ call \in [Callers -> CallRecord]
        /\ missed \in [Callers -> [reached: BOOLEAN, endpoints: SUBSET RegisteredEndpoints]]
        /\ lock = c /\ manual[c].pc = "idle" /\ CallShape(c)
        /\ manual \in [Callers -> ManualRecord]
        /\ last_command \in [RegisteredEndpoints -> Nat] /\ lock \in Callers \cup {"nobody"}
    BY HolderFacts DEF DriveInv, Scalars, CallerOK
  <1>2. call'[c] = next /\ call' \in [Callers -> CallRecord]
    BY <1>1
  <1>3. \A w \in Callers \ {c} : call'[w] = call[w] /\ missed'[w] = missed[w]
    BY <1>1
  <1>4. /\ drive' \in [RegisteredEndpoints -> [target: Nat, started: BOOLEAN]]
        /\ faults' \in 0..MaxFaults /\ touched' \in [Callers -> SUBSET RegisteredEndpoints]
    BY WriteFacts
  <1>5. missed' \in [Callers -> [reached: BOOLEAN, endpoints: SUBSET RegisteredEndpoints]]
    BY <1>1
  <1>6. Holds(lock)'
    BY <1>1, <1>2 DEF Holds
  <1>7. Scalars'
    BY <1>1, <1>2, <1>4, <1>5, <1>6 DEF Scalars
  <1>8. CallShape(c)'
    BY <1>1, <1>2 DEF CallShape, Holds
  <1>9. ManualShape(c)' /\ ManualWork(c)'
    BY <1>1, ManualIdle
  <1>10. \A w \in Callers \ {c} : CallerOK(w)'
    BY <1>1, <1>3, OthersSurvive
  <1> QED BY <1>7, <1>8, <1>9, <1>10, Assembled

\* A call takes the lock.
LEMMA AcquireStep ==
    ASSUME DriveInv, NEW c \in Callers, Acquire(c), Touches(c, {}),
           UNCHANGED <<last_command, manual>>
    PROVE  DriveInv'
  <1>1. /\ call \in [Callers -> CallRecord] /\ CallShape(c) /\ call[c] \in CallRecord
        /\ touched \in [Callers -> SUBSET RegisteredEndpoints]
        /\ call[c].pc = "acquire" /\ lock = "nobody" /\ lock' = c
    BY DEF DriveInv, Scalars, CallerOK, Acquire, available
  <1>2. /\ manual[c].pc = "idle" /\ call[c].requests \in RequestSeqs
        /\ call[c].kind \in {"apply", "stop"} /\ call[c].index = 0 /\ call[c].undone = 0
        /\ call[c].applied = {} /\ call[c].result = "FAILURE"
        /\ call[c].kind = "stop" => IsStop(call[c].requests)
    BY <1>1 DEF CallShape
  <1>3. /\ call'[c] = [call[c] EXCEPT !.pc = first_write(call[c].kind), !.index = 1]
        /\ \A w \in Callers \ {c} : call'[w] = call[w]
    BY <1>1 DEF Acquire
  <1>4. /\ call'[c].pc = first_write(call[c].kind) /\ call'[c].index = 1
        /\ call'[c].requests = call[c].requests /\ call'[c].kind = call[c].kind
        /\ call'[c].undone = 0 /\ call'[c].applied = {} /\ call'[c].result = "FAILURE"
    BY <1>1, <1>2, <1>3 DEF CallRecord
  <1>5. first_write(call[c].kind) = IF call[c].kind = "apply" THEN "target" ELSE "zero"
    BY DEF first_write
  <1>6. call'[c] \in CallRecord
    <2>1. first_write(call[c].kind) \in
            {"idle", "acquire", "release"} \cup Applying \cup RollingBack \cup Stopping
      BY <1>5 DEF Applying, Stopping
    <2>2. ASSUME NEW r \in CallRecord, NEW q \in
            {"idle", "acquire", "release"} \cup Applying \cup RollingBack \cup Stopping
          PROVE  [r EXCEPT !.pc = q, !.index = 1] \in CallRecord
      BY DEF CallRecord
    <2>3. [call[c] EXCEPT !.pc = first_write(call[c].kind), !.index = 1] \in CallRecord
      BY <1>1, <2>1, <2>2, Zenon
    <2> QED BY <1>3, <2>3
  <1>7. call' \in [Callers -> CallRecord]
    BY <1>1, <1>6 DEF Acquire
  <1>8. Len(call[c].requests) \in Nat \ {0}
    BY <1>2, RequestsType
  <1>9. CallShape(c)'
    BY <1>1, <1>2, <1>4, <1>5, <1>8 DEF CallShape, Holds
  <1>10. Before(c)' = {}
    BY <1>4 DEF Before
  <1>11. CallWork(c)'
    BY <1>2, <1>4, <1>5, <1>10
       DEF CallWork, ApplyWork, RollbackWork, StopWork, ZeroHolds, ReleaseWork, Applying,
           RollingBack, Stopping
  <1>12. drive' = drive /\ touched' = touched
    BY <1>1 DEF Acquire, Touches
  <1>13. Holds(c)'
    BY <1>4, <1>5 DEF Holds
  <1>14. Scalars'
    BY <1>1, <1>7, <1>12, <1>13 DEF DriveInv, Scalars, Acquire
  <1>15. ManualShape(c)' /\ ManualWork(c)'
    BY <1>2, ManualIdle
  <1>16. \A w \in Callers \ {c} : CallerOK(w)'
    BY <1>1, <1>3, <1>12, OthersSurvive DEF Acquire
  <1> QED BY <1>9, <1>11, <1>14, <1>15, <1>16, Assembled

\* It has waited for the lock too long.
LEMMA TimeoutStep ==
    ASSUME DriveInv, NEW c \in Callers, AcquireTimesOut(c), Afresh(c),
           UNCHANGED <<last_command, manual>>
    PROVE  DriveInv'
  <1>1. /\ call \in [Callers -> CallRecord] /\ CallShape(c) /\ call[c].pc = "acquire"
        /\ touched \in [Callers -> SUBSET RegisteredEndpoints]
        /\ lock # "nobody" => Holds(lock)
    BY DEF DriveInv, Scalars, CallerOK, AcquireTimesOut
  <1>2. manual[c].pc = "idle"
    BY <1>1 DEF CallShape
  <1>3. call'[c] = Idle /\ \A w \in Callers \ {c} : call'[w] = call[w]
    BY <1>1 DEF AcquireTimesOut
  <1>4. Idle \in CallRecord
    <2>1. <<>> \in Seq(Setpoints)
      OBVIOUS
    <2> QED BY <2>1 DEF Idle, CallRecord
  <1>5. call' \in [Callers -> CallRecord]
    BY <1>1, <1>4 DEF AcquireTimesOut
  <1>6. lock # "nobody" => Holds(lock)'
    <2>1. ~Holds(c)
      BY <1>1 DEF Holds
    <2>2. lock \in Callers \cup {"nobody"} /\ lock' = lock
      BY DEF DriveInv, Scalars, AcquireTimesOut
    <2> QED BY <1>1, <1>3, <2>1, <2>2 DEF Holds
  <1>7. /\ touched' \in [Callers -> SUBSET RegisteredEndpoints]
        /\ \A w \in Callers \ {c} : touched'[w] = touched[w]
    BY <1>1 DEF Afresh
  <1>8. Scalars'
    BY <1>1, <1>5, <1>6, <1>7 DEF DriveInv, Scalars, AcquireTimesOut
  <1>9. \A w \in Callers \ {c} : CallerOK(w)'
    BY <1>3, <1>7, OthersSurvive DEF AcquireTimesOut
  <1> QED BY <1>2, <1>3, <1>8, <1>9, CallIdle, ManualIdle, Assembled

\* A call writes the target of the endpoint it has come to.
LEMMA WriteTargetStep ==
    ASSUME DriveInv, NEW c \in Callers, WriteTarget(c), Touches(c, {}),
           UNCHANGED <<last_command, manual>>
    PROVE  DriveInv'
  <1>1. call[c].pc = "target" /\ Holds(c)
    BY DEF WriteTarget, Holds
  <1>2. /\ call[c] \in CallRecord /\ call[c].requests \in RequestSeqs
        /\ request(c) \in Setpoints /\ request(c).endpoint \in RegisteredEndpoints
        /\ request(c).rpm \in Nat
        /\ call[c].index \in 1..Len(call[c].requests)
        /\ request(c) = call[c].requests[call[c].index]
        /\ \A i, j \in 1..Len(call[c].requests) : asks(c, i) = asks(c, j) => i = j
        /\ \A i \in 1..Len(call[c].requests) : /\ asks(c, i) \in RegisteredEndpoints
                                               /\ call[c].requests[i] \in Setpoints
        /\ ApplyWork(c)
    BY <1>1, HolderFacts DEF CallWork, Setpoints
  <1>3. /\ drive \in [RegisteredEndpoints -> [target: Nat, started: BOOLEAN]]
        /\ missed \in [Callers -> [reached: BOOLEAN, endpoints: SUBSET RegisteredEndpoints]]
        /\ call \in [Callers -> CallRecord]
    BY DEF DriveInv, Scalars
  <1>4. PICK e \in RegisteredEndpoints : e = request(c).endpoint
    BY <1>2
  <1>5. PICK registers \in [target: Nat, started: BOOLEAN] :
            registers = [drive[e] EXCEPT !.target = request(c).rpm]
    BY <1>2, <1>3
  <1>6. PICK outcome \in Outcome :
          /\ Write(e, registers, outcome)
          /\ call' = [call EXCEPT ![c].pc = IF outcome = "acknowledged"
                                            THEN "start" ELSE "undo_zero"]
    BY <1>4, <1>5 DEF WriteTarget, Write
  <1>7. PICK next \in CallRecord :
          next = [call[c] EXCEPT !.pc = IF outcome = "acknowledged" THEN "start" ELSE "undo_zero"]
    BY <1>2 DEF CallRecord, Applying
  <1>8. /\ next.pc = IF outcome = "acknowledged" THEN "start" ELSE "undo_zero"
        /\ next.requests = call[c].requests /\ next.kind = call[c].kind
        /\ next.index = call[c].index /\ next.applied = call[c].applied
        /\ next.undone = call[c].undone /\ next.result = call[c].result
    BY <1>2, <1>7 DEF CallRecord
  <1>9. call' = [call EXCEPT ![c] = next] /\ call'[c] = next
    BY <1>3, <1>6, <1>7
  <1>10. /\ \A x \in RegisteredEndpoints : x \in touched'[c] <=> x \in touched[c]
         /\ \A x \in RegisteredEndpoints : x # e => drive'[x] = drive[x]
         /\ drive'[e] = IF outcome = "lost" THEN drive[e] ELSE registers
    BY <1>6, WriteFacts
  <1>11. missed' = missed /\ lock' = lock
    BY DEF WriteTarget
  <1>12. CallWork(c)'
    <2>1. ASSUME NEW i \in 1..(call[c].index - 1)
          PROVE  Obeys(c, call[c].requests[i])'
      <3>1. i \in 1..Len(call[c].requests) /\ asks(c, i) # e
        BY <1>2, <1>4 DEF asks
      <3>2. Obeys(c, call[c].requests[i])
        BY <1>1, <1>2 DEF ApplyWork, Applying
      <3>3. /\ call'[c].requests[i] = call[c].requests[i]
            /\ call[c].requests[i] \in Setpoints
            /\ call[c].requests[i].endpoint \in RegisteredEndpoints
            /\ drive'[call[c].requests[i].endpoint] = drive[call[c].requests[i].endpoint]
        BY <1>2, <1>8, <1>9, <1>10, <3>1 DEF asks
      <3> QED BY <1>10, <3>2, <3>3 DEF Obeys, Speed
    <2>2. request(c)' = request(c) /\ Before(c)' = Before(c)
      BY <1>8, <1>9 DEF request, Before, asks
    <2>3. outcome = "acknowledged" => Targets(c, request(c))'
      <3>1. outcome = "acknowledged" => drive'[e] = registers
        BY <1>10
      <3>2. registers.target = request(c).rpm
        BY <1>2, <1>3, <1>5
      <3> QED BY <1>4, <2>2, <3>1, <3>2 DEF Targets
    <2>4. ApplyWork(c)'
      BY <1>1, <1>2, <1>8, <1>9, <2>1, <2>2, <2>3 DEF ApplyWork, Applying
    <2> QED BY <1>8, <1>9, <2>4
            DEF CallWork, RollbackWork, StopWork, ZeroHolds, ReleaseWork, RollingBack, Stopping
  <1>13. /\ missed[c] \in [reached: BOOLEAN, endpoints: SUBSET RegisteredEndpoints]
         /\ missed' = [missed EXCEPT ![c] = missed[c]]
    BY <1>3, <1>11
  <1>14. /\ next.pc \notin {"idle", "acquire"}
         /\ next.index \in 1..Len(next.requests)
    BY <1>2, <1>8
  <1> QED BY <1>1, <1>6, <1>8, <1>9, <1>11, <1>12, <1>13, <1>14, HolderStep

\* What a call knows of the wheels other than the one it writes.
LEMMA HolderClaims ==
    ASSUME DriveInv, NEW c \in Callers, Holds(c), NEW e \in RegisteredEndpoints,
           call'[c].requests = call[c].requests,
           \A x \in RegisteredEndpoints : x # e =>
               /\ drive'[x] = drive[x]
               /\ x \in touched[c] => x \in touched'[c]
               /\ x \in missed[c].endpoints => x \in missed'[c].endpoints
    PROVE  /\ \A i \in 1..Len(call[c].requests) : asks(c, i) # e =>
                /\ Obeys(c, call[c].requests[i]) => Obeys(c, call[c].requests[i])'
                /\ Stopped(c, asks(c, i)) => Stopped(c, asks(c, i))'
           /\ \A x \in RegisteredEndpoints : x # e =>
                /\ Resting(c, x) => Resting(c, x)'
                /\ Stopped(c, x) => Stopped(c, x)'
  <1>1. \A x \in RegisteredEndpoints : x # e =>
            /\ Resting(c, x) => Resting(c, x)'
            /\ Stopped(c, x) => Stopped(c, x)'
    BY DEF Resting, Stopped, Speed
  <1>2. ASSUME NEW i \in 1..Len(call[c].requests), asks(c, i) # e
        PROVE  /\ Obeys(c, call[c].requests[i]) => Obeys(c, call[c].requests[i])'
               /\ Stopped(c, asks(c, i)) => Stopped(c, asks(c, i))'
    <2>1. /\ asks(c, i) \in RegisteredEndpoints /\ call[c].requests[i] \in Setpoints
          /\ asks(c, i) = call[c].requests[i].endpoint
          /\ call'[c].requests[i] = call[c].requests[i] /\ asks(c, i)' = asks(c, i)
      BY HolderFacts DEF asks
    <2>2. Obeys(c, call[c].requests[i]) => Obeys(c, call[c].requests[i])'
      BY <1>2, <2>1 DEF Obeys, Speed
    <2>3. Stopped(c, asks(c, i)) => Stopped(c, asks(c, i))'
      BY <1>1, <1>2, <2>1 DEF Stopped, Resting, Speed
    <2> QED BY <2>2, <2>3
  <1> QED BY <1>1, <1>2

\* A call starts the endpoint it has come to: the last one makes it a success.
LEMMA WriteStartStep ==
    ASSUME DriveInv, NEW c \in Callers, WriteStart(c), Touches(c, {}),
           UNCHANGED <<last_command, manual>>
    PROVE  DriveInv'
  <1>1. call[c].pc = "start" /\ Holds(c)
    BY DEF WriteStart, Holds
  <1>2. /\ call[c] \in CallRecord /\ call[c].requests \in RequestSeqs
        /\ Len(call[c].requests) \in Nat
        /\ request(c) \in Setpoints /\ request(c).endpoint \in RegisteredEndpoints
        /\ request(c).rpm \in Nat
        /\ call[c].index \in 1..Len(call[c].requests)
        /\ request(c) = call[c].requests[call[c].index]
        /\ \A i, j \in 1..Len(call[c].requests) : asks(c, i) = asks(c, j) => i = j
        /\ \A i \in 1..Len(call[c].requests) : /\ asks(c, i) \in RegisteredEndpoints
                                               /\ call[c].requests[i] \in Setpoints
        /\ ApplyWork(c)
    BY <1>1, HolderFacts DEF CallWork, Setpoints
  <1>3. /\ drive \in [RegisteredEndpoints -> [target: Nat, started: BOOLEAN]]
        /\ missed \in [Callers -> [reached: BOOLEAN, endpoints: SUBSET RegisteredEndpoints]]
        /\ call \in [Callers -> CallRecord]
    BY DEF DriveInv, Scalars
  <1>4. PICK e \in RegisteredEndpoints : e = request(c).endpoint
    BY <1>2
  <1>5. PICK registers \in [target: Nat, started: BOOLEAN] :
            registers = [drive[e] EXCEPT !.started = TRUE]
    BY <1>2, <1>3
  <1>6. PICK outcome \in Outcome :
          /\ Write(e, registers, outcome)
          /\ call' = [call EXCEPT ![c] = IF outcome = "acknowledged" THEN applied_next(c)
                                         ELSE [call[c] EXCEPT !.pc = "undo_zero"]]
    BY <1>4, <1>5 DEF WriteStart, Write
  <1>7. PICK next :
          next = IF outcome = "acknowledged" THEN applied_next(c)
                 ELSE [call[c] EXCEPT !.pc = "undo_zero"]
    OBVIOUS
  <1>8. /\ next \in CallRecord /\ next.kind = call[c].kind /\ next.undone = call[c].undone
        /\ next.requests = call[c].requests
    <2>1. CASE outcome = "acknowledged"
      <3>1. next = [call[c] EXCEPT
                      !.applied = call[c].applied \union {e},
                      !.pc = IF last_request(c) THEN "release" ELSE "target",
                      !.index = IF last_request(c) THEN call[c].index ELSE call[c].index + 1,
                      !.result = IF last_request(c) THEN "SUCCESS" ELSE call[c].result]
        BY <1>4, <1>7, <2>1 DEF applied_next
      <3>2. call[c].index + 1 \in Nat
        BY <1>2
      <3> QED BY <1>2, <3>1, <3>2 DEF CallRecord, Applying
    <2>2. CASE outcome # "acknowledged"
      BY <1>2, <1>7, <2>2 DEF CallRecord, Applying
    <2> QED BY <2>1, <2>2
  <1>9. call' = [call EXCEPT ![c] = next] /\ call'[c] = next
    BY <1>3, <1>6, <1>7
  <1>10. /\ \A x \in RegisteredEndpoints : x \in touched'[c] <=> x \in touched[c]
         /\ \A x \in RegisteredEndpoints : x # e => drive'[x] = drive[x]
         /\ drive'[e] = IF outcome = "lost" THEN drive[e] ELSE registers
    BY <1>6, WriteFacts
  <1>11. missed' = missed /\ lock' = lock
    BY DEF WriteStart
  <1>12. /\ call[c].kind = "apply" /\ call[c].undone = 0 /\ call[c].result = "FAILURE"
         /\ call[c].applied = Before(c) /\ Targets(c, request(c))
         /\ \A i \in 1..(call[c].index - 1) : Obeys(c, call[c].requests[i])
    BY <1>1, <1>2 DEF ApplyWork, Applying
  <1>13. outcome = "acknowledged" =>
            \A i \in 1..call[c].index : Obeys(c, call[c].requests[i])'
    <2> SUFFICES ASSUME outcome = "acknowledged", NEW i \in 1..call[c].index
                 PROVE  Obeys(c, call[c].requests[i])'
      OBVIOUS
    <2>1. CASE i = call[c].index
      <3>1. call'[c].requests[i] = request(c)
        BY <1>2, <1>8, <1>9, <2>1
      <3>2. drive'[e].target = drive[e].target /\ drive'[e].started
        BY <1>3, <1>5, <1>10
      <3> QED BY <1>2, <1>4, <1>10, <1>12, <2>1, <3>1, <3>2 DEF Obeys, Speed, Targets
    <2>2. CASE i # call[c].index
      <3>1. i \in 1..(call[c].index - 1) /\ i \in 1..Len(call[c].requests)
        BY <1>2, <2>2
      <3>2. asks(c, i) # e
        BY <1>2, <1>4, <2>2, <3>1 DEF asks
      <3> QED BY <1>1, <1>8, <1>9, <1>10, <1>11, <1>12, <3>1, <3>2, HolderClaims
    <2> QED BY <2>1, <2>2
  <1>14. CASE outcome # "acknowledged"
    <2>1. /\ next.pc = "undo_zero" /\ next.index = call[c].index
          /\ next.applied = call[c].applied /\ next.result = call[c].result
      BY <1>2, <1>7, <1>14 DEF CallRecord
    <2>2. Before(c)' = Before(c)
      BY <1>8, <1>9, <2>1 DEF Before, asks
    <2>3. CallWork(c)'
      BY <1>8, <1>9, <1>12, <2>1, <2>2
         DEF CallWork, ApplyWork, RollbackWork, StopWork, ZeroHolds, ReleaseWork, Applying,
             RollingBack, Stopping
    <2>4. missed[c] \in [reached: BOOLEAN, endpoints: SUBSET RegisteredEndpoints]
          /\ missed' = [missed EXCEPT ![c] = missed[c]]
      BY <1>3, <1>11
    <2> QED BY <1>1, <1>2, <1>6, <1>8, <1>9, <1>11, <2>1, <2>3, <2>4, HolderStep
  <1>15. CASE outcome = "acknowledged"
    <2>1. next = applied_next(c)
      BY <1>7, <1>15
    <2>2. /\ next.applied = call[c].applied \cup {e}
          /\ next.pc = IF last_request(c) THEN "release" ELSE "target"
          /\ next.index = IF last_request(c) THEN call[c].index ELSE call[c].index + 1
          /\ next.result = IF last_request(c) THEN "SUCCESS" ELSE call[c].result
      BY <1>2, <1>4, <2>1 DEF applied_next, CallRecord
    <2>3. last_request(c) <=> call[c].index = Len(call[c].requests)
      BY DEF last_request
    <2>4. next.index \in 1..Len(next.requests)
      BY <1>2, <1>8, <2>2, <2>3
    <2>5. CallWork(c)'
      <3>1. CASE last_request(c)
        <4>1. \A i \in 1..Len(call[c].requests) : Obeys(c, call[c].requests[i])'
          BY <1>13, <1>15, <2>3, <3>1
        <4>2. next.pc = "release" /\ next.result = "SUCCESS" /\ next.index = call[c].index
          BY <2>2, <3>1
        <4>3. ReleaseWork(c)'
          BY <1>2, <1>8, <1>9, <1>12, <4>1, <4>2 DEF ReleaseWork, Obeys, Speed
        <4> QED BY <1>9, <4>2, <4>3
                DEF CallWork, ApplyWork, RollbackWork, StopWork, ZeroHolds, Applying,
                    RollingBack, Stopping
      <3>2. CASE ~last_request(c)
        <4>1. next.pc = "target" /\ next.index = call[c].index + 1 /\ next.result = "FAILURE"
          BY <1>12, <2>2, <3>2
        <4>2. Before(c)' = Before(c) \cup {e}
          BY <1>2, <1>4, <1>8, <1>9, <4>1 DEF Before, asks
        <4>3. \A i \in 1..(next.index - 1) : Obeys(c, call[c].requests[i])'
          BY <1>2, <1>13, <1>15, <4>1
        <4>4. ApplyWork(c)'
          BY <1>8, <1>9, <1>12, <2>2, <4>1, <4>2, <4>3 DEF ApplyWork, Obeys, Speed
        <4> QED BY <1>9, <4>1, <4>4
                DEF CallWork, RollbackWork, StopWork, ZeroHolds, ReleaseWork, RollingBack, Stopping
      <3> QED BY <3>1, <3>2
    <2>6. missed[c] \in [reached: BOOLEAN, endpoints: SUBSET RegisteredEndpoints]
          /\ missed' = [missed EXCEPT ![c] = missed[c]]
      BY <1>3, <1>11
    <2>7. next.pc \notin {"idle", "acquire"}
      BY <2>2
    <2> QED BY <1>1, <1>6, <1>8, <1>9, <1>11, <2>4, <2>5, <2>6, <2>7, HolderStep
  <1> QED BY <1>14, <1>15

\* The endpoint a stop is for is one of the call's.
LEMMA StoppingFacts ==
    ASSUME DriveInv, NEW c \in Callers,
           call[c].pc \in {"undo_zero", "undo_halt"} \cup RollingBack \cup Stopping
    PROVE  \E k \in 1..Len(call[c].requests) :
               /\ stopping(c) = asks(c, k)
               /\ k = IF call[c].pc \in RollingBack THEN call[c].undone + 1 ELSE call[c].index
  <1>1. Holds(c)
    BY DEF Holds, RollingBack, Stopping
  <1>2. CASE call[c].pc \in RollingBack
    <2>1. call[c].undone + 1 < call[c].index
      BY <1>1, <1>2, HolderFacts DEF CallWork, RollbackWork
    <2>2. call[c].undone + 1 \in 1..Len(call[c].requests)
      BY <1>1, <2>1, HolderFacts
    <2> QED BY <1>2, <2>2 DEF stopping, asks, RollingBack
  <1>3. CASE call[c].pc \notin RollingBack
    BY <1>1, <1>3, HolderFacts DEF stopping, asks, RollingBack, request
  <1> QED BY <1>2, <1>3

\* A stop writes the zero first.
LEMMA WriteZeroStep ==
    ASSUME DriveInv, NEW c \in Callers, WriteZero(c), Touches(c, {stopping(c)}),
           UNCHANGED <<last_command, manual>>
    PROVE  DriveInv'
  <1>1. call[c].pc \in {"zero", "undo_zero", "rollback_zero"} /\ Holds(c)
    BY DEF WriteZero, HaltAfter, Holds
  <1>2. /\ call[c] \in CallRecord /\ call[c].requests \in RequestSeqs
        /\ Len(call[c].requests) \in Nat /\ call[c].index \in Nat /\ call[c].undone \in Nat
        /\ request(c).endpoint \in RegisteredEndpoints
        /\ call[c].index \in 1..Len(call[c].requests)
        /\ request(c) = call[c].requests[call[c].index]
        /\ \A i, j \in 1..Len(call[c].requests) : asks(c, i) = asks(c, j) => i = j
        /\ \A i \in 1..Len(call[c].requests) : asks(c, i) \in RegisteredEndpoints
        /\ ApplyWork(c) /\ RollbackWork(c) /\ StopWork(c)
    BY <1>1, HolderFacts DEF CallWork
  <1>3. /\ drive \in [RegisteredEndpoints -> [target: Nat, started: BOOLEAN]]
        /\ missed \in [Callers -> [reached: BOOLEAN, endpoints: SUBSET RegisteredEndpoints]]
        /\ call \in [Callers -> CallRecord]
    BY DEF DriveInv, Scalars
  <1>4. PICK k \in 1..Len(call[c].requests) :
          /\ stopping(c) = asks(c, k)
          /\ k = IF call[c].pc \in RollingBack THEN call[c].undone + 1 ELSE call[c].index
    BY <1>1, StoppingFacts DEF RollingBack, Stopping
  <1>5. PICK e \in RegisteredEndpoints : e = stopping(c)
    BY <1>2, <1>4
  <1>6. PICK registers \in [target: Nat, started: BOOLEAN] :
            registers = [drive[e] EXCEPT !.target = 0]
    BY <1>3
  <1>7. PICK outcome \in Outcome :
          /\ Write(e, registers, outcome)
          /\ call' = [call EXCEPT ![c].pc = HaltAfter[call[c].pc],
                                  ![c].ok = outcome = "acknowledged"]
          /\ missed' = [missed EXCEPT ![c].reached = outcome # "lost"]
    BY <1>5, <1>6 DEF WriteZero, Write
  <1>8. PICK next :
          next = [call[c] EXCEPT !.pc = HaltAfter[call[c].pc], !.ok = outcome = "acknowledged"]
    OBVIOUS
  <1>9. HaltAfter[call[c].pc] = IF call[c].pc = "zero" THEN "halt"
                                ELSE IF call[c].pc = "undo_zero" THEN "undo_halt"
                                ELSE "rollback_halt"
    BY <1>1 DEF HaltAfter
  <1>10. /\ next \in CallRecord /\ next.kind = call[c].kind /\ next.undone = call[c].undone
         /\ next.requests = call[c].requests /\ next.index = call[c].index
         /\ next.applied = call[c].applied /\ next.result = call[c].result
         /\ next.pc = HaltAfter[call[c].pc]
    <2>1. HaltAfter[call[c].pc] \in
            {"idle", "acquire", "release"} \cup Applying \cup RollingBack \cup Stopping
      BY <1>9 DEF Applying, RollingBack, Stopping
    <2>2. PICK q \in {"idle", "acquire", "release"} \cup Applying \cup RollingBack \cup Stopping :
            q = HaltAfter[call[c].pc]
      BY <2>1
    <2>3. PICK b \in BOOLEAN : b = (outcome = "acknowledged")
      OBVIOUS
    <2>4. next = [call[c] EXCEPT !.pc = q, !.ok = b]
      BY <1>8, <2>2, <2>3
    <2>5. PICK r \in CallRecord : r = call[c]
      BY <1>2
    <2>6. next = [r EXCEPT !.pc = q, !.ok = b]
      BY <2>4, <2>5
    <2>7. /\ next \in CallRecord /\ next.pc = q /\ next.kind = r.kind /\ next.undone = r.undone
          /\ next.requests = r.requests /\ next.index = r.index
          /\ next.applied = r.applied /\ next.result = r.result
      BY <2>6 DEF CallRecord
    <2> QED BY <2>2, <2>5, <2>7
  <1>11. call' = [call EXCEPT ![c] = next] /\ call'[c] = next
    BY <1>3, <1>7, <1>8
  <1>12. /\ \A x \in RegisteredEndpoints : x # e => (x \in touched'[c] <=> x \in touched[c])
         /\ \A x \in RegisteredEndpoints : x # e => drive'[x] = drive[x]
         /\ drive'[e] = IF outcome = "lost" THEN drive[e] ELSE registers
    <2>1. Touches(c, {e})
      BY <1>5 DEF Touches
    <2> QED BY <1>7, <2>1, WriteFacts
  <1>13. PICK hist \in [reached: BOOLEAN, endpoints: SUBSET RegisteredEndpoints] :
           hist = [missed[c] EXCEPT !.reached = outcome # "lost"]
    BY <1>3
  <1>14. /\ missed' = [missed EXCEPT ![c] = hist] /\ missed'[c] = hist
         /\ hist.reached = (outcome # "lost") /\ hist.endpoints = missed[c].endpoints
    BY <1>3, <1>7, <1>13
  <1>15. \A x \in RegisteredEndpoints : x # e =>
            /\ drive'[x] = drive[x]
            /\ x \in touched[c] => x \in touched'[c]
            /\ x \in missed[c].endpoints => x \in missed'[c].endpoints
    BY <1>12, <1>14
  <1>16. /\ request(c)' = request(c) /\ Before(c)' = Before(c)
         /\ \A i : asks(c, i)' = asks(c, i)
    BY <1>10, <1>11 DEF request, Before, asks
  <1>17. /\ \A i \in 1..Len(call[c].requests) : asks(c, i) # e =>
              (Stopped(c, asks(c, i)) => Stopped(c, asks(c, i))')
         /\ \A x \in RegisteredEndpoints : x # e => (Resting(c, x) => Resting(c, x)')
                                                    /\ (Stopped(c, x) => Stopped(c, x)')
    BY <1>1, <1>10, <1>11, <1>15, HolderClaims
  <1>18. ZeroHolds(c)'
    <2>1. stopping(c)' = e
      BY <1>1, <1>4, <1>5, <1>9, <1>10, <1>11, <1>16 DEF stopping, RollingBack, request
    <2>2. hist.reached => drive'[e].target = 0
      BY <1>3, <1>6, <1>12, <1>14
    <2> QED BY <1>14, <2>1, <2>2 DEF ZeroHolds, Aimed, Targets, StopOf
  <1>19. CASE call[c].pc = "undo_zero"
    <2>1. next.pc = "undo_halt"
      BY <1>9, <1>10, <1>19
    <2>2. ApplyWork(c)'
      BY <1>2, <1>10, <1>11, <1>16, <1>19, <2>1 DEF ApplyWork, Applying
    <2>3. CallWork(c)'
      BY <1>11, <1>18, <2>1, <2>2
         DEF CallWork, RollbackWork, StopWork, ReleaseWork, RollingBack, Stopping
    <2> QED BY <1>1, <1>2, <1>5, <1>7, <1>10, <1>11, <1>14, <2>1, <2>3, HolderStep
               DEF WriteZero, Touches
  <1>20. CASE call[c].pc = "rollback_zero"
    <2>1. next.pc = "rollback_halt"
      BY <1>9, <1>10, <1>20
    <2>2. k = call[c].undone + 1 /\ call[c].undone + 1 < call[c].index
      BY <1>2, <1>4, <1>20 DEF RollbackWork, RollingBack
    <2>3. request(c).endpoint # e /\ request(c).endpoint = asks(c, call[c].index)
      BY <1>2, <1>4, <1>5, <2>2 DEF asks
    <2>4. \A i \in 1..call[c].undone : i \in 1..Len(call[c].requests) /\ asks(c, i) # e
      BY <1>2, <1>4, <1>5, <2>2
    <2>5. Stopped(c, request(c).endpoint)'
      <3>1. Stopped(c, request(c).endpoint)
        BY <1>2, <1>20 DEF RollbackWork, RollingBack
      <3> QED BY <1>2, <1>16, <1>17, <2>3, <3>1 DEF Stopped, Resting, Speed
    <2>6. \A i \in 1..call[c].undone : Stopped(c, asks(c, i))'
      BY <1>2, <1>17, <1>20, <2>4 DEF RollbackWork, RollingBack
    <2>7. RollbackWork(c)'
      BY <1>2, <1>10, <1>11, <1>16, <1>20, <2>1, <2>5, <2>6
         DEF RollbackWork, RollingBack, Stopped, Resting, Speed
    <2>8. CallWork(c)'
      BY <1>11, <1>18, <2>1, <2>7
         DEF CallWork, ApplyWork, StopWork, ReleaseWork, Applying, Stopping
    <2> QED BY <1>1, <1>2, <1>5, <1>7, <1>10, <1>11, <1>14, <2>1, <2>8, HolderStep
               DEF WriteZero, Touches
  <1>21. CASE call[c].pc = "zero"
    <2>1. next.pc = "halt"
      BY <1>9, <1>10, <1>21
    <2>2. k = call[c].index
      BY <1>4, <1>21 DEF RollingBack
    <2>3. \A i \in 1..(call[c].index - 1) : i \in 1..Len(call[c].requests) /\ asks(c, i) # e
      BY <1>2, <1>4, <1>5, <2>2
    <2>4. \A x \in Before(c) : x \in RegisteredEndpoints /\ x # e
      BY <1>2, <2>3 DEF Before
    <2>5. StopWork(c)
      BY <1>2
    <2>6. \A i \in 1..(call[c].index - 1) : Stopped(c, asks(c, i))'
      BY <1>17, <1>21, <2>3, <2>5 DEF StopWork, Stopping
    <2>7. \A x \in call[c].applied : Resting(c, x)'
      BY <1>17, <1>21, <2>4, <2>5 DEF StopWork, Stopping
    <2>8. StopWork(c)'
      BY <1>10, <1>11, <1>16, <1>21, <2>1, <2>5, <2>6, <2>7
         DEF StopWork, Stopping, Stopped, Resting, Speed
    <2>9. CallWork(c)'
      BY <1>11, <1>18, <2>1, <2>8
         DEF CallWork, ApplyWork, RollbackWork, ReleaseWork, Applying, RollingBack
    <2> QED BY <1>1, <1>2, <1>5, <1>7, <1>10, <1>11, <1>14, <2>1, <2>9, HolderStep
               DEF WriteZero, Touches
  <1> QED BY <1>1, <1>19, <1>20, <1>21

\* The verdict of a stop that has come to its end: SUCCESS is all of them.
LEMMA StopVerdict ==
    ASSUME DriveInv, NEW c \in Callers, Holds(c), NEW S,
           S \subseteq {asks(c, i) : i \in 1..Len(call[c].requests)},
           stop_result(c, S) = "SUCCESS"
    PROVE  \A i \in 1..Len(call[c].requests) : asks(c, i) \in S
  <1> DEFINE n == Len(call[c].requests)
             f == [i \in 1..n |-> asks(c, i)]
             named == {asks(c, i) : i \in 1..n}
  <1>1. n \in Nat /\ \A i, j \in 1..n : asks(c, i) = asks(c, j) => i = j
    BY HolderFacts
  <1>2. IsFiniteSet(1..n) /\ Cardinality(1..n) = n
    BY <1>1, FS_Interval
  <1>3. f \in Bijection(1..n, named)
    <2>1. f \in [1..n -> named]
      OBVIOUS
    <2>2. f \in Injection(1..n, named)
      BY <1>1, <2>1 DEF Injection, IsInjective
    <2>3. \A y \in named : \E i \in 1..n : f[i] = y
      OBVIOUS
    <2> QED BY <2>1, <2>2, <2>3 DEF Bijection, Surjection
  <1>4. IsFiniteSet(named) /\ Cardinality(named) = n
    <2> HIDE DEF f, named, n
    <2>1. f \in Surjection(1..n, named) /\ f \in Injection(1..n, named)
      BY <1>3 DEF Bijection
    <2> QED BY <1>2, <2>1, FS_Surjection
  <1>5. Cardinality(S) = n
    BY DEF stop_result
  <1>6. S = named
    BY <1>4, <1>5, FS_Subset
  <1> QED BY <1>6

\* After the STOP register the wheel rests, or both its writes were lost.
LEMMA HaltFacts ==
    ASSUME DriveInv, NEW c \in Callers, WriteHalt(c), Touches(c, {})
    PROVE  \E e \in RegisteredEndpoints, registers \in [target: Nat, started: BOOLEAN],
              outcome \in Outcome, hist \in [reached: BOOLEAN, endpoints: SUBSET RegisteredEndpoints] :
             /\ e = stopping(c) /\ Write(e, registers, outcome)
             /\ missed' = [missed EXCEPT ![c] = hist]
             /\ call' = [call EXCEPT ![c] =
                           CASE call[c].pc = "halt" ->
                                  stop_next(c, call[c].ok /\ outcome = "acknowledged")
                             [] call[c].pc = "undo_halt" -> apply_fails(c)
                             [] call[c].pc = "rollback_halt" -> rollback_next(c)]
             /\ \A x \in RegisteredEndpoints : x # e =>
                  /\ drive'[x] = drive[x]
                  /\ x \in touched[c] => x \in touched'[c]
                  /\ x \in missed[c].endpoints => x \in missed'[c].endpoints
             /\ (Speed(e) = 0 \/ e \in touched[c] \/ e \in missed[c].endpoints)'
             /\ outcome = "acknowledged" => (Speed(e) = 0)'
  <1>1. call[c].pc \in {"halt", "undo_halt", "rollback_halt"} /\ Holds(c)
    BY DEF WriteHalt, Holds
  <1>2. /\ drive \in [RegisteredEndpoints -> [target: Nat, started: BOOLEAN]]
        /\ missed \in [Callers -> [reached: BOOLEAN, endpoints: SUBSET RegisteredEndpoints]]
        /\ call \in [Callers -> CallRecord]
    BY DEF DriveInv, Scalars
  <1>3. stopping(c) \in RegisteredEndpoints /\ ZeroHolds(c)
    BY <1>1, StoppingFacts, HolderFacts DEF RollingBack, Stopping, CallWork
  <1>4. PICK e \in RegisteredEndpoints : e = stopping(c)
    BY <1>3
  <1>5. PICK registers \in [target: Nat, started: BOOLEAN] :
            registers = [drive[e] EXCEPT !.started = FALSE]
    BY <1>2
  <1>6. PICK outcome \in Outcome :
          /\ Write(e, registers, outcome)
          /\ call' = [call EXCEPT ![c] =
                        CASE call[c].pc = "halt" ->
                               stop_next(c, call[c].ok /\ outcome = "acknowledged")
                          [] call[c].pc = "undo_halt" -> apply_fails(c)
                          [] call[c].pc = "rollback_halt" -> rollback_next(c)]
          /\ missed' = [missed EXCEPT ![c].endpoints =
                          missed[c].endpoints \union IF outcome = "lost" /\ ~missed[c].reached
                                                     THEN {e} ELSE {}]
    BY <1>4, <1>5 DEF WriteHalt, Write
  <1>7. PICK hist \in [reached: BOOLEAN, endpoints: SUBSET RegisteredEndpoints] :
           hist = [missed[c] EXCEPT !.endpoints =
                     missed[c].endpoints \union IF outcome = "lost" /\ ~missed[c].reached
                                                THEN {e} ELSE {}]
    BY <1>2
  <1>8. missed' = [missed EXCEPT ![c] = hist] /\ missed'[c] = hist
    BY <1>2, <1>6, <1>7
  <1>9. \A x : x \in missed'[c].endpoints <=>
              x \in missed[c].endpoints \/ (x = e /\ outcome = "lost" /\ ~missed[c].reached)
    BY <1>2, <1>7, <1>8
  <1>10. /\ \A x \in RegisteredEndpoints : x \in touched'[c] <=> x \in touched[c]
         /\ \A x \in RegisteredEndpoints : x # e => drive'[x] = drive[x]
         /\ drive'[e] = IF outcome = "lost" THEN drive[e] ELSE registers
    BY <1>6, WriteFacts
  <1>11. outcome # "lost" => (Speed(e) = 0)'
    BY <1>2, <1>5, <1>10 DEF Speed
  <1>12. outcome = "lost" => (Speed(e) = 0 \/ e \in touched[c] \/ e \in missed[c].endpoints)'
    <2>1. missed[c].reached => Aimed(c, e)
      BY <1>1, <1>3, <1>4 DEF ZeroHolds
    <2>2. missed[c].reached => drive[e].target = 0 \/ e \in touched[c]
      BY <2>1 DEF Aimed, Targets, StopOf
    <2> QED BY <1>9, <1>10, <2>2 DEF Speed
  <1>13. \A x \in RegisteredEndpoints : x # e =>
            /\ drive'[x] = drive[x]
            /\ x \in touched[c] => x \in touched'[c]
            /\ x \in missed[c].endpoints => x \in missed'[c].endpoints
    BY <1>9, <1>10
  <1>14. /\ (Speed(e) = 0 \/ e \in touched[c] \/ e \in missed[c].endpoints)'
         /\ outcome = "acknowledged" => (Speed(e) = 0)'
    BY <1>11, <1>12
  <1>15. /\ e = stopping(c) /\ Write(e, registers, outcome)
         /\ missed' = [missed EXCEPT ![c] = hist]
         /\ call' = [call EXCEPT ![c] =
                        CASE call[c].pc = "halt" ->
                               stop_next(c, call[c].ok /\ outcome = "acknowledged")
                          [] call[c].pc = "undo_halt" -> apply_fails(c)
                          [] call[c].pc = "rollback_halt" -> rollback_next(c)]
    BY <1>4, <1>6, <1>8
  <1> QED BY <1>13, <1>14, <1>15

\* A stop's endpoint has answered: go on with the next one.
LEMMA StopEnds ==
    ASSUME DriveInv, NEW c \in Callers, WriteHalt(c), Touches(c, {}), call[c].pc = "halt",
           UNCHANGED <<last_command, manual>>
    PROVE  DriveInv'
  <1>1. Holds(c)
    BY DEF Holds
  <1>2. /\ call[c] \in CallRecord /\ call[c].requests \in RequestSeqs
        /\ Len(call[c].requests) \in Nat /\ call[c].index \in Nat
        /\ request(c).endpoint \in RegisteredEndpoints
        /\ call[c].index \in 1..Len(call[c].requests)
        /\ request(c) = call[c].requests[call[c].index]
        /\ \A i, j \in 1..Len(call[c].requests) : asks(c, i) = asks(c, j) => i = j
        /\ \A i \in 1..Len(call[c].requests) : asks(c, i) \in RegisteredEndpoints
        /\ StopWork(c) /\ (call[c].kind = "stop" => IsStop(call[c].requests))
    BY <1>1, HolderFacts DEF CallWork
  <1>3. /\ call[c].kind = "stop" /\ call[c].undone = 0 /\ call[c].applied \subseteq Before(c)
        /\ \A i \in 1..(call[c].index - 1) : Stopped(c, asks(c, i))
        /\ \A x \in call[c].applied : Resting(c, x)
    BY <1>2 DEF StopWork, Stopping
  <1>4. call \in [Callers -> CallRecord]
    BY DEF DriveInv, Scalars
  <1>5. PICK e \in RegisteredEndpoints, registers \in [target: Nat, started: BOOLEAN],
             outcome \in Outcome, hist \in [reached: BOOLEAN, endpoints: SUBSET RegisteredEndpoints] :
          /\ e = stopping(c) /\ Write(e, registers, outcome)
          /\ missed' = [missed EXCEPT ![c] = hist]
          /\ call' = [call EXCEPT ![c] = stop_next(c, call[c].ok /\ outcome = "acknowledged")]
          /\ \A x \in RegisteredEndpoints : x # e =>
               /\ drive'[x] = drive[x]
               /\ x \in touched[c] => x \in touched'[c]
               /\ x \in missed[c].endpoints => x \in missed'[c].endpoints
          /\ (Speed(e) = 0 \/ e \in touched[c] \/ e \in missed[c].endpoints)'
          /\ outcome = "acknowledged" => (Speed(e) = 0)'
    BY HaltFacts
  <1>6. e = request(c).endpoint /\ e = asks(c, call[c].index)
    BY <1>2, <1>5 DEF stopping, asks
  <1>7. PICK ok \in BOOLEAN : ok = (call[c].ok /\ outcome = "acknowledged")
    OBVIOUS
  <1>8. PICK done : done = call[c].applied \cup IF ok THEN {e} ELSE {}
    OBVIOUS
  <1>9. PICK over \in BOOLEAN : over = (call[c].index = Len(call[c].requests))
    OBVIOUS
  <1>10. PICK result \in {"FAILURE", "PARTIAL", "SUCCESS"} : result = stop_result(c, done)
    BY DEF stop_result
  <1>11. PICK next : next = [call[c] EXCEPT !.applied = done, !.result = result,
                                            !.pc = IF over THEN "release" ELSE "zero",
                                            !.index = IF over THEN call[c].index
                                                      ELSE call[c].index + 1]
    OBVIOUS
  <1>12. next = stop_next(c, call[c].ok /\ outcome = "acknowledged")
    <2>1. stop_next(c, ok) = next
      BY <1>6, <1>8, <1>9, <1>10, <1>11 DEF stop_next, last_request
    <2> QED BY <1>7, <2>1
  <1>13. done \subseteq RegisteredEndpoints
    BY <1>2, <1>8 DEF CallRecord
  <1>14. /\ next \in CallRecord /\ next.kind = call[c].kind /\ next.undone = call[c].undone
         /\ next.requests = call[c].requests /\ next.result = result /\ next.applied = done
         /\ next.pc = IF over THEN "release" ELSE "zero"
         /\ next.index = IF over THEN call[c].index ELSE call[c].index + 1
    <2>1. PICK i \in Nat : i = IF over THEN call[c].index ELSE call[c].index + 1
      BY <1>2
    <2>2. PICK q \in {"release", "zero"} : q = IF over THEN "release" ELSE "zero"
      OBVIOUS
    <2>3. next = [call[c] EXCEPT !.applied = done, !.result = result, !.pc = q, !.index = i]
      BY <1>11, <2>1, <2>2
    <2>4. call[c] \in CallRecord
      BY <1>2
    <2>5. /\ next \in CallRecord /\ next.kind = call[c].kind /\ next.undone = call[c].undone
          /\ next.requests = call[c].requests /\ next.result = result /\ next.applied = done
          /\ next.pc = q /\ next.index = i
      BY <1>13, <2>3, <2>4 DEF CallRecord, Stopping
    <2> QED BY <2>1, <2>2, <2>5
  <1>15. call' = [call EXCEPT ![c] = next] /\ call'[c] = next
    BY <1>4, <1>5, <1>12
  <1>16. /\ next.pc \notin {"idle", "acquire"} /\ next.index \in 1..Len(next.requests)
    <2>1. call[c].index \in 1..Len(call[c].requests) /\ Len(call[c].requests) \in Nat
      BY <1>2
    <2>2. PICK n \in Nat : n = Len(call[c].requests) /\ call[c].index \in 1..n
      BY <2>1
    <2>3. next.index \in 1..n
      <3>1. CASE over
        BY <1>14, <2>2, <3>1
      <3>2. CASE ~over
        <4>1. next.index = call[c].index + 1 /\ call[c].index # n
          BY <1>9, <1>14, <2>2, <3>2
        <4> QED BY <2>2, <4>1
      <3> QED BY <3>1, <3>2
    <2> QED BY <1>14, <2>2, <2>3
  <1>17. /\ \A i \in 1..Len(call[c].requests) : asks(c, i) # e =>
              (Stopped(c, asks(c, i)) => Stopped(c, asks(c, i))')
         /\ \A x \in RegisteredEndpoints : x # e => (Resting(c, x) => Resting(c, x)')
                                                    /\ (Stopped(c, x) => Stopped(c, x)')
    BY <1>1, <1>5, <1>14, <1>15, HolderClaims
  <1>18. \A i : asks(c, i)' = asks(c, i)
    BY <1>14, <1>15 DEF asks
  <1>19. \A i \in 1..call[c].index : Stopped(c, asks(c, i))'
    <2> SUFFICES ASSUME NEW i \in 1..call[c].index PROVE Stopped(c, asks(c, i))'
      OBVIOUS
    <2>1. CASE i = call[c].index
      BY <1>5, <1>6, <1>18, <2>1 DEF Stopped, Resting, Speed
    <2>2. CASE i # call[c].index
      <3>1. i \in 1..(call[c].index - 1) /\ i \in 1..Len(call[c].requests) /\ asks(c, i) # e
        BY <1>2, <1>6, <2>2
      <3> QED BY <1>3, <1>17, <3>1
    <2> QED BY <2>1, <2>2
  <1>20. \A x \in done : Resting(c, x)'
    <2>1. \A x \in call[c].applied : Resting(c, x)'
      <3>1. \A x \in Before(c) : x \in RegisteredEndpoints /\ x # e
        BY <1>2, <1>6 DEF Before
      <3> QED BY <1>3, <1>17, <3>1
    <2>2. ok => Resting(c, e)'
      BY <1>5, <1>7 DEF Resting
    <2> QED BY <1>8, <2>1, <2>2
  <1>21. CallWork(c)'
    <2>1. CASE ~over
      <3>1. next.pc = "zero" /\ next.index = call[c].index + 1
        BY <1>14, <2>1
      <3>2. done \subseteq Before(c)'
        <4>1. \A i \in 1..call[c].index : asks(c, i) \in Before(c)'
          BY <1>2, <1>14, <1>15, <1>18, <3>1 DEF Before
        <4>2. Before(c) \subseteq Before(c)'
          BY <1>2, <4>1 DEF Before
        <4>3. e \in Before(c)'
          BY <1>2, <1>6, <4>1
        <4> QED BY <1>3, <1>8, <4>2, <4>3
      <3>3. \A i \in 1..(next.index - 1) : Stopped(c, asks(c, i))'
        BY <1>2, <1>19, <3>1
      <3>4. StopWork(c)'
        BY <1>3, <1>14, <1>15, <1>20, <3>1, <3>2, <3>3 DEF StopWork
      <3> QED BY <1>15, <3>1, <3>4
              DEF CallWork, ApplyWork, RollbackWork, ZeroHolds, ReleaseWork, Applying, RollingBack
    <2>2. CASE over
      <3>1. next.pc = "release" /\ next.index = call[c].index
            /\ call[c].index = Len(call[c].requests)
        BY <1>9, <1>14, <2>2
      <3>2. \A i \in 1..Len(call[c].requests) : Stopped(c, asks(c, i))'
        BY <1>19, <3>1
      <3>3. done \subseteq {asks(c, i) : i \in 1..Len(call[c].requests)}
        <4>1. Before(c) \subseteq {asks(c, i) : i \in 1..Len(call[c].requests)}
          BY <1>2 DEF Before
        <4> QED BY <1>2, <1>3, <1>6, <1>8, <4>1
      <3>4. ASSUME result = "SUCCESS", NEW i \in 1..Len(call[c].requests)
            PROVE  Obeys(c, call[c].requests[i])'
        <4>1. asks(c, i) \in done
          BY <1>1, <1>10, <3>3, <3>4, StopVerdict
        <4>2. Resting(c, asks(c, i))'
          BY <1>18, <1>20, <4>1 DEF Resting, Speed
        <4>3. call[c].requests[i].rpm = 0 /\ call'[c].requests[i] = call[c].requests[i]
          BY <1>2, <1>3, <1>14, <1>15, RequestsType DEF IsStop
        <4> QED BY <1>18, <4>2, <4>3 DEF Obeys, Resting, Speed, asks
      <3>5. ReleaseWork(c)'
        BY <1>2, <1>3, <1>14, <1>15, <3>1, <3>2, <3>4 DEF ReleaseWork, Obeys, Speed
      <3> QED BY <1>15, <3>1, <3>5
              DEF CallWork, ApplyWork, RollbackWork, StopWork, ZeroHolds, Applying, RollingBack,
                  Stopping
    <2> QED BY <2>1, <2>2
  <1>22. lock' = lock
    BY DEF WriteHalt
  <1> QED BY <1>1, <1>5, <1>14, <1>15, <1>16, <1>21, <1>22, HolderStep

\* An apply has stopped the endpoint that failed: it takes those before it
\* with it if it is a required one, or ends.
LEMMA UndoEnds ==
    ASSUME DriveInv, NEW c \in Callers, WriteHalt(c), Touches(c, {}), call[c].pc = "undo_halt",
           UNCHANGED <<last_command, manual>>
    PROVE  DriveInv'
  <1>1. Holds(c)
    BY DEF Holds
  <1>2. /\ call[c] \in CallRecord /\ Len(call[c].requests) \in Nat /\ call[c].index \in Nat
        /\ request(c).endpoint \in RegisteredEndpoints
        /\ call[c].index \in 1..Len(call[c].requests)
        /\ call[c].kind = "apply" /\ call[c].undone = 0 /\ call[c].applied = Before(c)
    BY <1>1, HolderFacts DEF CallWork, ApplyWork, Applying
  <1>3. call \in [Callers -> CallRecord]
    BY DEF DriveInv, Scalars
  <1>4. PICK e \in RegisteredEndpoints, registers \in [target: Nat, started: BOOLEAN],
             outcome \in Outcome, hist \in [reached: BOOLEAN, endpoints: SUBSET RegisteredEndpoints] :
          /\ e = stopping(c) /\ Write(e, registers, outcome)
          /\ missed' = [missed EXCEPT ![c] = hist]
          /\ call' = [call EXCEPT ![c] = apply_fails(c)]
          /\ (Speed(e) = 0 \/ e \in touched[c] \/ e \in missed[c].endpoints)'
    BY HaltFacts
  <1>5. e = request(c).endpoint
    BY <1>4 DEF stopping
  <1>6. PICK q \in {"rollback_zero", "release"} :
          q = IF takes_others_along(c) /\ call[c].index > 1 THEN "rollback_zero" ELSE "release"
    OBVIOUS
  <1>7. PICK result \in {"FAILURE", "PARTIAL"} :
          result = IF call[c].applied = {} THEN "FAILURE" ELSE "PARTIAL"
    OBVIOUS
  <1>8. PICK next : next = [call[c] EXCEPT !.pc = q, !.result = result]
    OBVIOUS
  <1>9. next = apply_fails(c)
    BY <1>6, <1>7, <1>8 DEF apply_fails
  <1>10. /\ next \in CallRecord /\ next.kind = call[c].kind /\ next.undone = call[c].undone
         /\ next.requests = call[c].requests /\ next.result = result
         /\ next.applied = call[c].applied /\ next.pc = q /\ next.index = call[c].index
    BY <1>2, <1>8 DEF CallRecord, RollingBack
  <1>11. call' = [call EXCEPT ![c] = next] /\ call'[c] = next
    BY <1>3, <1>4, <1>9
  <1>12. request(c)' = request(c) /\ Before(c)' = Before(c)
    BY <1>10, <1>11 DEF request, Before, asks
  <1>13. Stopped(c, e)'
    BY <1>4 DEF Stopped, Resting
  <1>14. CallWork(c)'
    <2>1. CASE q = "rollback_zero"
      <3>1. call[c].index > 1
        BY <1>6, <2>1
      <3>2. RollbackWork(c)'
        BY <1>2, <1>5, <1>7, <1>10, <1>11, <1>12, <1>13, <3>1
           DEF RollbackWork, Stopped, Resting, Speed
      <3> QED BY <1>10, <1>11, <2>1, <3>2
              DEF CallWork, ApplyWork, StopWork, ZeroHolds, ReleaseWork, Applying, Stopping
    <2>2. CASE q = "release"
      <3>1. request(c).endpoint \in Required => call[c].applied = {}
        <4>1. request(c).endpoint \in Required => call[c].index = 1
          BY <1>2, <1>6, <2>2 DEF takes_others_along
        <4> QED BY <1>2, <4>1 DEF Before
      <3>2. ReleaseWork(c)'
        BY <1>2, <1>5, <1>7, <1>10, <1>11, <1>12, <1>13, <3>1
           DEF ReleaseWork, Stopped, Resting, Speed
      <3> QED BY <1>10, <1>11, <2>2, <3>2
              DEF CallWork, ApplyWork, RollbackWork, StopWork, ZeroHolds, Applying, RollingBack,
                  Stopping
    <2> QED BY <2>1, <2>2
  <1>15. lock' = lock /\ next.pc \notin {"idle", "acquire"}
         /\ next.index \in 1..Len(next.requests)
    BY <1>2, <1>10 DEF WriteHalt
  <1> QED BY <1>1, <1>4, <1>10, <1>11, <1>14, <1>15, HolderStep

\* A rollback has stopped one endpoint, and goes on up to the one that failed.
LEMMA RollbackEnds ==
    ASSUME DriveInv, NEW c \in Callers, WriteHalt(c), Touches(c, {}), call[c].pc = "rollback_halt",
           UNCHANGED <<last_command, manual>>
    PROVE  DriveInv'
  <1>1. Holds(c)
    BY DEF Holds
  <1>2. /\ call[c] \in CallRecord /\ Len(call[c].requests) \in Nat /\ call[c].index \in Nat
        /\ call[c].undone \in Nat /\ request(c).endpoint \in RegisteredEndpoints
        /\ call[c].index \in 1..Len(call[c].requests)
        /\ request(c) = call[c].requests[call[c].index]
        /\ \A i, j \in 1..Len(call[c].requests) : asks(c, i) = asks(c, j) => i = j
        /\ \A i \in 1..Len(call[c].requests) : asks(c, i) \in RegisteredEndpoints
        /\ RollbackWork(c)
    BY <1>1, HolderFacts DEF CallWork
  <1>3. /\ call[c].kind = "apply" /\ call[c].result # "SUCCESS"
        /\ call[c].applied = Before(c) /\ call[c].undone + 1 < call[c].index
        /\ Stopped(c, request(c).endpoint)
        /\ \A i \in 1..call[c].undone : Stopped(c, asks(c, i))
    BY <1>2 DEF RollbackWork, RollingBack
  <1>4. call \in [Callers -> CallRecord]
    BY DEF DriveInv, Scalars
  <1>5. PICK e \in RegisteredEndpoints, registers \in [target: Nat, started: BOOLEAN],
             outcome \in Outcome, hist \in [reached: BOOLEAN, endpoints: SUBSET RegisteredEndpoints] :
          /\ e = stopping(c) /\ Write(e, registers, outcome)
          /\ missed' = [missed EXCEPT ![c] = hist]
          /\ call' = [call EXCEPT ![c] = rollback_next(c)]
          /\ \A x \in RegisteredEndpoints : x # e =>
               /\ drive'[x] = drive[x]
               /\ x \in touched[c] => x \in touched'[c]
               /\ x \in missed[c].endpoints => x \in missed'[c].endpoints
          /\ (Speed(e) = 0 \/ e \in touched[c] \/ e \in missed[c].endpoints)'
    BY HaltFacts
  <1>6. PICK undone \in Nat : undone = call[c].undone + 1
    BY <1>2
  <1>7. e = asks(c, undone)
    BY <1>5, <1>6 DEF stopping, asks
  <1>8. PICK q \in {"release", "rollback_zero"} :
          q = IF undone = call[c].index - 1 THEN "release" ELSE "rollback_zero"
    OBVIOUS
  <1>9. PICK next : next = [call[c] EXCEPT !.undone = undone, !.pc = q]
    OBVIOUS
  <1>10. next = rollback_next(c)
    BY <1>6, <1>8, <1>9 DEF rollback_next
  <1>11. /\ next \in CallRecord /\ next.kind = call[c].kind /\ next.undone = undone
         /\ next.requests = call[c].requests /\ next.result = call[c].result
         /\ next.applied = call[c].applied /\ next.pc = q /\ next.index = call[c].index
    BY <1>2, <1>9 DEF CallRecord, RollingBack
  <1>12. call' = [call EXCEPT ![c] = next] /\ call'[c] = next
    BY <1>4, <1>5, <1>10
  <1>13. request(c)' = request(c) /\ Before(c)' = Before(c) /\ \A i : asks(c, i)' = asks(c, i)
    BY <1>11, <1>12 DEF request, Before, asks
  <1>14. /\ \A i \in 1..Len(call[c].requests) : asks(c, i) # e =>
              (Stopped(c, asks(c, i)) => Stopped(c, asks(c, i))')
    BY <1>1, <1>5, <1>11, <1>12, HolderClaims
  <1>15. request(c).endpoint = asks(c, call[c].index)
    BY <1>2 DEF asks
  <1>16. Stopped(c, request(c).endpoint)'
    <2>1. PICK n \in 1..Len(call[c].requests) : n = call[c].index
      BY <1>2
    <2>2. n # undone /\ undone \in 1..Len(call[c].requests)
      BY <1>2, <1>3, <1>6, <2>1
    <2>3. asks(c, n) # e
      BY <1>2, <1>7, <2>2
    <2>4. Stopped(c, asks(c, n))
      BY <1>3, <1>15, <2>1
    <2>5. Stopped(c, asks(c, n))'
      BY <1>14, <2>3, <2>4
    <2> QED BY <1>11, <1>12, <1>13, <1>15, <2>1, <2>5 DEF Stopped, Resting, Speed
  <1>17. \A i \in 1..undone : Stopped(c, asks(c, i))'
    <2> SUFFICES ASSUME NEW i \in 1..undone PROVE Stopped(c, asks(c, i))'
      OBVIOUS
    <2>1. CASE i = undone
      BY <1>5, <1>7, <1>13, <2>1 DEF Stopped, Resting, Speed
    <2>2. CASE i # undone
      <3>1. i \in 1..call[c].undone
        BY <1>2, <1>6, <2>2
      <3>2. i \in 1..Len(call[c].requests) /\ undone \in 1..Len(call[c].requests)
        BY <1>2, <1>3, <1>6
      <3>3. asks(c, i) # e
        BY <1>2, <1>7, <2>2, <3>2
      <3> QED BY <1>3, <1>14, <3>1, <3>2, <3>3
    <2> QED BY <2>1, <2>2
  <1>18. CallWork(c)'
    <2>1. CASE q = "rollback_zero"
      <3>1. undone + 1 < call[c].index
        BY <1>2, <1>3, <1>6, <1>8, <2>1
      <3>2. RollbackWork(c)'
        BY <1>3, <1>11, <1>12, <1>13, <1>16, <1>17, <3>1
           DEF RollbackWork, Stopped, Resting, Speed
      <3> QED BY <1>11, <1>12, <2>1, <3>2
              DEF CallWork, ApplyWork, StopWork, ZeroHolds, ReleaseWork, Applying, Stopping
    <2>2. CASE q = "release"
      <3>1. undone = call[c].index - 1
        BY <1>8, <2>2
      <3>2. \A x \in Before(c) : Stopped(c, x)'
        BY <1>2, <1>13, <1>17, <3>1 DEF Before, Stopped, Resting, Speed
      <3>3. undone <= call[c].index
        BY <1>2, <3>1
      <3>4. ReleaseWork(c)'
        BY <1>3, <1>11, <1>12, <1>13, <1>16, <3>2, <3>3
           DEF ReleaseWork, Stopped, Resting, Speed
      <3> QED BY <1>11, <1>12, <2>2, <3>4
              DEF CallWork, ApplyWork, RollbackWork, StopWork, ZeroHolds, Applying, RollingBack,
                  Stopping
    <2> QED BY <2>1, <2>2
  <1>19. lock' = lock /\ next.pc \notin {"idle", "acquire"}
         /\ next.index \in 1..Len(next.requests)
    BY <1>2, <1>11 DEF WriteHalt
  <1> QED BY <1>1, <1>5, <1>11, <1>12, <1>18, <1>19, HolderStep

\* Of one endpoint or of all: a stop that is about all wheels names them all.
LEMMA AboutAllNamesAll ==
    ASSUME NEW r \in RequestSeqs, IsStop(r), Len(r) = Len(Endpoints)
    PROVE  NamesAll(r)
  <1>1. CASE r = everything
    BY <1>1, EverythingType
  <1>2. CASE Len(r) = 1
    <2>1. \A e \in RegisteredEndpoints : e = Endpoints[1]
      BY <1>2 DEF RegisteredEndpoints
    <2>2. r[1].endpoint \in RegisteredEndpoints /\ 1 \in DOMAIN r
      BY <1>2, RequestsType
    <2> QED BY <2>1, <2>2 DEF NamesAll
  <1> QED BY <1>1, <1>2 DEF IsStop

\* A call without claims of its own keeps its record.
LEMMA IdleType == Idle \in CallRecord /\ Nothing \in ManualRecord
  <1>1. <<>> \in Seq(Setpoints)
    OBVIOUS
  <1> QED BY <1>1 DEF Idle, CallRecord, Nothing, ManualRecord

\* The coordinator returns, and the port goes on to record a success.
LEMMA ReturnStep ==
    ASSUME DriveInv, NEW c \in Callers, Return(c)
    PROVE  DriveInv'
  <1>1. /\ call \in [Callers -> CallRecord] /\ manual \in [Callers -> ManualRecord]
        /\ missed \in [Callers -> [reached: BOOLEAN, endpoints: SUBSET RegisteredEndpoints]]
        /\ touched \in [Callers -> SUBSET RegisteredEndpoints]
        /\ call[c].pc = "release" /\ Holds(c)
    BY DEF DriveInv, Scalars, Return, Release, Holds
  <1>2. /\ lock = c /\ manual[c].pc = "idle" /\ call[c].requests \in RequestSeqs
        /\ call[c].kind \in {"apply", "stop"}
        /\ call[c].kind = "stop" => IsStop(call[c].requests)
    BY <1>1, HolderFacts
  <1>3. call'[c] = Idle /\ \A w \in Callers \ {c} : call'[w] = call[w]
    BY <1>1 DEF Return, Release
  <1>4. call' \in [Callers -> CallRecord]
    BY <1>1, IdleType DEF Return, Release
  <1>5. /\ missed' \in [Callers -> [reached: BOOLEAN, endpoints: SUBSET RegisteredEndpoints]]
        /\ \A w \in Callers \ {c} : missed'[w] = missed[w]
    <2>1. [reached |-> FALSE, endpoints |-> {}] \in
            [reached: BOOLEAN, endpoints: SUBSET RegisteredEndpoints]
      OBVIOUS
    <2> QED BY <1>1, <2>1 DEF Return, Release
  <1>6. /\ touched' \in [Callers -> SUBSET RegisteredEndpoints]
        /\ \A w \in Callers \ {c} : touched'[w] = touched[w]
    BY <1>1 DEF Return, Afresh
  <1>7. drive' = drive /\ lock' = "nobody" /\ last_command' = last_command /\ faults' = faults
    BY DEF Return, Release, released
  <1>8. CASE call[c].result # "SUCCESS"
    <2>1. manual' = manual
      BY <1>8 DEF Return
    <2>2. Scalars'
      BY <1>4, <1>5, <1>6, <1>7, <2>1 DEF DriveInv, Scalars
    <2>3. \A w \in Callers \ {c} : CallerOK(w)'
      BY <1>2, <1>3, <1>5, <1>6, <1>7, <2>1, OthersSurvive
    <2> QED BY <1>2, <1>3, <2>1, <2>2, <2>3, CallIdle, ManualIdle, Assembled
  <1>9. CASE call[c].result = "SUCCESS"
    <2>1. PICK kind \in {"apply", "stop"}, requests \in RequestSeqs :
            kind = call[c].kind /\ requests = call[c].requests
      BY <1>2
    <2>2. PICK next : next = [Nothing EXCEPT !.pc = "record", !.kind = kind,
                                             !.requests = requests, !.index = 1]
      OBVIOUS
    <2>3. next = [pc |-> "record", kind |-> kind, requests |-> requests, index |-> 1,
                  ok |-> TRUE, zeroed |-> TRUE, stopped |-> TRUE]
      BY <2>2 DEF Nothing
    <2>4. requests \in Seq(Setpoints) /\ Len(requests) \in Nat \ {0}
      BY RequestsType
    <2>5. next \in ManualRecord
      BY <2>3, <2>4 DEF ManualRecord
    <2>6. manual' = [manual EXCEPT ![c] = next]
      BY <1>9, <2>1, <2>2 DEF Return
    <2>7. manual'[c] = next /\ \A w \in Callers \ {c} : manual'[w] = manual[w]
      BY <1>1, <2>6
    <2>8. manual' \in [Callers -> ManualRecord]
      BY <1>1, <2>5, <2>6
    <2>9. Scalars'
      BY <1>4, <1>5, <1>6, <1>7, <2>8 DEF DriveInv, Scalars
    <2> DEFINE m == manual'[c]
    <2>14. /\ m.pc = "record" /\ m.kind = kind /\ m.requests = requests /\ m.index = 1
           /\ m.ok = TRUE /\ m.zeroed = TRUE /\ m.stopped = TRUE
      BY <2>3, <2>7
    <2>10. about_all(c)' => NamesAll(requests)
      <3>1. kind = "stop" => IsStop(requests)
        BY <1>2, <2>1
      <3>2. about_all(c)' => kind = "stop" /\ Len(requests) = Len(Endpoints)
        BY <2>14 DEF about_all
      <3> QED BY <3>1, <3>2, AboutAllNamesAll
    <2>11. ManualShape(c)'
      BY <2>4, <2>10, <2>14 DEF ManualShape, StopsWheels
    <2>12. ManualWork(c)'
      BY <2>14 DEF ManualWork, TargetWork, StopWheelsWork, DoneWork, StopsWheels
    <2>13. \A w \in Callers \ {c} : CallerOK(w)'
      BY <1>2, <1>3, <1>5, <1>6, <1>7, <2>7, OthersSurvive
    <2> QED BY <1>3, <2>9, <2>11, <2>12, <2>13, CallIdle, Assembled
  <1> QED BY <1>8, <1>9

\* A command around the coordinator begins.
LEMMA ManualBegins ==
    ASSUME DriveInv, NEW o \in Callers, NEW requests \in Seq(Setpoints),
           NEW kind \in {"enable_one", "enable_all", "move", "update"},
           NEW pc \in {"target", "download"}, Manual(o, kind, pc, requests),
           pc = "target" => requests \in RequestSeqs /\ kind # "update",
           pc = "target" /\ kind # "enable_one" => NamesAll(requests),
           pc = "download" => requests = <<>> /\ kind = "update"
    PROVE  DriveInv'
  <1>1. /\ manual \in [Callers -> ManualRecord] /\ call[o].pc = "idle" /\ CallShape(o)
        /\ Len(requests) \in Nat
    <2>1. manual \in [Callers -> ManualRecord] /\ CallShape(o)
      BY DEF DriveInv, Scalars, CallerOK
    <2>2. call[o].pc = "idle"
      BY DEF Manual, Busy
    <2>3. Len(requests) \in Nat
      OBVIOUS
    <2> QED BY <2>1, <2>2, <2>3
  <1>2. PICK next : next = [Nothing EXCEPT !.pc = pc, !.kind = kind,
                                           !.requests = requests, !.index = 1]
    OBVIOUS
  <1>3. next = [pc |-> pc, kind |-> kind, requests |-> requests, index |-> 1,
                ok |-> TRUE, zeroed |-> TRUE, stopped |-> TRUE]
    BY <1>2 DEF Nothing
  <1>4. next \in ManualRecord
    BY <1>3 DEF ManualRecord
  <1>5. manual' = [manual EXCEPT ![o] = next]
    BY <1>2 DEF Manual
  <1>6. manual'[o] = next /\ \A w \in Callers \ {o} : manual'[w] = manual[w]
    BY <1>1, <1>5
  <1> DEFINE m == manual'[o]
  <1>16. /\ m.pc = pc /\ m.kind = kind /\ m.requests = requests /\ m.index = 1
         /\ m.ok = TRUE /\ m.zeroed = TRUE /\ m.stopped = TRUE
    BY <1>3, <1>6
  <1>7. UNCHANGED <<drive, lock, call, faults, missed, last_command, touched>>
    BY DEF Manual, vars
  <1>8. manual' \in [Callers -> ManualRecord]
    BY <1>1, <1>4, <1>5
  <1>9. Scalars'
    BY <1>7, <1>8 DEF DriveInv, Scalars, Holds
  <1>10. call'[o] = Idle
    BY <1>1, <1>7 DEF CallShape
  <1>11. pc = "target" => Len(requests) \in Nat \ {0}
    BY RequestsType
  <1>12. about_all(o)' /\ pc = "target" => NamesAll(requests)
    BY <1>16 DEF about_all
  <1>13. ManualShape(o)'
    <2>1. CASE pc = "target"
      BY <1>11, <1>12, <1>16, <2>1 DEF ManualShape, StopsWheels
    <2>2. CASE pc = "download"
      BY <1>1, <1>16, <2>2 DEF ManualShape, StopsWheels
    <2> QED BY <2>1, <2>2
  <1>14. ManualWork(o)'
    BY <1>16 DEF ManualWork, TargetWork, StopWheelsWork, DoneWork, StopsWheels
  <1>15. \A w \in Callers \ {o} : CallerOK(w)'
    BY <1>6, <1>7, OthersSurvive
  <1> QED BY <1>9, <1>10, <1>13, <1>14, <1>15, CallIdle, Assembled

\* The four commands of the facade,
LEMMA FacadeStep ==
    ASSUME DriveInv, NEW o \in Callers,
           Enable(o) \/ EnableAll(o) \/ MoveVel(o) \/ OtaUpdate(o)
    PROVE  DriveInv'
  <1>1. CASE Enable(o)
    <2>1. PICK e \in RegisteredEndpoints : Manual(o, "enable_one", "target", <<StopOf(e)>>)
      BY <1>1 DEF Enable
    <2>2. PICK r \in RequestSeqs : r = <<StopOf(e)>>
      BY StopOfType
    <2>3. r \in Seq(Setpoints)
      BY RequestsType
    <2> QED BY <2>1, <2>2, <2>3, ManualBegins
  <1>2. CASE EnableAll(o)
    <2>1. Manual(o, "enable_all", "target", everything)
      BY <1>2 DEF EnableAll
    <2>2. everything \in RequestSeqs /\ NamesAll(everything)
      BY EverythingType
    <2>3. everything \in Seq(Setpoints)
      BY <2>2, RequestsType
    <2> QED BY <2>1, <2>2, <2>3, ManualBegins
  <1>3. CASE MoveVel(o)
    <2>1. PICK v \in Moves :
            Manual(o, "move", "target",
                   [i \in DOMAIN Endpoints |-> [endpoint |-> Endpoints[i], rpm |-> v[Endpoints[i]]]])
      BY <1>3 DEF MoveVel
    <2>2. PICK r : r = [i \in 1..Len(Endpoints) |->
                          [endpoint |-> Endpoints[i], rpm |-> v[Endpoints[i]]]]
      OBVIOUS
    <2>3. v \in [RegisteredEndpoints -> Nat]
      BY ManualAssumption
    <2>4. /\ DOMAIN r = 1..Len(Endpoints)
          /\ \A i \in 1..Len(Endpoints) : r[i].endpoint = Endpoints[i] /\ r[i] \in Setpoints
      BY <2>2, <2>3, Registry DEF Setpoints
    <2>5. r \in [1..Len(Endpoints) -> Setpoints]
      BY <2>2, <2>4
    <2>6. r \in Seq(Setpoints) /\ Len(r) = Len(Endpoints)
      BY <2>5, Registry
    <2>7. r # <<>>
      BY <2>6, Registry
    <2>8. \A i, j \in DOMAIN r : r[i].endpoint = r[j].endpoint => i = j
      BY <2>4, Registry
    <2>9. r \in RequestSeqs
      BY <2>6, <2>7, <2>8 DEF RequestSeqs
    <2>10. NamesAll(r)
      BY <2>4 DEF NamesAll, RegisteredEndpoints
    <2>11. Manual(o, "move", "target", r)
      BY <2>1, <2>2, Registry
    <2> QED BY <2>6, <2>9, <2>10, <2>11, ManualBegins
  <1>4. CASE OtaUpdate(o)
    <2>1. Manual(o, "update", "download", <<>>)
      BY <1>4 DEF OtaUpdate
    <2>2. <<>> \in Seq(Setpoints)
      OBVIOUS
    <2> QED BY <2>1, <2>2, ManualBegins
  <1> QED BY <1>1, <1>2, <1>3, <1>4

\* A register write around the coordinator: what remains is to show that the
\* command knows what it claims.
LEMMA WriterStep ==
    ASSUME DriveInv, NEW o \in Callers, manual[o].pc \in {"target", "start"} \cup StopsWheels,
           NEW e \in RegisteredEndpoints, NEW registers \in [target: Nat, started: BOOLEAN],
           NEW outcome \in Outcome, NEW zeroed, Write(e, registers, outcome), Touches(o, zeroed),
           UNCHANGED <<lock, call, last_command>>,
           NEW next \in ManualRecord, manual' = [manual EXCEPT ![o] = next],
           NEW hist \in [reached: BOOLEAN, endpoints: SUBSET RegisteredEndpoints],
           missed' = [missed EXCEPT ![o] = hist],
           ManualShape(o)', ManualWork(o)'
    PROVE  DriveInv'
  <1>1. /\ call \in [Callers -> CallRecord] /\ manual \in [Callers -> ManualRecord]
        /\ missed \in [Callers -> [reached: BOOLEAN, endpoints: SUBSET RegisteredEndpoints]]
        /\ CallShape(o) /\ last_command \in [RegisteredEndpoints -> Nat]
        /\ lock \in Callers \cup {"nobody"} /\ (lock # "nobody" => Holds(lock))
    BY DEF DriveInv, Scalars, CallerOK
  <1>2. call[o].pc = "idle"
    BY WriterFacts
  <1>3. call'[o] = Idle
    BY <1>1, <1>2 DEF CallShape
  <1>4. \A w \in Callers \ {o} : /\ call'[w] = call[w]
                                 /\ manual'[w] = manual[w] /\ missed'[w] = missed[w]
    BY <1>1
  <1>5. /\ drive' \in [RegisteredEndpoints -> [target: Nat, started: BOOLEAN]]
        /\ faults' \in 0..MaxFaults /\ touched' \in [Callers -> SUBSET RegisteredEndpoints]
    BY WriteFacts
  <1>6. /\ missed' \in [Callers -> [reached: BOOLEAN, endpoints: SUBSET RegisteredEndpoints]]
        /\ manual' \in [Callers -> ManualRecord]
    BY <1>1
  <1>7. Scalars'
    BY <1>1, <1>5, <1>6 DEF Scalars, Holds
  <1>8. \A w \in Callers \ {o} : CallerOK(w)'
    <2>1. manual[o].pc # "idle"
      BY DEF StopsWheels
    <2> QED BY <1>4, <2>1, OthersSurvive
  <1> QED BY <1>3, <1>7, <1>8, CallIdle, Assembled

\* What a command knows of the wheels other than the one it writes.
LEMMA WriterClaims ==
    ASSUME DriveInv, NEW o \in Callers, manual[o].pc \in {"target", "start"} \cup StopsWheels,
           NEW e \in RegisteredEndpoints, manual'[o].requests = manual[o].requests,
           \A x \in RegisteredEndpoints : x # e =>
               /\ drive'[x] = drive[x]
               /\ x \in touched[o] => x \in touched'[o]
               /\ x \in missed[o].endpoints => x \in missed'[o].endpoints
    PROVE  \A i \in 1..Len(manual[o].requests) : wheel(o, i) # e =>
               /\ Targets(o, manual[o].requests[i]) => Targets(o, manual[o].requests[i])'
               /\ Stopped(o, wheel(o, i)) => Stopped(o, wheel(o, i))'
               /\ Resting(o, wheel(o, i)) => Resting(o, wheel(o, i))'
  <1>1. ASSUME NEW i \in 1..Len(manual[o].requests), wheel(o, i) # e
        PROVE  /\ Targets(o, manual[o].requests[i]) => Targets(o, manual[o].requests[i])'
               /\ Stopped(o, wheel(o, i)) => Stopped(o, wheel(o, i))'
               /\ Resting(o, wheel(o, i)) => Resting(o, wheel(o, i))'
    <2>1. /\ wheel(o, i) \in RegisteredEndpoints
          /\ wheel(o, i) = manual[o].requests[i].endpoint
          /\ manual'[o].requests[i] = manual[o].requests[i] /\ wheel(o, i)' = wheel(o, i)
      BY WriterFacts DEF wheel
    <2>2. Targets(o, manual[o].requests[i]) => Targets(o, manual[o].requests[i])'
      BY <1>1, <2>1 DEF Targets
    <2>3. /\ Stopped(o, wheel(o, i)) => Stopped(o, wheel(o, i))'
          /\ Resting(o, wheel(o, i)) => Resting(o, wheel(o, i))'
      BY <1>1, <2>1 DEF Stopped, Resting, Speed
    <2> QED BY <2>2, <2>3
  <1> QED BY <1>1

\* The next wheel of a phase, or the first of the next phase; or the fail-stop.
LEMMA OnwardFacts ==
    ASSUME DriveInv, NEW o \in Callers, manual[o].pc \in {"target", "start"}, NEW next,
           NEW phase \in {"start", "record"},
           next = onward(o, phase) \/ next = failed(o)
    PROVE  /\ next \in ManualRecord
           /\ next.kind = manual[o].kind /\ next.requests = manual[o].requests
           /\ next = failed(o) => next.pc = "zero" /\ ~next.ok /\ next.index = 1
           /\ next = onward(o, phase) =>
                /\ next.ok = manual[o].ok
                /\ next.pc = IF last_asked(o) THEN phase ELSE manual[o].pc
                /\ next.index = IF last_asked(o) THEN 1 ELSE manual[o].index + 1
  <1>1. manual[o] \in ManualRecord /\ manual[o].index + 1 \in Nat
    BY WriterFacts
  <1>2. CASE next = failed(o)
    <2>1. next = [manual[o] EXCEPT !.pc = "zero", !.ok = FALSE, !.index = 1]
      BY <1>2 DEF failed
    <2>2. /\ next \in ManualRecord /\ next.pc = "zero" /\ next.ok = FALSE /\ next.index = 1
          /\ next.kind = manual[o].kind /\ next.requests = manual[o].requests
      BY <1>1, <2>1 DEF ManualRecord
    <2>3. next # onward(o, phase)
      <3>1. onward(o, phase).ok = manual[o].ok \/ onward(o, phase).ok = TRUE
        BY <1>1 DEF onward, ManualRecord
      <3>2. manual[o].ok = TRUE
        BY WriterFacts DEF ManualWork, TargetWork
      <3> QED BY <2>2, <3>1, <3>2
    <2> QED BY <2>2, <2>3
  <1>3. CASE next # failed(o) /\ last_asked(o)
    <2>1. next = [manual[o] EXCEPT !.pc = phase, !.index = 1]
      BY <1>3 DEF onward
    <2> QED BY <1>1, <1>3, <2>1 DEF ManualRecord
  <1>4. CASE next # failed(o) /\ ~last_asked(o)
    <2>1. next = [manual[o] EXCEPT !.index = manual[o].index + 1]
      BY <1>4 DEF onward
    <2> QED BY <1>1, <1>4, <2>1 DEF ManualRecord
  <1> QED BY <1>2, <1>3, <1>4

\* A fail-stop begins with nothing stopped.
LEMMA FailStopBegins ==
    ASSUME DriveInv, NEW o \in Callers, manual[o].pc \in {"target", "start"},
           manual'[o] = failed(o)
    PROVE  ManualShape(o)' /\ ManualWork(o)'
  <1> DEFINE m == manual'[o]
  <1>1. /\ manual[o].requests \in RequestSeqs /\ Len(manual[o].requests) \in Nat
        /\ manual[o].index \in 1..Len(manual[o].requests)
        /\ manual[o].kind \in {"enable_one", "enable_all", "move", "update"}
        /\ ManualShape(o)
    BY WriterFacts
  <1>2. /\ m.kind = manual[o].kind /\ m.requests = manual[o].requests
        /\ m.pc = "zero" /\ m.ok = FALSE /\ m.index = 1
    BY WriterFacts DEF failed, ManualRecord
  <1>3. about_all(o)' <=> about_all(o)
    BY <1>2 DEF about_all
  <1>4. Len(manual[o].requests) \in Nat \ {0}
    BY <1>1
  <1>5. m.kind # "update" /\ (about_all(o) => NamesAll(manual[o].requests))
    BY <1>1, <1>2 DEF ManualShape
  <1>6. ManualShape(o)'
    BY <1>1, <1>2, <1>3, <1>4, <1>5 DEF ManualShape, StopsWheels
  <1>7. missed'[o].reached => m.pc # "halt"
    BY <1>2
  <1>8. ManualWork(o)'
    BY <1>2 DEF ManualWork, TargetWork, StopWheelsWork, DoneWork
  <1> QED BY <1>6, <1>8

\* A command writes the target of one of its wheels.
LEMMA SetTargetStep ==
    ASSUME DriveInv, NEW o \in Callers, SetTarget(o)
    PROVE  DriveInv'
  <1>1. manual[o].pc = "target"
    BY DEF SetTarget
  <1>2. /\ manual[o] \in ManualRecord /\ manual[o].requests \in RequestSeqs
        /\ DOMAIN manual[o].requests = 1..Len(manual[o].requests)
        /\ Len(manual[o].requests) \in Nat /\ manual[o].index \in Nat
        /\ manual[o].index \in 1..Len(manual[o].requests)
        /\ \A i \in 1..Len(manual[o].requests) : wheel(o, i) \in RegisteredEndpoints
        /\ \A i, j \in 1..Len(manual[o].requests) : wheel(o, i) = wheel(o, j) => i = j
        /\ asked(o) = manual[o].requests[manual[o].index]
        /\ asked(o).endpoint \in RegisteredEndpoints /\ asked(o).rpm \in Nat
        /\ asked(o).endpoint = wheel(o, manual[o].index)
        /\ manual[o].kind \in {"enable_one", "enable_all", "move", "update"}
        /\ ManualShape(o) /\ TargetWork(o)
    BY <1>1, WriterFacts DEF ManualWork, Setpoints, wheel
  <1>3. /\ drive \in [RegisteredEndpoints -> [target: Nat, started: BOOLEAN]]
        /\ missed \in [Callers -> [reached: BOOLEAN, endpoints: SUBSET RegisteredEndpoints]]
        /\ manual \in [Callers -> ManualRecord]
    BY DEF DriveInv, Scalars
  <1>4. PICK e \in RegisteredEndpoints : e = asked(o).endpoint
    BY <1>2
  <1>5. PICK registers \in [target: Nat, started: BOOLEAN] :
            registers = [drive[e] EXCEPT !.target = asked(o).rpm]
    <2>1. drive[e] \in [target: Nat, started: BOOLEAN] /\ asked(o).rpm \in Nat
      BY <1>2, <1>3
    <2> QED BY <2>1
  <1>6. PICK outcome \in Outcome :
          /\ Write(e, registers, outcome) /\ Touches(o, {})
          /\ UNCHANGED <<lock, call, last_command>>
          /\ manual' = [manual EXCEPT ![o] = IF outcome = "acknowledged"
                                             THEN onward(o, "start") ELSE failed(o)]
    BY <1>4, <1>5 DEF SetTarget, ManualWrite, Write
  <1>7. PICK next : next = IF outcome = "acknowledged" THEN onward(o, "start") ELSE failed(o)
    OBVIOUS
  <1>8. manual' = [manual EXCEPT ![o] = next] /\ manual'[o] = next
    BY <1>3, <1>6, <1>7
  <1>9. /\ next \in ManualRecord
        /\ next.kind = manual[o].kind /\ next.requests = manual[o].requests
        /\ next = onward(o, "start") =>
             /\ next.ok = manual[o].ok
             /\ next.pc = IF last_asked(o) THEN "start" ELSE manual[o].pc
             /\ next.index = IF last_asked(o) THEN 1 ELSE manual[o].index + 1
    BY <1>1, <1>7, OnwardFacts
  <1>10. /\ missed[o] \in [reached: BOOLEAN, endpoints: SUBSET RegisteredEndpoints]
         /\ missed' = [missed EXCEPT ![o] = missed[o]] /\ missed' = missed
    BY <1>3 DEF SetTarget
  <1>11. /\ \A x \in RegisteredEndpoints : x \in touched'[o] <=> x \in touched[o]
         /\ \A x \in RegisteredEndpoints : x # e => drive'[x] = drive[x]
         /\ drive'[e] = IF outcome = "lost" THEN drive[e] ELSE registers
    BY <1>6, WriteFacts
  <1>12. CASE next = failed(o)
    BY <1>1, <1>6, <1>8, <1>9, <1>10, <1>12, FailStopBegins, WriterStep
  <1>13. CASE next # failed(o)
    <2>1. outcome = "acknowledged" /\ next = onward(o, "start")
      BY <1>7, <1>13
    <2>2. last_asked(o) <=> manual[o].index = Len(manual[o].requests)
      BY DEF last_asked
    <2>3. \A i \in 1..manual[o].index : Targets(o, manual[o].requests[i])'
      <3> SUFFICES ASSUME NEW i \in 1..manual[o].index
                   PROVE  Targets(o, manual[o].requests[i])'
        OBVIOUS
      <3>1. CASE i = manual[o].index
        <4>1. drive'[e].target = asked(o).rpm
          BY <1>2, <1>3, <1>5, <1>11, <2>1
        <4>2. manual'[o].requests[i] = asked(o)
          BY <1>2, <1>8, <1>9, <3>1
        <4> QED BY <1>4, <4>1, <4>2 DEF Targets
      <3>2. CASE i # manual[o].index
        <4>1. i \in 1..(manual[o].index - 1) /\ i \in 1..Len(manual[o].requests)
          BY <1>2, <3>2
        <4>2. wheel(o, i) # e
          BY <1>2, <1>4, <3>2, <4>1
        <4>3. Targets(o, manual[o].requests[i])
          BY <1>1, <1>2, <4>1 DEF TargetWork
        <4> QED BY <1>1, <1>8, <1>9, <1>10, <1>11, <4>1, <4>2, <4>3, WriterClaims
      <3> QED BY <3>1, <3>2
    <2>4. manual[o].ok
      BY <1>1, <1>2 DEF TargetWork
    <2>5. about_all(o)' <=> about_all(o)
      BY <1>8, <1>9 DEF about_all
    <2>6. CASE last_asked(o)
      <3>1. next.pc = "start" /\ next.index = 1 /\ next.ok
        BY <1>9, <2>1, <2>4, <2>6
      <3>2. ManualShape(o)'
        BY <1>1, <1>2, <1>8, <1>9, <2>5, <3>1 DEF ManualShape, StopsWheels
      <3>3. \A i \in DOMAIN manual[o].requests : Targets(o, manual[o].requests[i])'
        BY <1>2, <2>2, <2>3, <2>6
      <3>4. ManualWork(o)'
        BY <1>8, <1>9, <3>1, <3>3
           DEF ManualWork, TargetWork, StopWheelsWork, DoneWork, StopsWheels, Targets
      <3> QED BY <1>1, <1>6, <1>8, <1>9, <1>10, <3>2, <3>4, WriterStep
    <2>7. CASE ~last_asked(o)
      <3>1. next.pc = "target" /\ next.index = manual[o].index + 1 /\ next.ok
        BY <1>1, <1>9, <2>1, <2>4, <2>7
      <3>2. manual[o].index + 1 \in 1..Len(manual[o].requests)
        BY <1>2, <2>2, <2>7
      <3>3. ManualShape(o)'
        BY <1>1, <1>2, <1>8, <1>9, <2>5, <3>1, <3>2 DEF ManualShape, StopsWheels
      <3>4. \A i \in 1..(next.index - 1) : Targets(o, manual[o].requests[i])'
        BY <1>2, <2>3, <3>1
      <3>5. ManualWork(o)'
        BY <1>8, <1>9, <3>1, <3>4
           DEF ManualWork, TargetWork, StopWheelsWork, DoneWork, StopsWheels, Targets
      <3> QED BY <1>1, <1>6, <1>8, <1>9, <1>10, <3>3, <3>5, WriterStep
    <2> QED BY <2>6, <2>7
  <1> QED BY <1>12, <1>13

\* A command starts one of its wheels.
LEMMA StartStep ==
    ASSUME DriveInv, NEW o \in Callers, Start(o)
    PROVE  DriveInv'
  <1>1. manual[o].pc = "start"
    BY DEF Start
  <1>2. /\ manual[o] \in ManualRecord /\ manual[o].requests \in RequestSeqs
        /\ DOMAIN manual[o].requests = 1..Len(manual[o].requests)
        /\ Len(manual[o].requests) \in Nat /\ manual[o].index \in Nat
        /\ manual[o].index \in 1..Len(manual[o].requests)
        /\ \A i \in 1..Len(manual[o].requests) : /\ wheel(o, i) \in RegisteredEndpoints
                                                 /\ manual[o].requests[i] \in Setpoints
        /\ asked(o).endpoint \in RegisteredEndpoints
        /\ manual[o].kind \in {"enable_one", "enable_all", "move", "update"}
        /\ ManualShape(o) /\ TargetWork(o)
    BY <1>1, WriterFacts DEF ManualWork
  <1>3. /\ drive \in [RegisteredEndpoints -> [target: Nat, started: BOOLEAN]]
        /\ missed \in [Callers -> [reached: BOOLEAN, endpoints: SUBSET RegisteredEndpoints]]
        /\ manual \in [Callers -> ManualRecord]
    BY DEF DriveInv, Scalars
  <1>4. PICK e \in RegisteredEndpoints : e = asked(o).endpoint
    BY <1>2
  <1>5. PICK registers \in [target: Nat, started: BOOLEAN] :
            registers = [drive[e] EXCEPT !.started = TRUE]
    BY <1>3
  <1>6. PICK outcome \in Outcome :
          /\ Write(e, registers, outcome) /\ Touches(o, {})
          /\ UNCHANGED <<lock, call, last_command>>
          /\ manual' = [manual EXCEPT ![o] = IF outcome = "acknowledged"
                                             THEN onward(o, "record") ELSE failed(o)]
    BY <1>4, <1>5 DEF Start, ManualWrite, Write
  <1>7. PICK next : next = IF outcome = "acknowledged" THEN onward(o, "record") ELSE failed(o)
    OBVIOUS
  <1>8. manual' = [manual EXCEPT ![o] = next] /\ manual'[o] = next
    BY <1>3, <1>6, <1>7
  <1>9. /\ next \in ManualRecord
        /\ next.kind = manual[o].kind /\ next.requests = manual[o].requests
        /\ next = onward(o, "record") =>
             /\ next.ok = manual[o].ok
             /\ next.pc = IF last_asked(o) THEN "record" ELSE manual[o].pc
             /\ next.index = IF last_asked(o) THEN 1 ELSE manual[o].index + 1
    BY <1>1, <1>7, OnwardFacts
  <1>10. /\ missed[o] \in [reached: BOOLEAN, endpoints: SUBSET RegisteredEndpoints]
         /\ missed' = [missed EXCEPT ![o] = missed[o]] /\ missed' = missed
    BY <1>3 DEF Start
  <1>11. /\ \A x \in RegisteredEndpoints : x \in touched'[o] <=> x \in touched[o]
         /\ \A x \in RegisteredEndpoints : x # e => drive'[x] = drive[x]
         /\ drive'[e] = IF outcome = "lost" THEN drive[e] ELSE registers
    BY <1>6, WriteFacts
  <1>12. CASE next = failed(o)
    BY <1>1, <1>6, <1>8, <1>9, <1>10, <1>12, FailStopBegins, WriterStep
  <1>13. CASE next # failed(o)
    <2>1. next = onward(o, "record")
      BY <1>7, <1>13
    <2>2. last_asked(o) <=> manual[o].index = Len(manual[o].requests)
      BY DEF last_asked
    <2>3. manual[o].ok /\ \A i \in DOMAIN manual[o].requests : Targets(o, manual[o].requests[i])
      BY <1>1, <1>2 DEF TargetWork
    <2>4. \A i \in DOMAIN manual[o].requests : Targets(o, manual[o].requests[i])'
      <3>1. \A x \in RegisteredEndpoints : drive'[x].target = drive[x].target
        BY <1>3, <1>5, <1>11
      <3>2. \A i \in DOMAIN manual[o].requests : manual[o].requests[i].endpoint \in RegisteredEndpoints
        BY <1>2 DEF Setpoints
      <3> QED BY <1>8, <1>9, <1>11, <2>3, <3>1, <3>2 DEF Targets
    <2>5. about_all(o)' <=> about_all(o)
      BY <1>8, <1>9 DEF about_all
    <2>6. CASE last_asked(o)
      <3>1. next.pc = "record" /\ next.index = 1 /\ next.ok
        BY <1>9, <2>1, <2>3, <2>6
      <3>2. ManualShape(o)'
        BY <1>1, <1>2, <1>8, <1>9, <2>5, <3>1 DEF ManualShape, StopsWheels
      <3>3. next.kind # "update"
        BY <1>1, <1>2, <1>9 DEF ManualShape
      <3>4. ManualWork(o)'
        BY <1>8, <3>1, <3>3 DEF ManualWork, TargetWork, StopWheelsWork, DoneWork, StopsWheels
      <3> QED BY <1>1, <1>6, <1>8, <1>9, <1>10, <3>2, <3>4, WriterStep
    <2>7. CASE ~last_asked(o)
      <3>1. next.pc = "start" /\ next.index = manual[o].index + 1 /\ next.ok
        BY <1>1, <1>9, <2>1, <2>3, <2>7
      <3>2. manual[o].index + 1 \in 1..Len(manual[o].requests)
        BY <1>2, <2>2, <2>7
      <3>3. ManualShape(o)'
        BY <1>1, <1>2, <1>8, <1>9, <2>5, <3>1, <3>2 DEF ManualShape, StopsWheels
      <3>4. ManualWork(o)'
        BY <1>8, <1>9, <2>4, <3>1
           DEF ManualWork, TargetWork, StopWheelsWork, DoneWork, StopsWheels, Targets
      <3> QED BY <1>1, <1>6, <1>8, <1>9, <1>10, <3>3, <3>4, WriterStep
    <2> QED BY <2>6, <2>7
  <1> QED BY <1>12, <1>13

\* A fail-stop, or the stop before an update, writes the zero of a wheel.
LEMMA StopZeroStep ==
    ASSUME DriveInv, NEW o \in Callers, StopZero(o)
    PROVE  DriveInv'
  <1>1. manual[o].pc = "zero"
    BY DEF StopZero
  <1>2. /\ manual[o] \in ManualRecord /\ manual[o].requests \in RequestSeqs
        /\ Len(manual[o].requests) \in Nat /\ manual[o].index \in Nat
        /\ manual[o].index \in 1..Len(manual[o].requests)
        /\ \A i \in 1..Len(manual[o].requests) : wheel(o, i) \in RegisteredEndpoints
        /\ \A i, j \in 1..Len(manual[o].requests) : wheel(o, i) = wheel(o, j) => i = j
        /\ asked(o).endpoint \in RegisteredEndpoints
        /\ asked(o).endpoint = wheel(o, manual[o].index)
        /\ manual[o].kind \in {"enable_one", "enable_all", "move", "update"}
        /\ ManualShape(o) /\ StopWheelsWork(o)
    BY <1>1, WriterFacts DEF ManualWork, wheel, StopsWheels
  <1>3. /\ drive \in [RegisteredEndpoints -> [target: Nat, started: BOOLEAN]]
        /\ missed \in [Callers -> [reached: BOOLEAN, endpoints: SUBSET RegisteredEndpoints]]
        /\ manual \in [Callers -> ManualRecord]
    BY DEF DriveInv, Scalars
  <1>4. PICK e \in RegisteredEndpoints : e = asked(o).endpoint
    BY <1>2
  <1>5. PICK registers \in [target: Nat, started: BOOLEAN] :
            registers = [drive[e] EXCEPT !.target = 0]
    BY <1>3
  <1>6. PICK outcome \in Outcome :
          /\ Write(e, registers, outcome) /\ Touches(o, {e})
          /\ UNCHANGED <<lock, call, last_command>>
          /\ manual' = [manual EXCEPT ![o].pc = "halt", ![o].zeroed = outcome = "acknowledged"]
          /\ missed' = [missed EXCEPT ![o].reached = outcome # "lost",
                                      ![o].endpoints = missed[o].endpoints \ {e}]
    <2>1. PICK outcome \in Outcome :
            /\ ManualWrite(o, [drive[asked(o).endpoint] EXCEPT !.target = 0], outcome,
                           {asked(o).endpoint})
            /\ manual' = [manual EXCEPT ![o].pc = "halt", ![o].zeroed = outcome = "acknowledged"]
            /\ missed' = [missed EXCEPT ![o].reached = outcome # "lost",
                                        ![o].endpoints = missed[o].endpoints \ {asked(o).endpoint}]
      BY DEF StopZero
    <2>2. Write(e, registers, outcome) /\ UNCHANGED <<lock, call, last_command>>
      BY <1>4, <1>5, <2>1 DEF ManualWrite, Write
    <2>3. Touches(o, {e})
      BY <1>4, <2>1 DEF ManualWrite, Touches
    <2>4. missed' = [missed EXCEPT ![o].reached = outcome # "lost",
                                   ![o].endpoints = missed[o].endpoints \ {e}]
      BY <1>4, <2>1
    <2> QED BY <2>1, <2>2, <2>3, <2>4
  <1>7. PICK zeroed \in BOOLEAN, reached \in BOOLEAN :
          zeroed = (outcome = "acknowledged") /\ reached = (outcome # "lost")
    OBVIOUS
  <1>8. PICK next \in ManualRecord : next = [manual[o] EXCEPT !.pc = "halt", !.zeroed = zeroed]
    BY <1>2 DEF ManualRecord
  <1>9. /\ next.pc = "halt" /\ next.kind = manual[o].kind /\ next.requests = manual[o].requests
        /\ next.index = manual[o].index /\ next.ok = manual[o].ok
        /\ next.stopped = manual[o].stopped
    BY <1>2, <1>8 DEF ManualRecord
  <1>10. manual' = [manual EXCEPT ![o] = next] /\ manual'[o] = next
    BY <1>3, <1>6, <1>7, <1>8
  <1>11. PICK hist \in [reached: BOOLEAN, endpoints: SUBSET RegisteredEndpoints] :
           hist = [missed[o] EXCEPT !.reached = reached, !.endpoints = missed[o].endpoints \ {e}]
    BY <1>3
  <1>12. /\ missed' = [missed EXCEPT ![o] = hist] /\ missed'[o] = hist
         /\ hist.reached = (outcome # "lost")
         /\ \A x : x # e /\ x \in missed[o].endpoints => x \in hist.endpoints
    BY <1>3, <1>6, <1>7, <1>11
  <1>13. /\ \A x \in RegisteredEndpoints : x # e => (x \in touched'[o] <=> x \in touched[o])
         /\ \A x \in RegisteredEndpoints : x # e => drive'[x] = drive[x]
         /\ drive'[e] = IF outcome = "lost" THEN drive[e] ELSE registers
    BY <1>6, WriteFacts
  <1>14. \A i \in 1..(manual[o].index - 1) :
           /\ Stopped(o, wheel(o, i))'
           /\ manual[o].stopped => Resting(o, wheel(o, i))'
    <2> SUFFICES ASSUME NEW i \in 1..(manual[o].index - 1)
                 PROVE  /\ Stopped(o, wheel(o, i))'
                        /\ manual[o].stopped => Resting(o, wheel(o, i))'
      OBVIOUS
    <2>1. i \in 1..Len(manual[o].requests) /\ i # manual[o].index
      BY <1>2
    <2>2. wheel(o, i) # e
      BY <1>2, <1>4, <2>1
    <2>3. /\ Stopped(o, wheel(o, i)) => Stopped(o, wheel(o, i))'
          /\ Resting(o, wheel(o, i)) => Resting(o, wheel(o, i))'
      BY <1>1, <1>9, <1>10, <1>12, <1>13, <2>1, <2>2, WriterClaims DEF StopsWheels
    <2>4. Stopped(o, wheel(o, i)) /\ (manual[o].stopped => Resting(o, wheel(o, i)))
      BY <1>1, <1>2 DEF StopWheelsWork, StopsWheels
    <2> QED BY <2>3, <2>4
  <1>15. (missed[o].reached => Aimed(o, asked(o).endpoint))'
    <2>1. asked(o)' = asked(o)
      BY <1>9, <1>10 DEF asked
    <2>2. hist.reached => drive'[e].target = 0
      BY <1>3, <1>5, <1>12, <1>13
    <2> QED BY <1>4, <1>12, <2>1, <2>2 DEF Aimed, Targets, StopOf
  <1>16. about_all(o)' <=> about_all(o)
    BY <1>9, <1>10 DEF about_all
  <1>17. ManualShape(o)'
    BY <1>1, <1>2, <1>9, <1>10, <1>16 DEF ManualShape, StopsWheels
  <1>18. ManualWork(o)'
    BY <1>9, <1>10, <1>14, <1>15
       DEF ManualWork, TargetWork, StopWheelsWork, DoneWork, StopsWheels, Stopped, Resting, Speed
  <1> QED BY <1>1, <1>6, <1>10, <1>12, <1>17, <1>18, WriterStep DEF StopsWheels

\* The wheel a fail-stop has come to rests, or not: go on with the next one.
LEMMA NextWheel ==
    ASSUME DriveInv, NEW o \in Callers, manual[o].pc \in {"halt", "note"},
           NEW stopped \in BOOLEAN, manual'[o] = stop_next_wheel(o, stopped),
           \A i \in 1..manual[o].index : Stopped(o, wheel(o, i))',
           manual[o].stopped /\ stopped => \A i \in 1..manual[o].index : Resting(o, wheel(o, i))'
    PROVE  manual'[o] \in ManualRecord /\ ManualShape(o)' /\ ManualWork(o)'
  <1> DEFINE m == manual'[o]
  <1>1. /\ manual[o] \in ManualRecord
        /\ DOMAIN manual[o].requests = 1..Len(manual[o].requests)
        /\ Len(manual[o].requests) \in Nat /\ manual[o].index \in Nat
        /\ manual[o].index \in 1..Len(manual[o].requests)
        /\ manual[o].kind \in {"enable_one", "enable_all", "move", "update"}
        /\ manual[o].requests \in RequestSeqs /\ ManualShape(o)
    BY WriterFacts DEF StopsWheels
  <1>2. PICK all \in BOOLEAN : all = (manual[o].stopped /\ stopped)
    OBVIOUS
  <1>3. PICK q \in {"record", "answer"} : q = IF all /\ about_all(o) THEN "record" ELSE "answer"
    OBVIOUS
  <1>4. m = [onward(o, q) EXCEPT !.pc = IF last_asked(o) THEN onward(o, q).pc ELSE "zero",
                                 !.stopped = all]
    BY <1>2, <1>3 DEF stop_next_wheel, all_stopped
  <1>5. last_asked(o) <=> manual[o].index = Len(manual[o].requests)
    BY DEF last_asked
  <1>6. /\ manual[o].kind # "update" <=> ~manual[o].ok
        /\ about_all(o) /\ manual[o].kind # "update" => NamesAll(manual[o].requests)
    BY <1>1 DEF ManualShape, StopsWheels
  <1>7. CASE last_asked(o)
    <2>1. m = [manual[o] EXCEPT !.pc = q, !.index = 1, !.stopped = all]
      <3>1. onward(o, q) = [manual[o] EXCEPT !.pc = q, !.index = 1]
        BY <1>7 DEF onward
      <3> QED BY <1>1, <1>4, <1>7, <3>1 DEF ManualRecord
    <2>2. /\ m \in ManualRecord /\ m.pc = q /\ m.index = 1 /\ m.stopped = all
          /\ m.kind = manual[o].kind /\ m.requests = manual[o].requests /\ m.ok = manual[o].ok
      <3>1. PICK r \in ManualRecord, n \in Nat : r = manual[o] /\ n = 1
        BY <1>1
      <3>4. PICK next : next = m
        OBVIOUS
      <3>2. next = [r EXCEPT !.pc = q, !.index = n, !.stopped = all]
        BY <2>1, <3>1, <3>4
      <3>3. /\ next \in ManualRecord /\ next.pc = q /\ next.index = n /\ next.stopped = all
            /\ next.kind = r.kind /\ next.requests = r.requests /\ next.ok = r.ok
        BY <3>2 DEF ManualRecord
      <3> QED BY <3>1, <3>3, <3>4
    <2>3. about_all(o)' <=> about_all(o)
      BY <2>2 DEF about_all
    <2>4. ManualShape(o)'
      BY <1>1, <1>3, <1>6, <2>2, <2>3 DEF ManualShape, StopsWheels
    <2>5. \A i : wheel(o, i)' = wheel(o, i)
      BY <2>2 DEF wheel
    <2>6. \A i \in DOMAIN manual[o].requests : Stopped(o, wheel(o, i))'
      BY <1>1, <1>5, <1>7
    <2>7. m.kind = "update" /\ q # "answer" =>
             \A i \in DOMAIN manual[o].requests : Resting(o, wheel(o, i))'
      BY <1>1, <1>2, <1>3, <1>5, <1>7
    <2>8. DoneWork(o)'
      BY <2>2, <2>6, <2>7 DEF DoneWork
    <2>9. ManualWork(o)'
      BY <2>2, <2>8 DEF ManualWork, TargetWork, StopWheelsWork, StopsWheels
    <2> QED BY <2>2, <2>4, <2>9
  <1>8. CASE ~last_asked(o)
    <2>1. m = [manual[o] EXCEPT !.pc = "zero", !.index = manual[o].index + 1, !.stopped = all]
      <3>1. onward(o, q) = [manual[o] EXCEPT !.index = manual[o].index + 1]
        BY <1>8 DEF onward
      <3> QED BY <1>1, <1>4, <1>8, <3>1 DEF ManualRecord
    <2>2. /\ m \in ManualRecord /\ m.pc = "zero" /\ m.index = manual[o].index + 1
          /\ m.stopped = all
          /\ m.kind = manual[o].kind /\ m.requests = manual[o].requests /\ m.ok = manual[o].ok
      <3>1. PICK r \in ManualRecord, n \in Nat : r = manual[o] /\ n = manual[o].index + 1
        <4>1. manual[o].index + 1 \in Nat
          BY <1>1
        <4> QED BY <1>1, <4>1
      <3>4. PICK next : next = m
        OBVIOUS
      <3>2. next = [r EXCEPT !.pc = "zero", !.index = n, !.stopped = all]
        BY <2>1, <3>1, <3>4
      <3>3. /\ next \in ManualRecord /\ next.pc = "zero" /\ next.index = n /\ next.stopped = all
            /\ next.kind = r.kind /\ next.requests = r.requests /\ next.ok = r.ok
        BY <3>2 DEF ManualRecord
      <3> QED BY <3>1, <3>3, <3>4
    <2>3. about_all(o)' <=> about_all(o)
      BY <2>2 DEF about_all
    <2>4. manual[o].index + 1 \in 1..Len(manual[o].requests)
      BY <1>1, <1>5, <1>8
    <2>5. ManualShape(o)'
      BY <1>1, <1>6, <2>2, <2>3, <2>4 DEF ManualShape, StopsWheels
    <2>6. \A i : wheel(o, i)' = wheel(o, i)
      BY <2>2 DEF wheel
    <2>10. m.index - 1 = manual[o].index
      BY <1>1, <2>2
    <2>7. \A i \in 1..(m.index - 1) : /\ Stopped(o, wheel(o, i))'
                                      /\ all => Resting(o, wheel(o, i))'
      BY <1>2, <2>10
    <2>8. StopWheelsWork(o)'
      BY <2>2, <2>7 DEF StopWheelsWork
    <2>9. ManualWork(o)'
      BY <2>2, <2>8 DEF ManualWork, TargetWork, DoneWork
    <2> QED BY <2>2, <2>5, <2>9
  <1> QED BY <1>7, <1>8

\* It writes the STOP of the wheel.
LEMMA StopHaltStep ==
    ASSUME DriveInv, NEW o \in Callers, StopHalt(o)
    PROVE  DriveInv'
  <1>1. manual[o].pc = "halt"
    BY DEF StopHalt
  <1>2. /\ manual[o] \in ManualRecord /\ manual[o].requests \in RequestSeqs
        /\ Len(manual[o].requests) \in Nat /\ manual[o].index \in Nat
        /\ manual[o].index \in 1..Len(manual[o].requests)
        /\ \A i \in 1..Len(manual[o].requests) : wheel(o, i) \in RegisteredEndpoints
        /\ \A i, j \in 1..Len(manual[o].requests) : wheel(o, i) = wheel(o, j) => i = j
        /\ asked(o).endpoint \in RegisteredEndpoints
        /\ asked(o).endpoint = wheel(o, manual[o].index)
        /\ ManualShape(o) /\ StopWheelsWork(o)
    BY <1>1, WriterFacts DEF ManualWork, wheel, StopsWheels
  <1>3. /\ drive \in [RegisteredEndpoints -> [target: Nat, started: BOOLEAN]]
        /\ missed \in [Callers -> [reached: BOOLEAN, endpoints: SUBSET RegisteredEndpoints]]
        /\ manual \in [Callers -> ManualRecord]
    BY DEF DriveInv, Scalars
  <1>4. PICK e \in RegisteredEndpoints : e = asked(o).endpoint
    BY <1>2
  <1>5. PICK registers \in [target: Nat, started: BOOLEAN] :
            registers = [drive[e] EXCEPT !.started = FALSE]
    BY <1>3
  <1>6. PICK outcome \in Outcome, stopped \in BOOLEAN :
          /\ stopped = (manual[o].zeroed /\ outcome = "acknowledged")
          /\ Write(e, registers, outcome) /\ Touches(o, {})
          /\ UNCHANGED <<lock, call, last_command>>
          /\ manual' = [manual EXCEPT ![o] = IF manual[o].kind = "update" /\ stopped
                                             THEN [manual[o] EXCEPT !.pc = "note"]
                                             ELSE stop_next_wheel(o, stopped)]
          /\ missed' = [missed EXCEPT ![o].endpoints =
                          missed[o].endpoints \cup IF outcome = "lost" /\ ~missed[o].reached
                                                   THEN {e} ELSE {}]
    <2>1. PICK outcome \in Outcome :
            /\ ManualWrite(o, [drive[asked(o).endpoint] EXCEPT !.started = FALSE], outcome, {})
            /\ manual' = [manual EXCEPT ![o] =
                            IF manual[o].kind = "update"
                               /\ (manual[o].zeroed /\ outcome = "acknowledged")
                            THEN [manual[o] EXCEPT !.pc = "note"]
                            ELSE stop_next_wheel(o, manual[o].zeroed /\ outcome = "acknowledged")]
            /\ missed' = [missed EXCEPT ![o].endpoints =
                            missed[o].endpoints \cup IF outcome = "lost" /\ ~missed[o].reached
                                                     THEN {asked(o).endpoint} ELSE {}]
      BY DEF StopHalt
    <2>2. PICK stopped \in BOOLEAN : stopped = (manual[o].zeroed /\ outcome = "acknowledged")
      OBVIOUS
    <2>3. Write(e, registers, outcome) /\ UNCHANGED <<lock, call, last_command>>
      BY <1>4, <1>5, <2>1 DEF ManualWrite, Write
    <2>4. Touches(o, {})
      BY <2>1 DEF ManualWrite
    <2>5. manual' = [manual EXCEPT ![o] = IF manual[o].kind = "update" /\ stopped
                                          THEN [manual[o] EXCEPT !.pc = "note"]
                                          ELSE stop_next_wheel(o, stopped)]
      BY <2>1, <2>2
    <2>6. missed' = [missed EXCEPT ![o].endpoints =
                       missed[o].endpoints \cup IF outcome = "lost" /\ ~missed[o].reached
                                                THEN {e} ELSE {}]
      BY <1>4, <2>1
    <2> QED BY <2>2, <2>3, <2>4, <2>5, <2>6
  <1>7. PICK hist \in [reached: BOOLEAN, endpoints: SUBSET RegisteredEndpoints] :
           hist = [missed[o] EXCEPT !.endpoints =
                     missed[o].endpoints \cup IF outcome = "lost" /\ ~missed[o].reached
                                              THEN {e} ELSE {}]
    BY <1>3
  <1>8. missed' = [missed EXCEPT ![o] = hist] /\ missed'[o] = hist
    BY <1>3, <1>6, <1>7
  <1>9. \A x : x \in missed'[o].endpoints <=>
              x \in missed[o].endpoints \/ (x = e /\ outcome = "lost" /\ ~missed[o].reached)
    BY <1>3, <1>7, <1>8
  <1>10. /\ \A x \in RegisteredEndpoints : x \in touched'[o] <=> x \in touched[o]
         /\ \A x \in RegisteredEndpoints : x # e => drive'[x] = drive[x]
         /\ drive'[e] = IF outcome = "lost" THEN drive[e] ELSE registers
    BY <1>6, WriteFacts
  <1>11. outcome # "lost" => (Speed(e) = 0)'
    BY <1>3, <1>5, <1>10 DEF Speed
  <1>12. outcome = "lost" => Stopped(o, e)'
    <2>1. missed[o].reached => Aimed(o, e)
      BY <1>1, <1>2, <1>4 DEF StopWheelsWork, StopsWheels
    <2>2. missed[o].reached => drive[e].target = 0 \/ e \in touched[o]
      BY <2>1 DEF Aimed, Targets, StopOf
    <2> QED BY <1>9, <1>10, <2>2 DEF Stopped, Resting, Speed
  <1>13. Stopped(o, e)' /\ (stopped => Resting(o, e)')
    BY <1>6, <1>11, <1>12 DEF Stopped, Resting
  <1>14. PICK next : next = IF manual[o].kind = "update" /\ stopped
                            THEN [manual[o] EXCEPT !.pc = "note"]
                            ELSE stop_next_wheel(o, stopped)
    OBVIOUS
  <1>15. manual' = [manual EXCEPT ![o] = next] /\ manual'[o] = next
    BY <1>3, <1>6, <1>14
  <1>16. next.requests = manual[o].requests
    BY <1>2, <1>14 DEF stop_next_wheel, onward, ManualRecord
  <1>17. \A i \in 1..manual[o].index :
           /\ Stopped(o, wheel(o, i))'
           /\ manual[o].stopped /\ (i = manual[o].index => stopped) => Resting(o, wheel(o, i))'
    <2> SUFFICES ASSUME NEW i \in 1..manual[o].index
                 PROVE  /\ Stopped(o, wheel(o, i))'
                        /\ manual[o].stopped /\ (i = manual[o].index => stopped) =>
                             Resting(o, wheel(o, i))'
      OBVIOUS
    <2>1. wheel(o, i)' = wheel(o, i)
      BY <1>15, <1>16 DEF wheel
    <2>2. CASE i = manual[o].index
      <3>1. wheel(o, i) = e
        BY <1>2, <1>4, <2>2
      <3> QED BY <1>13, <2>1, <2>2, <3>1 DEF Stopped, Resting, Speed
    <2>3. CASE i # manual[o].index
      <3>1. i \in 1..(manual[o].index - 1) /\ i \in 1..Len(manual[o].requests)
        BY <1>2, <2>3
      <3>2. wheel(o, i) # e
        BY <1>2, <1>4, <2>3, <3>1
      <3>3. /\ Stopped(o, wheel(o, i)) => Stopped(o, wheel(o, i))'
            /\ Resting(o, wheel(o, i)) => Resting(o, wheel(o, i))'
        BY <1>1, <1>9, <1>10, <1>15, <1>16, <3>1, <3>2, WriterClaims DEF StopsWheels
      <3>4. Stopped(o, wheel(o, i)) /\ (manual[o].stopped => Resting(o, wheel(o, i)))
        BY <1>1, <1>2, <3>1 DEF StopWheelsWork, StopsWheels
      <3> QED BY <2>3, <3>3, <3>4
    <2> QED BY <2>2, <2>3
  <1>18. CASE manual[o].kind = "update" /\ stopped
    <2>1. next = [manual[o] EXCEPT !.pc = "note"]
      BY <1>14, <1>18
    <2>2. /\ next \in ManualRecord /\ next.pc = "note" /\ next.kind = manual[o].kind
          /\ next.index = manual[o].index /\ next.ok = manual[o].ok
          /\ next.stopped = manual[o].stopped /\ next.requests = manual[o].requests
      BY <1>2, <2>1 DEF ManualRecord
    <2>3. about_all(o)' <=> about_all(o)
      BY <1>15, <2>2 DEF about_all
    <2>4. ManualShape(o)'
      BY <1>1, <1>2, <1>15, <1>18, <2>2, <2>3 DEF ManualShape, StopsWheels
    <2>5. asked(o)' = asked(o)
      BY <1>15, <2>2 DEF asked
    <2>6. Resting(o, asked(o).endpoint)'
      BY <1>4, <1>13, <1>18, <2>5 DEF Resting, Speed
    <2>7. \A i \in 1..(next.index - 1) : /\ Stopped(o, wheel(o, i))'
                                         /\ next.stopped => Resting(o, wheel(o, i))'
      BY <1>2, <1>17, <2>2
    <2>8. StopWheelsWork(o)'
      BY <1>15, <2>2, <2>6, <2>7 DEF StopWheelsWork
    <2>9. ManualWork(o)'
      BY <1>15, <2>2, <2>8 DEF ManualWork, TargetWork, DoneWork
    <2> QED BY <1>1, <1>6, <1>8, <1>15, <2>2, <2>4, <2>9, WriterStep DEF StopsWheels
  <1>19. CASE ~(manual[o].kind = "update" /\ stopped)
    <2>1. next = stop_next_wheel(o, stopped)
      BY <1>14, <1>19
    <2>2. \A i \in 1..manual[o].index : Stopped(o, wheel(o, i))'
      BY <1>17
    <2>3. manual[o].stopped /\ stopped => \A i \in 1..manual[o].index : Resting(o, wheel(o, i))'
      BY <1>17
    <2>4. manual'[o] \in ManualRecord /\ ManualShape(o)' /\ ManualWork(o)'
      BY <1>1, <1>15, <2>1, <2>2, <2>3, NextWheel
    <2> QED BY <1>1, <1>6, <1>8, <1>15, <2>4, WriterStep DEF StopsWheels
  <1> QED BY <1>18, <1>19

\* A step around the coordinator that writes no register.
LEMMA QuietStep ==
    ASSUME DriveInv, NEW o \in Callers, manual[o].pc # "idle",
           UNCHANGED <<drive, lock, call, faults>>,
           missed' \in [Callers -> [reached: BOOLEAN, endpoints: SUBSET RegisteredEndpoints]],
           touched' \in [Callers -> SUBSET RegisteredEndpoints],
           \A w \in Callers \ {o} : missed'[w] = missed[w] /\ touched'[w] = touched[w],
           last_command' \in [RegisteredEndpoints -> Nat],
           NEW next \in ManualRecord, manual' = [manual EXCEPT ![o] = next],
           ManualShape(o)', ManualWork(o)'
    PROVE  DriveInv'
  <1>1. manual \in [Callers -> ManualRecord] /\ CallShape(o)
    BY DEF DriveInv, Scalars, CallerOK
  <1>2. manual' \in [Callers -> ManualRecord] /\ \A w \in Callers \ {o} : manual'[w] = manual[w]
    BY <1>1
  <1>3. call'[o] = Idle
    BY <1>1 DEF CallShape
  <1>4. Scalars'
    BY <1>2 DEF DriveInv, Scalars, Holds
  <1>5. \A w \in Callers \ {o} : CallerOK(w)'
    BY <1>2, OthersSurvive
  <1> QED BY <1>3, <1>4, <1>5, CallIdle, Assembled

\* What is known of a caller's own wheels when it writes no register.
LEMMA QuietClaims ==
    ASSUME NEW o \in Callers, drive' = drive, touched' = touched, missed' = missed,
           manual'[o].requests = manual[o].requests
    PROVE  /\ \A i : wheel(o, i)' = wheel(o, i)
           /\ \A i : (Stopped(o, wheel(o, i))' <=> Stopped(o, wheel(o, i)))
                     /\ (Resting(o, wheel(o, i))' <=> Resting(o, wheel(o, i)))
  <1>1. \A i : wheel(o, i)' = wheel(o, i)
    BY DEF wheel
  <1> QED BY <1>1 DEF Stopped, Resting, Speed

\* robot_control notes a wheel it has stopped.
LEMMA NoteStep ==
    ASSUME DriveInv, NEW o \in Callers, Note(o)
    PROVE  DriveInv'
  <1>1. manual[o].pc = "note"
    BY DEF Note
  <1>2. /\ manual[o] \in ManualRecord /\ manual[o].index \in Nat
        /\ asked(o).endpoint \in RegisteredEndpoints
        /\ asked(o).endpoint = wheel(o, manual[o].index) /\ StopWheelsWork(o)
    BY <1>1, WriterFacts DEF ManualWork, wheel, StopsWheels
  <1>3. manual \in [Callers -> ManualRecord] /\ last_command \in [RegisteredEndpoints -> Nat]
        /\ missed \in [Callers -> [reached: BOOLEAN, endpoints: SUBSET RegisteredEndpoints]]
        /\ touched \in [Callers -> SUBSET RegisteredEndpoints]
    BY DEF DriveInv, Scalars
  <1>4. PICK next : next = stop_next_wheel(o, TRUE)
    OBVIOUS
  <1>5. manual' = [manual EXCEPT ![o] = next] /\ manual'[o] = next
    BY <1>3, <1>4 DEF Note
  <1>6. UNCHANGED <<drive, lock, call, faults, missed, touched>>
    BY DEF Note, vars
  <1>7. last_command' \in [RegisteredEndpoints -> Nat]
    BY <1>2, <1>3 DEF Note
  <1>8. manual'[o].requests = manual[o].requests
    BY <1>2, <1>4, <1>5 DEF stop_next_wheel, onward, ManualRecord
  <1>9. \A i \in 1..manual[o].index :
          /\ Stopped(o, wheel(o, i)) /\ (manual[o].stopped => Resting(o, wheel(o, i)))
    <2> SUFFICES ASSUME NEW i \in 1..manual[o].index
                 PROVE  Stopped(o, wheel(o, i)) /\ (manual[o].stopped => Resting(o, wheel(o, i)))
      OBVIOUS
    <2>1. CASE i = manual[o].index
      BY <1>1, <1>2, <2>1 DEF StopWheelsWork, StopsWheels, Stopped
    <2>2. CASE i # manual[o].index
      <3>1. i \in 1..(manual[o].index - 1)
        BY <1>2, <2>2
      <3> QED BY <1>1, <1>2, <3>1 DEF StopWheelsWork, StopsWheels
    <2> QED BY <2>1, <2>2
  <1>10. /\ \A i \in 1..manual[o].index : Stopped(o, wheel(o, i))'
         /\ manual[o].stopped => \A i \in 1..manual[o].index : Resting(o, wheel(o, i))'
    BY <1>6, <1>8, <1>9, QuietClaims
  <1>11. manual'[o] \in ManualRecord /\ ManualShape(o)' /\ ManualWork(o)'
    BY <1>1, <1>4, <1>5, <1>10, NextWheel
  <1> QED BY <1>1, <1>3, <1>5, <1>6, <1>7, <1>11, QuietStep

\* What is recorded of all the wheels is a speed of each.
LEMMA CommandedType ==
    ASSUME NEW o \in Callers, manual[o] \in ManualRecord, about_all(o),
           manual[o].kind # "update" => NamesAll(manual[o].requests)
    PROVE  commanded(o) \in [RegisteredEndpoints -> Nat]
  <1>1. CASE ~manual[o].ok \/ manual[o].kind = "update"
    BY <1>1 DEF commanded, AtRest
  <1>2. CASE manual[o].ok /\ manual[o].kind # "update"
    <2>1. manual[o].requests \in Seq(Setpoints)
      BY DEF ManualRecord
    <2>2. ASSUME NEW e \in RegisteredEndpoints
          PROVE  (CHOOSE r \in Range(manual[o].requests) : r.endpoint = e).rpm \in Nat
      <3>1. PICK i \in DOMAIN manual[o].requests : manual[o].requests[i].endpoint = e
        BY <1>2 DEF NamesAll
      <3>2. \E r \in Range(manual[o].requests) : r.endpoint = e
        BY <3>1 DEF Range
      <3>3. Range(manual[o].requests) \subseteq Setpoints
        BY <2>1 DEF Range
      <3>4. (CHOOSE r \in Range(manual[o].requests) : r.endpoint = e) \in Range(manual[o].requests)
        BY <3>2
      <3> QED BY <3>3, <3>4 DEF Setpoints
    <2>3. commanded(o) = [e \in RegisteredEndpoints |->
                            (CHOOSE r \in Range(manual[o].requests) : r.endpoint = e).rpm]
      BY <1>2 DEF commanded
    <2> QED BY <2>2, <2>3
  <1> QED BY <1>1, <1>2 DEF ManualRecord

\* robot_control records what was commanded.
LEMMA RecordStep ==
    ASSUME DriveInv, NEW o \in Callers, Record(o)
    PROVE  DriveInv'
  <1>1. manual[o].pc = "record"
    BY DEF Record
  <1>2. /\ manual \in [Callers -> ManualRecord] /\ manual[o] \in ManualRecord
        /\ last_command \in [RegisteredEndpoints -> Nat]
        /\ missed \in [Callers -> [reached: BOOLEAN, endpoints: SUBSET RegisteredEndpoints]]
        /\ touched \in [Callers -> SUBSET RegisteredEndpoints]
        /\ ManualShape(o) /\ DoneWork(o)
    BY DEF DriveInv, Scalars, CallerOK, ManualWork
  <1>3. UNCHANGED <<drive, lock, call, faults, missed, touched>>
    BY DEF Record, vars
  <1>4. CASE about_all(o)
    <2>1. PICK q \in {"restart", "answer"} :
            q = IF manual[o].kind = "update" THEN "restart" ELSE "answer"
      OBVIOUS
    <2>2. PICK next : next = [manual[o] EXCEPT !.pc = q]
      OBVIOUS
    <2>3. last_command' = commanded(o) /\ manual' = [manual EXCEPT ![o] = next]
      BY <1>4, <2>1, <2>2 DEF Record
    <2>4. /\ next \in ManualRecord /\ next.pc = q /\ next.kind = manual[o].kind
          /\ next.index = manual[o].index /\ next.ok = manual[o].ok
          /\ next.stopped = manual[o].stopped /\ next.requests = manual[o].requests
      BY <1>2, <2>2 DEF ManualRecord
    <2>5. manual'[o] = next
      BY <1>2, <2>3
    <2>6. manual[o].kind # "update" => NamesAll(manual[o].requests)
      BY <1>1, <1>2, <1>4 DEF ManualShape
    <2>7. last_command' \in [RegisteredEndpoints -> Nat]
      BY <1>2, <1>4, <2>3, <2>6, CommandedType
    <2>8. about_all(o)' <=> about_all(o)
      BY <2>4, <2>5 DEF about_all
    <2>9. ManualShape(o)'
      BY <1>1, <1>2, <2>1, <2>4, <2>5, <2>6, <2>8 DEF ManualShape, StopsWheels
    <2>10. \A i : /\ Stopped(o, wheel(o, i))' <=> Stopped(o, wheel(o, i))
                  /\ Resting(o, wheel(o, i))' <=> Resting(o, wheel(o, i))
      BY <1>3, <2>4, <2>5, QuietClaims
    <2>11. ~manual[o].ok => \A i \in DOMAIN manual[o].requests : Stopped(o, wheel(o, i))'
      BY <1>1, <1>2, <2>10 DEF DoneWork
    <2>12. manual[o].kind = "update" =>
             \A i \in DOMAIN manual[o].requests : Resting(o, wheel(o, i))'
      BY <1>1, <1>2, <2>10 DEF DoneWork
    <2>13. DoneWork(o)'
      BY <2>4, <2>5, <2>11, <2>12 DEF DoneWork
    <2>14. ManualWork(o)'
      BY <2>1, <2>4, <2>5, <2>13 DEF ManualWork, TargetWork, StopWheelsWork, StopsWheels
    <2> QED BY <1>1, <1>2, <1>3, <2>3, <2>4, <2>7, <2>9, <2>14, QuietStep
  <1>5. CASE ~about_all(o)
    <2>1. manual[o].index \in 1..Len(manual[o].requests) /\ Len(manual[o].requests) \in Nat
          /\ manual[o].requests \in Seq(Setpoints) /\ manual[o].index \in Nat
      <3>1. manual[o].requests \in Seq(Setpoints) /\ manual[o].index \in Nat
        BY <1>2 DEF ManualRecord
      <3>2. Len(manual[o].requests) \in Nat
        BY <3>1
      <3> QED BY <1>1, <1>2, <1>5, <3>1, <3>2 DEF ManualShape
    <2>2. asked(o) \in Setpoints
      BY <2>1 DEF asked
    <2>3. last_command' = [last_command EXCEPT ![asked(o).endpoint] = asked(o).rpm]
          /\ manual' = [manual EXCEPT ![o] = onward(o, "answer")]
      BY <1>5 DEF Record
    <2>4. last_command' \in [RegisteredEndpoints -> Nat]
      BY <1>2, <2>2, <2>3 DEF Setpoints
    <2>5. PICK q \in {"record", "answer"}, n \in Nat :
            /\ q = IF last_asked(o) THEN "answer" ELSE "record"
            /\ n = IF last_asked(o) THEN 1 ELSE manual[o].index + 1
      <3>1. manual[o].index + 1 \in Nat
        BY <2>1
      <3> QED BY <3>1
    <2>6. PICK next : next = [manual[o] EXCEPT !.pc = q, !.index = n]
      OBVIOUS
    <2>7. /\ next \in ManualRecord /\ next.pc = q /\ next.kind = manual[o].kind
          /\ next.index = n /\ next.ok = manual[o].ok
          /\ next.stopped = manual[o].stopped /\ next.requests = manual[o].requests
      BY <1>2, <2>6 DEF ManualRecord
    <2>8. next = onward(o, "answer")
      <3>1. CASE last_asked(o)
        BY <2>5, <2>6, <3>1 DEF onward
      <3>2. CASE ~last_asked(o)
        <4>1. onward(o, "answer") = [manual[o] EXCEPT !.index = n]
          BY <2>5, <3>2 DEF onward
        <4>2. q = manual[o].pc
          BY <1>1, <2>5, <3>2
        <4> QED BY <1>2, <2>6, <4>1, <4>2 DEF ManualRecord
      <3> QED BY <3>1, <3>2
    <2>9. manual' = [manual EXCEPT ![o] = next] /\ manual'[o] = next
      BY <1>2, <2>3, <2>8
    <2>10. about_all(o)' <=> about_all(o)
      BY <2>7, <2>9 DEF about_all
    <2>11. n <= Len(manual[o].requests) + 1 /\ (q = "record" => n \in 1..Len(manual[o].requests))
      BY <2>1, <2>5 DEF last_asked
    <2>12. manual[o].kind # "update"
      BY <1>5 DEF about_all
    <2>13. ManualShape(o)'
      BY <1>5, <2>7, <2>9, <2>10, <2>11, <2>12 DEF ManualShape, StopsWheels
    <2>14. \A i : Stopped(o, wheel(o, i))' <=> Stopped(o, wheel(o, i))
      BY <1>3, <2>7, <2>9, QuietClaims
    <2>15. ~manual[o].ok => \A i \in DOMAIN manual[o].requests : Stopped(o, wheel(o, i))'
      BY <1>1, <1>2, <2>14 DEF DoneWork
    <2>16. ManualWork(o)'
      BY <2>7, <2>9, <2>12, <2>15
         DEF ManualWork, TargetWork, StopWheelsWork, StopsWheels, DoneWork
    <2> QED BY <1>1, <1>2, <1>3, <2>4, <2>7, <2>9, <2>13, <2>16, QuietStep
  <1> QED BY <1>4, <1>5

\* A caller that does nothing knows nothing.
LEMMA NothingClaimed ==
    ASSUME NEW o \in Callers, manual'[o] = Nothing
    PROVE  ManualShape(o)' /\ ManualWork(o)'
  <1>1. Len(<<>>) = 0
    OBVIOUS
  <1> DEFINE m == manual'[o]
  <1>2. /\ m.pc = "idle" /\ m.kind = "none" /\ m.requests = <<>> /\ m.index = 0
        /\ m.ok = TRUE /\ m.zeroed = TRUE /\ m.stopped = TRUE
    BY DEF Nothing
  <1>3. ManualShape(o)'
    BY <1>1, <1>2 DEF ManualShape, StopsWheels
  <1>4. ManualWork(o)'
    BY <1>2 DEF ManualWork, TargetWork, StopWheelsWork, DoneWork, StopsWheels
  <1> QED BY <1>3, <1>4

\* A command answers, or an update is given up.
LEMMA EndStep ==
    ASSUME DriveInv, NEW o \in Callers, Answer(o) \/ GiveUp(o)
    PROVE  DriveInv'
  <1>1. /\ manual \in [Callers -> ManualRecord] /\ last_command \in [RegisteredEndpoints -> Nat]
        /\ missed \in [Callers -> [reached: BOOLEAN, endpoints: SUBSET RegisteredEndpoints]]
        /\ touched \in [Callers -> SUBSET RegisteredEndpoints]
    BY DEF DriveInv, Scalars
  <1>2. manual[o].pc # "idle" /\ manual' = [manual EXCEPT ![o] = Nothing]
    BY DEF Answer, GiveUp
  <1>3. manual'[o] = Nothing /\ Nothing \in ManualRecord
    BY <1>1, <1>2, IdleType
  <1>4. UNCHANGED <<drive, lock, call, faults, last_command>>
    BY DEF Answer, GiveUp, vars
  <1>5. /\ touched' \in [Callers -> SUBSET RegisteredEndpoints]
        /\ \A w \in Callers \ {o} : touched'[w] = touched[w]
    BY <1>1 DEF Answer, GiveUp, Afresh
  <1>6. /\ missed' \in [Callers -> [reached: BOOLEAN, endpoints: SUBSET RegisteredEndpoints]]
        /\ \A w \in Callers \ {o} : missed'[w] = missed[w]
    <2>1. CASE GiveUp(o)
      BY <1>1, <2>1 DEF GiveUp, vars
    <2>2. CASE Answer(o)
      <3>1. [reached |-> FALSE, endpoints |-> {}] \in
              [reached: BOOLEAN, endpoints: SUBSET RegisteredEndpoints]
        OBVIOUS
      <3> QED BY <1>1, <2>2, <3>1 DEF Answer
    <2> QED BY <2>1, <2>2
  <1>7. ManualShape(o)' /\ ManualWork(o)'
    BY <1>3, NothingClaimed
  <1> QED BY <1>1, <1>2, <1>3, <1>4, <1>5, <1>6, <1>7, QuietStep

\* The wheels stopped before an update are in the registry, each once.
LEMMA StopsAreRequests ==
    ASSUME NEW wheels \in SUBSET RegisteredEndpoints, NEW stops \in stops_of(wheels)
    PROVE  /\ stops \in Seq(Setpoints)
           /\ stops # <<>> => stops \in RequestSeqs
  <1>1. Cardinality(wheels) \in Nat
    <2>1. Endpoints \in Surjection(1..Len(Endpoints), RegisteredEndpoints)
      <3>1. Endpoints \in [1..Len(Endpoints) -> RegisteredEndpoints]
        BY CoordinatorAssumption
      <3>2. \A e \in RegisteredEndpoints : \E i \in 1..Len(Endpoints) : Endpoints[i] = e
        BY DEF RegisteredEndpoints
      <3> QED BY <3>1, <3>2 DEF Surjection
    <2>2. IsFiniteSet(1..Len(Endpoints))
      BY Registry, FS_Interval
    <2>3. IsFiniteSet(RegisteredEndpoints)
      BY <2>1, <2>2, FS_Surjection
    <2>4. IsFiniteSet(wheels)
      BY <2>3, FS_Subset
    <2> QED BY <2>4, FS_CardinalityType
  <1>2. PICK n \in Nat : n = Cardinality(wheels)
    BY <1>1
  <1>3. /\ stops \in [1..n -> {StopOf(e) : e \in wheels}]
        /\ \A i, j \in DOMAIN stops : i < j => place(stops[i].endpoint) < place(stops[j].endpoint)
    BY <1>2 DEF stops_of
  <1>4. \A i \in 1..n : stops[i] \in Setpoints /\ stops[i].endpoint \in RegisteredEndpoints
    <2>1. \A s \in {StopOf(e) : e \in wheels} :
            s \in Setpoints /\ s.endpoint \in RegisteredEndpoints
      BY StopOfType
    <2> QED BY <1>3, <2>1
  <1>5. stops \in Seq(Setpoints) /\ DOMAIN stops = 1..n
    <2>1. stops \in [1..n -> Setpoints]
      BY <1>3, <1>4
    <2> QED BY <2>1
  <1>6. \A e \in RegisteredEndpoints : place(e) \in Nat
    <2> SUFFICES ASSUME NEW e \in RegisteredEndpoints PROVE place(e) \in Nat
      OBVIOUS
    <2>1. \E i \in DOMAIN Endpoints : Endpoints[i] = e
      BY Registry DEF RegisteredEndpoints
    <2>2. place(e) \in DOMAIN Endpoints
      BY <2>1 DEF place
    <2> QED BY <2>2, Registry
  <1>7. \A i, j \in DOMAIN stops : stops[i].endpoint = stops[j].endpoint => i = j
    <2> SUFFICES ASSUME NEW i \in 1..n, NEW j \in 1..n,
                        stops[i].endpoint = stops[j].endpoint, i # j
                 PROVE  FALSE
      BY <1>5
    <2>1. place(stops[i].endpoint) = place(stops[j].endpoint)
      OBVIOUS
    <2>2. place(stops[i].endpoint) \in Nat
      BY <1>4, <1>6
    <2>3. i < j \/ j < i
      OBVIOUS
    <2>4. place(stops[i].endpoint) < place(stops[j].endpoint)
          \/ place(stops[j].endpoint) < place(stops[i].endpoint)
      BY <1>3, <1>5, <2>3
    <2> QED BY <2>1, <2>2, <2>4
  <1> QED BY <1>5, <1>7 DEF RequestSeqs

\* The wheels are stopped before an update.
LEMMA PrepareStep ==
    ASSUME DriveInv, NEW o \in Callers, PrepareForOta(o)
    PROVE  DriveInv'
  <1>1. /\ manual \in [Callers -> ManualRecord] /\ last_command \in [RegisteredEndpoints -> Nat]
        /\ missed \in [Callers -> [reached: BOOLEAN, endpoints: SUBSET RegisteredEndpoints]]
        /\ touched \in [Callers -> SUBSET RegisteredEndpoints]
        /\ manual[o].pc = "download" /\ manual[o] \in ManualRecord /\ ManualShape(o)
    BY DEF DriveInv, Scalars, CallerOK, PrepareForOta
  <1>14. PICK online \in SUBSET RegisteredEndpoints :
           \E stops \in stops_of(online \cup {e \in RegisteredEndpoints : last_command[e] # 0}) :
             manual' = [manual EXCEPT ![o].pc = IF stops = <<>> THEN "record" ELSE "zero",
                                      ![o].requests = stops]
    BY DEF PrepareForOta
  <1>15. PICK wheels \in SUBSET RegisteredEndpoints :
           wheels = online \cup {e \in RegisteredEndpoints : last_command[e] # 0}
    OBVIOUS
  <1>2. PICK stops \in stops_of(wheels) :
          manual' = [manual EXCEPT ![o].pc = IF stops = <<>> THEN "record" ELSE "zero",
                                   ![o].requests = stops]
    BY <1>14, <1>15
  <1>3. stops \in Seq(Setpoints) /\ (stops # <<>> => stops \in RequestSeqs)
    BY StopsAreRequests
  <1>4. PICK q \in {"record", "zero"} : q = IF stops = <<>> THEN "record" ELSE "zero"
    OBVIOUS
  <1>5. PICK next : next = [manual[o] EXCEPT !.pc = q, !.requests = stops]
    OBVIOUS
  <1>6. /\ next \in ManualRecord /\ next.pc = q /\ next.requests = stops
        /\ next.kind = manual[o].kind /\ next.index = manual[o].index
        /\ next.ok = manual[o].ok /\ next.stopped = manual[o].stopped
    BY <1>1, <1>3, <1>5 DEF ManualRecord
  <1>7. manual' = [manual EXCEPT ![o] = next] /\ manual'[o] = next
    BY <1>1, <1>2, <1>4, <1>5
  <1>8. manual[o].kind = "update" /\ manual[o].ok /\ manual[o].index = 1
    BY <1>1 DEF ManualShape
  <1>9. Len(stops) \in Nat /\ (stops # <<>> => Len(stops) # 0) /\ DOMAIN stops = 1..Len(stops)
    BY <1>3
  <1>10. about_all(o)'
    BY <1>6, <1>7, <1>8 DEF about_all
  <1>11. ManualShape(o)'
    <2> DEFINE m == manual'[o]
    <2>1. m.pc = q /\ m.requests = stops /\ m.kind = "update" /\ m.index = 1 /\ m.ok
      BY <1>6, <1>7, <1>8
    <2>2. 1 <= Len(stops) + 1
      BY <1>9
    <2>3. CASE q = "zero"
      <3>1. stops \in RequestSeqs /\ 1 \in 1..Len(stops)
        BY <1>3, <1>4, <1>9, <2>3
      <3> QED BY <1>10, <2>1, <2>2, <2>3, <3>1 DEF ManualShape, StopsWheels
    <2>4. CASE q = "record"
      BY <1>10, <2>1, <2>2, <2>4 DEF ManualShape, StopsWheels
    <2> QED BY <2>3, <2>4
  <1>12. ManualWork(o)'
    <2>1. q = "record" => DOMAIN stops = {}
      <3>1. q = "record" => stops = <<>>
        BY <1>4
      <3>2. DOMAIN <<>> = {}
        OBVIOUS
      <3> QED BY <3>1, <3>2
    <2> QED BY <1>4, <1>6, <1>7, <1>8, <2>1
            DEF ManualWork, TargetWork, StopWheelsWork, StopsWheels, DoneWork
  <1>13. UNCHANGED <<drive, lock, call, faults, missed, touched, last_command>>
    BY DEF PrepareForOta, vars
  <1> QED BY <1>1, <1>6, <1>7, <1>11, <1>12, <1>13, QuietStep

\* The controller restarts: the new composition begins with the boot stop.
LEMMA RestartStep ==
    ASSUME DriveInv, NEW o \in Callers, Restart(o)
    PROVE  DriveInv'
  <1>1. drive \in [RegisteredEndpoints -> [target: Nat, started: BOOLEAN]] /\ faults \in 0..MaxFaults
    BY DEF DriveInv, Scalars
  <1>2. PICK boot : boot = [Idle EXCEPT !.pc = "acquire", !.kind = "stop", !.requests = everything]
    OBVIOUS
  <1>3. boot = [pc |-> "acquire", kind |-> "stop", requests |-> everything, index |-> 0,
                applied |-> {}, ok |-> TRUE, result |-> "FAILURE", undone |-> 0]
    BY <1>2 DEF Idle
  <1>4. everything \in RequestSeqs /\ IsStop(everything) /\ everything \in Seq(Setpoints)
    BY EverythingType, RequestsType
  <1>5. boot \in CallRecord
    BY <1>3, <1>4 DEF CallRecord
  <1>6. /\ call' = [c \in Callers |-> IF c # o THEN Idle ELSE boot]
        /\ lock' = "nobody" /\ last_command' = AtRest /\ drive' = drive /\ faults' = faults
        /\ manual' = [c \in Callers |-> Nothing] /\ touched' = [c \in Callers |-> {}]
        /\ missed' = [c \in Callers |-> [reached |-> FALSE, endpoints |-> {}]]
    BY <1>2 DEF Restart
  <1>7. Scalars'
    <2>1. call' \in [Callers -> CallRecord] /\ manual' \in [Callers -> ManualRecord]
      BY <1>5, <1>6, IdleType
    <2>2. missed' \in [Callers -> [reached: BOOLEAN, endpoints: SUBSET RegisteredEndpoints]]
          /\ touched' \in [Callers -> SUBSET RegisteredEndpoints]
      BY <1>6
    <2>3. last_command' \in [RegisteredEndpoints -> Nat]
      BY <1>6 DEF AtRest
    <2> QED BY <1>1, <1>6, <2>1, <2>2, <2>3 DEF Scalars
  <1>8. ASSUME NEW c \in Callers
        PROVE  CallerOK(c)'
    <2>1. ManualShape(c)' /\ ManualWork(c)'
      BY <1>6, NothingClaimed
    <2>2. CASE c # o
      <3>1. call'[c] = Idle
        BY <1>6, <2>2
      <3>2. CallShape(c)' /\ CallWork(c)'
        BY <3>1
           DEF Idle, CallShape, CallWork, Holds, ApplyWork, RollbackWork, StopWork, ZeroHolds,
               ReleaseWork, Applying, RollingBack, Stopping
      <3> QED BY <2>1, <3>2 DEF CallerOK
    <2>3. CASE c = o
      <3>1. call'[c] = boot /\ manual'[c] = Nothing
        BY <1>6, <2>3
      <3>2. CallShape(c)'
        BY <1>3, <1>4, <3>1 DEF CallShape, Holds, Nothing
      <3>3. CallWork(c)'
        BY <1>3, <3>1 DEF CallWork, ApplyWork, RollbackWork, StopWork, ZeroHolds, ReleaseWork,
                          Applying, RollingBack, Stopping
      <3> QED BY <2>1, <3>2, <3>3 DEF CallerOK
    <2> QED BY <2>2, <2>3
  <1> QED BY <1>7, <1>8 DEF DriveInv

(***************************************************************************)
(* The invariant is inductive.                                             *)
(***************************************************************************)

\* Nobody commands anything.
LEMMA DriveInit == ManualInit => DriveInv
  <1> SUFFICES ASSUME ManualInit PROVE DriveInv
    OBVIOUS
  <1>1. /\ drive = [e \in RegisteredEndpoints |-> [target |-> 0, started |-> FALSE]]
        /\ lock = "nobody" /\ call = [c \in Callers |-> Idle] /\ faults = 0
        /\ missed = [c \in Callers |-> [reached |-> FALSE, endpoints |-> {}]]
        /\ last_command = AtRest
        /\ manual = [c \in Callers |-> Nothing] /\ touched = [c \in Callers |-> {}]
    BY DEF ManualInit, Init
  <1>2. Scalars
    <2>1. call \in [Callers -> CallRecord] /\ manual \in [Callers -> ManualRecord]
      BY <1>1, IdleType
    <2>2. missed \in [Callers -> [reached: BOOLEAN, endpoints: SUBSET RegisteredEndpoints]]
          /\ touched \in [Callers -> SUBSET RegisteredEndpoints]
      BY <1>1
    <2>3. last_command \in [RegisteredEndpoints -> Nat]
      BY <1>1 DEF AtRest
    <2>4. drive \in [RegisteredEndpoints -> [target: Nat, started: BOOLEAN]]
      BY <1>1
    <2>5. faults \in 0..MaxFaults
      BY <1>1, CoordinatorAssumption
    <2> QED BY <1>1, <2>1, <2>2, <2>3, <2>4, <2>5 DEF Scalars
  <1>3. ASSUME NEW c \in Callers
        PROVE  CallerOK(c)
    <2>1. call[c] = Idle /\ manual[c] = Nothing
      BY <1>1
    <2>2. CallShape(c) /\ CallWork(c)
      BY <2>1
         DEF Idle, CallShape, CallWork, Holds, ApplyWork, RollbackWork, StopWork, ZeroHolds,
             ReleaseWork, Applying, RollingBack, Stopping
    <2>3. ManualShape(c)
      <3>1. Len(<<>>) = 0
        OBVIOUS
      <3> QED BY <2>1, <3>1 DEF Nothing, ManualShape, StopsWheels
    <2>4. ManualWork(c)
      BY <2>1 DEF Nothing, ManualWork, TargetWork, StopWheelsWork, DoneWork, StopsWheels
    <2> QED BY <2>2, <2>3, <2>4 DEF CallerOK
  <1> QED BY <1>2, <1>3 DEF DriveInv

\* A coordinated call begins, moves on, or returns.
LEMMA CoordinatedSteps ==
    ASSUME DriveInv, NEW c \in Callers, CoordinatedCall(c) \/ CoordinatedStep(c) \/ Return(c)
    PROVE  DriveInv'
  <1>1. CASE CoordinatedCall(c)
    <2>1. manual[c].pc = "idle" /\ UNCHANGED <<last_command, manual, touched>>
      BY <1>1 DEF CoordinatedCall
    <2>2. CASE ApplyVelocity(c)
      <3>1. PICK r \in RequestSeqs : Begin(c, "apply", r)
        BY <2>2, CoordinatorAssumption DEF ApplyVelocity
      <3> QED BY <2>1, <3>1, BeginStep
    <2>3. CASE StopEndpoint(c)
      <3>1. PICK e \in RegisteredEndpoints : Begin(c, "stop", <<StopOf(e)>>)
        BY <2>3 DEF StopEndpoint
      <3>2. PICK r \in RequestSeqs : r = <<StopOf(e)>> /\ IsStop(r)
        BY StopOfType
      <3> QED BY <2>1, <3>1, <3>2, BeginStep
    <2>4. CASE StopAll(c)
      <3>1. Begin(c, "stop", everything)
        BY <2>4 DEF StopAll
      <3> QED BY <2>1, <3>1, EverythingType, BeginStep
    <2> QED BY <1>1, <2>2, <2>3, <2>4 DEF CoordinatedCall
  <1>2. CASE CoordinatedStep(c)
    <2>1. UNCHANGED <<last_command, manual>>
      BY <1>2 DEF CoordinatedStep
    <2>2. CASE (Acquire(c) \/ WriteTarget(c) \/ WriteStart(c)) /\ Touches(c, {})
      BY <2>1, <2>2, AcquireStep, WriteTargetStep, WriteStartStep
    <2>3. CASE WriteHalt(c) /\ Touches(c, {})
      <3>1. call[c].pc \in {"halt", "undo_halt", "rollback_halt"}
        BY <2>3 DEF WriteHalt
      <3> QED BY <2>1, <2>3, <3>1, StopEnds, UndoEnds, RollbackEnds
    <2>4. CASE WriteZero(c) /\ Touches(c, {stopping(c)})
      BY <2>1, <2>4, WriteZeroStep
    <2>5. CASE AcquireTimesOut(c) /\ Afresh(c)
      BY <2>1, <2>5, TimeoutStep
    <2> QED BY <1>2, <2>2, <2>3, <2>4, <2>5 DEF CoordinatedStep
  <1>3. CASE Return(c)
    BY <1>3, ReturnStep
  <1> QED BY <1>1, <1>2, <1>3

\* A command around the coordinator moves on.
LEMMA ManualSteps ==
    ASSUME DriveInv, NEW c \in Callers, ManualStep(c)
    PROVE  DriveInv'
  <1>1. CASE SetTarget(c) \/ Start(c) \/ StopZero(c) \/ StopHalt(c)
    BY <1>1, SetTargetStep, StartStep, StopZeroStep, StopHaltStep
  <1>2. CASE Note(c) \/ Record(c) \/ PrepareForOta(c) \/ Restart(c)
    BY <1>2, NoteStep, RecordStep, PrepareStep, RestartStep
  <1>3. CASE Answer(c) \/ GiveUp(c)
    BY <1>3, EndStep
  <1> QED BY <1>1, <1>2, <1>3 DEF ManualStep

\* Every step keeps the invariant.
LEMMA DriveStep == DriveInv /\ [ManualNext]_manualVars => DriveInv'
  <1> SUFFICES ASSUME DriveInv, [ManualNext]_manualVars PROVE DriveInv'
    OBVIOUS
  <1>1. ASSUME NEW c \in Callers,
               CoordinatedCall(c) \/ CoordinatedStep(c) \/ Return(c) \/ ManualStep(c)
        PROVE  DriveInv'
    BY <1>1, CoordinatedSteps, ManualSteps
  <1>2. ASSUME NEW o \in Operators,
               Enable(o) \/ EnableAll(o) \/ MoveVel(o) \/ OtaUpdate(o)
        PROVE  DriveInv'
    BY <1>2, FacadeStep, ManualAssumption
  <1>3. CASE UNCHANGED manualVars
    <2>1. UNCHANGED <<drive, lock, call, faults, missed, last_command, manual, touched>>
      BY <1>3 DEF manualVars, vars
    <2>2. Scalars'
      BY <2>1 DEF DriveInv, Scalars, Holds
    <2>3. ASSUME NEW c \in Callers
          PROVE  CallerOK(c)'
      <3>1. Holds(c) => lock' = c
        BY <2>1 DEF DriveInv, CallerOK, CallShape
      <3> QED BY <2>1, <3>1, CallerSurvives
    <2> QED BY <2>2, <2>3 DEF DriveInv
  <1> QED BY <1>1, <1>2, <1>3 DEF ManualNext

\* Whatever the callers, the requests and the writes that fail, the wheels are
\* as what the callers know of them says.
THEOREM Inductive == ManualSpec => []DriveInv
  BY DriveInit, DriveStep, PTL DEF ManualSpec

(***************************************************************************)
(* What it says.                                                           *)
(***************************************************************************)

\* A call never runs past its requests, and only a running call has the lock.
LEMMA TypesFollow == DriveInv => ManualTypeOK
  <1> SUFFICES ASSUME DriveInv PROVE ManualTypeOK
    OBVIOUS
  <1>1. ASSUME NEW c \in Callers
        PROVE  /\ call[c].pc \in {"idle", "acquire", "release", "target", "start",
                                  "zero", "halt", "undo_zero", "undo_halt",
                                  "rollback_zero", "rollback_halt"}
               /\ call[c].result \in {"FAILURE", "PARTIAL", "SUCCESS"}
               /\ call[c].applied \subseteq RegisteredEndpoints
               /\ call[c].index \in 0..Len(call[c].requests)
               /\ call[c].undone \in 0..call[c].index
    <2>1. call[c] \in CallRecord /\ CallShape(c)
          /\ ApplyWork(c) /\ RollbackWork(c) /\ StopWork(c) /\ ReleaseWork(c)
      BY DEF DriveInv, Scalars, CallerOK, CallWork
    <2>2. call[c].requests \in Seq(Setpoints) /\ call[c].index \in Nat /\ call[c].undone \in Nat
      BY <2>1 DEF CallRecord
    <2>3. Len(call[c].requests) \in Nat
      BY <2>2
    <2>4. call[c].index \in 0..Len(call[c].requests)
      <3>1. CASE call[c].pc = "idle"
        BY <2>1, <2>3, <3>1 DEF CallShape, Idle
      <3>2. CASE call[c].pc = "acquire"
        BY <2>1, <2>3, <3>2 DEF CallShape
      <3>3. CASE Holds(c)
        BY <2>1, <2>3, <3>3 DEF CallShape
      <3> QED BY <3>1, <3>2, <3>3 DEF Holds
    <2>5. call[c].undone <= call[c].index
      <3>1. CASE call[c].pc = "idle"
        BY <2>1, <3>1 DEF CallShape, Idle
      <3>2. CASE call[c].pc = "acquire"
        BY <2>1, <3>2 DEF CallShape
      <3>3. CASE call[c].pc \in Applying \cup Stopping
        BY <2>1, <2>2, <3>3 DEF ApplyWork, StopWork
      <3>4. CASE call[c].pc \in RollingBack
        BY <2>1, <2>2, <3>4 DEF RollbackWork
      <3>5. CASE call[c].pc = "release"
        BY <2>1, <3>5 DEF ReleaseWork
      <3> QED BY <2>1, <3>1, <3>2, <3>3, <3>4, <3>5 DEF CallRecord
    <2>6. /\ call[c].pc \in {"idle", "acquire", "release", "target", "start",
                             "zero", "halt", "undo_zero", "undo_halt",
                             "rollback_zero", "rollback_halt"}
          /\ call[c].result \in {"FAILURE", "PARTIAL", "SUCCESS"}
          /\ call[c].applied \subseteq RegisteredEndpoints
      BY <2>1 DEF CallRecord, Applying, RollingBack, Stopping
    <2> QED BY <2>2, <2>4, <2>5, <2>6
  <1>2. TypeOK
    BY <1>1 DEF DriveInv, Scalars, TypeOK, Holds
  <1>3. ASSUME NEW c \in Callers
        PROVE  /\ manual[c].pc \in {"idle", "target", "start", "zero", "halt", "note", "record",
                                    "answer", "download", "restart"}
               /\ manual[c].index \in 0..(Len(manual[c].requests) + 1)
               /\ call[c].pc # "idle" => manual[c].pc = "idle"
    <2>1. manual[c] \in ManualRecord /\ ManualShape(c) /\ CallShape(c)
      BY DEF DriveInv, Scalars, CallerOK
    <2>2. manual[c].requests \in Seq(Setpoints) /\ manual[c].index \in Nat
      BY <2>1 DEF ManualRecord
    <2>3. Len(manual[c].requests) \in Nat
      BY <2>2
    <2>4. manual[c].index <= Len(manual[c].requests) + 1
      BY <2>1 DEF ManualShape
    <2> QED BY <2>1, <2>2, <2>3, <2>4 DEF ManualRecord, CallShape
  <1> QED BY <1>2, <1>3 DEF DriveInv, Scalars, ManualTypeOK

\* A caller's requests, whichever way they are counted.
LEMMA RequestsOfManual ==
    ASSUME DriveInv, NEW o \in Callers, NEW r \in Range(manual[o].requests)
    PROVE  \E i \in DOMAIN manual[o].requests : manual[o].requests[i] = r /\ wheel(o, i) = r.endpoint
  BY DEF Range, wheel

\* The callers' state is consistent, and ENABLE and MOVE_VEL start a wheel only
\* when every wheel has its target.
THEOREM AlwaysInStep == ManualSpec => []StartsAreInStep
  <1>1. DriveInv => StartsAreInStep
    <2> SUFFICES ASSUME DriveInv PROVE StartsAreInStep
      OBVIOUS
    <2>1. StartsArePrepared
      <3> SUFFICES ASSUME NEW o \in Callers, manual[o].pc = "start",
                          NEW r \in Range(manual[o].requests)
                   PROVE  drive[r.endpoint].target = r.rpm \/ r.endpoint \in touched[o]
        BY DEF StartsArePrepared
      <3>1. PICK i \in DOMAIN manual[o].requests : manual[o].requests[i] = r
        BY RequestsOfManual
      <3>2. TargetWork(o)
        BY DEF DriveInv, CallerOK, ManualWork
      <3> QED BY <3>1, <3>2 DEF TargetWork, Targets
    <2> QED BY <2>1, TypesFollow DEF StartsAreInStep
  <1> QED BY <1>1, Inductive, PTL

\* A coordinated call that answers SUCCESS has every wheel at its speed.
THEOREM SuccessAlwaysExact == ManualSpec => []SuccessIsExact
  <1>1. DriveInv => SuccessIsExact
    <2> SUFFICES ASSUME DriveInv, NEW c \in Callers,
                        call[c].pc = "release", call[c].result = "SUCCESS",
                        NEW i \in 1..Len(call[c].requests)
                 PROVE  \/ Speed(call[c].requests[i].endpoint) = call[c].requests[i].rpm
                        \/ call[c].requests[i].endpoint \in touched[c]
      BY DEF SuccessIsExact
    <2>1. ReleaseWork(c)
      BY DEF DriveInv, CallerOK, CallWork
    <2> QED BY <2>1 DEF ReleaseWork, Obeys
  <1> QED BY <1>1, Inductive, PTL

\* A stop, an apply and a command that fail leave no wheel of theirs turning.
THEOREM FailuresAlwaysStop == ManualSpec => []FailuresStop
  <1>1. ASSUME DriveInv
        PROVE  StopReachesEverything
    <2> SUFFICES ASSUME NEW c \in Callers, call[c].pc = "release", call[c].kind = "stop",
                        NEW i \in 1..Len(call[c].requests)
                 PROVE  Stopped(c, asks(c, i))
      BY DEF StopReachesEverything, Stopped, Resting, asks
    <2> QED BY <1>1 DEF DriveInv, CallerOK, CallWork, ReleaseWork
  <1>2. ASSUME DriveInv
        PROVE  FailedApplyStops
    <2> SUFFICES ASSUME NEW c \in Callers, call[c].pc = "release", call[c].kind = "apply",
                        call[c].result # "SUCCESS", request(c).endpoint \in Required,
                        NEW e \in call[c].applied \cup {request(c).endpoint}
                 PROVE  Stopped(c, e)
      BY DEF FailedApplyStops, Stopped, Resting
    <2> QED BY <1>2 DEF DriveInv, CallerOK, CallWork, ReleaseWork
  <1>3. ASSUME DriveInv
        PROVE  FailedMoveStops
    <2> SUFFICES ASSUME NEW o \in Callers, manual[o].pc = "answer", ~manual[o].ok,
                        NEW r \in Range(manual[o].requests)
                 PROVE  Stopped(o, r.endpoint)
      BY DEF FailedMoveStops, Stopped, Resting
    <2>1. PICK i \in DOMAIN manual[o].requests : wheel(o, i) = r.endpoint
      BY <1>3, RequestsOfManual
    <2>2. DoneWork(o)
      BY <1>3 DEF DriveInv, CallerOK, ManualWork
    <2> QED BY <2>1, <2>2 DEF DoneWork
  <1>4. DriveInv => FailuresStop
    BY <1>1, <1>2, <1>3 DEF FailuresStop
  <1> QED BY <1>4, Inductive, PTL

\* An update changes the boot partition only with the wheels at rest.
THEOREM UpdateAlwaysAtRest == ManualSpec => []UpdateFindsRest
  <1>1. DriveInv => UpdateFindsRest
    <2> SUFFICES ASSUME DriveInv, NEW o \in Callers, manual[o].pc = "restart",
                        NEW r \in Range(manual[o].requests)
                 PROVE  Resting(o, r.endpoint)
      BY DEF UpdateFindsRest, Resting
    <2>1. PICK i \in DOMAIN manual[o].requests : wheel(o, i) = r.endpoint
      BY RequestsOfManual
    <2>2. DoneWork(o) /\ manual[o].kind = "update"
      BY DEF DriveInv, CallerOK, ManualWork, ManualShape
    <2> QED BY <2>1, <2>2 DEF DoneWork
  <1> QED BY <1>1, Inductive, PTL

===============================================================================
