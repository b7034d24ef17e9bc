----------------------------- MODULE IngressPlane -----------------------------
(***************************************************************************)
(* The operations on devices and their ingresses, end to end: createDevice,*)
(* rotateCredential, addIngress, deleteIngress and putRoute of api.go, the *)
(* hub's two-phase deployments DeployDevice and DeployRoute, the store     *)
(* (DeviceStore) and the gateways (IngressGateway).                        *)
(*                                                                         *)
(* A handler reads the device, builds what it proposes from what it read,  *)
(* waits for deployMu, sends the proposal to the ready gateways, commits   *)
(* its own change, and sends the proposal again to be applied.  Sending to *)
(* all sessions is one step and an acknowledgement arrives when its frame  *)
(* is handled; RoutePublication has the channels in between.  The version  *)
(* compare-and-set of a route is kept, its credential is not.              *)
(***************************************************************************)
EXTENDS IngressGateway, Sequences

CONSTANTS CreateRequests, RotateRequests, AddRequests, DeleteRequests, RouteRequests,
          Asks,             \* what a request may name: a device, a port, a method and,
                            \* unless one is to be generated (None), a password
          InitialVersions,  \* the route version of each device, 0: no route
          StartTime,        \* the rows there are at the start are older
          MaxRequests,      \* bound: requests in a behaviour
          MaxFaults         \* bound: disturbances in a behaviour

IngressRequests == RotateRequests \union AddRequests \union DeleteRequests
Deployments == IngressRequests \union RouteRequests
Requests == CreateRequests \union Deployments

ASSUME PlaneAssumption ==
    /\ MaxRequests \in Nat /\ MaxFaults \in Nat
    /\ DeviceRequests = Requests
    /\ Asks \in [Requests -> SUBSET [device : Devices, port : Ports, method : Methods,
                                      password : Passwords \union {None}]]
    /\ StartTime \in Nat \ {0}
    /\ InitialVersions \in [Devices -> Nat]
    /\ \A d \in Devices : InitialVersions[d] > 0 => InitialDevices[d] # None
    /\ CreateRequests \intersect Deployments = {}
    /\ RouteRequests \intersect IngressRequests = {}
    /\ RotateRequests \intersect (AddRequests \union DeleteRequests) = {}
    /\ AddRequests \intersect DeleteRequests = {}

\* A password that a rotation draws is nobody's before.
ASSUME PasswordAssumption ==
    /\ \A r \in Requests : \A q \in Asks[r] :
          q.password # None => q.password.by \notin RotateRequests
    /\ \A d \in Devices : InitialDevices[d] # None =>
          \A i \in InitialDevices[d].ingresses :
              i.password.by \notin RotateRequests /\ i.at < StartTime

VARIABLES
    version, staged,    \* per device: the active and the pending row (0: none)
    clock,              \* created_at of the next row
    deployMu,           \* the request that holds Hub.deployMu, or None
    pc,
    job,                \* the request's locals: device, value read, proposal, ...
    targets,            \* the sessions (gateways) of the deployment
    live,               \* those of them whose session has not ended
    acks,               \* the acknowledgements of the current broadcast
    answer,             \* "success" (2xx), "refused" (4xx) or "failed" (503, or none)
    late,               \* the locals of a request that has returned while the database
                        \* may still carry out its commit, or NoJob
    snapshot,           \* what ListActiveRoutes has read for each gateway, or None
    inbox,              \* the frames on the way to each gateway
    link,               \* "none", "reading" (a SNAPSHOT is made), "open", or "down":
                        \* the process cannot start
    ready,              \* session.ready
    faults,
    stale,              \* history: requests that committed when the device was no
                        \* longer what they had read
    last,               \* history: the last request that committed, per device
    torn                \* history: the gateways whose last SNAPSHOT was read while
                        \* ingresses changed

requestVars == <<clock, deployMu, pc, job, targets, live, acks, answer, late>>
hubVars == <<snapshot, inbox, link, ready>>
historyVars == <<stale, last, torn>>
vars == <<device, ingressVars, version, staged, requestVars, hubVars, faults, historyVars>>

NoAcks == [g \in Gateways |-> "none"]
NoJob == [device |-> None, read |-> None, proposed |-> None, new |-> None, version |-> 0]

\* The active routes with their devices, as they are now.
ActiveRoutes ==
    [d \in Devices |-> IF version[d] = 0 THEN None
                       ELSE [version |-> version[d], dev |-> device[d]]]

Init ==
    /\ device = InitialDevices
    /\ version = InitialVersions /\ staged = [d \in Devices |-> 0]
    /\ table = [g \in Gateways |-> NoTable]
    /\ prepared = [g \in Gateways |-> NoTable]
    /\ listeners = [g \in Gateways |-> NoListeners]
    /\ synced = [g \in Gateways |-> FALSE]
    /\ draining = [g \in Gateways |-> FALSE]
    /\ file = [g \in Gateways |-> None]
    /\ clock = StartTime
    /\ deployMu = None
    /\ pc = [r \in Requests |-> "idle"]
    /\ job = [r \in Requests |-> NoJob]
    /\ targets = [r \in Requests |-> {}]
    /\ live = [r \in Requests |-> {}]
    /\ acks = [r \in Requests |-> NoAcks]
    /\ answer = [r \in Requests |-> "none"]
    /\ late = [r \in Requests |-> NoJob]
    /\ snapshot = [g \in Gateways |-> None]
    /\ inbox = [g \in Gateways |-> <<>>]
    /\ link = [g \in Gateways |-> "none"]
    /\ ready = [g \in Gateways |-> FALSE]
    /\ faults = 0
    /\ stale = {}
    /\ last = [d \in Devices |-> None]
    /\ torn = {}

MayBegin == Cardinality({r \in Requests : pc[r] # "idle"}) < MaxRequests

Disturb == faults < MaxFaults /\ faults' = faults + 1

-------------------------------------------------------------------------------
(* The handlers up to the deployment *)

Answer(r, status) ==
    /\ pc' = [pc EXCEPT ![r] = "done"]
    /\ answer' = [answer EXCEPT ![r] = status]

\* ssconfig.GeneratePassword
Password(r, method) == [method |-> method, by |-> r]

\* The client's password, or a generated one.
Given(r, q) == IF q.password = None THEN Password(r, q.method) ELSE q.password

\* createDevice: no deployment; a random port is tried until one is free.
Create(r, q) ==
    /\ pc[r] = "idle"
    /\ LET d == q.device
           v == [port |-> q.port, method |-> q.method, password |-> Given(r, q),
                 ingresses |-> {}] IN
       \/ /\ ValidCredential(v.method, v.password)
          /\ CreateDevice(d, v)
          /\ Answer(r, "success")
       \/ /\ ~ValidCredential(v.method, v.password) \/ CreateConflicts(d, v)
          /\ Answer(r, "refused")
          /\ UNCHANGED device
    /\ UNCHANGED <<ingressVars, version, staged, clock, deployMu, job, targets, live,
                   acks, late, hubVars, faults, historyVars>>

\* The handler has read the device and built its proposal.
Proposes(r, d, proposed, new, next) ==
    /\ job' = [job EXCEPT ![r] = [device |-> d, read |-> GetDevice(d),
                                  proposed |-> proposed, new |-> new, version |-> 0]]
    /\ pc' = [pc EXCEPT ![r] = next]
    /\ UNCHANGED answer

\* 404 or 409, before anything has happened.
Refused(r) == Answer(r, "refused") /\ UNCHANGED <<job, clock>>

\* Mutant: the ingresses sent to the gateways keep the old password.
ProposeRotateRowOnly(v, pw) == [v EXCEPT !.password = pw]

\* The password is made for the method that was read.
ProposeRotate(v, pw) ==
    [v EXCEPT !.password = pw,
              !.ingresses = {IF i.primary THEN [i EXCEPT !.password = pw] ELSE i : i \in @}]

RotateCredential(r, d) ==
    /\ pc[r] = "idle"
    /\ \/ GetDevice(d) = None /\ Refused(r)
       \/ /\ GetDevice(d) # None
          /\ LET v == GetDevice(d)
                 pw == Password(r, v.method) IN
             Proposes(r, d, ProposeRotate(v, pw), pw, "lock")
          /\ UNCHANGED clock
    /\ UNCHANGED <<device, ingressVars, version, staged, deployMu, targets, live, acks,
                   late, hubVars, faults, historyVars>>

AddIngress(r, q) ==
    LET d == q.device
        v == GetDevice(d)
        new == [port |-> q.port, method |-> q.method, password |-> Given(r, q),
                primary |-> FALSE, at |-> clock]
        acceptable == /\ v # None
                      /\ ValidCredential(new.method, new.password)
                      /\ \A i \in EffectiveIngresses(v) : i.port # new.port IN
    /\ pc[r] = "idle"
    /\ \/ ~acceptable /\ Refused(r)
       \/ /\ acceptable
          /\ Proposes(r, d, [v EXCEPT !.ingresses = EffectiveIngresses(v) \union {new}],
                      new, "lock")
          /\ clock' = clock + 1
    /\ UNCHANGED <<device, ingressVars, version, staged, deployMu, targets, live, acks,
                   late, hubVars, faults, historyVars>>

\* The first ingress left in the slice becomes the primary one.
ProposeDelete(v, p) ==
    LET rest == {i \in EffectiveIngresses(v) : i.port # p}
        first == CHOOSE i \in rest : \A j \in rest : i = j \/ Before(i, j) IN
    IF \E i \in EffectiveIngresses(v) : i.port = p /\ i.primary
    THEN [port |-> first.port, method |-> first.method, password |-> first.password,
          ingresses |-> (rest \ {first}) \union {[first EXCEPT !.primary = TRUE]}]
    ELSE [v EXCEPT !.ingresses = rest]

DeleteIngress(r, d, p) ==
    /\ pc[r] = "idle"
    /\ \/ GetDevice(d) = None /\ Refused(r)
       \/ /\ GetDevice(d) # None
          /\ Cardinality(EffectiveIngresses(GetDevice(d))) <= 1
          /\ Refused(r)
       \/ /\ GetDevice(d) # None
          /\ Cardinality(EffectiveIngresses(GetDevice(d))) > 1
          /\ \A i \in EffectiveIngresses(GetDevice(d)) : i.port # p
          /\ Refused(r)
       \/ /\ GetDevice(d) # None
          /\ Cardinality(EffectiveIngresses(GetDevice(d))) > 1
          /\ \E i \in EffectiveIngresses(GetDevice(d)) : i.port = p
          /\ Proposes(r, d, ProposeDelete(GetDevice(d), p), p, "lock")
          /\ UNCHANGED clock
    /\ UNCHANGED <<device, ingressVars, version, staged, deployMu, targets, live, acks,
                   late, hubVars, faults, historyVars>>

\* putRoute and putRouteFromProvider send the ingresses they have read with the route.
PutRoute(r, d) ==
    /\ pc[r] = "idle"
    /\ \/ GetDevice(d) = None /\ Refused(r)
       \/ /\ GetDevice(d) # None
          /\ Proposes(r, d, GetDevice(d), None, "stage")
          /\ UNCHANGED clock
    /\ UNCHANGED <<device, ingressVars, version, staged, deployMu, targets, live, acks,
                   late, hubVars, faults, historyVars>>

\* StageRoute: the client expects the active version, or another one.
Stage(r) ==
    /\ pc[r] = "stage"
    /\ \/ /\ staged' = [staged EXCEPT ![job[r].device] = version[job[r].device] + 1]
          /\ job' = [job EXCEPT ![r].version = version[job[r].device] + 1]
          /\ pc' = [pc EXCEPT ![r] = "lock"]
          /\ UNCHANGED answer
       \/ Answer(r, "refused") /\ UNCHANGED <<staged, job>>
    /\ UNCHANGED <<device, ingressVars, version, clock, deployMu, targets, live, acks,
                   late, hubVars, faults, historyVars>>

-------------------------------------------------------------------------------
(* The deployment: DeployDevice and DeployRoute *)

Frame(type, r) ==
    [type |-> type, req |-> r, device |-> job[r].device,
     route |-> [version |-> job[r].version, dev |-> job[r].proposed]]

PrepareType(r) == IF r \in RouteRequests THEN "PREPARE" ELSE "DEVICE_PREPARE"
UpdateType(r) == IF r \in RouteRequests THEN "ACTIVATE" ELSE "DEVICE_UPDATE"

Broadcast(S, f) ==
    inbox' = [g \in Gateways |-> IF g \in S THEN Append(inbox[g], f) ELSE inbox[g]]

ReadyGateways == {g \in Gateways : link[g] = "open" /\ ready[g]}

\* The handler returns: deployMu is released, its locals are gone.
Finish(r, status) ==
    /\ Answer(r, status)
    /\ deployMu' = IF deployMu = r THEN None ELSE deployMu
    /\ live' = [live EXCEPT ![r] = {}]
    /\ job' = [job EXCEPT ![r] = NoJob]
    /\ acks' = [acks EXCEPT ![r] = NoAcks]
    /\ targets' = IF status = "success" THEN targets ELSE [targets EXCEPT ![r] = {}]

DeployMuFree == deployMu = None

\* Take deployMu and the ready sessions, send the first frame to them.
LockAndPrepare(r) ==
    /\ pc[r] = "lock"
    /\ DeployMuFree
    /\ \/ /\ ReadyGateways = {}
          /\ Finish(r, "failed")
          /\ UNCHANGED inbox
       \/ /\ ReadyGateways # {}
          /\ deployMu' = r
          /\ pc' = [pc EXCEPT ![r] = "prepare"]
          /\ targets' = [targets EXCEPT ![r] = ReadyGateways]
          /\ live' = [live EXCEPT ![r] = ReadyGateways]
          /\ Broadcast(ReadyGateways, Frame(PrepareType(r), r))
          /\ UNCHANGED <<answer, job, acks>>
    /\ UNCHANGED <<device, ingressVars, version, staged, clock, late, snapshot, link, ready,
                   faults, historyVars>>

AllAcked(r) == \A g \in targets[r] : acks[r][g] = "ok"

\* commit() of a request with these locals: its own change, to whatever the device is
\* by now.
CommitChange(r, j) ==
    LET d == j.device IN
    /\ \/ r \in RotateRequests /\ UpdateDeviceCredential(d, j.new)
                               /\ UNCHANGED <<version, staged>>
       \/ r \in AddRequests /\ AddDeviceIngress(d, j.new)
                            /\ UNCHANGED <<version, staged>>
       \/ r \in DeleteRequests /\ DeleteDeviceIngress(d, j.new)
                               /\ UNCHANGED <<version, staged>>
       \/ /\ r \in RouteRequests
          /\ staged[d] = j.version
          /\ version' = [version EXCEPT ![d] = staged[d]]
          /\ staged' = [staged EXCEPT ![d] = 0]
          /\ UNCHANGED device
    /\ last' = [last EXCEPT ![d] = r]
    /\ stale' = IF j.read = device[d] THEN stale ELSE stale \union {r}

CommitConflicts(r) ==
    LET d == job[r].device IN
    \/ r \in AddRequests /\ AddConflicts(job[r].new.port)
    \/ r \in DeleteRequests /\ DeleteConflicts(d, job[r].new)
    \/ r \in RouteRequests /\ staged[d] # job[r].version

\* All gateways have prepared: commit, and send the second frame.
Commit(r) ==
    /\ pc[r] = "prepare"
    /\ AllAcked(r)
    /\ \/ /\ CommitChange(r, job[r])
          /\ pc' = [pc EXCEPT ![r] = "update"]
          /\ acks' = [acks EXCEPT ![r] = NoAcks]
          /\ Broadcast(live[r], Frame(UpdateType(r), r))
          /\ UNCHANGED <<answer, deployMu, live, job, targets, late, faults>>
       \/ /\ CommitConflicts(r)
          /\ Finish(r, "failed")
          /\ UNCHANGED <<device, version, staged, inbox, late, faults, stale, last>>
       \/ /\ Disturb                     \* the database fails, or the reply is lost
          /\ Finish(r, "failed")
          /\ late' = [late EXCEPT ![r] = job[r]]
          /\ UNCHANGED <<device, version, staged, inbox, stale, last>>
    /\ UNCHANGED <<ingressVars, clock, snapshot, link, ready, torn>>

\* The database carries out a commit that nobody waits for any more, at once or when
\* others are at work, or never (then late stays).
LateCommit(r) ==
    /\ late[r] # NoJob
    /\ CommitChange(r, late[r])
    /\ late' = [late EXCEPT ![r] = NoJob]
    /\ UNCHANGED <<ingressVars, clock, deployMu, pc, job, targets, live, acks, answer,
                   hubVars, faults, torn>>

Succeed(r) ==
    /\ pc[r] = "update"
    /\ AllAcked(r)
    /\ Finish(r, "success")
    /\ UNCHANGED <<device, ingressVars, version, staged, clock, late, hubVars, faults,
                   historyVars>>

\* A gateway has refused, its session has ended, or the deadline or the client's
\* context ends the wait.
GiveUp(r) ==
    /\ pc[r] \in {"prepare", "update"}
    /\ \/ \E g \in targets[r] : acks[r][g] = "error" /\ UNCHANGED faults
       \/ targets[r] # live[r] /\ UNCHANGED faults
       \/ Disturb
    /\ Finish(r, "failed")
    /\ UNCHANGED <<device, ingressVars, version, staged, clock, late, hubVars, historyVars>>

-------------------------------------------------------------------------------
(* Gateways *)

Received(g, type) == inbox[g] # <<>> /\ Head(inbox[g]).type = type

\* The acknowledgement counts while the request waits for this session.
Ack(g, result) ==
    LET r == Head(inbox[g]).req IN
    /\ inbox' = [inbox EXCEPT ![g] = Tail(@)]
    /\ acks' = IF r # None /\ g \in live[r] THEN [acks EXCEPT ![r][g] = result] ELSE acks
    /\ UNCHANGED <<device, version, staged, clock, deployMu, pc, job, targets, live,
                   answer, late, snapshot, link, ready, stale, last>>

FaultUnless(forced) == IF forced THEN UNCHANGED faults ELSE Disturb

\* DEVICE_UPDATE and ACTIVATE: install the table, reconcile, save.
ApplyTable(g, t) ==
    \/ Applied(g, t) /\ Ack(g, "ok") /\ UNCHANGED faults
    \/ NotReconciled(g, t) /\ Ack(g, "error") /\ FaultUnless(~CouldReconcile(g, t))
    \/ NotSaved(g, t) /\ Ack(g, "error") /\ Disturb

OnDevicePrepare(g) ==
    /\ Received(g, "DEVICE_PREPARE")
    /\ LET d == Head(inbox[g]).device
           v == Head(inbox[g]).route.dev IN
       \/ PrepareDevice(g, d, v) /\ Ack(g, "ok") /\ UNCHANGED faults
       \/ \E f \in EffectiveIngresses(v) :
             /\ PrepareStopsAt(g, d, v, f)
             /\ Ack(g, "error")
             /\ FaultUnless(CannotPrepare(g, d, f))
    /\ UNCHANGED <<table, prepared, synced, draining, file, torn>>

OnDeviceUpdate(g) ==
    /\ Received(g, "DEVICE_UPDATE")
    /\ ApplyTable(g, UpdateDevice(g, Head(inbox[g]).device, Head(inbox[g]).route.dev))
    /\ UNCHANGED <<prepared, torn>>

OnPrepare(g) ==
    /\ Received(g, "PREPARE")
    /\ LET d == Head(inbox[g]).device
           rt == Head(inbox[g]).route IN
       \/ /\ PrepareDevice(g, d, rt.dev)
          /\ \/ KeepPrepared(g, d, rt) /\ Ack(g, "ok")
             \/ RefusePrepared(g, d, rt) /\ Ack(g, "error")
          /\ UNCHANGED faults
       \/ \E f \in EffectiveIngresses(rt.dev) :
             /\ PrepareStopsAt(g, d, rt.dev, f)
             /\ Ack(g, "error")
             /\ FaultUnless(CannotPrepare(g, d, f))
             /\ UNCHANGED <<prepared, synced>>
    /\ UNCHANGED <<table, draining, file, torn>>

OnActivate(g) ==
    /\ Received(g, "ACTIVATE")
    /\ LET d == Head(inbox[g]).device
           rt == Head(inbox[g]).route IN
       IF WasPrepared(g, d, rt)
       THEN ApplyTable(g, ActivatePrepared(g, d)) /\ Forget(g, d)
       ELSE Ack(g, "error") /\ UNCHANGED <<ingressVars, faults>>
    /\ UNCHANGED torn

OnSnapshot(g) ==
    /\ Received(g, "SNAPSHOT")
    /\ LET t == Head(inbox[g]).table IN
       \/ /\ \/ SnapshotApplied(g, t) /\ UNCHANGED faults
             \/ SnapshotNotReconciled(g, t) /\ FaultUnless(~CouldReconcile(g, t))
          /\ torn' = IF Head(inbox[g]).torn THEN torn \union {g} ELSE torn \ {g}
       \/ SnapshotNotSaved(g) /\ Disturb /\ UNCHANGED torn
    /\ Ack(g, "none")

\* The stream is opened.  ListActiveRoutes reads the routes with their devices in one
\* query, and then the ingresses of each device with a query of its own.
Connect(g) ==
    /\ link[g] = "none"
    /\ link' = [link EXCEPT ![g] = "reading"]
    /\ snapshot' = [snapshot EXCEPT ![g] =
          [table |-> ActiveRoutes, unread |-> {d \in Devices : version[d] # 0},
           torn |-> FALSE]]
    /\ UNCHANGED <<device, ingressVars, version, staged, requestVars, inbox, ready, faults,
                   historyVars>>

\* loadDeviceIngresses; they may have changed since the first query.
LoadIngresses(g, d) ==
    /\ link[g] = "reading"
    /\ d \in snapshot[g].unread
    /\ LET now == device[d].ingresses IN
       snapshot' = [snapshot EXCEPT ![g] =
          [table |-> [@.table EXCEPT ![d].dev.ingresses = now],
           unread |-> @.unread \ {d},
           torn |-> @.torn \/ now # @.table[d].dev.ingresses]]
    /\ UNCHANGED <<device, ingressVars, version, staged, requestVars, inbox, link, ready,
                   faults, historyVars>>

SendSnapshot(g) ==
    /\ link[g] = "reading"
    /\ snapshot[g].unread = {}
    /\ link' = [link EXCEPT ![g] = "open"]
    /\ inbox' = [inbox EXCEPT ![g] =
          <<[type |-> "SNAPSHOT", req |-> None, table |-> snapshot[g].table,
             torn |-> snapshot[g].torn]>>]
    /\ snapshot' = [snapshot EXCEPT ![g] = None]
    /\ UNCHANGED <<device, ingressVars, version, staged, requestVars, ready, faults,
                   historyVars>>

\* The session is gone, with what the stream still carries.
EndSession(g) ==
    /\ snapshot' = [snapshot EXCEPT ![g] = None]
    /\ inbox' = [inbox EXCEPT ![g] = <<>>]
    /\ ready' = [ready EXCEPT ![g] = FALSE]
    /\ live' = [r \in Requests |-> live[r] \ {g}]

Disconnect(g) ==
    /\ link[g] \in {"reading", "open"}
    /\ Disturb
    /\ EndSession(g)
    /\ link' = [link EXCEPT ![g] = "none"]
    /\ UNCHANGED <<device, ingressVars, version, staged, clock, deployMu, pc, job, targets,
                   acks, answer, late, historyVars>>

\* The next heartbeat tells the hub what Ready has become.
Heartbeat(g) ==
    /\ link[g] = "open"
    /\ ready[g] # Ready(g)
    /\ ready' = [ready EXCEPT ![g] = Ready(g)]
    /\ UNCHANGED <<device, ingressVars, version, staged, requestVars, snapshot, inbox, link,
                   faults, historyVars>>

\* POST /drain and /undrain.
LocalDrain(g) ==
    /\ link[g] # "down"
    /\ Disturb
    /\ draining' = [draining EXCEPT ![g] = ~@]
    /\ UNCHANGED <<device, table, prepared, listeners, synced, file, version, staged,
                   requestVars, hubVars, historyVars>>

GatewayRestart(g) ==
    /\ link[g] # "down"
    /\ Disturb
    /\ EndSession(g)
    /\ \/ Restart(g) /\ link' = [link EXCEPT ![g] = "none"]
       \/ CannotStart(g) /\ link' = [link EXCEPT ![g] = "down"]
    /\ UNCHANGED <<device, version, staged, clock, deployMu, pc, job, targets, acks, answer,
                   late, historyVars>>

ControlPlaneRestart ==
    /\ Disturb
    /\ pc' = [r \in Requests |-> IF pc[r] = "idle" THEN "idle" ELSE "done"]
    /\ answer' = [r \in Requests |->
                    IF pc[r] \in {"idle", "done"} THEN answer[r] ELSE "failed"]
    /\ deployMu' = None
    /\ live' = [r \in Requests |-> {}]
    /\ job' = [r \in Requests |-> NoJob]
    /\ acks' = [r \in Requests |-> NoAcks]
    /\ snapshot' = [g \in Gateways |-> None]
    /\ inbox' = [g \in Gateways |-> <<>>]
    /\ ready' = [g \in Gateways |-> FALSE]
    /\ link' = [g \in Gateways |-> IF link[g] = "down" THEN "down" ELSE "none"]
    /\ UNCHANGED <<device, ingressVars, version, staged, clock, targets, late, historyVars>>

-------------------------------------------------------------------------------
GatewayStep(g) ==
    \/ OnSnapshot(g) \/ OnDevicePrepare(g) \/ OnDeviceUpdate(g) \/ OnPrepare(g)
    \/ OnActivate(g) \/ Connect(g) \/ (\E d \in Devices : LoadIngresses(g, d))
    \/ SendSnapshot(g) \/ Disconnect(g) \/ Heartbeat(g)
    \/ LocalDrain(g) \/ GatewayRestart(g)

Next ==
    \/ \E r \in Requests : \E q \in Asks[r] : MayBegin /\
         (\/ r \in CreateRequests /\ Create(r, q)
          \/ r \in RotateRequests /\ RotateCredential(r, q.device)
          \/ r \in AddRequests /\ AddIngress(r, q)
          \/ r \in DeleteRequests /\ DeleteIngress(r, q.device, q.port)
          \/ r \in RouteRequests /\ PutRoute(r, q.device))
    \/ \E r \in RouteRequests : Stage(r)
    \/ \E r \in Deployments : LockAndPrepare(r) \/ Commit(r) \/ Succeed(r) \/ GiveUp(r)
                              \/ LateCommit(r)
    \/ \E g \in Gateways : GatewayStep(g)
    \/ ControlPlaneRestart

Spec == Init /\ [][Next]_vars

-------------------------------------------------------------------------------
(* Properties *)

\* A synchronised gateway takes connections on exactly the ports of its table,
\* each with the device, method and password of the table, whatever was
\* refused, reserved or half done before (gateway.go ReconcileListeners and
\* PrepareDevice; control_client.go clears controlSynced when they fail).
ListenersMatchTable ==
    \A g \in Gateways : synced[g] =>
        /\ ~DuplicatePort(table[g])
        /\ \A p \in Ports :
              LET l == listeners[g][p] IN
              /\ \A x \in Desired(table[g]) : x.ingress.port = p => l = Listener(x, TRUE)
              /\ l # None /\ l.active => \E x \in Desired(table[g]) : x.ingress.port = p

\* The rows stay consistent: the devices row repeats the primary ingress, a port
\* belongs to one device, a device that has a port keeps one.
DeviceRowsConsistent ==
    /\ PortsUnique(device)
    /\ \A d \in Devices : device[d] # None =>
          /\ MirrorsPrimary(device[d])
          /\ InitialDevices[d] = None \/ InitialDevices[d].ingresses # {}
                => device[d].ingresses # {}

\* The last change of a device to reach the database, if it is a deployment that was
\* answered with success and had read the device as it was when it committed, is what
\* its gateways hold, in the table and in the file, through restarts and
\* reconnections: the device as the database has it (api.go builds the proposal, the
\* store makes its own change; a commit nobody waits for may come in between).
LastChangeIsHeld ==
    \A d \in Devices : \A r \in Deployments \ stale :
        last[d] = r /\ pc[r] = "done" /\ answer[r] = "success" =>
            \A g \in targets[r] : link[g] # "down" =>
                /\ table[g][d] # None => table[g][d].dev = device[d]
                /\ file[g] # None /\ (file[g][d] # None => file[g][d].dev = device[d])

\* Unless a change was committed to a device that was no longer what the request had
\* read, whatever the database holds can be served, and so can a snapshot file: no
\* gateway is kept from synchronising or from starting, except by a SNAPSHOT that was
\* read while a port moved from one device to another (ssconfig.Validate, the
\* duplicate check of ReconcileListeners, the queries of ListActiveRoutes).
SnapshotsCanBeServed ==
    stale = {} =>
        /\ Reconcilable(ActiveRoutes)
        /\ \A g \in Gateways : file[g] # None =>
              /\ \A x \in Desired(file[g]) : Startable(x)
              /\ DuplicatePort(file[g]) => g \in torn

Serves(g, d, i) ==
    LET l == listeners[g][i.port] IN
    l # None /\ l.active /\ l = Listener([device |-> d, ingress |-> i], TRUE)

\* The gateway has this row of device_ingresses, not one that was added later.
HasRow(g, d, i) ==
    table[g][d] # None /\ \E j \in table[g][d].dev.ingresses : <<j.port, j.at>> = <<i.port, i.at>>

\* A running gateway that stays ready never stops serving an ingress that it has and
\* that the database still has: not in a deployment of this or another device, not when
\* it is refused or fails half-way, and not by a SNAPSHOT that was read before later
\* changes (commits to a device that had changed since it was read again excepted).
OwnedIngressKeepsServing ==
    [][\A g \in Gateways, d \in Devices :
          device[d] # None /\ synced[g] /\ synced'[g] /\ stale' = {} =>
              \A i \in device[d].ingresses :
                  Serves(g, d, i) /\ HasRow(g, d, i) /\ device'[d] # None /\ i \in device'[d].ingresses
                  => Serves(g, d, i)']_vars
===============================================================================
