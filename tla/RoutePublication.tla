---------------------------- MODULE RoutePublication ----------------------------
(***************************************************************************)
(* Publication of one device's route: the HTTP handlers of the control     *)
(* plane (api.go deployRoute, interrupt, setGatewayDraining), the Hub that *)
(* broadcasts frames over the gateways' control streams and waits for      *)
(* their acknowledgements (hub.go), and the gateways (GatewayNode) with    *)
(* the store (RouteStore).                                                 *)
(*                                                                         *)
(* A session is one Connect call of hub.go.  Its sendCh is the channel     *)
(* s.send, wire the frames on the stream towards the gateway, up the       *)
(* frames on the way back (the client's out channel and the stream), acks  *)
(* the channel s.acks that all requests of the hub read.                   *)
(***************************************************************************)
EXTENDS GatewayNode, Integers, Sequences, FiniteSets

CONSTANTS InterruptRequests,   \* POST .../connections/interrupt requests
          DrainRequests,       \* POST .../draining requests
          MaxSessions,         \* bound: Connect calls in a behaviour
          MaxFaults,           \* bound: disturbances in a behaviour
          SendCap,             \* capacity of s.send (32 in the code)
          AckCap               \* capacity of s.acks (32 in the code)

Requests == RouteRequests \union InterruptRequests \union DrainRequests
Sessions == 1 .. MaxSessions
\* bound: the expectedVersion a client may send
Expected == 0 .. InitialVersion + Cardinality(RouteRequests)

ASSUME BoundsAssumption ==
    /\ MaxSessions \in Nat /\ MaxFaults \in Nat
    /\ SendCap \in Nat \ {0} /\ AckCap \in Nat \ {0}
ASSUME RequestsAssumption ==
    /\ IsFiniteSet(RouteRequests)
    /\ None \notin InterruptRequests \union DrainRequests \union Gateways \union Sessions
    /\ RouteRequests \intersect InterruptRequests = {}
    /\ RouteRequests \intersect DrainRequests = {}
    /\ InterruptRequests \intersect DrainRequests = {}

VARIABLES
    deployMu,       \* the request that holds Hub.deployMu, or None
    pc,             \* where each request stands
    route,          \* the route a PUT publishes
    drainTo,        \* the value a draining request sends
    targets,        \* the sessions of the request's broadcasts, in loop order
    pos,            \* the loop variable of broadcastAndWait
    answer,         \* the HTTP status, "none" before it is written
    opened,         \* number of sessions opened so far
    owner,          \* the gateway of each session
    phase,          \* "registered", "open" (snapshot sent) or "closed"
    hubSession,     \* Hub.sessions
    ready,          \* session.ready
    sendCh, wire, up, acks,
    link,           \* the session each gateway's client runs on, or None
    faults          \* disturbances so far

requestVars == <<deployMu, pc, route, drainTo, targets, pos, answer>>
sessionVars == <<opened, owner, phase, hubSession, ready, sendCh, wire, up, acks,
                 link>>
vars == <<storeVars, gatewayVars, requestVars, sessionVars, faults>>

SendPCs == {"prepareSend", "activateSend", "send"}
WaitPCs == {"prepareWait", "activateWait", "wait"}
RoutePCs == {"idle", "lock", "prepareSend", "prepareWait", "commit", "activateSend",
             "activateWait", "done"}
OtherPCs == {"idle", "send", "wait", "done"}
Answers == {"none", "200", "204", "404", "409", "500", "503", "lost"}

FramesOf(types, senders) ==
    [type : types, req : senders, route : Routes, draining : BOOLEAN]
SnapshotFrames == FramesOf({"SNAPSHOT"}, {None})
BroadcastFrames == FramesOf({"PREPARE", "ACTIVATE"}, RouteRequests)
                   \union FramesOf({"INTERRUPT"}, InterruptRequests)
                   \union FramesOf({"SET_DRAINING"}, DrainRequests)
Frames == SnapshotFrames \union BroadcastFrames
Replies == [type : {"ACK", "HEARTBEAT"}, req : Requests \union {None}, ok : BOOLEAN]

Init ==
    /\ StoreInit
    /\ GatewayInit
    /\ deployMu = None
    /\ pc = [r \in Requests |-> "idle"]
    /\ route = [r \in Requests |-> NoRoute]
    /\ drainTo = [r \in Requests |-> FALSE]
    /\ targets = [r \in Requests |-> <<>>]
    /\ pos = [r \in Requests |-> 1]
    /\ answer = [r \in Requests |-> "none"]
    /\ opened = 0
    /\ owner = [s \in Sessions |-> None]
    /\ phase = [s \in Sessions |-> "closed"]
    /\ hubSession = [g \in Gateways |-> None]
    /\ ready = [s \in Sessions |-> FALSE]
    /\ sendCh = [s \in Sessions |-> <<>>]
    /\ wire = [s \in Sessions |-> <<>>]
    /\ up = [s \in Sessions |-> <<>>]
    /\ acks = [s \in Sessions |-> <<>>]
    /\ link = [g \in Gateways |-> None]
    /\ faults = 0

Disturb == faults < MaxFaults /\ faults' = faults + 1

-------------------------------------------------------------------------------
(* Control streams: Hub.Connect on one side, ControlClient.connect on the other *)

\* The client dials, the hub reads the REGISTER frame and enters the session.
Connect(g) ==
    /\ link[g] = None
    /\ opened < MaxSessions
    /\ opened' = opened + 1
    /\ owner' = [owner EXCEPT ![opened'] = g]
    /\ phase' = [phase EXCEPT ![opened'] = "registered"]
    /\ hubSession' = [hubSession EXCEPT ![g] = opened']
    /\ link' = [link EXCEPT ![g] = opened']
    /\ UNCHANGED <<storeVars, gatewayVars, requestVars, ready, sendCh, wire, up,
                   acks, faults>>

Linked(s) == link[owner[s]] = s

\* A frame written to the stream; it is lost when the client has gone.
OnWire(s, f) == wire' = IF Linked(s) THEN [wire EXCEPT ![s] = Append(@, f)] ELSE wire

\* The hub reads the active routes and sends the snapshot, before it forwards
\* any frame queued on s.send.
SendSnapshot(s) ==
    /\ phase[s] = "registered"
    /\ phase' = [phase EXCEPT ![s] = "open"]
    /\ OnWire(s, [type |-> "SNAPSHOT", req |-> None, route |-> ListActiveRoutes,
                  draining |-> FALSE])
    /\ UNCHANGED <<storeVars, gatewayVars, requestVars, opened, owner, hubSession,
                   ready, sendCh, up, acks, link, faults>>

\* The select loop of Connect forwards one frame.
ForwardFrame(s) ==
    /\ phase[s] = "open"
    /\ sendCh[s] # <<>>
    /\ OnWire(s, Head(sendCh[s]))
    /\ sendCh' = [sendCh EXCEPT ![s] = Tail(@)]
    /\ UNCHANGED <<storeVars, gatewayVars, requestVars, opened, owner, phase,
                   hubSession, ready, up, acks, link, faults>>

\* Mutant: a heartbeat can only take the session out of the quorum.
OnlyUnready(s, f) == ready' = [ready EXCEPT ![s] = @ /\ f.ok]

\* A HEARTBEAT sets s.ready from the status it reports.
StoreReady(s, f) == ready' = [ready EXCEPT ![s] = f.ok]

\* The receive goroutine of Connect: an ACK goes to s.acks and blocks the
\* goroutine while that is full; a HEARTBEAT sets s.ready.  It may still read
\* what had arrived when Connect returns.
HubReceive(s) ==
    /\ up[s] # <<>>
    /\ phase[s] # "registered"
    /\ up' = [up EXCEPT ![s] = Tail(@)]
    /\ LET f == Head(up[s]) IN
       \/ /\ f.type = "ACK"
          /\ Len(acks[s]) < AckCap
          /\ acks' = [acks EXCEPT ![s] = Append(@, f)]
          /\ UNCHANGED ready
       \/ /\ f.type = "HEARTBEAT"
          /\ StoreReady(s, f)
          /\ UNCHANGED acks
    /\ UNCHANGED <<storeVars, gatewayVars, requestVars, opened, owner, phase,
                   hubSession, sendCh, wire, link, faults>>

\* Connect returns: the stream broke, or the client has left it.
CloseSession(s) ==
    /\ phase[s] # "closed"
    /\ IF Linked(s) THEN Disturb ELSE UNCHANGED faults
    /\ hubSession' = [g \in Gateways |->
                        IF hubSession[g] = s THEN None ELSE hubSession[g]]
    /\ phase' = [phase EXCEPT ![s] = "closed"]
    /\ up' = IF phase[s] = "open" THEN up ELSE [up EXCEPT ![s] = <<>>]
    /\ UNCHANGED <<storeVars, gatewayVars, requestVars, opened, owner, ready,
                   sendCh, wire, acks, link>>

\* ControlClient.connect returns; Run dials again later.  What the stream still
\* carries towards the gateway is lost.
ClientDisconnect(g) ==
    /\ link[g] # None
    /\ applying[g] = None
    /\ IF phase[link[g]] = "closed" THEN UNCHANGED faults ELSE Disturb
    /\ link' = [link EXCEPT ![g] = None]
    /\ wire' = [wire EXCEPT ![link[g]] = <<>>]
    /\ UNCHANGED <<storeVars, gatewayVars, requestVars, opened, owner, phase,
                   hubSession, ready, sendCh, up, acks>>

-------------------------------------------------------------------------------
(* The gateway: ControlClient.connect's loop and handle *)

Received(g, type) ==
    /\ link[g] # None
    /\ applying[g] = None
    /\ wire[link[g]] # <<>>
    /\ Head(wire[link[g]]).type = type

Frame(g) == Head(wire[link[g]])

\* The reply goes to the stream; it is lost when the hub has closed it.
Reply(g, f) ==
    up' = IF phase[link[g]] = "closed" THEN up
          ELSE [up EXCEPT ![link[g]] = Append(@, f)]

Ack(r, ok) == [type |-> "ACK", req |-> r, ok |-> ok]

\* The frame is handled to its end and acknowledged.
Handled(g, ok) ==
    /\ wire' = [wire EXCEPT ![link[g]] = Tail(@)]
    /\ Reply(g, Ack(Frame(g).req, ok))
    /\ UNCHANGED <<storeVars, requestVars, opened, owner, phase, hubSession, ready,
                   sendCh, acks, link>>

OnSnapshot(g) ==
    /\ Received(g, "SNAPSHOT")
    /\ \/ /\ HandleSnapshot(g, Frame(g).route)
          /\ Handled(g, TRUE)
          /\ UNCHANGED faults
       \/ /\ SnapshotNotReconciled(g, Frame(g).route)
          /\ Handled(g, FALSE)
          /\ Disturb
       \/ /\ SetUnsynced(g)         \* SaveSnapshot failed
          /\ Handled(g, FALSE)
          /\ Disturb

OnPrepare(g) ==
    /\ Received(g, "PREPARE")
    /\ \/ /\ HandlePrepare(g, Frame(g).route)
          /\ Handled(g, TRUE)
          /\ UNCHANGED faults
       \/ /\ PrepareRefused(g, Frame(g).route)
          /\ Handled(g, FALSE)
          /\ UNCHANGED faults
       \/ /\ ListenerNotPrepared(g)
          /\ Handled(g, FALSE)
          /\ Disturb

OnActivate(g) ==
    /\ Received(g, "ACTIVATE")
    /\ UNCHANGED faults
    /\ \/ /\ StartActivate(g, Frame(g).route, Frame(g).req)
          /\ wire' = [wire EXCEPT ![link[g]] = Tail(@)]
          /\ UNCHANGED <<storeVars, requestVars, opened, owner, phase, hubSession,
                         ready, sendCh, up, acks, link>>
       \/ /\ ~WasPrepared(g, Frame(g).route)
          /\ UNCHANGED gatewayVars
          /\ Handled(g, FALSE)

\* ReconcileListeners and SaveSnapshot after Table.Activate, then the ack.
OnActivated(g) ==
    /\ applying[g] # None
    /\ \/ FinishActivate(g) /\ Reply(g, Ack(applying[g], TRUE)) /\ UNCHANGED faults
       \/ ActivateNotSaved(g) /\ Reply(g, Ack(applying[g], FALSE)) /\ Disturb
    /\ UNCHANGED <<storeVars, requestVars, opened, owner, phase, hubSession, ready,
                   sendCh, wire, acks, link>>

\* The connections of the device are cancelled (not part of this module).
OnInterrupt(g) ==
    /\ Received(g, "INTERRUPT")
    /\ Handled(g, TRUE)
    /\ UNCHANGED <<gatewayVars, faults>>

OnSetDraining(g) ==
    /\ Received(g, "SET_DRAINING")
    /\ SetDraining(g, Frame(g).draining)
    /\ Handled(g, TRUE)
    /\ UNCHANGED faults

\* bound: one HEARTBEAT of a session is on its way at a time, and only one that
\* tells the hub something new.
Heartbeat(g) ==
    /\ link[g] # None
    /\ applying[g] = None
    /\ Ready(g) # ready[link[g]]
    /\ \A i \in DOMAIN up[link[g]] : up[link[g]][i].type # "HEARTBEAT"
    /\ Reply(g, [type |-> "HEARTBEAT", req |-> None, ok |-> Ready(g)])
    /\ UNCHANGED <<storeVars, gatewayVars, requestVars, opened, owner, phase,
                   hubSession, ready, sendCh, wire, acks, link, faults>>

\* POST /drain and POST /undrain on the gateway's health port.
LocalDrain(g) ==
    /\ Disturb
    /\ SetDraining(g, ~draining[g])
    /\ UNCHANGED <<storeVars, requestVars, sessionVars>>

Canary(g) ==
    /\ \/ SetCanary(g, TRUE) /\ UNCHANGED faults
       \/ SetCanary(g, FALSE) /\ Disturb
    /\ UNCHANGED <<storeVars, requestVars, sessionVars>>

\* The process dies, also in the middle of an ACTIVATE, and is started again.
GatewayRestart(g) ==
    /\ Disturb
    /\ Restart(g)
    /\ link' = [link EXCEPT ![g] = None]
    /\ wire' = IF link[g] = None THEN wire ELSE [wire EXCEPT ![link[g]] = <<>>]
    /\ UNCHANGED <<storeVars, requestVars, opened, owner, phase, hubSession, ready,
                   sendCh, up, acks>>

-------------------------------------------------------------------------------
(* Requests: the API handlers and the Hub's deployments *)

\* Hub.readySessions: of the sessions in the map, those whose gateway is ready.
ReadySessions == {s \in Sessions : ready[s] /\ hubSession[owner[s]] = s}

\* The slice readySessions builds is in Go's map order: any order.
Orders(S) == {q \in [1 .. Cardinality(S) -> S] :
                \A i, j \in 1 .. Cardinality(S) : q[i] = q[j] => i = j}

Answer(r, status) ==
    /\ pc' = [pc EXCEPT ![r] = "done"]
    /\ answer' = [answer EXCEPT ![r] = status]

\* deployRoute stages the route; a 409 when the expected version is not current.
Stage(r, expected) ==
    /\ pc[r] = "idle"
    /\ \/ /\ StageRoute(r, expected)
          /\ pc' = [pc EXCEPT ![r] = "lock"]
          /\ route' = [route EXCEPT ![r] = staged']
          /\ UNCHANGED <<answer, faults>>
       \/ /\ StageConflicts(expected)
          /\ Answer(r, "409")
          /\ UNCHANGED <<storeVars, route, faults>>
       \/ /\ UNCHANGED storeVars \/ StageRoute(r, expected)   \* failed, or the reply is lost
          /\ Answer(r, "500")
          /\ Disturb
          /\ UNCHANGED route
    /\ UNCHANGED <<gatewayVars, deployMu, drainTo, targets, pos, sessionVars>>

Release(r) == deployMu' = IF deployMu = r THEN None ELSE deployMu

\* Mutant: SetDraining leaves the session's flag to the next heartbeat.
AfterBroadcastKeepReady(r) == ready' = ready

\* SetDraining clears s.ready once its broadcast is over, whatever came of it.
AfterBroadcast(r) ==
    ready' = IF r \in DrainRequests
             THEN [ready EXCEPT ![targets[r][1]] = FALSE] ELSE ready

\* The handler returns with an error; its locals are gone.
Fail(r) ==
    /\ Answer(r, "503")
    /\ Release(r)
    /\ route' = [route EXCEPT ![r] = NoRoute]
    /\ targets' = [targets EXCEPT ![r] = <<>>]
    /\ pos' = [pos EXCEPT ![r] = 1]

\* Mutant: deployments are not serialised.
DeployUnserialised == TRUE

\* Hub.deployMu is free.
DeployMuFree == deployMu = None

\* DeployRoute: take deployMu and the ready sessions.
LockAndTarget(r) ==
    /\ pc[r] = "lock"
    /\ DeployMuFree
    /\ \/ /\ ReadySessions = {}
          /\ Fail(r)
       \/ /\ ReadySessions # {}
          /\ deployMu' = r
          /\ pc' = [pc EXCEPT ![r] = "prepareSend"]
          /\ \E q \in Orders(ReadySessions) : targets' = [targets EXCEPT ![r] = q]
          /\ UNCHANGED <<answer, route, pos>>
    /\ UNCHANGED <<storeVars, gatewayVars, drainTo, sessionVars, faults>>

\* Hub.Interrupt: no deployMu.
StartInterrupt(r) ==
    /\ pc[r] = "idle"
    /\ \/ /\ ReadySessions = {}
          /\ Answer(r, "503")
          /\ UNCHANGED targets
       \/ /\ ReadySessions # {}
          /\ pc' = [pc EXCEPT ![r] = "send"]
          /\ \E q \in Orders(ReadySessions) : targets' = [targets EXCEPT ![r] = q]
          /\ UNCHANGED answer
    /\ UNCHANGED <<storeVars, gatewayVars, deployMu, route, drainTo, pos,
                   sessionVars, faults>>

\* Hub.SetDraining: the gateway's session, ready or not; no deployMu.
StartDrain(r, g, v) ==
    /\ pc[r] = "idle"
    /\ \/ /\ hubSession[g] = None
          /\ Answer(r, "404")
          /\ UNCHANGED <<targets, drainTo>>
       \/ /\ hubSession[g] # None
          /\ pc' = [pc EXCEPT ![r] = "send"]
          /\ targets' = [targets EXCEPT ![r] = <<hubSession[g]>>]
          /\ drainTo' = [drainTo EXCEPT ![r] = v]
          /\ UNCHANGED answer
    /\ UNCHANGED <<storeVars, gatewayVars, deployMu, route, pos, sessionVars, faults>>

FrameOf(r) ==
    [type |-> CASE pc[r] = "prepareSend" -> "PREPARE"
                [] pc[r] = "activateSend" -> "ACTIVATE"
                [] r \in InterruptRequests -> "INTERRUPT"
                [] OTHER -> "SET_DRAINING",
     req |-> r, route |-> route[r], draining |-> drainTo[r]]

Target(r) == targets[r][pos[r]]

SentAll(r) ==
    /\ pos' = [pos EXCEPT ![r] = 1]
    /\ pc' = [pc EXCEPT ![r] = CASE @ = "prepareSend" -> "prepareWait"
                                 [] @ = "activateSend" -> "activateWait"
                                 [] OTHER -> "wait"]

\* Mutant: the loop runs one past the end of the slice.
AfterSendOffByOne(r) ==
    IF pos[r] <= Len(targets[r])
    THEN pos' = [pos EXCEPT ![r] = @ + 1] /\ UNCHANGED pc
    ELSE SentAll(r)

\* The first loop goes on to the next session, or is over.
AfterSend(r) ==
    IF pos[r] < Len(targets[r])
    THEN pos' = [pos EXCEPT ![r] = @ + 1] /\ UNCHANGED pc
    ELSE SentAll(r)

\* One turn of broadcastAndWait's first loop; the channel may be full, and the
\* loop does not look at s.done.
SendFrame(r) ==
    /\ pc[r] \in SendPCs
    /\ Len(sendCh[Target(r)]) < SendCap
    /\ sendCh' = [sendCh EXCEPT ![Target(r)] = Append(@, FrameOf(r))]
    /\ AfterSend(r)
    /\ UNCHANGED <<storeVars, gatewayVars, deployMu, route, drainTo, targets, answer,
                   opened, owner, phase, hubSession, ready, wire, up, acks, link,
                   faults>>

\* Mutant: ACTIVATE is broadcast before the database commit.
ActivateBeforeCommit(r) ==
    \/ /\ pc[r] = "prepareWait"
       /\ pc' = [pc EXCEPT ![r] = "activateSend"]
       /\ UNCHANGED <<answer, deployMu>>
    \/ pc[r] = "activateWait" /\ Answer(r, "200") /\ Release(r)
    \/ pc[r] = "wait" /\ Answer(r, "204") /\ UNCHANGED deployMu

\* broadcastAndWait returns nil: go on to the commit, or answer.
BroadcastDone(r) ==
    \/ /\ pc[r] = "prepareWait"
       /\ pc' = [pc EXCEPT ![r] = "commit"]
       /\ UNCHANGED <<answer, deployMu>>
    \/ /\ pc[r] = "activateWait"
       /\ Answer(r, "200")
       /\ Release(r)
    \/ /\ pc[r] = "wait"
       /\ Answer(r, "204")
       /\ UNCHANGED deployMu

\* Mutant: the RequestID of an ack is not compared.
AckOfAnyone(a, r) == TRUE

\* The ack answers this request (PREPARE and ACTIVATE share its RequestID).
AckOf(a, r) == a.req = r

\* One turn of the second loop's select, on the ack channel: an ack of another
\* request is dropped.
TakeAck(r) ==
    /\ pc[r] \in WaitPCs
    /\ acks[Target(r)] # <<>>
    /\ acks' = [acks EXCEPT ![Target(r)] = Tail(@)]
    /\ LET a == Head(acks[Target(r)]) IN
       \/ ~AckOf(a, r) /\ UNCHANGED <<pc, answer, deployMu, route, targets, pos, ready>>
       \/ AckOf(a, r) /\ ~a.ok /\ Fail(r) /\ AfterBroadcast(r)
       \/ /\ AckOf(a, r) /\ a.ok
          /\ IF pos[r] < Len(targets[r])
             THEN /\ pos' = [pos EXCEPT ![r] = @ + 1]
                  /\ UNCHANGED <<pc, answer, deployMu, ready>>
             ELSE /\ BroadcastDone(r)
                  /\ AfterBroadcast(r)
                  /\ pos' = [pos EXCEPT ![r] = 1]
          /\ UNCHANGED <<route, targets>>
    /\ UNCHANGED <<storeVars, gatewayVars, drainTo, opened, owner,
                   phase, hubSession, sendCh, wire, up, link, faults>>

\* Mutant: only a closed session ends the wait.
NoDeadline(r) == pc[r] \in WaitPCs /\ phase[Target(r)] = "closed"

\* The select's other cases: the deadline, ctx.Done, s.done.  The deadline alone
\* makes giving up possible at any time.
MayGiveUp(r) == pc[r] \in WaitPCs

GiveUpWaiting(r) ==
    /\ MayGiveUp(r)
    /\ Fail(r)
    /\ AfterBroadcast(r)
    /\ UNCHANGED <<storeVars, gatewayVars, drainTo, opened, owner,
                   phase, hubSession, sendCh, wire, up, acks, link, faults>>

\* The client goes away (ctx.Done) while the first loop is at work.
CancelSending(r) ==
    /\ pc[r] \in SendPCs
    /\ Disturb
    /\ Fail(r)
    /\ AfterBroadcast(r)
    /\ UNCHANGED <<storeVars, gatewayVars, drainTo, opened, owner,
                   phase, hubSession, sendCh, wire, up, acks, link>>

\* commit(): ActivateRoute by version.  It conflicts, or fails, or commits with
\* the reply lost; each of these ends the deployment with 503.
Commit(r) ==
    /\ pc[r] = "commit"
    /\ \/ /\ ActivateRoute(route[r].version)
          /\ pc' = [pc EXCEPT ![r] = "activateSend"]
          /\ UNCHANGED <<answer, deployMu, route, targets, pos, faults>>
       \/ /\ ActivateConflicts(route[r].version)
          /\ Fail(r)
          /\ UNCHANGED <<storeVars, faults>>
       \/ /\ UNCHANGED storeVars
          /\ Fail(r)
          /\ Disturb
       \/ /\ ActivateRoute(route[r].version)
          /\ Fail(r)
          /\ Disturb
    /\ UNCHANGED <<gatewayVars, drainTo, sessionVars>>

\* The control plane's process dies and is started again: every request and
\* every session is gone, the database is not.
ControlPlaneRestart ==
    /\ Disturb
    /\ pc' = [r \in Requests |-> IF pc[r] = "idle" THEN "idle" ELSE "done"]
    /\ answer' = [r \in Requests |->
                    IF pc[r] \in {"idle", "done"} THEN answer[r] ELSE "lost"]
    /\ deployMu' = None
    /\ phase' = [s \in Sessions |-> "closed"]
    /\ hubSession' = [g \in Gateways |-> None]
    /\ sendCh' = [s \in Sessions |-> <<>>]
    /\ up' = [s \in Sessions |-> <<>>]
    /\ acks' = [s \in Sessions |-> <<>>]
    /\ ready' = [s \in Sessions |-> FALSE]
    /\ UNCHANGED <<storeVars, gatewayVars, route, drainTo, targets, pos, opened, owner,
                   wire, link>>

-------------------------------------------------------------------------------
SessionStep(s) ==
    SendSnapshot(s) \/ ForwardFrame(s) \/ HubReceive(s) \/ CloseSession(s)

GatewayStep(g) ==
    \/ Connect(g) \/ ClientDisconnect(g)
    \/ OnSnapshot(g) \/ OnPrepare(g) \/ OnActivate(g) \/ OnActivated(g)
    \/ OnInterrupt(g) \/ OnSetDraining(g)
    \/ Heartbeat(g) \/ LocalDrain(g) \/ Canary(g) \/ GatewayRestart(g)

BroadcastStep(r) ==
    SendFrame(r) \/ TakeAck(r) \/ GiveUpWaiting(r) \/ CancelSending(r)

Next ==
    \/ \E s \in Sessions : SessionStep(s)
    \/ \E g \in Gateways : GatewayStep(g)
    \/ \E r \in RouteRequests :
         (\E e \in Expected : Stage(r, e)) \/ LockAndTarget(r) \/ Commit(r)
    \/ \E r \in InterruptRequests : StartInterrupt(r)
    \/ \E r \in DrainRequests, g \in Gateways, v \in BOOLEAN : StartDrain(r, g, v)
    \/ \E r \in Requests : BroadcastStep(r)
    \/ ControlPlaneRestart

Spec == Init /\ [][Next]_vars

\* Goroutines run on, the ack deadline fires, the hub reads and writes its streams,
\* the heartbeat ticks.  Nothing is assumed of faults, reconnections, clients and of
\* when a gateway handles a frame; a handler that it has begun goes on.
FairSpec ==
    /\ Spec
    /\ \A r \in RouteRequests : WF_vars(LockAndTarget(r)) /\ WF_vars(Commit(r))
    /\ \A r \in Requests :
          WF_vars(SendFrame(r)) /\ WF_vars(TakeAck(r) \/ GiveUpWaiting(r))
    /\ \A s \in Sessions :
          /\ WF_vars(SendSnapshot(s)) /\ WF_vars(ForwardFrame(s))
          /\ WF_vars(HubReceive(s))
    /\ \A g \in Gateways : WF_vars(OnActivated(g)) /\ WF_vars(Heartbeat(g))

-------------------------------------------------------------------------------
(* Properties *)

RequestTypeOK ==
    /\ deployMu \in RouteRequests \union {None}
    /\ pc \in [Requests -> RoutePCs \union OtherPCs]
    /\ \A r \in Requests : pc[r] \in IF r \in RouteRequests THEN RoutePCs ELSE OtherPCs
    /\ route \in [Requests -> Routes]
    /\ drainTo \in [Requests -> BOOLEAN]
    /\ targets \in [Requests -> Seq(Sessions)]
    /\ pos \in [Requests -> Nat]
    /\ \A r \in Requests : pc[r] \in SendPCs \union WaitPCs => pos[r] \in 1 .. Len(targets[r])
    /\ answer \in [Requests -> Answers]

SessionTypeOK ==
    /\ opened \in 0 .. MaxSessions
    /\ owner \in [Sessions -> Gateways \union {None}]
    /\ phase \in [Sessions -> {"registered", "open", "closed"}]
    /\ hubSession \in [Gateways -> Sessions \union {None}]
    /\ ready \in [Sessions -> BOOLEAN]
    /\ sendCh \in [Sessions -> Seq(BroadcastFrames)]
    /\ wire \in [Sessions -> Seq(Frames)]
    /\ up \in [Sessions -> Seq(Replies)]
    /\ acks \in [Sessions -> Seq(Replies)]
    /\ link \in [Gateways -> Sessions \union {None}]

\* The variables have their types, and the loops of broadcastAndWait never leave
\* the slice of sessions they run over.
TypeOK ==
    /\ committed \in Routes /\ staged \in Routes
    /\ GatewayTypeOK
    /\ RequestTypeOK
    /\ SessionTypeOK
    /\ faults \in 0 .. MaxFaults

\* No gateway ever uses, or keeps in its snapshot file, a version that the
\* database has not committed (hub.go: commit before the ACTIVATE broadcast).
NeverAhead ==
    \A g \in Gateways :
        /\ active[g].version <= committed.version
        /\ file[g] # None => file[g].version <= committed.version

\* A ready gateway never serves an older version than one it has served before,
\* whatever it lost in disconnections and restarts (main.go: a restarted
\* gateway is not ready until a snapshot has been reconciled).
ServedNeverRollsBack ==
    \A g \in Gateways : Ready(g) => active[g].version >= served[g]

\* A 200 is durable: every gateway of the deployment uses that version or a
\* later one from then on, and would do so after a restart.
SuccessIsDurable ==
    \A r \in RouteRequests : answer[r] = "200" =>
        \A i \in DOMAIN targets[r] :
            LET g == owner[targets[r][i]] IN
            /\ active[g].version >= route[r].version
            /\ file[g] # None /\ file[g].version >= route[r].version

\* An ACTIVATE that reaches a gateway finds exactly the route it names prepared:
\* after the commit no connected gateway refuses it.
ActivateFindsPrepared ==
    \A g \in Gateways :
        Received(g, "ACTIVATE") => pending[g] = Frame(g).route

HasFrame(q, r) == \E i \in DOMAIN q : q[i].req = r

\* On a live stream no acknowledgement goes missing: while a request waits for a
\* session, its frame is on the way there or the ack on the way back (hub.go
\* broadcastAndWait drops the acks of other requests from the shared channel).
AckReachesItsWaiter ==
    \A r \in Requests : pc[r] \in WaitPCs =>
        \A i \in pos[r] .. Len(targets[r]) :
            LET s == targets[r][i] IN
            \/ phase[s] = "closed" \/ ~Linked(s)
            \/ HasFrame(sendCh[s], r) \/ HasFrame(wire[s], r)
            \/ applying[owner[s]] = r
            \/ HasFrame(up[s], r) \/ HasFrame(acks[s], r)

\* After a 204 to {"draining": true}, and with no other disturbance, the gateway
\* has left the publication quorum: no late heartbeat brings it back
\* (docs/runbook.md: "the node leaves route-publication quorum").
DrainedLeavesQuorum ==
    \A d \in DrainRequests :
        (answer[d] = "204" /\ drainTo[d] /\ faults = 0
            /\ \A e \in DrainRequests \ {d} : pc[e] = "idle") =>
        LET s == targets[d][1] IN draining[owner[s]] /\ s \notin ReadySessions

Publication == INSTANCE PublishedRoutes WITH
    published <- committed.version,
    serving <- [g \in Gateways |-> Ready(g)],
    version <- [g \in Gateways |-> active[g].version],
    highest <- served

\* The protocol implements the abstract promise.
ImplementsPublishedRoutes == Publication!Spec

\* The send loop waits for room in the channel of a session that has ended: nothing
\* empties it any more, and the loop looks at neither s.done nor a deadline.
SendBlocked(r) ==
    /\ pc[r] \in SendPCs
    /\ phase[Target(r)] = "closed"
    /\ Len(sendCh[Target(r)]) = SendCap

\* Every request that was started is answered and gives deployMu back: the deadline
\* covers a gateway that never acknowledges.  The one thing that keeps a request
\* pending is a send to the full channel of an ended session, its own or that of the
\* deployment it waits for (hub.go broadcastAndWait, first loop).
EveryRequestAnswered ==
    []<>(\A r \in Requests :
            \/ pc[r] \in {"idle", "done"}
            \/ SendBlocked(r)
            \/ pc[r] = "lock" /\ deployMu # None /\ SendBlocked(deployMu))

\* A gateway that stays connected and ready is taken into the publication quorum,
\* also after an undrain (hub.go SetDraining clears ready even then).
ReadyGatewayJoinsQuorum ==
    \A g \in Gateways :
        <>[](Ready(g) /\ link[g] # None /\ phase[link[g]] = "open")
        => <>[](link[g] # None /\ ready[link[g]])

-------------------------------------------------------------------------------
(* Claims of the documentation that the code does not keep *)

\* Nothing is under way: no request in its handler, no frame on any stream.
Settled ==
    /\ \A r \in Requests : pc[r] \in {"idle", "done"}
    /\ \A g \in Gateways : applying[g] = None
    /\ \A s \in Sessions : phase[s] # "registered" /\ sendCh[s] = <<>>
                           /\ wire[s] = <<>> /\ up[s] = <<>>

\* README.md: "every ready Gateway holds the same versioned deviceId -> SOCKS5
\* routing snapshot", when nothing is under way.
ReadyGatewaysAgree ==
    Settled => \A g, h \in Gateways : Ready(g) /\ Ready(h) => active[g] = active[h]

\* api/openapi/openapi.yaml: a 200 answers with the "Activated route": the row the
\* database has under that version is the request's.
SuccessIsCommitted ==
    \A r \in RouteRequests :
        answer[r] = "200" /\ committed.version = route[r].version => committed.cred = r

\* docs/architecture.md: "A failed PREPARE leaves the prior active route in use".
\* Without faults and draining a gateway that has served keeps serving.
FailedPrepareKeepsServing == \A g \in Gateways : served[g] > 0 => Ready(g)
===============================================================================
