------------------------- MODULE RoutePublicationSafety -------------------------
(***************************************************************************)
(* No gateway runs ahead of the database, none rolls back, and the         *)
(* protocol implements PublishedRoutes: for every value of the CONSTANTS.  *)
(***************************************************************************)
EXTENDS RoutePublicationProofs

\* What may still reach a gateway's table is committed.
CommittedFrames ==
    {f \in Frames : f.type \in {"SNAPSHOT", "ACTIVATE"} =>
                        f.route.version <= committed.version}

StoreInv == staged # NoRoute => staged.version = committed.version + 1

TablesInv ==
    \A g \in Gateways :
        /\ active[g].version <= committed.version
        /\ file[g] # None => file[g].version <= committed.version

QueuesInv ==
    /\ sendCh \in [Sessions -> Seq(CommittedFrames)]
    /\ wire \in [Sessions -> Seq(CommittedFrames)]

\* A request broadcasts ACTIVATE only once its version is committed.
CommitInv ==
    \A r \in Requests :
        pc[r] \in {"activateSend", "activateWait"} => route[r].version <= committed.version

VersionInv == TypeInv /\ StoreInv /\ TablesInv /\ QueuesInv /\ CommitInv

-------------------------------------------------------------------------------
(* The store: the version only grows, one by one. *)

LEMMA VersionsAreNatural ==
    ASSUME TypeInv
    PROVE  /\ committed.version \in Nat /\ staged.version \in Nat
           /\ \A g \in Gateways : /\ active[g].version \in Nat /\ pending[g].version \in Nat
                                  /\ served[g] \in Nat
                                  /\ file[g] # None => file[g].version \in Nat
           /\ \A r \in Requests : route[r].version \in Nat
           /\ \A f \in Frames : f.route.version \in Nat
<1>1. \A x \in Routes : x.version \in Nat
  BY DEF Routes
<1>2. committed.version \in Nat /\ staged.version \in Nat
  BY <1>1, TypeInvParts DEF StoreTypeOK
<1>3. \A g \in Gateways : /\ active[g].version \in Nat /\ pending[g].version \in Nat
                          /\ served[g] \in Nat
                          /\ file[g] # None => file[g].version \in Nat
  BY <1>1, TypeInvParts DEF GatewayTypeOK
<1>4. \A r \in Requests : route[r].version \in Nat
  BY <1>1, TypeInvParts, RequestTypes
<1>5. \A f \in Frames : f.route.version \in Nat
  BY <1>1, FrameParts
<1> QED
  BY <1>2, <1>3, <1>4, <1>5

LEMMA StoreSteps ==
    ASSUME [Next]_vars
    PROVE  \/ UNCHANGED storeVars
           \/ \E r \in RouteRequests, e \in Expected : Stage(r, e) /\ StageRoute(r, e)
           \/ \E r \in RouteRequests : Commit(r) /\ ActivateRoute(route[r].version)
<1>1. ASSUME NEW s \in Sessions, SessionStep(s) PROVE UNCHANGED storeVars
  BY <1>1 DEF SessionStep, SendSnapshot, ForwardFrame, HubReceive, CloseSession
<1>2. ASSUME NEW g \in Gateways, GatewayStep(g) PROVE UNCHANGED storeVars
  BY <1>2
  DEF GatewayStep, Connect, ClientDisconnect, OnSnapshot, OnPrepare, OnActivate, OnActivated,
      OnInterrupt, OnSetDraining, Heartbeat, LocalDrain, Canary, GatewayRestart, Handled
<1>3. ASSUME NEW r \in Requests, BroadcastStep(r) PROVE UNCHANGED storeVars
  BY <1>3 DEF BroadcastStep, SendFrame, TakeAck, GiveUpWaiting, CancelSending
<1>4. ASSUME NEW r \in RouteRequests, NEW e \in Expected, Stage(r, e)
      PROVE  UNCHANGED storeVars \/ StageRoute(r, e)
  BY <1>4 DEF Stage
<1>5. ASSUME NEW r \in RouteRequests, Commit(r)
      PROVE  UNCHANGED storeVars \/ ActivateRoute(route[r].version)
  BY <1>5 DEF Commit
<1>6. CASE Next
  BY <1>1, <1>2, <1>3, <1>4, <1>5, <1>6
  DEF Next, LockAndTarget, StartInterrupt, StartDrain, ControlPlaneRestart
<1>7. CASE UNCHANGED vars
  BY <1>7 DEF vars
<1> QED
  BY <1>6, <1>7

LEMMA StoreStep ==
    ASSUME TypeInv, StoreInv, [Next]_vars
    PROVE  /\ StoreInv'
           /\ committed'.version \in {committed.version, committed.version + 1}
<1>1. committed.version \in Nat
  BY VersionsAreNatural
<1>2. CASE UNCHANGED storeVars
  BY <1>2 DEF storeVars, StoreInv
<1>3. ASSUME NEW r \in RouteRequests, NEW e \in Expected, StageRoute(r, e)
      PROVE  StoreInv' /\ committed' = committed
  BY <1>3 DEF StageRoute, NewRoute, StoreInv
<1>4. ASSUME NEW v, ActivateRoute(v)
      PROVE  StoreInv' /\ committed'.version = committed.version + 1
  BY <1>4 DEF ActivateRoute, StoreInv
<1> QED
  BY <1>2, <1>3, <1>4, StoreSteps DEF storeVars

LEMMA CommittedGrows ==
    ASSUME TypeInv, StoreInv, [Next]_vars
    PROVE  /\ committed.version \in Nat /\ committed'.version \in Nat
           /\ committed.version <= committed'.version
           /\ CommittedFrames \subseteq CommittedFrames'
<1>1. /\ committed.version \in Nat /\ committed'.version \in Nat
      /\ committed.version <= committed'.version
  BY StoreStep, VersionsAreNatural
<1>2. CommittedFrames \subseteq CommittedFrames'
  BY <1>1, VersionsAreNatural DEF CommittedFrames
<1> QED
  BY <1>1, <1>2
-------------------------------------------------------------------------------
(* The queues towards the gateways. *)

\* A step of a gateway takes the first frame of its stream, or cuts the stream.
LEMMA GatewayWire ==
    ASSUME TypeInv, NEW g \in Gateways, GatewayStep(g)
    PROVE  /\ UNCHANGED sendCh
           /\ \/ UNCHANGED wire
              \/ link[g] \in Sessions /\ wire' = [wire EXCEPT ![link[g]] = <<>>]
              \/ /\ link[g] \in Sessions /\ wire[link[g]] # <<>>
                 /\ wire' = [wire EXCEPT ![link[g]] = Tail(@)]
<1>1. UNCHANGED sendCh
  BY DEF GatewayStep, Connect, ClientDisconnect, OnSnapshot, OnPrepare, OnActivate,
         OnActivated, OnInterrupt, OnSetDraining, Heartbeat, LocalDrain, Canary,
         GatewayRestart, Handled, sessionVars
<1>2. link[g] = None \/ link[g] \in Sessions
  BY TypeInvParts DEF SessionTypeOK
<1>3. CASE \/ Connect(g) \/ OnActivated(g) \/ Heartbeat(g) \/ LocalDrain(g) \/ Canary(g)
  BY <1>1, <1>3 DEF Connect, OnActivated, Heartbeat, LocalDrain, Canary, sessionVars
<1>4. CASE ClientDisconnect(g) \/ GatewayRestart(g)
  BY <1>1, <1>2, <1>4 DEF ClientDisconnect, GatewayRestart
<1>5. CASE \/ OnSnapshot(g) \/ OnPrepare(g) \/ OnActivate(g) \/ OnInterrupt(g)
           \/ OnSetDraining(g)
  <2>1. PICK type : Received(g, type)
    BY <1>5 DEF OnSnapshot, OnPrepare, OnActivate, OnInterrupt, OnSetDraining
  <2>2. wire' = [wire EXCEPT ![link[g]] = Tail(@)]
    BY <1>5 DEF OnSnapshot, OnPrepare, OnActivate, OnInterrupt, OnSetDraining, Handled
  <2> QED
    BY <1>1, <2>1, <2>2, ReceivedFrame
<1> QED
  BY <1>3, <1>4, <1>5 DEF GatewayStep

\* A step of a request appends its frame to a channel, or leaves the streams alone.
LEMMA BroadcastQueues ==
    ASSUME TypeInv, NEW r \in Requests, BroadcastStep(r)
    PROVE  /\ UNCHANGED wire
           /\ \/ UNCHANGED sendCh
              \/ /\ pc[r] \in SendPCs /\ Target(r) \in Sessions
                 /\ FrameOf(r) \in BroadcastFrames
                 /\ sendCh' = [sendCh EXCEPT ![Target(r)] = Append(@, FrameOf(r))]
<1>1. CASE SendFrame(r)
  <2>1. FrameOf(r) \in BroadcastFrames
    BY <1>1, TypeInvParts
    DEF SendFrame, FrameOf, BroadcastFrames, FramesOf, RequestInv, RequestTypeOK,
        RoutePCs, OtherPCs, SendPCs, Requests
  <2> QED
    BY <1>1, <2>1, TargetType DEF SendFrame
<1>2. CASE TakeAck(r) \/ GiveUpWaiting(r) \/ CancelSending(r)
  BY <1>2 DEF TakeAck, GiveUpWaiting, CancelSending
<1> QED
  BY <1>1, <1>2 DEF BroadcastStep

LEMMA OtherStepsKeepQueues ==
    ASSUME \/ \E r \in RouteRequests :
                 (\E e \in Expected : Stage(r, e)) \/ LockAndTarget(r) \/ Commit(r)
           \/ \E r \in InterruptRequests : StartInterrupt(r)
           \/ \E r \in DrainRequests, g \in Gateways, v \in BOOLEAN : StartDrain(r, g, v)
           \/ UNCHANGED vars
    PROVE  UNCHANGED <<gatewayVars, sessionVars>>
  BY DEF Stage, LockAndTarget, Commit, StartInterrupt, StartDrain, vars

LEMMA QueuesStep ==
    ASSUME VersionInv, [Next]_vars
    PROVE  QueuesInv'
<1> DEFINE Good(q) == q \in [Sessions -> Seq(CommittedFrames)]
<1>0. Good(sendCh) /\ Good(wire)
  BY DEF VersionInv, QueuesInv
<1>1. ASSUME NEW s \in Sessions, SessionStep(s) PROVE Good(sendCh') /\ Good(wire')
  <2>1. CASE SendSnapshot(s)
    <3> DEFINE f == [type |-> "SNAPSHOT", req |-> None, route |-> ListActiveRoutes,
                     draining |-> FALSE]
    <3>1. f \in CommittedFrames
      BY TypeInvParts, VersionsAreNatural
      DEF VersionInv, StoreTypeOK, ListActiveRoutes, CommittedFrames, Frames, SnapshotFrames,
          FramesOf
    <3> HIDE DEF f
    <3>2. OnWire(s, f) /\ UNCHANGED sendCh
      BY <2>1 DEF SendSnapshot, f
    <3> QED
      BY <1>0, <3>1, <3>2, AppendAt DEF OnWire
  <2>2. CASE ForwardFrame(s)
    <3>1. Good(sendCh') /\ Head(sendCh[s]) \in CommittedFrames
      BY <1>0, <2>2, TailAt DEF ForwardFrame
    <3> QED
      BY <1>0, <2>2, <3>1, AppendAt DEF ForwardFrame, OnWire
  <2>3. CASE HubReceive(s) \/ CloseSession(s)
    BY <1>0, <2>3 DEF HubReceive, CloseSession
  <2> QED
    BY <1>1, <2>1, <2>2, <2>3 DEF SessionStep
<1>2. ASSUME NEW g \in Gateways, GatewayStep(g) PROVE Good(sendCh') /\ Good(wire')
  <2>1. Good(sendCh')
    BY <1>0, <1>2, GatewayWire DEF VersionInv
  <2>2. CASE UNCHANGED wire
    BY <1>0, <2>1, <2>2
  <2>3. CASE link[g] \in Sessions /\ wire' = [wire EXCEPT ![link[g]] = <<>>]
    BY <1>0, <2>1, <2>3
  <2>4. CASE /\ link[g] \in Sessions /\ wire[link[g]] # <<>>
             /\ wire' = [wire EXCEPT ![link[g]] = Tail(@)]
    BY <1>0, <2>1, <2>4, TailAt
  <2> QED
    BY <1>2, <2>2, <2>3, <2>4, GatewayWire DEF VersionInv
<1>3. ASSUME NEW r \in Requests, BroadcastStep(r) PROVE Good(sendCh') /\ Good(wire')
  <2>1. CASE UNCHANGED sendCh
    BY <1>0, <1>3, <2>1, BroadcastQueues DEF VersionInv
  <2>2. CASE /\ pc[r] \in SendPCs /\ Target(r) \in Sessions
             /\ FrameOf(r) \in BroadcastFrames
             /\ sendCh' = [sendCh EXCEPT ![Target(r)] = Append(@, FrameOf(r))]
    <3>1. FrameOf(r).type = "ACTIVATE" => pc[r] = "activateSend"
      BY DEF FrameOf
    <3>2. FrameOf(r).route = route[r] /\ FrameOf(r).type # "SNAPSHOT"
      BY DEF FrameOf
    <3>3. FrameOf(r) \in CommittedFrames
      BY <2>2, <3>1, <3>2, BroadcastFramesAreFrames DEF VersionInv, CommitInv, CommittedFrames
    <3> QED
      BY <1>0, <1>3, <2>2, <3>3, AppendAt, BroadcastQueues DEF VersionInv
  <2> QED
    BY <1>3, <2>1, <2>2, BroadcastQueues DEF VersionInv
<1>4. ASSUME ControlPlaneRestart PROVE Good(sendCh') /\ Good(wire')
  BY <1>0, <1>4 DEF ControlPlaneRestart
<1>5. ASSUME UNCHANGED sessionVars PROVE Good(sendCh') /\ Good(wire')
  BY <1>0, <1>5 DEF sessionVars
<1>6. Good(sendCh') /\ Good(wire')
  BY <1>1, <1>2, <1>3, <1>4, <1>5, OtherStepsKeepQueues DEF Next
<1>7. CommittedFrames \subseteq CommittedFrames'
  BY CommittedGrows DEF VersionInv
<1> QED
  BY <1>6, <1>7, WiderSequences DEF QueuesInv
-------------------------------------------------------------------------------
(* The tables and the requests. *)

\* What a step of a gateway makes of its table and its file.
LEMMA TableSteps ==
    ASSUME TypeInv, NEW g \in Gateways, GatewayStep(g)
    PROVE  \/ UNCHANGED <<active, file>>
           \/ /\ Received(g, "SNAPSHOT")
              /\ active' = [active EXCEPT ![g] = Frame(g).route]
              /\ file' = [file EXCEPT ![g] = Frame(g).route]
           \/ /\ Received(g, "ACTIVATE")
              /\ pending[g] # NoRoute /\ pending[g].version = Frame(g).route.version
              /\ active' = [active EXCEPT ![g] = pending[g]]
              /\ UNCHANGED file
           \/ /\ UNCHANGED active
              /\ file' = [file EXCEPT ![g] = active[g]]
           \/ /\ active' = [active EXCEPT ![g] = IF file[g] = None THEN NoRoute ELSE file[g]]
              /\ UNCHANGED file
<1>1. CASE \/ Connect(g) \/ ClientDisconnect(g) \/ OnInterrupt(g) \/ Heartbeat(g)
  BY <1>1 DEF Connect, ClientDisconnect, OnInterrupt, Heartbeat, gatewayVars
<1>2. CASE OnPrepare(g) \/ OnSetDraining(g) \/ LocalDrain(g) \/ Canary(g)
  BY <1>2 DEF OnPrepare, ListenerNotPrepared, HandlePrepare, PrepareRefused, SetUnsynced,
              OnSetDraining, LocalDrain, SetDraining, Canary, SetCanary, gatewayVars
<1>3. CASE OnSnapshot(g)
  BY <1>3 DEF OnSnapshot, HandleSnapshot, SnapshotNotReconciled, LoadTable, SetUnsynced
<1>4. CASE OnActivate(g)
  BY <1>4 DEF OnActivate, StartActivate, WasPrepared, gatewayVars
<1>5. CASE OnActivated(g)
  BY <1>5 DEF OnActivated, FinishActivate, ActivateNotSaved
<1>6. CASE GatewayRestart(g)
  BY <1>6 DEF GatewayRestart, Restart, LoadSnapshot
<1> QED
  BY <1>1, <1>2, <1>3, <1>4, <1>5, <1>6 DEF GatewayStep

\* The frame at the head of a gateway's stream carries a committed version.
LEMMA HeadIsCommitted ==
    ASSUME TypeInv, QueuesInv, NEW g \in Gateways, NEW type \in {"SNAPSHOT", "ACTIVATE"},
           Received(g, type)
    PROVE  Frame(g).route.version <= committed.version
<1>1. link[g] \in Sessions /\ wire[link[g]] # <<>> /\ Frame(g).type = type
  BY ReceivedFrame
<1>2. wire[link[g]] \in Seq(CommittedFrames)
  BY <1>1 DEF QueuesInv
<1>3. Frame(g) \in CommittedFrames
  BY <1>1, <1>2 DEF Frame
<1> QED
  BY <1>1, <1>3 DEF CommittedFrames

LEMMA TablesStep ==
    ASSUME VersionInv, [Next]_vars
    PROVE  TablesInv'
<1> USE DEF VersionInv
<1>0. /\ GatewayTypeOK /\ TablesInv /\ NoRoute.version = 0
      /\ committed.version \in Nat /\ committed'.version \in Nat
      /\ committed.version <= committed'.version
  BY TypeInvParts, CommittedGrows DEF NoRoute
<1>1. ASSUME UNCHANGED <<active, file>> PROVE TablesInv'
  BY <1>0, <1>1, VersionsAreNatural DEF TablesInv
<1>2. ASSUME NEW g \in Gateways, GatewayStep(g) PROVE TablesInv'
  <2>1. \A h \in Gateways \ {g} : active'[h] = active[h] /\ file'[h] = file[h]
    BY <1>0, <1>2, TableSteps DEF GatewayTypeOK
  <2>2. /\ active'[g].version <= committed.version
        /\ file'[g] # None => file'[g].version <= committed.version
    BY <1>0, <1>2, TableSteps, HeadIsCommitted DEF TablesInv, GatewayTypeOK
  <2>3. active'[g].version \in Nat /\ (file'[g] # None => file'[g].version \in Nat)
    BY <1>2, GatewayStepType, TypeInvParts DEF GatewayTypeOK, Routes, TypeInv, TypeOK
  <2> QED
    BY <1>0, <2>1, <2>2, <2>3, VersionsAreNatural DEF TablesInv
<1>3. ASSUME NEW s \in Sessions, SessionStep(s) PROVE UNCHANGED <<active, file>>
  BY <1>3 DEF SessionStep, SendSnapshot, ForwardFrame, HubReceive, CloseSession, gatewayVars
<1>4. ASSUME NEW r \in Requests, BroadcastStep(r) PROVE UNCHANGED <<active, file>>
  BY <1>4 DEF BroadcastStep, SendFrame, TakeAck, GiveUpWaiting, CancelSending, gatewayVars
<1>5. ASSUME ControlPlaneRestart PROVE UNCHANGED <<active, file>>
  BY <1>5 DEF ControlPlaneRestart, gatewayVars
<1> QED
  BY <1>1, <1>2, <1>3, <1>4, <1>5, OtherStepsKeepQueues DEF Next, gatewayVars

\* A request comes to broadcast ACTIVATE only through its commit.
LEMMA CommitStep ==
    ASSUME VersionInv, [Next]_vars
    PROVE  CommitInv'
<1> DEFINE P(r) == pc[r] \in {"activateSend", "activateWait"}
<1> USE DEF VersionInv
<1>0. /\ RequestInv /\ CommitInv /\ committed.version \in Nat /\ committed'.version \in Nat
      /\ committed.version <= committed'.version
      /\ \A r \in Requests : route[r].version \in Nat
  BY TypeInvParts, CommittedGrows, VersionsAreNatural
<1>a. ASSUME \A x \in Requests : P(x)' => P(x) /\ route'[x] = route[x] PROVE CommitInv'
  BY <1>0, <1>a DEF CommitInv
<1>1. ASSUME UNCHANGED requestVars PROVE CommitInv'
  BY <1>0, <1>1 DEF CommitInv, requestVars
<1>2. ASSUME NEW r \in Requests, BroadcastStep(r)
      PROVE  \A x \in Requests : P(x)' => P(x) /\ route'[x] = route[x]
  <2>1. \A x \in Requests \ {r} : pc'[x] = pc[x] /\ route'[x] = route[x]
    BY <1>0, <1>2, RequestTypes
    DEF BroadcastStep, SendFrame, AfterSend, SentAll, TakeAck, GiveUpWaiting, CancelSending,
        Fail, Answer, BroadcastDone
  <2>2. P(r)' => P(r) /\ route'[r] = route[r]
    BY <1>0, <1>2, RequestTypes
    DEF BroadcastStep, SendFrame, AfterSend, SentAll, TakeAck, GiveUpWaiting, CancelSending,
        Fail, Answer, BroadcastDone, SendPCs, WaitPCs
  <2> QED
    BY <2>1, <2>2
<1>3. ASSUME NEW r \in RouteRequests, Commit(r) PROVE CommitInv'
  <2>1. r \in Requests
    BY DEF Requests
  <2>2. \A x \in Requests \ {r} : pc'[x] = pc[x] /\ route'[x] = route[x]
    BY <1>0, <1>3, RequestTypes DEF Commit, Fail, Answer
  <2>3. P(r)' => route'[r].version <= committed'.version
    <3>1. CASE ActivateRoute(route[r].version) /\ UNCHANGED route
      BY <1>0, <2>1, <3>1 DEF ActivateRoute
    <3>2. CASE Fail(r)
      BY <1>0, <2>1, <3>2, RequestTypes DEF Fail, Answer
    <3> QED
      BY <1>3, <3>1, <3>2 DEF Commit
  <2> QED
    BY <1>0, <2>2, <2>3 DEF CommitInv
<1>4. ASSUME \/ \E r \in RouteRequests :
                   (\E e \in Expected : Stage(r, e)) \/ LockAndTarget(r)
             \/ \E r \in InterruptRequests : StartInterrupt(r)
             \/ \E r \in DrainRequests, g \in Gateways, v \in BOOLEAN : StartDrain(r, g, v)
      PROVE  \A x \in Requests : P(x)' => P(x) /\ route'[x] = route[x]
  <2>1. PICK r \in Requests :
            (\E e \in Expected : Stage(r, e)) \/ LockAndTarget(r) \/ StartInterrupt(r)
            \/ \E g \in Gateways, v \in BOOLEAN : StartDrain(r, g, v)
    BY <1>4 DEF Requests
  <2>2. \A x \in Requests \ {r} : pc'[x] = pc[x] /\ route'[x] = route[x]
    BY <1>0, <2>1, RequestTypes
    DEF Stage, LockAndTarget, StartInterrupt, StartDrain, Fail, Answer
  <2>3. pc'[r] \in {"lock", "done", "prepareSend", "send"}
    BY <1>0, <2>1, RequestTypes
    DEF Stage, LockAndTarget, StartInterrupt, StartDrain, Fail, Answer
  <2> QED
    BY <2>2, <2>3
<1>5. ASSUME ControlPlaneRestart
      PROVE  \A x \in Requests : P(x)' => P(x) /\ route'[x] = route[x]
  BY <1>5 DEF ControlPlaneRestart
<1>6. ASSUME NEW s \in Sessions, SessionStep(s) PROVE UNCHANGED requestVars
  BY <1>6 DEF SessionStep, SendSnapshot, ForwardFrame, HubReceive, CloseSession
<1>7. ASSUME NEW g \in Gateways, GatewayStep(g) PROVE UNCHANGED requestVars
  BY <1>7
  DEF GatewayStep, Connect, ClientDisconnect, OnSnapshot, OnPrepare, OnActivate, OnActivated,
      OnInterrupt, OnSetDraining, Heartbeat, LocalDrain, Canary, GatewayRestart, Handled
<1>8. CASE UNCHANGED vars
  BY <1>1, <1>8 DEF vars
<1> HIDE DEF P, VersionInv
<1> QED
  BY <1>a, <1>1, <1>2, <1>3, <1>4, <1>5, <1>6, <1>7, <1>8 DEF Next

LEMMA VersionInit == Init => VersionInv
<1> SUFFICES ASSUME Init PROVE VersionInv
  OBVIOUS
<1>1. StoreInv /\ TablesInv /\ QueuesInv
  BY StoreAssumption
  DEF Init, StoreInit, GatewayInit, StoreInv, TablesInv, QueuesInv, NoRoute
<1>2. CommitInv
  BY DEF Init, CommitInv
<1> QED
  BY <1>1, <1>2, TypeInit DEF VersionInv

LEMMA VersionStep == VersionInv /\ [Next]_vars => VersionInv'
<1> SUFFICES ASSUME VersionInv, [Next]_vars PROVE VersionInv'
  OBVIOUS
<1>1. TypeInv' /\ StoreInv'
  BY TypeStep, StoreStep DEF VersionInv
<1> QED
  BY <1>1, TablesStep, QueuesStep, CommitStep DEF VersionInv

\* No gateway uses, or keeps in its snapshot file, a version that the database has
\* not committed: hub.go commits between the PREPARE and the ACTIVATE broadcast, and
\* whatever can still reach a table when a broadcast is given up, a stream breaks or
\* either process restarts was committed before it was sent.
THEOREM NothingAheadOfTheDatabase == Spec => []NeverAhead
<1>1. VersionInv => NeverAhead
  BY DEF VersionInv, TablesInv, NeverAhead
<1> QED
  BY <1>1, VersionInit, VersionStep, PTL DEF Spec
===============================================================================
