----------------------- MODULE RoutePublicationRefinement -----------------------
(***************************************************************************)
(* A gateway never rolls back, and the protocol implements PublishedRoutes: *)
(* for every value of the CONSTANTS.                                       *)
(***************************************************************************)
EXTENDS RoutePublicationSafety

\* A client's session is its own.
LinkInv ==
    \A g \in Gateways : link[g] # None => link[g] <= opened /\ owner[link[g]] = g

\* Nothing is on the stream of a session before its SNAPSHOT.
FreshInv ==
    \A s \in Sessions :
        /\ s > opened => phase[s] = "closed"
        /\ (s > opened \/ phase[s] = "registered") => wire[s] = <<>>

NoSnapshotBehind(q) == \A i \in 2 .. Len(q) : q[i].type # "SNAPSHOT"

\* A SNAPSHOT is the first frame of its session.
FirstInv == \A s \in Sessions : NoSnapshotBehind(wire[s])

StreamInv == LinkInv /\ FreshInv /\ FirstInv

SnapshotWaits(g) ==
    link[g] # None /\ wire[link[g]] # <<>> /\ Frame(g).type = "SNAPSHOT"

\* A prepared route is newer than the active one; a synchronised gateway is at least
\* where it has served, and so is the SNAPSHOT that waits for it.
ServedAt(g) ==
    /\ pending[g] # NoRoute => pending[g].version > active[g].version
    /\ synced[g] => active[g].version >= served[g]
    /\ served[g] <= committed.version
    /\ SnapshotWaits(g) => /\ Frame(g).route.version >= active[g].version
                           /\ Frame(g).route.version >= served[g]

ServedInv == \A g \in Gateways : ServedAt(g)

IInv == VersionInv /\ StreamInv /\ ServedInv

-------------------------------------------------------------------------------
(* Streams *)

LEMMA BehindAppend ==
    ASSUME NEW q \in Seq(Frames), NEW f \in Frames, NoSnapshotBehind(q),
           f.type # "SNAPSHOT" \/ q = <<>>
    PROVE  /\ NoSnapshotBehind(Append(q, f))
           /\ Append(q, f) # <<>>
           /\ q = <<>> => Head(Append(q, f)) = f
           /\ q # <<>> => Head(Append(q, f)) = Head(q)
<1>1. NoSnapshotBehind(Append(q, f))
  <2> SUFFICES ASSUME NEW i \in 2 .. Len(Append(q, f))
               PROVE  Append(q, f)[i].type # "SNAPSHOT"
    BY DEF NoSnapshotBehind
  <2>1. CASE i \in 2 .. Len(q)
    BY <2>1 DEF NoSnapshotBehind
  <2>2. CASE i = Len(q) + 1
    BY <2>2
  <2> QED
    BY <2>1, <2>2
<1>2. Append(q, f) # <<>>
  OBVIOUS
<1>3. q = <<>> => Head(Append(q, f)) = f
  OBVIOUS
<1>4. q # <<>> => Head(Append(q, f)) = Head(q)
  OBVIOUS
<1> QED
  BY <1>1, <1>2, <1>3, <1>4

LEMMA BehindTail ==
    ASSUME NEW q \in Seq(Frames), q # <<>>, NoSnapshotBehind(q)
    PROVE  /\ NoSnapshotBehind(Tail(q))
           /\ Tail(q) # <<>> => Head(Tail(q)).type # "SNAPSHOT"
  BY DEF NoSnapshotBehind

\* What a step of a session does to the stream: a SNAPSHOT of the database first,
\* then frames of broadcasts, and only while the client is there.
LEMMA SessionWire ==
    ASSUME TypeInv, NEW s \in Sessions, SessionStep(s)
    PROVE  \/ UNCHANGED wire
           \/ \E f \in Frames :
                 /\ wire' = [wire EXCEPT ![s] = Append(@, f)]
                 /\ \/ phase[s] = "registered" /\ f.route = committed /\ phase'[s] = "open"
                    \/ phase[s] = "open" /\ f.type # "SNAPSHOT" /\ phase'[s] = "open"
<1>0. phase \in [Sessions -> {"registered", "open", "closed"}]
  BY TypeInvParts DEF SessionTypeOK
<1>1. CASE SendSnapshot(s)
  <2> DEFINE f == [type |-> "SNAPSHOT", req |-> None, route |-> ListActiveRoutes,
                   draining |-> FALSE]
  <2>1. f \in Frames /\ f.route = committed
    BY TypeInvParts DEF StoreTypeOK, ListActiveRoutes, Frames, SnapshotFrames, FramesOf
  <2> HIDE DEF f
  <2>2. OnWire(s, f) /\ phase[s] = "registered" /\ phase'[s] = "open"
    BY <1>0, <1>1 DEF SendSnapshot, f
  <2> QED
    BY <2>1, <2>2 DEF OnWire
<1>2. CASE ForwardFrame(s)
  <2>1. Head(sendCh[s]) \in BroadcastFrames
    BY <1>2, TypeInvParts, TailAt DEF ForwardFrame, SessionTypeOK
  <2>2. Head(sendCh[s]) \in Frames /\ Head(sendCh[s]).type # "SNAPSHOT"
    BY <2>1 DEF Frames, BroadcastFrames, FramesOf
  <2> QED
    BY <1>2, <2>2 DEF ForwardFrame, OnWire
<1>3. CASE HubReceive(s) \/ CloseSession(s)
  BY <1>3 DEF HubReceive, CloseSession
<1> QED
  BY <1>1, <1>2, <1>3 DEF SessionStep

LEMMA SessionStepLocal ==
    ASSUME TypeInv, NEW s \in Sessions, SessionStep(s)
    PROVE  /\ UNCHANGED <<gatewayVars, opened, owner, link>>
           /\ \A t \in Sessions \ {s} : phase'[t] = phase[t]
           /\ phase'[s] # "registered" \/ phase'[s] = phase[s]
           /\ phase[s] = "closed" => phase'[s] = "closed"
  BY TypeInvParts
  DEF SessionStep, SendSnapshot, ForwardFrame, HubReceive, CloseSession, SessionTypeOK

LEMMA GatewayStepStream ==
    ASSUME TypeInv, NEW g \in Gateways, GatewayStep(g)
    PROVE  \/ Connect(g)
           \/ UNCHANGED <<opened, owner, phase>> /\ UNCHANGED link
           \/ UNCHANGED <<opened, owner, phase>> /\ link' = [link EXCEPT ![g] = None]
<1>1. CASE Connect(g)
  BY <1>1
<1>2. CASE ClientDisconnect(g) \/ GatewayRestart(g)
  BY <1>2 DEF ClientDisconnect, GatewayRestart
<1>3. CASE \/ OnSnapshot(g) \/ OnPrepare(g) \/ OnActivate(g) \/ OnInterrupt(g)
           \/ OnSetDraining(g)
  BY <1>3 DEF OnSnapshot, OnPrepare, OnActivate, OnInterrupt, OnSetDraining, Handled
<1>4. CASE OnActivated(g) \/ Heartbeat(g) \/ LocalDrain(g) \/ Canary(g)
  BY <1>4 DEF OnActivated, Heartbeat, LocalDrain, Canary, sessionVars
<1> QED
  BY <1>1, <1>2, <1>3, <1>4 DEF GatewayStep

\* The steps that are neither a session's nor a gateway's.
LEMMA RemoteSteps ==
    ASSUME [Next]_vars, TypeInv
    PROVE  \/ \E s \in Sessions : SessionStep(s)
           \/ \E g \in Gateways : GatewayStep(g)
           \/ /\ UNCHANGED <<gatewayVars, opened, owner, wire, link>>
              /\ UNCHANGED phase \/ phase' = [s \in Sessions |-> "closed"]
<1>1. ASSUME NEW r \in Requests, BroadcastStep(r)
      PROVE  UNCHANGED <<gatewayVars, opened, owner, wire, link, phase>>
  BY <1>1 DEF BroadcastStep, SendFrame, TakeAck, GiveUpWaiting, CancelSending
<1>2. ASSUME ControlPlaneRestart
      PROVE  /\ UNCHANGED <<gatewayVars, opened, owner, wire, link>>
             /\ phase' = [s \in Sessions |-> "closed"]
  BY <1>2 DEF ControlPlaneRestart
<1> QED
  BY <1>1, <1>2, OtherStepsKeepQueues DEF Next, sessionVars

LEMMA StreamStep ==
    ASSUME TypeInv, StreamInv, [Next]_vars
    PROVE  StreamInv'
<1>0. SessionTypeOK
  BY TypeInvParts
<1>1. ASSUME NEW s \in Sessions, SessionStep(s) PROVE StreamInv'
  <2>1. /\ UNCHANGED <<gatewayVars, opened, owner, link>>
        /\ \A t \in Sessions \ {s} : phase'[t] = phase[t]
        /\ phase'[s] # "registered" \/ phase'[s] = phase[s]
        /\ phase[s] = "closed" => phase'[s] = "closed"
    BY <1>1, SessionStepLocal
  <2>2. LinkInv'
    BY <2>1 DEF StreamInv, LinkInv
  <2>3. CASE UNCHANGED wire
    BY <2>1, <2>2, <2>3 DEF StreamInv, FreshInv, FirstInv, NoSnapshotBehind
  <2>4. ASSUME NEW f \in Frames, wire' = [wire EXCEPT ![s] = Append(@, f)],
               \/ phase[s] = "registered" /\ f.route = committed /\ phase'[s] = "open"
               \/ phase[s] = "open" /\ f.type # "SNAPSHOT" /\ phase'[s] = "open"
        PROVE  StreamInv'
    <3>1. wire \in [Sessions -> Seq(Frames)]
      BY <1>0 DEF SessionTypeOK
    <3>2. ~(s > opened) /\ phase'[s] = "open"
      BY <2>4 DEF StreamInv, FreshInv
    <3>3. /\ wire'[s] = Append(wire[s], f)
          /\ \A t \in Sessions \ {s} : wire'[t] = wire[t]
      BY <2>4, <3>1
    <3>4. FreshInv'
      BY <2>1, <3>2, <3>3 DEF StreamInv, FreshInv
    <3>5. NoSnapshotBehind(wire'[s])
      BY <2>4, <3>1, <3>3, BehindAppend DEF StreamInv, FreshInv, FirstInv
    <3>6. FirstInv'
      BY <3>3, <3>5 DEF StreamInv, FirstInv, NoSnapshotBehind
    <3> QED
      BY <2>2, <3>4, <3>6 DEF StreamInv
  <2> QED
    BY <1>1, <2>3, <2>4, SessionWire
<1>2. ASSUME NEW g \in Gateways, GatewayStep(g) PROVE StreamInv'
  <2>0. wire \in [Sessions -> Seq(Frames)]
    BY <1>0 DEF SessionTypeOK
  <2>1. \A t \in Sessions : /\ wire[t] = <<>> => wire'[t] = <<>>
                            /\ NoSnapshotBehind(wire'[t])
    <3>1. CASE UNCHANGED wire
      BY <3>1 DEF StreamInv, FirstInv
    <3>2. CASE link[g] \in Sessions /\ wire' = [wire EXCEPT ![link[g]] = <<>>]
      BY <2>0, <3>2 DEF StreamInv, FirstInv, NoSnapshotBehind
    <3>3. CASE /\ link[g] \in Sessions /\ wire[link[g]] # <<>>
               /\ wire' = [wire EXCEPT ![link[g]] = Tail(@)]
      <4>1. NoSnapshotBehind(Tail(wire[link[g]]))
        BY <2>0, <3>3, BehindTail DEF StreamInv, FirstInv
      <4> QED
        BY <2>0, <3>3, <4>1 DEF StreamInv, FirstInv
    <3> QED
      BY <1>2, <3>1, <3>2, <3>3, GatewayWire
  <2>2. FirstInv'
    BY <2>1 DEF FirstInv, NoSnapshotBehind
  <2>3. CASE Connect(g)
    <3>1. /\ opened' = opened + 1 /\ opened \in Nat /\ opened' \in Sessions
          /\ link' = [link EXCEPT ![g] = opened']
          /\ owner' = [owner EXCEPT ![opened'] = g]
          /\ phase' = [phase EXCEPT ![opened'] = "registered"] /\ wire' = wire
      BY <1>0, <2>3, BoundsAssumption DEF Connect, SessionTypeOK, Sessions
    <3>2. FreshInv'
      BY <1>0, <3>1 DEF StreamInv, FreshInv, SessionTypeOK, Sessions
    <3>3. LinkInv'
      <4> SUFFICES ASSUME NEW h \in Gateways, link'[h] # None
                   PROVE  link'[h] <= opened' /\ owner'[link'[h]] = h
        BY DEF LinkInv
      <4>1. CASE h = g
        BY <1>0, <3>1, <4>1 DEF SessionTypeOK, Sessions
      <4>2. CASE h # g
        <5>1. link'[h] = link[h] /\ link[h] \in Sessions /\ link[h] <= opened
          BY <1>0, <3>1, <4>2 DEF StreamInv, LinkInv, SessionTypeOK
        <5>2. link[h] # opened'
          BY <3>1, <5>1 DEF Sessions
        <5> QED
          BY <1>0, <3>1, <5>1, <5>2 DEF StreamInv, LinkInv, SessionTypeOK, Sessions
      <4> QED
        BY <4>1, <4>2
    <3> QED
      BY <2>2, <3>2, <3>3 DEF StreamInv
  <2>4. CASE /\ UNCHANGED <<opened, owner, phase>>
             /\ UNCHANGED link \/ link' = [link EXCEPT ![g] = None]
    <3>1. FreshInv'
      BY <2>1, <2>4 DEF StreamInv, FreshInv
    <3>2. LinkInv'
      BY <1>0, <2>4 DEF StreamInv, LinkInv, SessionTypeOK
    <3> QED
      BY <2>2, <3>1, <3>2 DEF StreamInv
  <2> QED
    BY <1>2, <2>3, <2>4, GatewayStepStream
<1>3. ASSUME UNCHANGED <<gatewayVars, opened, owner, wire, link>>,
             UNCHANGED phase \/ phase' = [s \in Sessions |-> "closed"]
      PROVE  StreamInv'
  BY <1>3 DEF StreamInv, LinkInv, FreshInv, FirstInv, NoSnapshotBehind
<1> QED
  BY <1>1, <1>2, <1>3, RemoteSteps
-------------------------------------------------------------------------------
(* Gateways *)

\* A gateway's step changes that gateway alone.
LEMMA GatewayStepLocal ==
    ASSUME TypeInv, NEW g \in Gateways, GatewayStep(g), NEW h \in Gateways \ {g}
    PROVE  /\ active'[h] = active[h] /\ pending'[h] = pending[h] /\ loaded'[h] = loaded[h]
           /\ synced'[h] = synced[h] /\ draining'[h] = draining[h] /\ canary'[h] = canary[h]
           /\ served'[h] = served[h] /\ link'[h] = link[h]
           /\ file'[h] = file[h] /\ applying'[h] = applying[h]
<1>0. GatewayTypeOK /\ SessionTypeOK
  BY TypeInvParts
<1>1. link'[h] = link[h]
  BY <1>0, GatewayStepStream DEF Connect, SessionTypeOK
<1>2. CASE Connect(g) \/ ClientDisconnect(g) \/ OnInterrupt(g) \/ Heartbeat(g)
  BY <1>1, <1>2 DEF Connect, ClientDisconnect, OnInterrupt, Heartbeat, gatewayVars
<1>3. CASE OnPrepare(g)
  BY <1>0, <1>1, <1>3
  DEF OnPrepare, ListenerNotPrepared, HandlePrepare, PrepareRefused, SetUnsynced,
      GatewayTypeOK, gatewayVars
<1>4. CASE OnSetDraining(g) \/ LocalDrain(g)
  BY <1>0, <1>1, <1>4
  DEF OnSetDraining, LocalDrain, SetDraining, RecordServed, GatewayTypeOK
<1>5. CASE Canary(g)
  BY <1>0, <1>1, <1>5 DEF Canary, SetCanary, RecordServed, GatewayTypeOK
<1>6. CASE OnSnapshot(g)
  BY <1>0, <1>1, <1>6
  DEF OnSnapshot, HandleSnapshot, SnapshotNotReconciled, LoadTable, SetUnsynced, RecordServed,
      GatewayTypeOK
<1>7. CASE OnActivate(g)
  BY <1>0, <1>1, <1>7
  DEF OnActivate, StartActivate, RecordServed, GatewayTypeOK, gatewayVars
<1>8. CASE OnActivated(g)
  BY <1>0, <1>1, <1>8 DEF OnActivated, FinishActivate, ActivateNotSaved, GatewayTypeOK
<1>9. CASE GatewayRestart(g)
  BY <1>0, <1>1, <1>9 DEF GatewayRestart, Restart, LoadSnapshot, StartFlags, GatewayTypeOK
<1> QED
  BY <1>2, <1>3, <1>4, <1>5, <1>6, <1>7, <1>8, <1>9 DEF GatewayStep

SameService(g) ==
    /\ active'[g] = active[g] /\ loaded'[g] = loaded[g] /\ synced'[g] = synced[g]
    /\ draining'[g] = draining[g] /\ canary'[g] = canary[g] /\ served'[g] = served[g]

\* The ways a step of g may change what it serves.  From top to bottom: nothing, or
\* only a newer route prepared; out of service; a flag; an ACTIVATE; a SNAPSHOT; a
\* SNAPSHOT that is not reconciled.
ServiceStep(g) ==
    \/ /\ SameService(g)
       /\ pending'[g] = pending[g] \/ pending'[g].version > active[g].version
    \/ /\ ~synced'[g] /\ served'[g] = served[g]
       /\ \/ active'[g] = active[g] /\ pending'[g] = pending[g]
          \/ active'[g].version <= committed.version /\ pending'[g] = NoRoute
    \/ /\ active'[g] = active[g] /\ pending'[g] = pending[g] /\ synced'[g] = synced[g]
       /\ RecordServed(g)
    \/ /\ Received(g, "ACTIVATE") /\ WasPrepared(g, Frame(g).route)
       /\ active'[g] = pending[g] /\ pending'[g] = NoRoute /\ synced'[g] = synced[g]
       /\ RecordServed(g)
    \/ /\ Received(g, "SNAPSHOT")
       /\ active'[g] = Frame(g).route /\ pending'[g] = NoRoute
       /\ RecordServed(g)
    \/ /\ Received(g, "SNAPSHOT") /\ ~synced'[g]
       /\ active'[g] = Frame(g).route /\ pending'[g] = NoRoute
       /\ \/ served'[g] = served[g]
          \/ served'[g] = active'[g].version /\ active'[g].version > served[g]

\* ... and the frame at the head of its stream afterwards.
HeadStep(g) ==
    \/ /\ link'[g] = link[g] /\ link[g] \in Sessions /\ UNCHANGED wire
       /\ active'[g] = active[g]
    \/ link'[g] # None /\ link'[g] \in Sessions /\ wire'[link'[g]] = <<>>
    \/ link'[g] = None
    \/ /\ link'[g] = link[g] /\ link[g] \in Sessions /\ wire[link[g]] # <<>>
       /\ wire' = [wire EXCEPT ![link[g]] = Tail(@)]

LEMMA ServiceSteps ==
    ASSUME VersionInv, NEW g \in Gateways, GatewayStep(g)
    PROVE  ServiceStep(g)
<1>0. TypeInv /\ GatewayTypeOK /\ TablesInv /\ QueuesInv
  BY TypeInvParts DEF VersionInv
<1>1. CASE Connect(g) \/ ClientDisconnect(g) \/ OnInterrupt(g) \/ Heartbeat(g)
  BY <1>1
  DEF Connect, ClientDisconnect, OnInterrupt, Heartbeat, gatewayVars, ServiceStep, SameService
<1>2. CASE OnPrepare(g)
  <2>1. CASE HandlePrepare(g, Frame(g).route)
    <3>1. Frame(g) \in Frames
      BY <1>0, <1>2, ReceivedFrame DEF OnPrepare
    <3>2. Frame(g).route.version > active[g].version
      BY <1>0, <2>1, <3>1, VersionsAreNatural DEF HandlePrepare, NotNewer
    <3> QED
      BY <1>0, <2>1, <3>2 DEF HandlePrepare, GatewayTypeOK, ServiceStep, SameService
  <2>2. CASE SetUnsynced(g)
    BY <1>0, <2>2 DEF SetUnsynced, GatewayTypeOK, ServiceStep
  <2>3. CASE UNCHANGED gatewayVars
    BY <2>3 DEF gatewayVars, ServiceStep, SameService
  <2> QED
    BY <1>2, <2>1, <2>2, <2>3 DEF OnPrepare, ListenerNotPrepared, PrepareRefused
<1>3. CASE OnSetDraining(g) \/ LocalDrain(g) \/ Canary(g)
  BY <1>3 DEF OnSetDraining, LocalDrain, SetDraining, Canary, SetCanary, ServiceStep
<1>4. CASE OnSnapshot(g)
  <2>1. CASE HandleSnapshot(g, Frame(g).route)
    BY <1>0, <1>4, <2>1
    DEF OnSnapshot, HandleSnapshot, LoadTable, GatewayTypeOK, ServiceStep
  <2>2. CASE SnapshotNotReconciled(g, Frame(g).route)
    BY <1>0, <1>4, <2>2
    DEF OnSnapshot, SnapshotNotReconciled, LoadTable, GatewayTypeOK, ServiceStep
  <2>3. CASE SetUnsynced(g)
    BY <1>0, <2>3 DEF SetUnsynced, GatewayTypeOK, ServiceStep
  <2> QED
    BY <1>4, <2>1, <2>2, <2>3 DEF OnSnapshot
<1>5. CASE OnActivate(g)
  BY <1>0, <1>5
  DEF OnActivate, StartActivate, WasPrepared, GatewayTypeOK, gatewayVars, ServiceStep,
      SameService
<1>6. CASE OnActivated(g)
  BY <1>0, <1>6
  DEF OnActivated, FinishActivate, ActivateNotSaved, GatewayTypeOK, ServiceStep, SameService
<1>7. CASE GatewayRestart(g)
  <2>1. /\ ~synced'[g] /\ served'[g] = served[g] /\ pending'[g] = NoRoute
        /\ active'[g] = IF file[g] = None THEN NoRoute ELSE file[g]
    BY <1>0, <1>7 DEF GatewayRestart, Restart, LoadSnapshot, StartFlags, GatewayTypeOK
  <2>2. active'[g].version <= committed.version
    BY <1>0, <2>1, VersionsAreNatural DEF TablesInv, NoRoute
  <2> QED
    BY <2>1, <2>2 DEF ServiceStep
<1> QED
  BY <1>1, <1>2, <1>3, <1>4, <1>5, <1>6, <1>7 DEF GatewayStep

LEMMA HeadSteps ==
    ASSUME TypeInv, FreshInv, NEW g \in Gateways, GatewayStep(g)
    PROVE  HeadStep(g)
<1>0. SessionTypeOK /\ GatewayTypeOK
  BY TypeInvParts
<1>1. CASE Connect(g)
  <2>1. /\ opened \in Nat /\ opened + 1 \in Sessions /\ link'[g] = opened + 1
        /\ UNCHANGED wire
    BY <1>0, <1>1, BoundsAssumption DEF Connect, SessionTypeOK, Sessions
  <2>2. wire[opened + 1] = <<>> /\ link'[g] # None
    BY <2>1, RequestsAssumption DEF FreshInv, Sessions
  <2> QED
    BY <2>1, <2>2 DEF HeadStep
<1>2. CASE ClientDisconnect(g) \/ GatewayRestart(g)
  BY <1>0, <1>2 DEF ClientDisconnect, GatewayRestart, SessionTypeOK, HeadStep
<1>3. CASE \/ OnSnapshot(g) \/ OnPrepare(g) \/ OnActivate(g) \/ OnInterrupt(g)
           \/ OnSetDraining(g)
  <2>1. PICK type : Received(g, type)
    BY <1>3 DEF OnSnapshot, OnPrepare, OnActivate, OnInterrupt, OnSetDraining
  <2>2. wire' = [wire EXCEPT ![link[g]] = Tail(@)] /\ UNCHANGED link
    BY <1>3 DEF OnSnapshot, OnPrepare, OnActivate, OnInterrupt, OnSetDraining, Handled
  <2> QED
    BY <2>1, <2>2, ReceivedFrame DEF HeadStep
<1>4. CASE OnActivated(g) \/ Heartbeat(g) \/ LocalDrain(g) \/ Canary(g)
  <2>1. UNCHANGED <<link, wire, active>>
    BY <1>4 DEF OnActivated, FinishActivate, ActivateNotSaved, Heartbeat, LocalDrain,
                SetDraining, Canary, SetCanary, gatewayVars, sessionVars
  <2> QED
    BY <1>0, <2>1 DEF HeadStep, SessionTypeOK
<1> QED
  BY <1>1, <1>2, <1>3, <1>4 DEF GatewayStep

\* What RecordServed records.
LEMMA Recorded ==
    ASSUME TypeInv, NEW g \in Gateways, RecordServed(g)
    PROVE  /\ served'[g] = served[g] \/ (Ready(g)' /\ served'[g] = active'[g].version)
           /\ ~Ready(g)' => served'[g] = served[g]
           /\ (Ready(g)' /\ active'[g].version \in Nat /\ active'[g].version >= served[g])
              => served'[g] = active'[g].version
<1>1. served \in [Gateways -> Nat]
  BY TypeInvParts DEF GatewayTypeOK
<1>2. served'[g] = IF Ready(g)' /\ active'[g].version > served[g]
                   THEN active'[g].version ELSE served[g]
  BY <1>1 DEF RecordServed
<1>3. CASE Ready(g)'
  BY <1>1, <1>2, <1>3
<1>4. CASE ~Ready(g)'
  BY <1>1, <1>2, <1>4
<1> QED
  BY <1>3, <1>4

\* A step of g leaves it serving what is committed and no older than before.
LEMMA ServedStepAt ==
    ASSUME VersionInv, StreamInv, ServedInv, NEW g \in Gateways, GatewayStep(g), [Next]_vars
    PROVE  /\ active'[g].version <= committed.version
           /\ pending'[g] # NoRoute => pending'[g].version > active'[g].version
           /\ synced'[g] => active'[g].version >= served'[g]
           /\ served'[g] = served[g] \/ served'[g] = active'[g].version
           /\ \/ SameService(g)
              \/ ~Ready(g)' /\ served'[g] = served[g]
              \/ served'[g] = active'[g].version /\ served'[g] >= served[g]
<1>0. /\ TypeInv /\ TablesInv /\ QueuesInv /\ ServedAt(g)
      /\ active[g].version \in Nat /\ pending[g].version \in Nat /\ served[g] \in Nat
      /\ committed.version \in Nat
      /\ active'[g].version \in Nat /\ served'[g] \in Nat /\ pending'[g].version \in Nat
      /\ active[g].version <= committed.version
  <2>1. \A x \in Routes : x.version \in Nat
    BY DEF Routes
  <2>2. GatewayTypeOK'
    BY TypeStep DEF VersionInv, TypeInv, TypeOK
  <2>3. active'[g].version \in Nat /\ served'[g] \in Nat /\ pending'[g].version \in Nat
    BY <2>1, <2>2 DEF GatewayTypeOK
  <2> QED
    BY <2>3, VersionsAreNatural DEF VersionInv, ServedInv, TablesInv
<1>r. Ready(g)' => synced'[g]
  BY DEF Ready
<1>s. synced'[g] = synced[g] => (synced'[g] <=> synced[g])
  OBVIOUS
<1>1. CASE /\ SameService(g)
           /\ pending'[g] = pending[g] \/ pending'[g].version > active[g].version
  BY <1>0, <1>1, <1>s DEF SameService, ServedAt
<1>2. CASE /\ ~synced'[g] /\ served'[g] = served[g]
           /\ \/ active'[g] = active[g] /\ pending'[g] = pending[g]
              \/ active'[g].version <= committed.version /\ pending'[g] = NoRoute
  BY <1>0, <1>2, <1>r DEF ServedAt
<1>3. CASE /\ active'[g] = active[g] /\ pending'[g] = pending[g] /\ synced'[g] = synced[g]
           /\ RecordServed(g)
  BY <1>0, <1>3, <1>r, <1>s, Recorded DEF ServedAt
<1>4. CASE /\ Received(g, "ACTIVATE") /\ WasPrepared(g, Frame(g).route)
           /\ active'[g] = pending[g] /\ pending'[g] = NoRoute /\ synced'[g] = synced[g]
           /\ RecordServed(g)
  <2>1. active'[g].version <= committed.version
    BY <1>0, <1>4, HeadIsCommitted DEF WasPrepared
  <2> QED
    BY <1>0, <1>4, <1>r, <1>s, <2>1, Recorded DEF ServedAt, WasPrepared
<1>5. CASE /\ Received(g, "SNAPSHOT")
           /\ active'[g] = Frame(g).route /\ pending'[g] = NoRoute
           /\ RecordServed(g)
  <2>1. active'[g].version <= committed.version
    BY <1>0, <1>5, HeadIsCommitted
  <2>2. SnapshotWaits(g)
    BY <1>5 DEF Received, SnapshotWaits, Frame
  <2> QED
    BY <1>0, <1>5, <1>r, <2>1, <2>2, Recorded DEF ServedAt
<1>6. CASE /\ Received(g, "SNAPSHOT") /\ ~synced'[g]
           /\ active'[g] = Frame(g).route /\ pending'[g] = NoRoute
           /\ \/ served'[g] = served[g]
              \/ served'[g] = active'[g].version /\ active'[g].version > served[g]
  <2>1. active'[g].version <= committed.version
    BY <1>0, <1>6, HeadIsCommitted
  <2> QED
    BY <1>0, <1>6, <1>r, <2>1 DEF ServedAt
<1> QED
  BY <1>1, <1>2, <1>3, <1>4, <1>5, <1>6, ServiceSteps DEF ServiceStep

LEMMA ServedStep ==
    ASSUME VersionInv, StreamInv, ServedInv, [Next]_vars
    PROVE  ServedInv'
<1>0. /\ TypeInv /\ SessionTypeOK /\ GatewayTypeOK
      /\ wire \in [Sessions -> Seq(Frames)] /\ link \in [Gateways -> Sessions \union {None}]
      /\ committed.version \in Nat /\ committed'.version \in Nat
      /\ committed.version <= committed'.version
  BY TypeInvParts, CommittedGrows DEF VersionInv, SessionTypeOK
<1>1. ASSUME NEW g \in Gateways
      PROVE  /\ active[g].version \in Nat /\ pending[g].version \in Nat /\ served[g] \in Nat
             /\ active[g].version <= committed.version /\ ServedAt(g)
  BY <1>0, VersionsAreNatural DEF VersionInv, TablesInv, ServedInv
<1>2. ASSUME NEW h \in Gateways, active'[h] = active[h], pending'[h] = pending[h],
             synced'[h] = synced[h], served'[h] = served[h], link'[h] = link[h],
             link[h] # None => wire'[link[h]] = wire[link[h]]
      PROVE  ServedAt(h)'
  <2>1. SnapshotWaits(h)' => SnapshotWaits(h) /\ Frame(h)' = Frame(h)
    BY <1>2 DEF SnapshotWaits, Frame
  <2>2. synced'[h] <=> synced[h]
    BY <1>2
  <2> QED
    BY <1>0, <1>1, <1>2, <2>1, <2>2 DEF ServedAt
<1>3. ASSUME NEW g \in Gateways, GatewayStep(g) PROVE ServedInv'
  <2>1. ASSUME NEW h \in Gateways \ {g} PROVE ServedAt(h)'
    <3>1. ASSUME link[h] # None PROVE wire'[link[h]] = wire[link[h]]
      <4>1. link[h] # link[g]
        BY <3>1 DEF StreamInv, LinkInv
      <4> QED
        BY <1>0, <1>3, <3>1, <4>1, GatewayWire
    <3> QED
      BY <1>0, <1>2, <1>3, <2>1, <3>1, GatewayStepLocal
  <2>2. ServedAt(g)'
    <3>1. /\ active'[g].version <= committed.version
          /\ pending'[g] # NoRoute => pending'[g].version > active'[g].version
          /\ synced'[g] => active'[g].version >= served'[g]
          /\ served'[g] = served[g] \/ served'[g] = active'[g].version
      BY <1>3, ServedStepAt
    <3>2. served'[g] <= committed'.version
      <4>1. served[g] <= committed.version /\ served[g] \in Nat
        BY <1>1 DEF ServedAt
      <4>2. served'[g] <= committed.version
        BY <3>1, <4>1
      <4>3. served'[g] \in Nat
        BY <1>3, TypeStep DEF VersionInv, TypeInv, TypeOK, GatewayTypeOK
      <4> QED
        BY <1>0, <4>2, <4>3
    <3>3. ASSUME SnapshotWaits(g)'
          PROVE  /\ Frame(g)'.route.version >= active'[g].version
                 /\ Frame(g)'.route.version >= served'[g]
      <4>1. CASE /\ link'[g] = link[g] /\ link[g] \in Sessions /\ UNCHANGED wire
                 /\ active'[g] = active[g]
        <5>1. SnapshotWaits(g) /\ Frame(g)' = Frame(g)
          BY <3>3, <4>1 DEF SnapshotWaits, Frame
        <5> QED
          BY <1>1, <3>1, <4>1, <5>1 DEF ServedAt
      <4>2. CASE link'[g] = None \/ wire'[link'[g]] = <<>>
        BY <3>3, <4>2 DEF SnapshotWaits
      <4>3. CASE /\ link'[g] = link[g] /\ link[g] \in Sessions /\ wire[link[g]] # <<>>
                 /\ wire' = [wire EXCEPT ![link[g]] = Tail(@)]
        <5>1. wire'[link'[g]] = Tail(wire[link[g]])
          BY <1>0, <4>3
        <5>2. Tail(wire[link[g]]) # <<>> => Head(Tail(wire[link[g]])).type # "SNAPSHOT"
          BY <1>0, <4>3, BehindTail DEF StreamInv, FirstInv
        <5> QED
          BY <3>3, <5>1, <5>2 DEF SnapshotWaits, Frame
      <4> QED
        BY <1>0, <1>3, <4>1, <4>2, <4>3, HeadSteps DEF StreamInv, HeadStep
    <3> QED
      BY <3>1, <3>2, <3>3 DEF ServedAt
  <2> QED
    BY <2>1, <2>2 DEF ServedInv
<1>4. ASSUME NEW s \in Sessions, SessionStep(s) PROVE ServedInv'
  <2>1. /\ UNCHANGED <<gatewayVars, link>> 
        /\ UNCHANGED <<active, pending, synced, served>>
    BY <1>0, <1>4, SessionStepLocal DEF gatewayVars
  <2>2. CASE UNCHANGED wire
    BY <1>2, <2>1, <2>2 DEF ServedInv
  <2>3. ASSUME NEW f \in Frames, wire' = [wire EXCEPT ![s] = Append(@, f)],
               \/ phase[s] = "registered" /\ f.route = committed /\ phase'[s] = "open"
               \/ phase[s] = "open" /\ f.type # "SNAPSHOT" /\ phase'[s] = "open"
        PROVE  ServedInv'
    <3> SUFFICES ASSUME NEW g \in Gateways PROVE ServedAt(g)'
      BY DEF ServedInv
    <3>1. CASE link[g] # s
      <4>1. link[g] # None => wire'[link[g]] = wire[link[g]]
        BY <1>0, <2>3, <3>1
      <4> QED
        BY <1>2, <2>1, <4>1
    <3>2. CASE link[g] = s
      <4>1. wire[s] \in Seq(Frames) /\ wire'[s] = Append(wire[s], f) /\ s # None
        BY <1>0, <2>3, RequestsAssumption
      <4>2. CASE wire[s] # <<>>
        <5>1. Head(Append(wire[s], f)) = Head(wire[s])
          BY <2>3, <4>1, <4>2
        <5>2. SnapshotWaits(g)' => SnapshotWaits(g) /\ Frame(g)' = Frame(g)
          BY <2>1, <3>2, <4>1, <4>2, <5>1 DEF SnapshotWaits, Frame
        <5> QED
          BY <1>0, <1>1, <2>1, <5>2 DEF ServedAt
      <4>3. CASE wire[s] = <<>>
        <5>1. Head(Append(wire[s], f)) = f
          BY <2>3, <4>1, <4>3
        <5>2. Frame(g)' = f
          BY <2>1, <3>2, <4>1, <5>1 DEF Frame
        <5>3. SnapshotWaits(g)' => Frame(g)'.route = committed
          BY <2>3, <5>2 DEF SnapshotWaits
        <5> QED
          BY <1>0, <1>1, <2>1, <5>3 DEF ServedAt
      <4> QED
        BY <4>2, <4>3
    <3> QED
      BY <3>1, <3>2
  <2> QED
    BY <1>0, <1>4, <2>2, <2>3, SessionWire
<1>5. ASSUME UNCHANGED <<gatewayVars, opened, owner, wire, link>> PROVE ServedInv'
  <2>1. UNCHANGED <<active, pending, synced, served, wire, link>>
    BY <1>5 DEF gatewayVars
  <2> QED
    BY <1>2, <2>1 DEF ServedInv
<1> QED
  BY <1>0, <1>3, <1>4, <1>5, RemoteSteps

-------------------------------------------------------------------------------
LEMMA IInvInit == Init => IInv
<1> SUFFICES ASSUME Init PROVE IInv
  OBVIOUS
<1>1. StreamInv
  BY DEF Init, StreamInv, LinkInv, FreshInv, FirstInv, NoSnapshotBehind
<1>2. ServedInv
  BY StoreAssumption
  DEF Init, StoreInit, GatewayInit, ServedInv, ServedAt, SnapshotWaits, NoRoute
<1> QED
  BY <1>1, <1>2, VersionInit DEF IInv

LEMMA IInvStep == IInv /\ [Next]_vars => IInv'
<1> SUFFICES ASSUME IInv, [Next]_vars PROVE IInv'
  OBVIOUS
<1>1. TypeInv
  BY DEF IInv, VersionInv
<1> QED
  BY <1>1, VersionStep, StreamStep, ServedStep DEF IInv

\* A ready gateway never serves an older version than one it has served before: a
\* restarted process is not ready until it has reconciled a SNAPSHOT, and no SNAPSHOT
\* that still can reach a gateway is older than what that gateway holds or has served.
THEOREM NoRollback == Spec => []ServedNeverRollsBack
<1>1. IInv => ServedNeverRollsBack
  BY DEF IInv, ServedInv, ServedAt, ServedNeverRollsBack, Ready
<1> QED
  BY <1>1, IInvInit, IInvStep, PTL DEF Spec
-------------------------------------------------------------------------------
(* The refinement *)

LEMMA RefinesInit == Init => Publication!Init
<1> SUFFICES ASSUME Init PROVE Publication!Init
  OBVIOUS
<1>1. committed.version \in Nat
  BY TypeInit, VersionsAreNatural
<1>2. \A g \in Gateways : Ready(g) = FALSE
  BY DEF Init, GatewayInit, Ready
<1>3. \A g \in Gateways : active[g].version = 0
  BY DEF Init, GatewayInit, NoRoute
<1> QED
  BY <1>1, <1>2, <1>3 DEF Init, GatewayInit, Publication!Init

\* Each step of the protocol is a publication, a gateway's, or invisible.
LEMMA RefinesStep ==
    ASSUME IInv, [Next]_vars
    PROVE  [Publication!Next]_(Publication!vars)
<1>0. /\ TypeInv /\ VersionInv /\ StreamInv /\ ServedInv /\ StoreInv
      /\ committed.version \in Nat
  BY VersionsAreNatural DEF IInv, VersionInv
<1>a. ASSUME UNCHANGED gatewayVars
      PROVE  /\ [g \in Gateways |-> Ready(g)]' = [g \in Gateways |-> Ready(g)]
             /\ [g \in Gateways |-> active[g].version]' = [g \in Gateways |-> active[g].version]
             /\ served' = served
  BY <1>a DEF gatewayVars, Ready
<1>1. ASSUME UNCHANGED gatewayVars, UNCHANGED committed
      PROVE  UNCHANGED Publication!vars
  BY <1>1, <1>a DEF Publication!vars
<1>2. ASSUME UNCHANGED gatewayVars, committed'.version = committed.version + 1
      PROVE  Publication!Publish
  BY <1>2, <1>a DEF Publication!Publish
<1>3. ASSUME NEW g \in Gateways, GatewayStep(g)
      PROVE  [Publication!Next]_(Publication!vars)
  <2>1. /\ active'[g].version <= committed.version
        /\ \/ SameService(g)
           \/ ~Ready(g)' /\ served'[g] = served[g]
           \/ served'[g] = active'[g].version /\ served'[g] >= served[g]
    BY <1>0, <1>3, ServedStepAt
  <2>2. UNCHANGED committed
    BY <1>3
    DEF GatewayStep, Connect, ClientDisconnect, OnSnapshot, OnPrepare, OnActivate, OnActivated,
        OnInterrupt, OnSetDraining, Heartbeat, LocalDrain, Canary, GatewayRestart, Handled,
        storeVars
  <2>3. ASSUME NEW h \in Gateways \ {g}
        PROVE  /\ Ready(h)' = Ready(h) /\ active'[h].version = active[h].version
               /\ served'[h] = served[h]
    BY <1>0, <1>3, <2>3, GatewayStepLocal DEF Ready
  <2>4. /\ served \in [Gateways -> Nat] /\ served' \in [Gateways -> Nat]
        /\ active'[g].version \in Nat
    <3>1. GatewayTypeOK /\ GatewayTypeOK'
      BY <1>0, TypeStep DEF TypeInv, TypeOK
    <3> QED
      BY <3>1 DEF GatewayTypeOK, Routes
  <2>5. CASE SameService(g)
    <3>1. Ready(g)' = Ready(g)
      BY <2>5 DEF SameService, Ready
    <3>2. served' = served
      BY <2>3, <2>4, <2>5 DEF SameService
    <3>3. [h \in Gateways |-> Ready(h)]' = [h \in Gateways |-> Ready(h)]
      BY <2>3, <3>1
    <3>4. [h \in Gateways |-> active[h].version]' = [h \in Gateways |-> active[h].version]
      BY <2>3, <2>5 DEF SameService
    <3> QED
      BY <2>2, <3>2, <3>3, <3>4 DEF Publication!vars
  <2>6. CASE ~Ready(g)' /\ served'[g] = served[g]
    <3>1. served' = served
      BY <2>3, <2>4, <2>6
    <3>2. [h \in Gateways |-> Ready(h)]'
          = [[h \in Gateways |-> Ready(h)] EXCEPT ![g] = FALSE]
      <4>1. Ready(g)' = FALSE
        BY <2>6 DEF Ready
      <4> QED
        BY <2>3, <4>1
    <3>3. [h \in Gateways |-> active[h].version]'
          = [[h \in Gateways |-> active[h].version] EXCEPT ![g] = active'[g].version]
      BY <2>3
    <3>4. active'[g].version \in 0 .. committed.version
      BY <1>0, <2>1, <2>4
    <3>5. Publication!Withdraw(g)
      BY <2>2, <3>1, <3>2, <3>3, <3>4 DEF Publication!Withdraw
    <3> QED
      BY <3>5 DEF Publication!Next
  <2>7. CASE served'[g] = active'[g].version /\ served'[g] >= served[g]
    <3>1. served' = [served EXCEPT ![g] = active'[g].version]
      BY <2>3, <2>4, <2>7
    <3>2. \/ [h \in Gateways |-> Ready(h)]'
             = [[h \in Gateways |-> Ready(h)] EXCEPT ![g] = TRUE]
          \/ [h \in Gateways |-> Ready(h)]'
             = [[h \in Gateways |-> Ready(h)] EXCEPT ![g] = FALSE]
      <4>1. Ready(g)' = TRUE \/ Ready(g)' = FALSE
        BY DEF Ready
      <4> QED
        BY <2>3, <4>1
    <3>3. [h \in Gateways |-> active[h].version]'
          = [[h \in Gateways |-> active[h].version] EXCEPT ![g] = active'[g].version]
      BY <2>3
    <3>4. active'[g].version \in served[g] .. committed.version
      BY <1>0, <2>1, <2>4, <2>7
    <3>5. Publication!Serve(g) \/ Publication!ServeBriefly(g)
      BY <2>2, <3>1, <3>2, <3>3, <3>4 DEF Publication!Serve, Publication!ServeBriefly
    <3> QED
      BY <3>5 DEF Publication!Next
  <2> QED
    BY <2>1, <2>5, <2>6, <2>7
<1>4. ASSUME UNCHANGED gatewayVars PROVE [Publication!Next]_(Publication!vars)
  <2>1. UNCHANGED committed \/ committed'.version = committed.version + 1
    <3>1. ASSUME NEW v, ActivateRoute(v) PROVE committed'.version = committed.version + 1
      BY <1>0, <3>1 DEF ActivateRoute, StoreInv
    <3> QED
      BY <3>1, StoreSteps DEF storeVars, StageRoute, NewRoute
  <2> QED
    BY <1>1, <1>2, <1>4, <2>1 DEF Publication!Next
<1>5. ASSUME NEW s \in Sessions, SessionStep(s) PROVE UNCHANGED gatewayVars
  BY <1>0, <1>5, SessionStepLocal
<1> QED
  BY <1>0, <1>3, <1>4, <1>5, RemoteSteps

\* The publication protocol, with its restarts, broken streams, failed handlers and
\* given-up broadcasts, implements the abstract promise of PublishedRoutes.
THEOREM Refinement == Spec => ImplementsPublishedRoutes
<1>1. IInv /\ [Next]_vars => [Publication!Next]_(Publication!vars)
  BY RefinesStep
<1> QED
  BY <1>1, RefinesInit, IInvInit, IInvStep, PTL
  DEF Spec, ImplementsPublishedRoutes, Publication!Spec
===============================================================================
