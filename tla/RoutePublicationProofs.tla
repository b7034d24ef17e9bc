------------------------- MODULE RoutePublicationProofs -------------------------
(* Theorems about RoutePublication, for every value of its CONSTANTS. *)
EXTENDS RoutePublication, FiniteSetTheorems, TLAPS

-------------------------------------------------------------------------------
(* Sequences *)

\* The loop order of a broadcast is a non-empty sequence of sessions.
LEMMA OrdersAreSequences ==
    ASSUME NEW S, IsFiniteSet(S), S # {}, NEW q \in Orders(S)
    PROVE  q \in Seq(S) /\ Len(q) > 0
<1>1. Cardinality(S) \in Nat
  BY FS_CardinalityType
<1>2. Cardinality(S) # 0
  BY FS_EmptySet
<1>3. q \in [1 .. Cardinality(S) -> S]
  BY DEF Orders
<1> QED
  BY <1>1, <1>2, <1>3

LEMMA ReadySessionsFinite == IsFiniteSet(ReadySessions)
<1>1. IsFiniteSet(Sessions)
  BY FS_Interval, BoundsAssumption DEF Sessions
<1> QED
  BY <1>1, FS_Subset DEF ReadySessions

LEMMA WiderSequences ==
    ASSUME NEW S, NEW T, S \subseteq T, NEW q \in Seq(S)
    PROVE  q \in Seq(T)
OBVIOUS

\* Queues indexed by session keep their type.
LEMMA AppendAt ==
    ASSUME NEW I, NEW S, NEW q \in [I -> Seq(S)], NEW i \in I, NEW x \in S
    PROVE  [q EXCEPT ![i] = Append(@, x)] \in [I -> Seq(S)]
<1>1. Append(q[i], x) \in Seq(S)
  OBVIOUS
<1> QED
  BY <1>1

LEMMA TailAt ==
    ASSUME NEW I, NEW S, NEW q \in [I -> Seq(S)], NEW i \in I, q[i] # <<>>
    PROVE  [q EXCEPT ![i] = Tail(@)] \in [I -> Seq(S)] /\ Head(q[i]) \in S
<1>1. Tail(q[i]) \in Seq(S) /\ Head(q[i]) \in S
  OBVIOUS
<1> QED
  BY <1>1

-------------------------------------------------------------------------------
(* Types.  Each part of TypeOK is shown for the steps that change it. *)

\* The loop variable is reset whenever a broadcast may begin.
LoopReset ==
    \A r \in Requests :
        /\ pc[r] \in {"idle", "lock", "commit"} => pos[r] = 1
        /\ pc[r] = "commit" => Len(targets[r]) > 0

RequestInv == RequestTypeOK /\ LoopReset
StoreTypeOK == committed \in Routes /\ staged \in Routes
TypeInv == TypeOK /\ LoopReset

LEMMA TypeInvParts ==
    TypeInv <=> /\ StoreTypeOK /\ GatewayTypeOK /\ RequestInv /\ SessionTypeOK
                /\ faults \in 0 .. MaxFaults
  BY DEF TypeInv, TypeOK, StoreTypeOK, RequestInv

LEMMA TypeInvNext ==
    /\ StoreTypeOK' /\ GatewayTypeOK' /\ RequestInv' /\ SessionTypeOK'
    /\ faults' \in 0 .. MaxFaults
    => TypeInv'
  BY DEF TypeInv, TypeOK, StoreTypeOK, RequestInv

LEMMA StoreKeepsType == StoreTypeOK /\ UNCHANGED storeVars => StoreTypeOK'
  BY DEF StoreTypeOK, storeVars
LEMMA GatewayKeepsType == GatewayTypeOK /\ UNCHANGED gatewayVars => GatewayTypeOK'
  BY DEF GatewayTypeOK, gatewayVars
LEMMA RequestKeepsType == RequestInv /\ UNCHANGED requestVars => RequestInv'
  BY DEF RequestInv, RequestTypeOK, LoopReset, requestVars
LEMMA SessionKeepsType == SessionTypeOK /\ UNCHANGED sessionVars => SessionTypeOK'
  BY DEF SessionTypeOK, sessionVars
LEMMA DisturbKeepsType ==
    faults \in 0 .. MaxFaults /\ (Disturb \/ UNCHANGED faults) => faults' \in 0 .. MaxFaults
  BY BoundsAssumption DEF Disturb

LEMMA NoRouteType == NoRoute \in Routes
  BY DEF NoRoute, Routes

LEMMA FrameParts ==
    ASSUME NEW f \in Frames
    PROVE  /\ f.route \in Routes /\ f.draining \in BOOLEAN
           /\ f.req \in Requests \union {None}
           /\ f.type \in {"PREPARE", "ACTIVATE"} => f.req \in RouteRequests
  BY DEF Frames, SnapshotFrames, BroadcastFrames, FramesOf, Requests

LEMMA BroadcastFramesAreFrames == BroadcastFrames \subseteq Frames
  BY DEF Frames

\* The handlers of a gateway keep the types of its state.
LEMMA GatewayHandlersType ==
    ASSUME GatewayTypeOK, NEW g \in Gateways, NEW rt \in Routes,
           NEW v \in BOOLEAN,
           \/ HandleSnapshot(g, rt) \/ SnapshotNotReconciled(g, rt) \/ SetUnsynced(g)
           \/ HandlePrepare(g, rt) \/ PrepareRefused(g, rt)
           \/ FinishActivate(g) \/ ActivateNotSaved(g)
           \/ SetDraining(g, v) \/ SetCanary(g, v) \/ Restart(g)
    PROVE  GatewayTypeOK'
<1> USE NoRouteType DEF GatewayTypeOK
<1>a. \A x \in Routes : x.version \in Nat
  BY DEF Routes
<1>1. CASE HandleSnapshot(g, rt)
  BY <1>1, <1>a DEF HandleSnapshot, LoadTable, RecordServed
<1>2. CASE SnapshotNotReconciled(g, rt)
  BY <1>2, <1>a DEF SnapshotNotReconciled, LoadTable
<1>3. CASE SetUnsynced(g) \/ PrepareRefused(g, rt)
  BY <1>3 DEF SetUnsynced, PrepareRefused
<1>4. CASE HandlePrepare(g, rt)
  BY <1>4 DEF HandlePrepare
<1>6. CASE FinishActivate(g)
  BY <1>6 DEF FinishActivate
<1>7. CASE ActivateNotSaved(g)
  BY <1>7 DEF ActivateNotSaved
<1>8. CASE SetDraining(g, v)
  BY <1>8, <1>a DEF SetDraining, RecordServed
<1>9. CASE SetCanary(g, v)
  BY <1>9, <1>a DEF SetCanary, RecordServed
<1>10. CASE Restart(g)
  BY <1>10, CanaryAssumption DEF Restart, LoadSnapshot, StartFlags
<1> QED
  BY <1>1, <1>2, <1>3, <1>4, <1>6, <1>7, <1>8, <1>9, <1>10

LEMMA StartActivateType ==
    ASSUME GatewayTypeOK, NEW g \in Gateways, NEW rt, NEW r \in RouteRequests,
           StartActivate(g, rt, r)
    PROVE  GatewayTypeOK'
<1>1. \A x \in Routes : x.version \in Nat
  BY DEF Routes
<1> QED
  BY <1>1, NoRouteType DEF GatewayTypeOK, StartActivate, RecordServed

LEMMA TypeInit == Init => TypeInv
<1> SUFFICES ASSUME Init PROVE TypeInv
  OBVIOUS
<1>1. StoreTypeOK
  BY StoreAssumption, NoRouteType DEF Init, StoreInit, StoreTypeOK, Routes
<1>2. GatewayTypeOK
  BY NoRouteType, CanaryAssumption DEF Init, GatewayInit, GatewayTypeOK
<1>3. RequestInv
  BY NoRouteType DEF Init, RequestInv, RequestTypeOK, LoopReset, RoutePCs, OtherPCs,
                     SendPCs, WaitPCs, Answers
<1>4. SessionTypeOK
  BY BoundsAssumption DEF Init, SessionTypeOK
<1>5. faults \in 0 .. MaxFaults
  BY BoundsAssumption DEF Init
<1> QED
  BY <1>1, <1>2, <1>3, <1>4, <1>5, TypeInvParts

\* The steps of a session: only the session's variables change.
LEMMA SessionStepType ==
    ASSUME TypeInv, NEW s \in Sessions, SessionStep(s)
    PROVE  TypeInv'
<1>1. StoreTypeOK' /\ GatewayTypeOK' /\ RequestInv'
  BY TypeInvParts, StoreKeepsType, GatewayKeepsType, RequestKeepsType
  DEF SessionStep, SendSnapshot, ForwardFrame, HubReceive, CloseSession
<1>2. faults' \in 0 .. MaxFaults
  BY TypeInvParts, DisturbKeepsType
  DEF SessionStep, SendSnapshot, ForwardFrame, HubReceive, CloseSession
<1>3. SessionTypeOK'
  <2> USE TypeInvParts DEF SessionTypeOK
  <2>1. CASE SendSnapshot(s)
    <3> DEFINE f == [type |-> "SNAPSHOT", req |-> None, route |-> ListActiveRoutes,
                     draining |-> FALSE]
    <3>1. f \in Frames
      BY DEF StoreTypeOK, ListActiveRoutes, Frames, SnapshotFrames, FramesOf
    <3> HIDE DEF f
    <3>2. OnWire(s, f)
      BY <2>1 DEF SendSnapshot, f
    <3>3. wire' \in [Sessions -> Seq(Frames)]
      BY <3>1, <3>2, AppendAt DEF OnWire
    <3> QED
      BY <2>1, <3>3 DEF SendSnapshot
  <2>2. CASE ForwardFrame(s)
    <3>1. sendCh' \in [Sessions -> Seq(BroadcastFrames)] /\ Head(sendCh[s]) \in Frames
      BY <2>2, TailAt, BroadcastFramesAreFrames DEF ForwardFrame
    <3>2. wire' \in [Sessions -> Seq(Frames)]
      BY <2>2, <3>1, AppendAt DEF ForwardFrame, OnWire
    <3> QED
      BY <2>2, <3>1, <3>2 DEF ForwardFrame
  <2>3. CASE HubReceive(s)
    <3>1. up' \in [Sessions -> Seq(Replies)] /\ Head(up[s]) \in Replies
      BY <2>3, TailAt DEF HubReceive
    <3>2. Head(up[s]).ok \in BOOLEAN
      BY <3>1 DEF Replies
    <3>3. acks' \in [Sessions -> Seq(Replies)]
      <4>1. CASE UNCHANGED acks
        BY <4>1
      <4>2. CASE acks' = [acks EXCEPT ![s] = Append(@, Head(up[s]))]
        BY <3>1, <4>2, AppendAt
      <4> QED
        BY <2>3, <4>1, <4>2 DEF HubReceive
    <3>4. ready' \in [Sessions -> BOOLEAN]
      BY <2>3, <3>2 DEF HubReceive, StoreReady
    <3> QED
      BY <2>3, <3>1, <3>3, <3>4 DEF HubReceive
  <2>4. CASE CloseSession(s)
    BY <2>4 DEF CloseSession
  <2> QED
    BY <2>1, <2>2, <2>3, <2>4, SessionStep(s) DEF SessionStep
<1> QED
  BY <1>1, <1>2, <1>3, TypeInvNext

\* The frame a gateway handles, and its reply.
LEMMA ReceivedFrame ==
    ASSUME TypeInv, NEW g \in Gateways, NEW type, Received(g, type)
    PROVE  /\ link[g] \in Sessions /\ wire[link[g]] # <<>>
           /\ Frame(g) \in Frames /\ Frame(g).type = type
           /\ Tail(wire[link[g]]) \in Seq(Frames)
  BY TypeInvParts DEF Received, Frame, SessionTypeOK

LEMMA HandledType ==
    ASSUME TypeInv, NEW g \in Gateways, NEW type, Received(g, type), NEW ok \in BOOLEAN,
           Handled(g, ok)
    PROVE  StoreTypeOK' /\ RequestInv' /\ SessionTypeOK'
<1>1. StoreTypeOK' /\ RequestInv'
  BY TypeInvParts, StoreKeepsType, RequestKeepsType DEF Handled
<1>2. Ack(Frame(g).req, ok) \in Replies
  BY ReceivedFrame, FrameParts DEF Ack, Replies
<1>3. up' \in [Sessions -> Seq(Replies)]
  BY <1>2, TypeInvParts, ReceivedFrame, AppendAt DEF Handled, Reply, SessionTypeOK
<1>4. wire' \in [Sessions -> Seq(Frames)]
  BY TypeInvParts, ReceivedFrame, TailAt DEF Handled, SessionTypeOK
<1>5. SessionTypeOK'
  BY <1>3, <1>4, TypeInvParts DEF Handled, SessionTypeOK
<1> QED
  BY <1>1, <1>5

LEMMA GatewayStepType ==
    ASSUME TypeInv, NEW g \in Gateways, GatewayStep(g)
    PROVE  TypeInv'
<1> USE TypeInvParts, TypeInvNext
<1>1. CASE Connect(g)
  <2>1. opened + 1 \in Sessions
    BY <1>1, BoundsAssumption DEF Connect, SessionTypeOK, Sessions
  <2>2. SessionTypeOK'
    BY <1>1, <2>1, BoundsAssumption DEF Connect, SessionTypeOK
  <2> QED
    BY <1>1, <2>2, StoreKeepsType, GatewayKeepsType, RequestKeepsType DEF Connect
<1>2. CASE ClientDisconnect(g)
  <2>1. SessionTypeOK'
    BY <1>2 DEF ClientDisconnect, SessionTypeOK
  <2> QED
    BY <1>2, <2>1, StoreKeepsType, GatewayKeepsType, RequestKeepsType, DisturbKeepsType
    DEF ClientDisconnect
<1>3. CASE OnSnapshot(g)
  <2>1. GatewayTypeOK'
    BY <1>3, ReceivedFrame, FrameParts, GatewayHandlersType DEF OnSnapshot
  <2> QED
    BY <1>3, <2>1, HandledType, DisturbKeepsType DEF OnSnapshot
<1>4. CASE OnPrepare(g)
  <2>1. GatewayTypeOK'
    BY <1>4, ReceivedFrame, FrameParts, GatewayHandlersType, GatewayKeepsType
    DEF OnPrepare, ListenerNotPrepared
  <2> QED
    BY <1>4, <2>1, HandledType, DisturbKeepsType DEF OnPrepare
<1>5. CASE OnActivate(g)
  <2>1. CASE ~WasPrepared(g, Frame(g).route) /\ UNCHANGED gatewayVars /\ Handled(g, FALSE)
    BY <1>5, <2>1, HandledType, GatewayKeepsType DEF OnActivate
  <2>2. CASE /\ StartActivate(g, Frame(g).route, Frame(g).req)
             /\ wire' = [wire EXCEPT ![link[g]] = Tail(@)]
             /\ UNCHANGED <<storeVars, requestVars, opened, owner, phase, hubSession,
                            ready, sendCh, up, acks, link>>
    <3>1. GatewayTypeOK'
      BY <1>5, <2>2, ReceivedFrame, FrameParts, StartActivateType DEF OnActivate
    <3>2. wire' \in [Sessions -> Seq(Frames)]
      BY <1>5, <2>2, ReceivedFrame, TailAt DEF OnActivate, SessionTypeOK
    <3>3. SessionTypeOK'
      BY <2>2, <3>2 DEF SessionTypeOK
    <3> QED
      BY <1>5, <2>2, <3>1, <3>3, StoreKeepsType, RequestKeepsType DEF OnActivate
  <2> QED
    BY <1>5, <2>1, <2>2 DEF OnActivate
<1>6. CASE OnActivated(g)
  <2>1. GatewayTypeOK'
    BY <1>6, NoRouteType, GatewayHandlersType DEF OnActivated
  <2>2. Ack(applying[g], TRUE) \in Replies /\ Ack(applying[g], FALSE) \in Replies
    BY DEF Ack, Replies, GatewayTypeOK, Requests
  <2>3. up' \in [Sessions -> Seq(Replies)]
    <3>1. CASE link[g] = None
      BY <1>6, <3>1, RequestsAssumption DEF OnActivated, Reply, SessionTypeOK
    <3>2. CASE link[g] \in Sessions
      <4>1. PICK ok \in BOOLEAN : Reply(g, Ack(applying[g], ok))
        BY <1>6 DEF OnActivated
      <4>2. Ack(applying[g], ok) \in Replies
        BY <2>2
      <4> QED
        BY <3>2, <4>1, <4>2, AppendAt DEF Reply, SessionTypeOK
    <3> QED
      BY <3>1, <3>2 DEF SessionTypeOK
  <2>4. SessionTypeOK'
    BY <1>6, <2>3 DEF OnActivated, SessionTypeOK
  <2> QED
    BY <1>6, <2>1, <2>4, StoreKeepsType, RequestKeepsType, DisturbKeepsType DEF OnActivated
<1>7. CASE OnInterrupt(g)
  BY <1>7, HandledType, GatewayKeepsType DEF OnInterrupt
<1>8. CASE OnSetDraining(g)
  <2>1. GatewayTypeOK'
    BY <1>8, ReceivedFrame, FrameParts, GatewayHandlersType DEF OnSetDraining
  <2> QED
    BY <1>8, <2>1, HandledType DEF OnSetDraining
<1>9. CASE Heartbeat(g)
  <2> DEFINE f == [type |-> "HEARTBEAT", req |-> None, ok |-> Ready(g)]
  <2>1. f \in Replies
    BY DEF Replies, Ready, GatewayTypeOK
  <2> HIDE DEF f
  <2>2. Reply(g, f) /\ link[g] \in Sessions
    BY <1>9 DEF Heartbeat, SessionTypeOK, f
  <2>3. up' \in [Sessions -> Seq(Replies)]
    BY <2>1, <2>2, AppendAt DEF Reply, SessionTypeOK
  <2>4. SessionTypeOK'
    BY <1>9, <2>3 DEF Heartbeat, SessionTypeOK
  <2> QED
    BY <1>9, <2>4, StoreKeepsType, GatewayKeepsType, RequestKeepsType DEF Heartbeat
<1>10. CASE LocalDrain(g)
  <2>1. GatewayTypeOK'
    BY <1>10, NoRouteType, GatewayHandlersType DEF LocalDrain
  <2> QED
    BY <1>10, <2>1, StoreKeepsType, RequestKeepsType, SessionKeepsType, DisturbKeepsType
    DEF LocalDrain
<1>11. CASE Canary(g)
  <2>1. GatewayTypeOK'
    BY <1>11, NoRouteType, GatewayHandlersType DEF Canary
  <2> QED
    BY <1>11, <2>1, StoreKeepsType, RequestKeepsType, SessionKeepsType, DisturbKeepsType
    DEF Canary
<1>12. CASE GatewayRestart(g)
  <2>1. GatewayTypeOK'
    BY <1>12, NoRouteType, GatewayHandlersType DEF GatewayRestart
  <2>2. SessionTypeOK'
    BY <1>12 DEF GatewayRestart, SessionTypeOK
  <2> QED
    BY <1>12, <2>1, <2>2, StoreKeepsType, RequestKeepsType, DisturbKeepsType
    DEF GatewayRestart
<1> QED
  BY <1>1, <1>2, <1>3, <1>4, <1>5, <1>6, <1>7, <1>8, <1>9, <1>10, <1>11, <1>12,
     GatewayStep(g) DEF GatewayStep

LEMMA RequestTypes ==
    RequestInv => /\ deployMu \in RouteRequests \union {None}
                  /\ pc \in [Requests -> RoutePCs \union OtherPCs]
                  /\ route \in [Requests -> Routes]
                  /\ drainTo \in [Requests -> BOOLEAN]
                  /\ targets \in [Requests -> Seq(Sessions)]
                  /\ pos \in [Requests -> Nat]
                  /\ answer \in [Requests -> Answers]
  BY DEF RequestInv, RequestTypeOK

\* What a step of request r has to establish.
LEMMA RequestInvAt ==
    ASSUME RequestInv, NEW r \in Requests,
           deployMu' \in RouteRequests \union {None},
           pc' \in [Requests -> RoutePCs \union OtherPCs],
           route' \in [Requests -> Routes],
           drainTo' \in [Requests -> BOOLEAN],
           targets' \in [Requests -> Seq(Sessions)],
           pos' \in [Requests -> Nat],
           answer' \in [Requests -> Answers],
           \A x \in Requests \ {r} :
               pc'[x] = pc[x] /\ targets'[x] = targets[x] /\ pos'[x] = pos[x],
           pc'[r] \in IF r \in RouteRequests THEN RoutePCs ELSE OtherPCs,
           pc'[r] \in SendPCs \union WaitPCs => pos'[r] \in 1 .. Len(targets'[r]),
           pc'[r] \in {"idle", "lock", "commit"} => pos'[r] = 1,
           pc'[r] = "commit" => Len(targets'[r]) > 0
    PROVE  RequestInv'
<1>1. ASSUME NEW x \in Requests
      PROVE  /\ pc'[x] \in IF x \in RouteRequests THEN RoutePCs ELSE OtherPCs
             /\ pc'[x] \in SendPCs \union WaitPCs => pos'[x] \in 1 .. Len(targets'[x])
             /\ pc'[x] \in {"idle", "lock", "commit"} => pos'[x] = 1
             /\ pc'[x] = "commit" => Len(targets'[x]) > 0
  <2>1. CASE x = r
    BY <2>1
  <2>2. CASE x # r
    BY <1>1, <2>2 DEF RequestInv, RequestTypeOK, LoopReset
  <2> QED
    BY <2>1, <2>2
<1> QED
  BY <1>1 DEF RequestInv, RequestTypeOK, LoopReset

\* The loop of broadcastAndWait and the answers of the handlers.
LEMMA FailType ==
    ASSUME TypeInv, NEW r \in Requests, Fail(r), UNCHANGED drainTo
    PROVE  RequestInv'
<1>1. RequestInv /\ pc'[r] = "done"
  BY TypeInvParts DEF Fail, Answer, RequestInv, RequestTypeOK
<1>2. /\ pc' \in [Requests -> RoutePCs \union OtherPCs]
      /\ answer' \in [Requests -> Answers]
  BY <1>1 DEF Fail, Answer, RequestInv, RequestTypeOK, RoutePCs, Answers
<1>3. /\ deployMu' \in RouteRequests \union {None}
      /\ route' \in [Requests -> Routes]
      /\ drainTo' \in [Requests -> BOOLEAN]
      /\ targets' \in [Requests -> Seq(Sessions)]
      /\ pos' \in [Requests -> Nat]
  BY <1>1, NoRouteType DEF Fail, Release, RequestInv, RequestTypeOK
<1>4. \A x \in Requests \ {r} :
          pc'[x] = pc[x] /\ targets'[x] = targets[x] /\ pos'[x] = pos[x]
  BY <1>1 DEF Fail, Answer, RequestInv, RequestTypeOK
<1> QED
  BY <1>1, <1>2, <1>3, <1>4, RequestInvAt DEF RoutePCs, OtherPCs, SendPCs, WaitPCs

LEMMA AnswerType ==
    ASSUME TypeInv, NEW r \in Requests, NEW status \in Answers, Answer(r, status),
           UNCHANGED <<route, drainTo, targets>>,
           deployMu' \in RouteRequests \union {None},
           pos' = pos \/ pos' = [pos EXCEPT ![r] = 1]
    PROVE  RequestInv'
<1>1. RequestInv /\ pc'[r] = "done"
  BY TypeInvParts DEF Answer, RequestInv, RequestTypeOK
<1>2. /\ pc' \in [Requests -> RoutePCs \union OtherPCs]
      /\ answer' \in [Requests -> Answers]
  BY <1>1 DEF Answer, RequestInv, RequestTypeOK, RoutePCs
<1>3. /\ route' \in [Requests -> Routes]
      /\ drainTo' \in [Requests -> BOOLEAN]
      /\ targets' \in [Requests -> Seq(Sessions)]
      /\ pos' \in [Requests -> Nat]
  BY <1>1, RequestTypes
<1>4. \A x \in Requests \ {r} :
          pc'[x] = pc[x] /\ targets'[x] = targets[x] /\ pos'[x] = pos[x]
  BY <1>1 DEF Answer, RequestInv, RequestTypeOK
<1> QED
  BY <1>1, <1>2, <1>3, <1>4, RequestInvAt DEF RoutePCs, OtherPCs, SendPCs, WaitPCs

\* Only the entries of request r change, and it is not yet answered.
MovesOnly(r) ==
    /\ pc' = [pc EXCEPT ![r] = pc'[r]]
    /\ pos' = [pos EXCEPT ![r] = pos'[r]]
    /\ targets' = [targets EXCEPT ![r] = targets'[r]]
    /\ UNCHANGED answer

\* A request goes on to another point of its handler.
LEMMA MoveType ==
    ASSUME TypeInv, NEW r \in Requests, MovesOnly(r),
           pc'[r] \in IF r \in RouteRequests THEN RoutePCs ELSE OtherPCs,
           pos'[r] \in Nat, targets'[r] \in Seq(Sessions),
           deployMu' \in RouteRequests \union {None},
           route' \in [Requests -> Routes], drainTo' \in [Requests -> BOOLEAN],
           pc'[r] \in SendPCs \union WaitPCs => pos'[r] \in 1 .. Len(targets'[r]),
           pc'[r] \in {"idle", "lock", "commit"} => pos'[r] = 1,
           pc'[r] = "commit" => Len(targets'[r]) > 0
    PROVE  RequestInv'
<1>1. RequestInv
  BY TypeInvParts
<1>2. pc' \in [Requests -> RoutePCs \union OtherPCs]
  BY <1>1, RequestTypes DEF MovesOnly
<1>3. /\ answer' \in [Requests -> Answers]
      /\ targets' \in [Requests -> Seq(Sessions)]
      /\ pos' \in [Requests -> Nat]
  BY <1>1, RequestTypes DEF MovesOnly
<1>4. \A x \in Requests \ {r} :
          pc'[x] = pc[x] /\ targets'[x] = targets[x] /\ pos'[x] = pos[x]
  BY <1>1, RequestTypes DEF MovesOnly
<1> QED
  BY <1>1, <1>2, <1>3, <1>4, RequestInvAt

LEMMA TargetType ==
    ASSUME TypeInv, NEW r \in Requests, pc[r] \in SendPCs \union WaitPCs
    PROVE  Target(r) \in Sessions /\ Len(targets[r]) \in Nat /\ Len(targets[r]) > 0
<1>1. targets[r] \in Seq(Sessions) /\ pos[r] \in 1 .. Len(targets[r])
  BY TypeInvParts DEF RequestInv, RequestTypeOK
<1> QED
  BY <1>1 DEF Target

LEMMA BroadcastStepType ==
    ASSUME TypeInv, NEW r \in Requests, BroadcastStep(r)
    PROVE  TypeInv'
<1> USE TypeInvParts, TypeInvNext
<1>1. CASE SendFrame(r)
  <2>1. FrameOf(r) \in BroadcastFrames
    BY <1>1 DEF SendFrame, FrameOf, BroadcastFrames, FramesOf, RequestInv, RequestTypeOK,
                RoutePCs, OtherPCs, SendPCs, Requests
  <2>2. SessionTypeOK'
    <3>1. sendCh' \in [Sessions -> Seq(BroadcastFrames)]
      BY <1>1, <2>1, TargetType, AppendAt DEF SendFrame, SessionTypeOK
    <3> QED
      BY <1>1, <3>1 DEF SendFrame, SessionTypeOK
  <2>3. RequestInv'
    <3>1. /\ targets[r] \in Seq(Sessions) /\ pos[r] \in 1 .. Len(targets[r])
          /\ Len(targets[r]) \in Nat /\ Len(targets[r]) > 0
      BY <1>1, TargetType DEF SendFrame, RequestInv, RequestTypeOK
    <3>2. UNCHANGED <<answer, deployMu, route, drainTo, targets>>
      BY <1>1 DEF SendFrame
    <3>3. CASE pos[r] < Len(targets[r])
      <4>1. pos' = [pos EXCEPT ![r] = pos[r] + 1] /\ pc' = [pc EXCEPT ![r] = pc[r]]
        BY <1>1, <3>3 DEF SendFrame, AfterSend, RequestInv, RequestTypeOK
      <4>2. /\ pc[r] \in IF r \in RouteRequests THEN RoutePCs ELSE OtherPCs
            /\ pc[r] \notin {"idle", "lock", "commit"}
        BY <1>1 DEF SendFrame, SendPCs, RequestInv, RequestTypeOK
      <4>3. pos[r] + 1 \in 1 .. Len(targets[r])
        BY <3>1, <3>3
      <4> QED
        <5>1. /\ MovesOnly(r) /\ pc'[r] = pc[r] /\ pos'[r] = pos[r] + 1
              /\ targets'[r] = targets[r]
          BY <3>2, <4>1, RequestTypes DEF MovesOnly
        <5>2. /\ pc'[r] \in IF r \in RouteRequests THEN RoutePCs ELSE OtherPCs
              /\ pc'[r] \notin {"idle", "lock", "commit"}
              /\ pos'[r] \in Nat /\ pos'[r] \in 1 .. Len(targets'[r])
              /\ targets'[r] \in Seq(Sessions)
          BY <3>1, <4>2, <4>3, <5>1
        <5>3. /\ deployMu' \in RouteRequests \union {None}
              /\ route' \in [Requests -> Routes] /\ drainTo' \in [Requests -> BOOLEAN]
          BY <3>2, RequestTypes
        <5> QED
          BY <5>1, <5>2, <5>3, MoveType
    <3>4. CASE ~(pos[r] < Len(targets[r]))
      <4> DEFINE p == CASE pc[r] = "prepareSend" -> "prepareWait"
                        [] pc[r] = "activateSend" -> "activateWait"
                        [] OTHER -> "wait"
      <4>1. pos' = [pos EXCEPT ![r] = 1] /\ pc' = [pc EXCEPT ![r] = p]
        BY <1>1, <3>4 DEF SendFrame, AfterSend, SentAll
      <4>2. /\ p \in IF r \in RouteRequests THEN RoutePCs ELSE OtherPCs
            /\ p \notin {"idle", "lock", "commit"}
        BY <1>1 DEF SendFrame, SendPCs, RoutePCs, OtherPCs, RequestInv, RequestTypeOK
      <4> HIDE DEF p
      <4>3. 1 \in 1 .. Len(targets[r])
        BY <3>1
      <4> QED
        <5>1. MovesOnly(r) /\ pc'[r] = p /\ pos'[r] = 1 /\ targets'[r] = targets[r]
          BY <3>2, <4>1, RequestTypes DEF MovesOnly
        <5>2. /\ pc'[r] \in IF r \in RouteRequests THEN RoutePCs ELSE OtherPCs
              /\ pc'[r] \notin {"idle", "lock", "commit"}
              /\ pos'[r] \in Nat /\ pos'[r] \in 1 .. Len(targets'[r])
              /\ targets'[r] \in Seq(Sessions)
          BY <3>1, <4>2, <4>3, <5>1
        <5>3. /\ deployMu' \in RouteRequests \union {None}
              /\ route' \in [Requests -> Routes] /\ drainTo' \in [Requests -> BOOLEAN]
          BY <3>2, RequestTypes
        <5> QED
          BY <5>1, <5>2, <5>3, MoveType
    <3> QED
      BY <3>3, <3>4
  <2> QED
    BY <1>1, <2>2, <2>3, StoreKeepsType, GatewayKeepsType DEF SendFrame
<1>2. CASE TakeAck(r)
  <2>1. SessionTypeOK'
    <3>1. acks' \in [Sessions -> Seq(Replies)]
      BY <1>2, TargetType, TailAt DEF TakeAck, SessionTypeOK
    <3>2. ready' \in [Sessions -> BOOLEAN]
      BY <1>2 DEF TakeAck, AfterBroadcast, SessionTypeOK
    <3> QED
      BY <1>2, <3>1, <3>2 DEF TakeAck, SessionTypeOK
  <2>2. RequestInv'
    <3> DEFINE a == Head(acks[Target(r)])
    <3>1. CASE ~AckOf(a, r) /\ UNCHANGED <<pc, answer, deployMu, route, targets, pos, ready>>
      BY <1>2, <3>1, RequestKeepsType DEF TakeAck, requestVars
    <3>2. CASE Fail(r)
      BY <1>2, <3>2, FailType DEF TakeAck
    <3>3. CASE /\ pos[r] < Len(targets[r])
               /\ pos' = [pos EXCEPT ![r] = @ + 1]
               /\ UNCHANGED <<pc, answer, deployMu, route, targets>>
      BY <1>2, <3>3, TargetType
      DEF TakeAck, RequestInv, RequestTypeOK, LoopReset, RoutePCs, OtherPCs, SendPCs, WaitPCs
    <3>4. CASE /\ BroadcastDone(r)
               /\ pos' = [pos EXCEPT ![r] = 1]
               /\ UNCHANGED <<route, targets>>
      <4>1. CASE pc[r] = "prepareWait"
        BY <1>2, <3>4, <4>1, TargetType
        DEF TakeAck, BroadcastDone, RequestInv, RequestTypeOK, LoopReset, RoutePCs,
            OtherPCs, SendPCs, WaitPCs
      <4>2. CASE pc[r] # "prepareWait"
        <5>1. deployMu' \in RouteRequests \union {None}
          BY <3>4, <4>2 DEF BroadcastDone, Release, RequestInv, RequestTypeOK
        <5>2. Answer(r, "200") \/ Answer(r, "204")
          BY <3>4, <4>2 DEF BroadcastDone
        <5> QED
          BY <1>2, <3>4, <5>1, <5>2, AnswerType DEF TakeAck, Answers
      <4> QED
        BY <4>1, <4>2
    <3> QED
      BY <1>2, <3>1, <3>2, <3>3, <3>4 DEF TakeAck
  <2> QED
    BY <1>2, <2>1, <2>2, StoreKeepsType, GatewayKeepsType DEF TakeAck
<1>3. CASE GiveUpWaiting(r)
  <2>1. SessionTypeOK'
    BY <1>3 DEF GiveUpWaiting, AfterBroadcast, SessionTypeOK
  <2> QED
    BY <1>3, <2>1, FailType, StoreKeepsType, GatewayKeepsType DEF GiveUpWaiting
<1>4. CASE CancelSending(r)
  <2>1. SessionTypeOK'
    BY <1>4 DEF CancelSending, AfterBroadcast, SessionTypeOK
  <2> QED
    BY <1>4, <2>1, FailType, StoreKeepsType, GatewayKeepsType, DisturbKeepsType
    DEF CancelSending
<1> QED
  BY <1>1, <1>2, <1>3, <1>4, BroadcastStep(r) DEF BroadcastStep

\* The steps that begin a request, or take it from one broadcast to the next.
LEMMA RequestStepType ==
    ASSUME TypeInv,
           \/ \E r \in RouteRequests :
                 (\E e \in Expected : Stage(r, e)) \/ LockAndTarget(r) \/ Commit(r)
           \/ \E r \in InterruptRequests : StartInterrupt(r)
           \/ \E r \in DrainRequests, g \in Gateways, v \in BOOLEAN : StartDrain(r, g, v)
    PROVE  TypeInv'
<1> USE TypeInvParts, TypeInvNext
<1>a. /\ RouteRequests \subseteq Requests /\ InterruptRequests \subseteq Requests
      /\ DrainRequests \subseteq Requests
      /\ RouteRequests \intersect InterruptRequests = {}
      /\ RouteRequests \intersect DrainRequests = {}
  BY RequestsAssumption DEF Requests
<1>b. \A q \in Orders(ReadySessions) :
          ReadySessions # {} => q \in Seq(Sessions) /\ Len(q) > 0
  BY OrdersAreSequences, ReadySessionsFinite, WiderSequences DEF ReadySessions
<1>1. ASSUME NEW r \in RouteRequests, NEW e \in Expected, Stage(r, e) PROVE TypeInv'
  <2>1. e \in Nat
    BY RequestsAssumption, StoreAssumption, FS_CardinalityType DEF Expected
  <2>2. StoreTypeOK'
    BY <1>1, <2>1, StoreKeepsType DEF Stage, StageRoute, NewRoute, StoreTypeOK, Routes
  <2>3. RequestInv'
    <3>1. CASE Answer(r, "409") \/ Answer(r, "500")
      <4>1. UNCHANGED <<deployMu, route, drainTo, targets, pos>>
        <5>1. pc'[r] = "done"
          BY <1>a, <3>1, RequestTypes DEF Answer
        <5>2. pc' # [pc EXCEPT ![r] = "lock"]
          BY <1>a, <5>1, RequestTypes
        <5> QED
          BY <1>1, <5>2 DEF Stage
      <4> QED
        BY <1>a, <3>1, <4>1, RequestTypes, AnswerType DEF Answers
    <3>2. CASE /\ pc' = [pc EXCEPT ![r] = "lock"]
               /\ route' = [route EXCEPT ![r] = staged']
               /\ UNCHANGED answer
      <4>1. /\ route' \in [Requests -> Routes] /\ targets[r] \in Seq(Sessions)
            /\ pos[r] = 1
        BY <1>1, <1>a, <2>2, <3>2
        DEF Stage, RequestInv, RequestTypeOK, LoopReset, StoreTypeOK
      <4>2. UNCHANGED <<deployMu, drainTo, targets, pos>>
        BY <1>1 DEF Stage
      <4>3. "lock" \in RoutePCs /\ "lock" \notin SendPCs \union WaitPCs
        BY DEF RoutePCs, SendPCs, WaitPCs
      <4> QED
        <5>1. MovesOnly(r) /\ pc'[r] = "lock" /\ pos'[r] = 1 /\ targets'[r] = targets[r]
          BY <1>a, <3>2, <4>1, <4>2, RequestTypes DEF MovesOnly
        <5> QED
          BY <1>a, <4>1, <4>2, <4>3, <5>1, RequestTypes, MoveType
    <3> QED
      BY <1>1, <3>1, <3>2 DEF Stage
  <2> QED
    BY <1>1, <2>2, <2>3, GatewayKeepsType, SessionKeepsType, DisturbKeepsType DEF Stage
<1>2. ASSUME NEW r \in RouteRequests, LockAndTarget(r) PROVE TypeInv'
  <2>1. RequestInv'
    <3>1. CASE Fail(r)
      BY <1>2, <1>a, <3>1, FailType DEF LockAndTarget
    <3>2. CASE ~Fail(r)
      <4>1. PICK q \in Orders(ReadySessions) : targets' = [targets EXCEPT ![r] = q]
        BY <1>2, <3>2 DEF LockAndTarget
      <4>2. q \in Seq(Sessions) /\ Len(q) > 0
        BY <1>2, <1>b, <3>2, <4>1 DEF LockAndTarget
      <4>3. /\ pc' = [pc EXCEPT ![r] = "prepareSend"] /\ deployMu' = r
            /\ UNCHANGED <<answer, route, pos, drainTo>> /\ pos[r] = 1
        BY <1>2, <1>a, <3>2 DEF LockAndTarget, RequestInv, LoopReset
      <4>4. "prepareSend" \in RoutePCs /\ 1 \in 1 .. Len(q)
        BY <4>2 DEF RoutePCs
      <4> QED
        <5>1. MovesOnly(r) /\ pc'[r] = "prepareSend" /\ pos'[r] = 1 /\ targets'[r] = q
          BY <1>a, <4>1, <4>3, RequestTypes DEF MovesOnly
        <5> QED
          BY <1>a, <4>2, <4>3, <4>4, <5>1, RequestTypes, MoveType
    <3> QED
      BY <3>1, <3>2
  <2> QED
    BY <1>2, <2>1, StoreKeepsType, GatewayKeepsType, SessionKeepsType DEF LockAndTarget
<1>3. ASSUME NEW r \in RouteRequests, Commit(r) PROVE TypeInv'
  <2>1. StoreTypeOK'
    BY <1>3, NoRouteType, StoreKeepsType DEF Commit, ActivateRoute, StoreTypeOK
  <2>2. RequestInv'
    <3>1. CASE Fail(r)
      BY <1>3, <1>a, <3>1, FailType DEF Commit
    <3>2. CASE ~Fail(r)
      <4>1. /\ pc' = [pc EXCEPT ![r] = "activateSend"]
            /\ UNCHANGED <<answer, deployMu, route, targets, pos, drainTo>>
            /\ pos[r] = 1 /\ targets[r] \in Seq(Sessions) /\ Len(targets[r]) > 0
        BY <1>3, <1>a, <3>2 DEF Commit, RequestInv, RequestTypeOK, LoopReset
      <4>2. "activateSend" \in RoutePCs /\ 1 \in 1 .. Len(targets[r])
        BY <4>1 DEF RoutePCs
      <4> QED
        <5>1. /\ MovesOnly(r) /\ pc'[r] = "activateSend" /\ pos'[r] = 1
              /\ targets'[r] = targets[r]
          BY <1>a, <4>1, RequestTypes DEF MovesOnly
        <5> QED
          BY <1>a, <4>1, <4>2, <5>1, RequestTypes, MoveType
    <3> QED
      BY <3>1, <3>2
  <2> QED
    BY <1>3, <2>1, <2>2, GatewayKeepsType, SessionKeepsType, DisturbKeepsType DEF Commit
<1>4. ASSUME NEW r \in InterruptRequests, StartInterrupt(r) PROVE TypeInv'
  <2>1. RequestInv'
    <3>1. CASE Answer(r, "503") /\ UNCHANGED targets
      BY <1>4, <1>a, <3>1, RequestTypes, AnswerType DEF StartInterrupt, Answers
    <3>2. CASE ReadySessions # {}
      <4>1. PICK q \in Orders(ReadySessions) : targets' = [targets EXCEPT ![r] = q]
        BY <1>4, <3>2 DEF StartInterrupt
      <4>2. q \in Seq(Sessions) /\ Len(q) > 0
        BY <1>b, <3>2, <4>1
      <4>3. /\ pc' = [pc EXCEPT ![r] = "send"]
            /\ UNCHANGED <<answer, deployMu, route, pos, drainTo>> /\ pos[r] = 1
        BY <1>4, <1>a, <3>2 DEF StartInterrupt, RequestInv, LoopReset
      <4>4. "send" \in OtherPCs /\ r \notin RouteRequests /\ 1 \in 1 .. Len(q)
        BY <1>a, <4>2 DEF OtherPCs
      <4> QED
        <5>1. MovesOnly(r) /\ pc'[r] = "send" /\ pos'[r] = 1 /\ targets'[r] = q
          BY <1>a, <4>1, <4>3, RequestTypes DEF MovesOnly
        <5> QED
          BY <1>a, <4>2, <4>3, <4>4, <5>1, RequestTypes, MoveType
    <3> QED
      BY <1>4, <3>1, <3>2 DEF StartInterrupt
  <2> QED
    BY <1>4, <2>1, StoreKeepsType, GatewayKeepsType, SessionKeepsType DEF StartInterrupt
<1>5. ASSUME NEW r \in DrainRequests, NEW g \in Gateways, NEW v \in BOOLEAN,
             StartDrain(r, g, v)
      PROVE  TypeInv'
  <2>1. RequestInv'
    <3>1. CASE hubSession[g] = None
      BY <1>5, <1>a, <3>1, RequestTypes, AnswerType DEF StartDrain, Answers
    <3>2. CASE hubSession[g] # None
      <4>1. <<hubSession[g]>> \in Seq(Sessions) /\ Len(<<hubSession[g]>>) = 1
        BY <3>2 DEF SessionTypeOK
      <4>2. /\ pc' = [pc EXCEPT ![r] = "send"]
            /\ targets' = [targets EXCEPT ![r] = <<hubSession[g]>>]
            /\ UNCHANGED <<answer, deployMu, route, pos>> /\ pos[r] = 1
            /\ drainTo' = [drainTo EXCEPT ![r] = v]
        BY <1>5, <1>a, <3>2 DEF StartDrain, RequestInv, LoopReset
      <4>d. drainTo' \in [Requests -> BOOLEAN]
        BY <1>5, <1>a, <4>2, RequestTypes
      <4>3. /\ "send" \in OtherPCs /\ r \notin RouteRequests
            /\ 1 \in 1 .. Len(<<hubSession[g]>>)
        BY <1>a, <4>1 DEF OtherPCs
      <4> QED
        <5>1. /\ MovesOnly(r) /\ pc'[r] = "send" /\ pos'[r] = 1
              /\ targets'[r] = <<hubSession[g]>>
          BY <1>a, <4>2, RequestTypes DEF MovesOnly
        <5> QED
          BY <1>a, <4>1, <4>2, <4>d, <4>3, <5>1, RequestTypes, MoveType
    <3> QED
      BY <3>1, <3>2
  <2> QED
    BY <1>5, <2>1, StoreKeepsType, GatewayKeepsType, SessionKeepsType DEF StartDrain
<1> QED
  BY <1>1, <1>2, <1>3, <1>4, <1>5

LEMMA RestartStepType ==
    ASSUME TypeInv, ControlPlaneRestart
    PROVE  TypeInv'
<1>1. RequestInv'
  BY TypeInvParts
  DEF ControlPlaneRestart, RequestInv, RequestTypeOK, LoopReset, RoutePCs, OtherPCs, SendPCs,
      WaitPCs, Answers
<1>2. SessionTypeOK'
  BY TypeInvParts DEF ControlPlaneRestart, SessionTypeOK
<1> QED
  BY <1>1, <1>2, TypeInvParts, TypeInvNext, StoreKeepsType, GatewayKeepsType, DisturbKeepsType
  DEF ControlPlaneRestart

LEMMA TypeStep == TypeInv /\ [Next]_vars => TypeInv'
<1> SUFFICES ASSUME TypeInv, [Next]_vars PROVE TypeInv'
  OBVIOUS
<1>1. CASE UNCHANGED vars
  BY <1>1, TypeInvParts, TypeInvNext, StoreKeepsType, GatewayKeepsType, RequestKeepsType,
     SessionKeepsType DEF vars
<1>2. CASE Next
  BY <1>2, SessionStepType, GatewayStepType, BroadcastStepType, RequestStepType,
     RestartStepType DEF Next
<1> QED
  BY <1>1, <1>2

\* The variables have their types and the loops of broadcastAndWait stay within
\* the slice of sessions, in every reachable state.
THEOREM TypeCorrect == Spec => []TypeOK
<1>1. TypeInv => TypeOK
  BY DEF TypeInv
<1> QED
  BY <1>1, TypeInit, TypeStep, PTL DEF Spec
===============================================================================
