------------------------ MODULE RoutePublicationDelivery ------------------------
(***************************************************************************)
(* What a request may conclude from the acknowledgements it collects: for  *)
(* every value of the CONSTANTS, a 200 is durable, an ACTIVATE finds its   *)
(* route prepared, no acknowledgement goes missing while deployments have  *)
(* the ack channels for themselves, and a drained gateway stays out of the *)
(* quorum.                                                                 *)
(***************************************************************************)
EXTENDS RoutePublicationRefinement

\* The request whose ACTIVATE the gateway of session s is applying, or None.
Applies(s) == IF Linked(s) THEN applying[owner[s]] ELSE None

\* Nothing of request r is on its way to the gateway of session s or back.
Quiet(r, s) ==
    /\ ~HasFrame(sendCh[s], r) /\ ~HasFrame(wire[s], r) /\ Applies(s) # r
    /\ ~HasFrame(up[s], r) /\ ~HasFrame(acks[s], r)

OnceIn(q, r) == \A i, j \in DOMAIN q : q[i].req = r /\ q[j].req = r => i = j

\* At most one frame or acknowledgement of r is on its way on session s.
Once(r, s) ==
    /\ OnceIn(sendCh[s], r) /\ OnceIn(wire[s], r) /\ OnceIn(up[s], r) /\ OnceIn(acks[s], r)
    /\ HasFrame(sendCh[s], r) =>
          /\ ~HasFrame(wire[s], r) /\ Applies(s) # r
          /\ ~HasFrame(up[s], r) /\ ~HasFrame(acks[s], r)
    /\ HasFrame(wire[s], r) =>
          Applies(s) # r /\ ~HasFrame(up[s], r) /\ ~HasFrame(acks[s], r)
    /\ Applies(s) = r => ~HasFrame(up[s], r) /\ ~HasFrame(acks[s], r)
    /\ HasFrame(up[s], r) => ~HasFrame(acks[s], r)

\* How far the deployment r is with its i-th session.
Progress(r, i) ==
    CASE pc[r] = "prepareSend" -> IF i < pos[r] THEN "asked" ELSE "unasked"
      [] pc[r] = "prepareWait" -> IF i < pos[r] THEN "prepared" ELSE "asked"
      [] pc[r] = "commit" -> "prepared"
      [] pc[r] = "activateSend" -> IF i < pos[r] THEN "activating" ELSE "prepared"
      [] pc[r] = "activateWait" -> IF i < pos[r] THEN "activated" ELSE "activating"
      [] pc[r] = "done" /\ answer[r] = "200" -> "activated"
      [] OTHER -> "over"

DeployPCs == {"prepareSend", "prepareWait", "commit", "activateSend", "activateWait"}

-------------------------------------------------------------------------------
(* The sessions and the requests' targets *)

\* A session that is not yet open has carried nothing.
UnopenedInv ==
    \A s \in Sessions :
        /\ s > opened => sendCh[s] = <<>> /\ up[s] = <<>> /\ acks[s] = <<>> /\ ~ready[s]
        /\ s <= opened => owner[s] \in Gateways
        /\ ready[s] => phase[s] # "registered"

\* A gateway applies an ACTIVATE on its session; the hub's session of a gateway is one
\* that the gateway has opened.
HeldInv ==
    \A g \in Gateways :
        /\ applying[g] # None => link[g] # None
        /\ hubSession[g] # None => hubSession[g] <= opened /\ owner[hubSession[g]] = g

PlainReplies == {f \in Replies : f.type = "HEARTBEAT" => f.req = None}

RepliesInv == up \in [Sessions -> Seq(PlainReplies)]

\* The sessions of a deployment are different sessions that have got their SNAPSHOT;
\* one deployment is under way at a time.
TargetsAt(r) ==
    /\ pc[r] # "done" => answer[r] = "none"
    /\ \A i \in DOMAIN targets[r] : phase[targets[r][i]] # "registered"
    /\ \A i, j \in DOMAIN targets[r] : targets[r][i] = targets[r][j] => i = j
    /\ pc[r] \in DeployPCs => deployMu = r

TargetsInv ==
    /\ \A r \in Requests : \A i \in DOMAIN targets[r] : targets[r][i] <= opened
    /\ \A r \in RouteRequests : TargetsAt(r)

BaseInv == IInv /\ UnopenedInv /\ HeldInv /\ RepliesInv /\ TargetsInv

-------------------------------------------------------------------------------
(* Queues *)

LEMMA EmptyQueue == ASSUME NEW r PROVE ~HasFrame(<<>>, r) /\ OnceIn(<<>>, r)
  BY DEF HasFrame, OnceIn

LEMMA AppendQueue ==
    ASSUME NEW S, NEW q \in Seq(S), NEW f \in S, NEW r
    PROVE  /\ HasFrame(Append(q, f), r) <=> HasFrame(q, r) \/ f.req = r
           /\ OnceIn(q, r) /\ (f.req = r => ~HasFrame(q, r)) => OnceIn(Append(q, f), r)
<1>1. /\ DOMAIN Append(q, f) = 1 .. Len(q) + 1 /\ DOMAIN q = 1 .. Len(q) /\ Len(q) \in Nat
      /\ \A i \in 1 .. Len(q) : Append(q, f)[i] = q[i]
      /\ Append(q, f)[Len(q) + 1] = f
  OBVIOUS
<1> DEFINE a == Append(q, f)
<1> HIDE DEF a
<1>2. HasFrame(a, r) <=> HasFrame(q, r) \/ f.req = r
  <2>1. ASSUME HasFrame(a, r) PROVE HasFrame(q, r) \/ f.req = r
    BY <1>1, <2>1 DEF HasFrame, a
  <2>2. ASSUME HasFrame(q, r) PROVE HasFrame(a, r)
    <3>1. PICK i \in 1 .. Len(q) : q[i].req = r
      BY <1>1, <2>2 DEF HasFrame
    <3> QED
      BY <1>1, <3>1 DEF HasFrame, a
  <2>3. ASSUME f.req = r PROVE HasFrame(a, r)
    BY <1>1, <2>3 DEF HasFrame, a
  <2> QED
    BY <2>1, <2>2, <2>3
<1>3. ASSUME OnceIn(q, r), f.req = r => ~HasFrame(q, r) PROVE OnceIn(a, r)
  BY <1>1, <1>3 DEF HasFrame, OnceIn, a
<1> QED
  BY <1>2, <1>3 DEF a

LEMMA TailQueue ==
    ASSUME NEW S, NEW q \in Seq(S), q # <<>>, NEW r
    PROVE  /\ HasFrame(q, r) <=> Head(q).req = r \/ HasFrame(Tail(q), r)
           /\ OnceIn(q, r) => /\ OnceIn(Tail(q), r)
                              /\ ~(Head(q).req = r /\ HasFrame(Tail(q), r))
<1>1. /\ DOMAIN Tail(q) = 1 .. Len(q) - 1 /\ DOMAIN q = 1 .. Len(q) /\ Len(q) \in Nat \ {0}
      /\ \A i \in 1 .. Len(q) - 1 : Tail(q)[i] = q[i + 1]
      /\ Head(q) = q[1]
  OBVIOUS
<1> DEFINE t == Tail(q)
<1> HIDE DEF t
<1>2. HasFrame(q, r) <=> Head(q).req = r \/ HasFrame(t, r)
  <2>1. ASSUME HasFrame(q, r) PROVE Head(q).req = r \/ HasFrame(t, r)
    <3>1. PICK i \in 1 .. Len(q) : q[i].req = r
      BY <1>1, <2>1 DEF HasFrame
    <3>2. CASE i = 1
      BY <1>1, <3>1, <3>2
    <3>3. CASE i # 1
      <4>1. i - 1 \in 1 .. Len(q) - 1 /\ t[i - 1] = q[i]
        BY <1>1, <3>3 DEF t
      <4> QED
        BY <1>1, <3>1, <4>1 DEF HasFrame, t
    <3> QED
      BY <3>2, <3>3
  <2>2. ASSUME HasFrame(t, r) PROVE HasFrame(q, r)
    <3>1. PICK i \in 1 .. Len(q) - 1 : t[i].req = r
      BY <1>1, <2>2 DEF HasFrame, t
    <3>2. i + 1 \in 1 .. Len(q) /\ q[i + 1] = t[i]
      BY <1>1 DEF t
    <3> QED
      BY <1>1, <3>1, <3>2 DEF HasFrame
  <2>3. ASSUME Head(q).req = r PROVE HasFrame(q, r)
    BY <1>1, <2>3 DEF HasFrame
  <2> QED
    BY <2>1, <2>2, <2>3
<1>3. ASSUME OnceIn(q, r) PROVE OnceIn(t, r)
  <2> SUFFICES ASSUME NEW i \in 1 .. Len(q) - 1, NEW j \in 1 .. Len(q) - 1,
                      t[i].req = r, t[j].req = r
               PROVE  i = j
    BY <1>1 DEF OnceIn, t
  <2>1. /\ i + 1 \in 1 .. Len(q) /\ q[i + 1].req = r
        /\ j + 1 \in 1 .. Len(q) /\ q[j + 1].req = r
    BY <1>1 DEF t
  <2>2. i + 1 = j + 1
    BY <1>1, <1>3, <2>1 DEF OnceIn
  <2> QED
    BY <2>2
<1>4. ASSUME OnceIn(q, r), Head(q).req = r, HasFrame(t, r) PROVE FALSE
  <2>1. PICK i \in 1 .. Len(q) - 1 : t[i].req = r
    BY <1>1, <1>4 DEF HasFrame, t
  <2>2. i + 1 \in 1 .. Len(q) /\ q[i + 1].req = r /\ 1 \in 1 .. Len(q) /\ q[1].req = r
    BY <1>1, <1>4, <2>1 DEF t
  <2> QED
    BY <1>1, <1>4, <2>2 DEF OnceIn
<1> QED
  BY <1>2, <1>3, <1>4 DEF t

-------------------------------------------------------------------------------
(* Steps *)

\* A step of the handler of request r.
RequestStep(r) ==
    \/ /\ r \in RouteRequests
       /\ (\E e \in Expected : Stage(r, e)) \/ LockAndTarget(r) \/ Commit(r)
    \/ r \in InterruptRequests /\ StartInterrupt(r)
    \/ r \in DrainRequests /\ \E g \in Gateways, v \in BOOLEAN : StartDrain(r, g, v)
    \/ BroadcastStep(r)

LEMMA StepKinds ==
    ASSUME [Next]_vars
    PROVE  \/ \E s \in Sessions : SessionStep(s)
           \/ \E g \in Gateways : GatewayStep(g)
           \/ \E r \in Requests : RequestStep(r)
           \/ ControlPlaneRestart
           \/ UNCHANGED vars
  BY DEF Next, RequestStep, Requests

LEMMA RemoteStepsKeepRequests ==
    /\ \A s \in Sessions : SessionStep(s) => UNCHANGED requestVars
    /\ \A g \in Gateways : GatewayStep(g) => UNCHANGED requestVars
<1>1. ASSUME NEW s \in Sessions, SessionStep(s) PROVE UNCHANGED requestVars
  BY <1>1 DEF SessionStep, SendSnapshot, ForwardFrame, HubReceive, CloseSession
<1>2. ASSUME NEW g \in Gateways, GatewayStep(g) PROVE UNCHANGED requestVars
  BY <1>2
  DEF GatewayStep, Connect, ClientDisconnect, OnSnapshot, OnPrepare, OnActivate, OnActivated,
      OnInterrupt, OnSetDraining, Heartbeat, LocalDrain, Canary, GatewayRestart, Handled
<1> QED
  BY <1>1, <1>2

\* A request's step leaves the locals of the others alone.
LEMMA RequestStepLocal ==
    ASSUME TypeInv, NEW r \in Requests, RequestStep(r), NEW x \in Requests \ {r}
    PROVE  /\ pc'[x] = pc[x] /\ pos'[x] = pos[x] /\ targets'[x] = targets[x]
           /\ route'[x] = route[x] /\ answer'[x] = answer[x] /\ drainTo'[x] = drainTo[x]
<1>0. RequestInv
  BY TypeInvParts
<1>1. CASE BroadcastStep(r)
  BY <1>0, <1>1, RequestTypes
  DEF BroadcastStep, SendFrame, AfterSend, SentAll, TakeAck, GiveUpWaiting, CancelSending,
      Fail, Answer, BroadcastDone
<1>2. CASE (\E e \in Expected : Stage(r, e)) \/ LockAndTarget(r) \/ Commit(r)
  BY <1>0, <1>2, RequestTypes DEF Stage, LockAndTarget, Commit, Fail, Answer
<1>3. CASE StartInterrupt(r) \/ \E g \in Gateways, v \in BOOLEAN : StartDrain(r, g, v)
  BY <1>0, <1>3, RequestTypes DEF StartInterrupt, StartDrain, Answer
<1> QED
  BY <1>1, <1>2, <1>3 DEF RequestStep

\* What a request's step does to the sessions.
LEMMA RequestStepSessions ==
    ASSUME TypeInv, NEW r \in Requests, RequestStep(r)
    PROVE  /\ UNCHANGED <<gatewayVars, opened, owner, phase, hubSession, wire, up, link>>
           /\ \/ UNCHANGED sendCh
              \/ /\ SendFrame(r) /\ Target(r) \in Sessions
                 /\ FrameOf(r) \in BroadcastFrames /\ FrameOf(r) \in Frames
                 /\ sendCh' = [sendCh EXCEPT ![Target(r)] = Append(@, FrameOf(r))]
                 /\ UNCHANGED acks
           /\ \/ UNCHANGED acks
              \/ /\ TakeAck(r) /\ Target(r) \in Sessions /\ acks[Target(r)] # <<>>
                 /\ acks' = [acks EXCEPT ![Target(r)] = Tail(@)]
                 /\ UNCHANGED sendCh
           /\ \/ UNCHANGED ready
              \/ r \in DrainRequests /\ ready' = [ready EXCEPT ![targets[r][1]] = FALSE]
<1>1. CASE SendFrame(r)
  <2>1. pc[r] \in SendPCs
    BY <1>1 DEF SendFrame
  <2>2. FrameOf(r) \in BroadcastFrames
    BY <2>1, TypeInvParts
    DEF FrameOf, BroadcastFrames, FramesOf, RequestInv, RequestTypeOK, RoutePCs, OtherPCs,
        SendPCs, Requests
  <2> QED
    BY <1>1, <2>1, <2>2, TargetType, BroadcastFramesAreFrames DEF SendFrame
<1>2. CASE TakeAck(r)
  <2>1. pc[r] \in WaitPCs
    BY <1>2 DEF TakeAck
  <2>2. \/ UNCHANGED ready
        \/ r \in DrainRequests /\ ready' = [ready EXCEPT ![targets[r][1]] = FALSE]
    BY <1>2 DEF TakeAck, AfterBroadcast
  <2> QED
    BY <1>2, <2>1, <2>2, TargetType DEF TakeAck
<1>3. CASE GiveUpWaiting(r) \/ CancelSending(r)
  BY <1>3 DEF GiveUpWaiting, CancelSending, AfterBroadcast
<1>4. CASE ~BroadcastStep(r)
  BY <1>4 DEF RequestStep, Stage, LockAndTarget, Commit, StartInterrupt, StartDrain,
              sessionVars
<1> QED
  BY <1>1, <1>2, <1>3, <1>4 DEF BroadcastStep

\* What a gateway's step does to the hub's side: only replies on its own stream.
LEMMA GatewayStepReplies ==
    ASSUME TypeInv, NEW g \in Gateways, GatewayStep(g)
    PROVE  /\ UNCHANGED <<sendCh, acks, ready>>
           /\ Connect(g) \/ UNCHANGED hubSession
           /\ \/ UNCHANGED up
              \/ /\ link[g] \in Sessions /\ phase[link[g]] # "closed"
                 /\ \E f \in PlainReplies : up' = [up EXCEPT ![link[g]] = Append(@, f)]
<1>0. link[g] = None \/ link[g] \in Sessions
  BY TypeInvParts DEF SessionTypeOK
<1>1. CASE \/ Connect(g) \/ ClientDisconnect(g) \/ LocalDrain(g) \/ Canary(g)
           \/ GatewayRestart(g)
  BY <1>1 DEF Connect, ClientDisconnect, LocalDrain, Canary, GatewayRestart, sessionVars
<1>2. CASE \/ OnSnapshot(g) \/ OnPrepare(g) \/ OnInterrupt(g) \/ OnSetDraining(g)
           \/ OnActivate(g)
  <2>1. PICK type : Received(g, type)
    BY <1>2 DEF OnSnapshot, OnPrepare, OnActivate, OnInterrupt, OnSetDraining
  <2>2. link[g] \in Sessions /\ Frame(g) \in Frames
    BY <2>1, ReceivedFrame
  <2>3. \A ok \in BOOLEAN : Ack(Frame(g).req, ok) \in PlainReplies
    BY <2>2, FrameParts DEF Ack, PlainReplies, Replies
  <2>4. /\ UNCHANGED <<sendCh, acks, ready, hubSession>>
        /\ UNCHANGED up \/ \E ok \in BOOLEAN : Reply(g, Ack(Frame(g).req, ok))
    BY <1>2 DEF OnSnapshot, OnPrepare, OnInterrupt, OnSetDraining, OnActivate, Handled
  <2> QED
    BY <2>2, <2>3, <2>4 DEF Reply
<1>3. CASE OnActivated(g)
  <2>1. applying[g] \in RouteRequests
    BY <1>3, TypeInvParts DEF OnActivated, GatewayTypeOK
  <2>2. \A ok \in BOOLEAN : Ack(applying[g], ok) \in PlainReplies
    BY <2>1 DEF Ack, PlainReplies, Replies, Requests
  <2>3. /\ UNCHANGED <<sendCh, acks, ready, hubSession>>
        /\ \E ok \in BOOLEAN : Reply(g, Ack(applying[g], ok))
    BY <1>3 DEF OnActivated
  <2>4. up' = up \/ phase[link[g]] # "closed" 
    BY <2>3 DEF Reply
  <2>5. CASE link[g] \in Sessions
    BY <2>2, <2>3, <2>5 DEF Reply
  <2>6. CASE link[g] \notin Sessions
    <3>1. up \in [Sessions -> Seq(Replies)]
      BY TypeInvParts DEF SessionTypeOK
    <3>2. \A f : [up EXCEPT ![link[g]] = Append(@, f)] = up
      BY <2>6, <3>1
    <3> QED
      BY <2>3, <3>2 DEF Reply
  <2> QED
    BY <2>5, <2>6
<1>4. CASE Heartbeat(g)
  <2>1. [type |-> "HEARTBEAT", req |-> None, ok |-> Ready(g)] \in PlainReplies
    BY TypeInvParts DEF Ready, GatewayTypeOK, PlainReplies, Replies
  <2> QED
    BY <1>0, <1>4, <2>1 DEF Heartbeat, Reply
<1> QED
  BY <1>1, <1>2, <1>3, <1>4 DEF GatewayStep

-------------------------------------------------------------------------------
(* BaseInv is inductive *)

LEMMA BaseParts ==
    ASSUME BaseInv
    PROVE  /\ IInv /\ VersionInv /\ StreamInv /\ ServedInv /\ TypeInv /\ LinkInv /\ FreshInv
           /\ UnopenedInv /\ HeldInv /\ RepliesInv /\ TargetsInv
           /\ SessionTypeOK /\ GatewayTypeOK /\ RequestInv
           /\ opened \in Nat
<1>1. TypeInv
  BY DEF BaseInv, IInv, VersionInv
<1>2. opened \in Nat
  BY <1>1, TypeInvParts, BoundsAssumption DEF SessionTypeOK
<1> QED
  BY <1>1, <1>2, TypeInvParts DEF BaseInv, IInv, StreamInv

\* A session that is open stays its gateway's; closed or past its SNAPSHOT it stays so,
\* and a gateway that has left it does not come back to it.
LEMMA SessionsStay ==
    ASSUME BaseInv, [Next]_vars, NEW s \in Sessions, s <= opened
    PROVE  /\ owner[s] \in Gateways /\ owner'[s] = owner[s]
           /\ opened' \in {opened, opened + 1}
           /\ phase[s] = "closed" => phase'[s] = "closed"
           /\ phase[s] # "registered" => phase'[s] # "registered"
           /\ Linked(s)' => Linked(s)
<1>0. /\ SessionTypeOK /\ TypeInv /\ opened \in Nat /\ owner[s] \in Gateways
      /\ None \notin Sessions
  BY BaseParts, RequestsAssumption DEF UnopenedInv
<1>1. ASSUME NEW t \in Sessions, SessionStep(t)
      PROVE  /\ UNCHANGED <<opened, owner, link>>
             /\ phase[s] = "closed" => phase'[s] = "closed"
             /\ phase[s] # "registered" => phase'[s] # "registered"
  BY <1>0, <1>1, SessionStepLocal
<1>2. ASSUME NEW g \in Gateways, Connect(g)
      PROVE  /\ opened' = opened + 1 /\ owner'[s] = owner[s] /\ phase'[s] = phase[s]
             /\ \A h \in Gateways : link'[h] = link[h] \/ link'[h] = opened'
             /\ s # opened'
  BY <1>0, <1>2 DEF Connect, SessionTypeOK
<1>3. ASSUME UNCHANGED <<opened, owner>>, UNCHANGED phase \/ phase' = [x \in Sessions |-> "closed"],
             \A h \in Gateways : link'[h] \in {link[h], None}
      PROVE  /\ owner'[s] = owner[s] /\ Linked(s)' => Linked(s)
             /\ opened' \in {opened, opened + 1}
             /\ phase[s] = "closed" => phase'[s] = "closed"
             /\ phase[s] # "registered" => phase'[s] # "registered"
  BY <1>0, <1>3 DEF Linked
<1>4. ASSUME NEW g \in Gateways, GatewayStep(g), ~Connect(g)
      PROVE  /\ UNCHANGED <<opened, owner, phase>>
             /\ \A h \in Gateways : link'[h] \in {link[h], None}
  BY <1>0, <1>4, GatewayStepStream DEF SessionTypeOK
<1>5. CASE \E t \in Sessions : SessionStep(t)
  BY <1>0, <1>1, <1>5 DEF Linked
<1>6. CASE \E g \in Gateways : GatewayStep(g)
  <2>1. CASE \E g \in Gateways : Connect(g)
    BY <1>0, <1>2, <2>1 DEF Linked
  <2>2. CASE \E g \in Gateways : GatewayStep(g) /\ ~Connect(g)
    BY <1>0, <1>3, <1>4, <2>2
  <2> QED
    BY <1>6, <2>1, <2>2
<1>7. CASE UNCHANGED <<opened, owner, link>> /\ (UNCHANGED phase \/ phase' = [x \in Sessions |-> "closed"])
  BY <1>0, <1>3, <1>7
<1> QED
  BY <1>0, <1>5, <1>6, <1>7, RemoteSteps

LEMMA UnopenedStep ==
    ASSUME BaseInv, [Next]_vars
    PROVE  UnopenedInv' /\ RepliesInv'
<1>0. /\ SessionTypeOK /\ TypeInv /\ opened \in Nat /\ UnopenedInv /\ RepliesInv
      /\ sendCh \in [Sessions -> Seq(BroadcastFrames)] /\ acks \in [Sessions -> Seq(Replies)]
      /\ up \in [Sessions -> Seq(PlainReplies)] /\ ready \in [Sessions -> BOOLEAN]
      /\ None \notin Sessions
  BY BaseParts, RequestsAssumption DEF SessionTypeOK, RepliesInv
<1>1. ASSUME NEW s \in Sessions, SessionStep(s) PROVE UnopenedInv' /\ RepliesInv'
  <2>1. /\ UNCHANGED <<opened, owner>> /\ \A t \in Sessions \ {s} : phase'[t] = phase[t]
        /\ phase'[s] # "registered" \/ phase'[s] = phase[s]
    BY <1>0, <1>1, SessionStepLocal
  <2>2. CASE SendSnapshot(s)
    BY <1>0, <2>1, <2>2 DEF SendSnapshot, UnopenedInv, RepliesInv
  <2>3. CASE ForwardFrame(s)
    <3>1. ~(s > opened)
      BY <1>0, <2>3 DEF ForwardFrame, UnopenedInv
    <3> QED
      BY <1>0, <2>1, <2>3, <3>1 DEF ForwardFrame, UnopenedInv, RepliesInv
  <2>4. CASE HubReceive(s)
    <3>1. ~(s > opened) /\ phase[s] # "registered" /\ up[s] # <<>> /\ UNCHANGED <<sendCh, phase>>
      BY <1>0, <2>4 DEF HubReceive, UnopenedInv
    <3>2. /\ up' = [up EXCEPT ![s] = Tail(@)]
          /\ \A t \in Sessions \ {s} : acks'[t] = acks[t] /\ ready'[t] = ready[t]
      BY <1>0, <2>4 DEF HubReceive, StoreReady
    <3>3. RepliesInv'
      <4>1. [up EXCEPT ![s] = Tail(@)] \in [Sessions -> Seq(PlainReplies)]
        BY <1>0, <3>1, TailAt
      <4> QED
        BY <3>2, <4>1 DEF RepliesInv
    <3>4. UnopenedInv'
      BY <1>0, <2>1, <3>1, <3>2 DEF UnopenedInv
    <3> QED
      BY <3>3, <3>4
  <2>5. CASE CloseSession(s)
    <3>1. UNCHANGED <<sendCh, acks, ready>> /\ (up' = up \/ up' = [up EXCEPT ![s] = <<>>])
      BY <2>5 DEF CloseSession
    <3>2. RepliesInv'
      <4>1. <<>> \in Seq(PlainReplies)
        OBVIOUS
      <4>2. [up EXCEPT ![s] = <<>>] \in [Sessions -> Seq(PlainReplies)]
        BY <1>0, <4>1
      <4> QED
        BY <1>0, <3>1, <4>2 DEF RepliesInv
    <3>3. UnopenedInv'
      BY <1>0, <2>1, <3>1 DEF UnopenedInv
    <3> QED
      BY <3>2, <3>3
  <2> QED
    BY <1>1, <2>2, <2>3, <2>4, <2>5 DEF SessionStep
<1>2. ASSUME NEW g \in Gateways, GatewayStep(g) PROVE UnopenedInv' /\ RepliesInv'
  <2>1. UNCHANGED <<sendCh, acks, ready>>
    BY <1>0, <1>2, GatewayStepReplies
  <2>2. CASE Connect(g)
    <3>1. /\ opened' = opened + 1 /\ opened' \in Sessions /\ up' = up
          /\ owner' = [owner EXCEPT ![opened'] = g]
          /\ phase' = [phase EXCEPT ![opened'] = "registered"]
      BY <1>0, <2>2, BoundsAssumption DEF Connect, SessionTypeOK, Sessions
    <3> QED
      BY <1>0, <2>1, <3>1 DEF UnopenedInv, RepliesInv, SessionTypeOK, Sessions
  <2>3. CASE ~Connect(g)
    <3>1. UNCHANGED <<opened, owner, phase>>
      BY <1>0, <1>2, <2>3, GatewayStepStream
    <3>2. CASE UNCHANGED up
      BY <1>0, <2>1, <3>1, <3>2 DEF UnopenedInv, RepliesInv
    <3>3. ASSUME link[g] \in Sessions, NEW f \in PlainReplies,
                 up' = [up EXCEPT ![link[g]] = Append(@, f)]
          PROVE  UnopenedInv' /\ RepliesInv'
      <4>1. link[g] <= opened
        BY <1>0, <3>3, BaseParts DEF LinkInv
      <4>2. RepliesInv'
        BY <1>0, <3>3, AppendAt DEF RepliesInv
      <4>3. UnopenedInv'
        BY <1>0, <2>1, <3>1, <3>3, <4>1 DEF UnopenedInv, Sessions
      <4> QED
        BY <4>2, <4>3
    <3> QED
      BY <1>0, <1>2, <3>2, <3>3, GatewayStepReplies
  <2> QED
    BY <2>2, <2>3
<1>3. ASSUME NEW r \in Requests, RequestStep(r) PROVE UnopenedInv' /\ RepliesInv'
  <2>1. UNCHANGED <<opened, owner, phase, up>>
    BY <1>0, <1>3, RequestStepSessions
  <2>2. pc[r] \in SendPCs \union WaitPCs => Target(r) <= opened
    <3>1. pc[r] \in SendPCs \union WaitPCs => pos[r] \in DOMAIN targets[r]
      BY <1>0, TypeInvParts DEF RequestInv, RequestTypeOK
    <3> QED
      BY <3>1, BaseParts DEF TargetsInv, Target
  <2>3. \A s \in Sessions : s > opened => sendCh'[s] = sendCh[s] /\ acks'[s] = acks[s]
    <3>1. CASE SendFrame(r) \/ TakeAck(r)
      <4>1. Target(r) \in Sessions /\ Target(r) <= opened
        BY <1>0, <2>2, <3>1, TargetType DEF SendFrame, TakeAck
      <4>2. \A s \in Sessions : s > opened => s # Target(r)
        BY <1>0, <4>1 DEF Sessions
      <4>3. /\ UNCHANGED sendCh
               \/ sendCh' = [sendCh EXCEPT ![Target(r)] = Append(@, FrameOf(r))]
            /\ UNCHANGED acks \/ acks' = [acks EXCEPT ![Target(r)] = Tail(@)]
        BY <1>0, <1>3, RequestStepSessions
      <4> QED
        BY <1>0, <4>2, <4>3
    <3>2. CASE ~(SendFrame(r) \/ TakeAck(r))
      BY <1>0, <1>3, <3>2, RequestStepSessions
    <3> QED
      BY <3>1, <3>2
  <2>4. \A s \in Sessions : ready'[s] => ready[s]
    BY <1>0, <1>3, RequestStepSessions
  <2> QED
    BY <1>0, <2>1, <2>3, <2>4 DEF UnopenedInv, RepliesInv
<1>4. ASSUME ControlPlaneRestart PROVE UnopenedInv' /\ RepliesInv'
  BY <1>0, <1>4 DEF ControlPlaneRestart, UnopenedInv, RepliesInv
<1>5. ASSUME UNCHANGED vars PROVE UnopenedInv' /\ RepliesInv'
  BY <1>0, <1>5 DEF vars, sessionVars, UnopenedInv, RepliesInv
<1> QED
  BY <1>1, <1>2, <1>3, <1>4, <1>5, StepKinds

LEMMA HeldStep ==
    ASSUME BaseInv, [Next]_vars
    PROVE  HeldInv'
<1>0. /\ SessionTypeOK /\ GatewayTypeOK /\ TypeInv /\ opened \in Nat /\ HeldInv
      /\ None \notin Sessions /\ None \notin Gateways
      /\ hubSession \in [Gateways -> Sessions \union {None}]
      /\ \A g \in Gateways : hubSession[g] # None => hubSession[g] \in Sessions
  BY BaseParts, RequestsAssumption DEF SessionTypeOK
<1>1. ASSUME UNCHANGED <<opened, owner>>, UNCHANGED <<link, applying>>,
             \A g \in Gateways : hubSession'[g] \in {hubSession[g], None}
      PROVE  HeldInv'
  BY <1>0, <1>1 DEF HeldInv
<1>2. ASSUME NEW s \in Sessions, SessionStep(s) PROVE HeldInv'
  <2>1. /\ UNCHANGED <<opened, owner, link, applying>>
        /\ \A g \in Gateways : hubSession'[g] \in {hubSession[g], None}
    BY <1>0, <1>2
    DEF SessionStep, SendSnapshot, ForwardFrame, HubReceive, CloseSession, gatewayVars
  <2> QED
    BY <1>1, <2>1
<1>3. ASSUME NEW g \in Gateways, GatewayStep(g) PROVE HeldInv'
  <2>1. CASE Connect(g)
    <3>1. /\ opened' = opened + 1 /\ opened' \in Sessions
          /\ link' = [link EXCEPT ![g] = opened'] /\ applying' = applying
          /\ owner' = [owner EXCEPT ![opened'] = g]
          /\ hubSession' = [hubSession EXCEPT ![g] = opened']
      BY <1>0, <2>1, BoundsAssumption DEF Connect, SessionTypeOK, Sessions, gatewayVars
    <3>2. ASSUME NEW h \in Gateways PROVE applying'[h] # None => link'[h] # None
      BY <1>0, <3>1 DEF HeldInv, SessionTypeOK
    <3>3. ASSUME NEW h \in Gateways, hubSession'[h] # None
          PROVE  hubSession'[h] <= opened' /\ owner'[hubSession'[h]] = h
      <4>1. CASE h = g
        BY <1>0, <3>1, <4>1 DEF SessionTypeOK
      <4>2. CASE h # g
        <5>1. /\ hubSession'[h] = hubSession[h] /\ hubSession[h] \in Sessions
              /\ hubSession[h] <= opened /\ owner[hubSession[h]] = h
          BY <1>0, <3>1, <3>3, <4>2 DEF HeldInv
        <5>2. hubSession[h] # opened' /\ hubSession[h] <= opened'
          BY <1>0, <3>1, <5>1 DEF Sessions
        <5> QED
          BY <1>0, <3>1, <5>1, <5>2 DEF SessionTypeOK
      <4> QED
        BY <4>1, <4>2
    <3> QED
      BY <3>2, <3>3 DEF HeldInv
  <2>2. CASE ~Connect(g)
    <3>1. UNCHANGED <<opened, owner, hubSession>>
      BY <1>0, <1>3, <2>2, GatewayStepStream, GatewayStepReplies
    <3>2. \A h \in Gateways : applying'[h] # None => link'[h] # None
      <4>1. CASE \/ OnSnapshot(g) \/ OnPrepare(g) \/ OnInterrupt(g) \/ OnSetDraining(g)
                 \/ Heartbeat(g) \/ LocalDrain(g) \/ Canary(g)
        <5>1. UNCHANGED <<applying, link>>
          BY <4>1
          DEF OnSnapshot, OnPrepare, OnInterrupt, OnSetDraining, Heartbeat, LocalDrain, Canary,
              HandleSnapshot, SnapshotNotReconciled, SetUnsynced, HandlePrepare, PrepareRefused,
              ListenerNotPrepared, SetDraining, SetCanary, Handled, gatewayVars, sessionVars
        <5> QED
          BY <1>0, <5>1 DEF HeldInv
      <4>2. CASE OnActivate(g)
        BY <1>0, <4>2
        DEF OnActivate, StartActivate, Handled, Received, gatewayVars, GatewayTypeOK, HeldInv
      <4>3. CASE OnActivated(g)
        BY <1>0, <4>3
        DEF OnActivated, FinishActivate, ActivateNotSaved, GatewayTypeOK, HeldInv
      <4>4. CASE ClientDisconnect(g)
        BY <1>0, <4>4
        DEF ClientDisconnect, gatewayVars, GatewayTypeOK, SessionTypeOK, HeldInv
      <4>5. CASE GatewayRestart(g)
        BY <1>0, <4>5 DEF GatewayRestart, Restart, GatewayTypeOK, SessionTypeOK, HeldInv
      <4> QED
        BY <1>3, <2>2, <4>1, <4>2, <4>3, <4>4, <4>5 DEF GatewayStep
    <3> QED
      BY <1>0, <3>1, <3>2 DEF HeldInv
  <2> QED
    BY <2>1, <2>2
<1>4. ASSUME NEW r \in Requests, RequestStep(r) PROVE HeldInv'
  BY <1>0, <1>1, <1>4, RequestStepSessions DEF gatewayVars
<1>5. ASSUME ControlPlaneRestart PROVE HeldInv'
  BY <1>1, <1>5 DEF ControlPlaneRestart, gatewayVars
<1>6. ASSUME UNCHANGED vars PROVE HeldInv'
  BY <1>1, <1>6 DEF vars, sessionVars, gatewayVars
<1> QED
  BY <1>2, <1>3, <1>4, <1>5, <1>6, StepKinds

\* The sessions a broadcast takes are different ones, open and past their SNAPSHOT.
LEMMA OrderedTargets ==
    ASSUME BaseInv, ReadySessions # {}, NEW q \in Orders(ReadySessions)
    PROVE  /\ \A i \in DOMAIN q :
                 q[i] \in ReadySessions /\ q[i] <= opened /\ phase[q[i]] # "registered"
           /\ \A i, j \in DOMAIN q : q[i] = q[j] => i = j
<1>1. /\ DOMAIN q = 1 .. Cardinality(ReadySessions)
      /\ \A i \in DOMAIN q : q[i] \in ReadySessions
      /\ \A i, j \in DOMAIN q : q[i] = q[j] => i = j
  BY DEF Orders
<1>2. \A s \in ReadySessions : s \in Sessions /\ ready[s]
  BY DEF ReadySessions
<1>3. \A s \in ReadySessions : s <= opened /\ phase[s] # "registered"
  BY <1>2, BaseParts DEF UnopenedInv, Sessions
<1> QED
  BY <1>1, <1>3

\* What the steps of a handler do to its own targets, to its progress and to deployMu.
LEMMA RequestStepTargets ==
    ASSUME BaseInv, NEW r \in Requests, RequestStep(r)
    PROVE  /\ \/ targets'[r] = targets[r]
              \/ targets'[r] = <<>>
              \/ targets'[r] \in Orders(ReadySessions) /\ ReadySessions # {}
              \/ /\ r \in DrainRequests
                 /\ \E g \in Gateways : hubSession[g] # None /\ targets'[r] = <<hubSession[g]>>
           /\ pc[r] # "done" /\ (pc'[r] # "done" => answer'[r] = answer[r])
           /\ \/ UNCHANGED deployMu /\ (pc'[r] \in DeployPCs => pc[r] \in DeployPCs)
              \/ deployMu = r /\ pc'[r] \notin DeployPCs
              \/ deployMu = None /\ deployMu' = r
<1>0. RequestInv
  BY BaseParts
<1>d. \A p \in SendPCs \union WaitPCs \union {"idle", "lock", "commit"} : p # "done"
  BY DEF SendPCs, WaitPCs
<1>f. ASSUME Fail(r)
      PROVE  /\ targets'[r] = <<>> /\ pc'[r] = "done"
             /\ UNCHANGED deployMu \/ deployMu = r
  BY <1>0, <1>f, RequestTypes DEF Fail, Answer, Release
<1>1. CASE SendFrame(r)
  <2>1. UNCHANGED <<targets, answer, deployMu>> /\ pc[r] \in SendPCs
    BY <1>1 DEF SendFrame
  <2>2. pc'[r] \in DeployPCs => pc[r] \in DeployPCs
    BY <1>0, <1>1, RequestTypes DEF SendFrame, AfterSend, SentAll, DeployPCs, SendPCs
  <2> QED
    BY <1>d, <2>1, <2>2
<1>2. CASE TakeAck(r)
  <2>0. pc[r] \in WaitPCs
    BY <1>2 DEF TakeAck
  <2>1. CASE UNCHANGED <<pc, answer, deployMu, targets>>
    BY <1>d, <2>0, <2>1
  <2>2. CASE Fail(r)
    BY <1>d, <1>f, <2>0, <2>2 DEF DeployPCs
  <2>3. CASE BroadcastDone(r) /\ UNCHANGED targets
    BY <1>0, <1>d, <2>0, <2>3, RequestTypes DEF BroadcastDone, Answer, Release, DeployPCs
  <2> QED
    BY <1>2, <2>1, <2>2, <2>3 DEF TakeAck
<1>3. CASE GiveUpWaiting(r) \/ CancelSending(r)
  BY <1>d, <1>f, <1>3 DEF GiveUpWaiting, MayGiveUp, CancelSending, DeployPCs
<1>4. ASSUME NEW e \in Expected, Stage(r, e)
      PROVE  /\ UNCHANGED <<targets, deployMu>> /\ pc[r] # "done" /\ pc'[r] \notin DeployPCs
             /\ pc'[r] # "done" => answer'[r] = answer[r]
  BY <1>0, <1>4, RequestTypes DEF Stage, Answer, DeployPCs
<1>5. CASE LockAndTarget(r)
  <2>1. CASE Fail(r)
    BY <1>5, <1>f, <2>1 DEF LockAndTarget, DeployPCs
  <2>2. CASE ~Fail(r)
    BY <1>0, <1>5, <2>2, RequestTypes DEF LockAndTarget, DeployMuFree
  <2> QED
    BY <2>1, <2>2
<1>6. CASE Commit(r)
  <2>1. CASE Fail(r)
    BY <1>6, <1>f, <2>1 DEF Commit, DeployPCs
  <2>2. CASE ~Fail(r)
    BY <1>6, <2>2 DEF Commit, DeployPCs
  <2> QED
    BY <2>1, <2>2
<1>7. CASE StartInterrupt(r)
  BY <1>0, <1>7, RequestTypes DEF StartInterrupt, Answer, DeployPCs
<1>8. ASSUME NEW g \in Gateways, NEW v \in BOOLEAN, StartDrain(r, g, v)
      PROVE  /\ \/ UNCHANGED targets
                \/ hubSession[g] # None /\ targets'[r] = <<hubSession[g]>>
             /\ pc[r] # "done" /\ UNCHANGED deployMu /\ pc'[r] \notin DeployPCs
             /\ pc'[r] # "done" => answer'[r] = answer[r]
  BY <1>0, <1>8, RequestTypes DEF StartDrain, Answer, DeployPCs
<1> QED
  BY <1>1, <1>2, <1>3, <1>4, <1>5, <1>6, <1>7, <1>8 DEF RequestStep, BroadcastStep

LEMMA TargetsStep ==
    ASSUME BaseInv, [Next]_vars
    PROVE  TargetsInv'
<1>0. /\ RequestInv /\ SessionTypeOK /\ TypeInv /\ TargetsInv /\ opened \in Nat
      /\ targets \in [Requests -> Seq(Sessions)]
  BY BaseParts, RequestTypes
<1>1. /\ opened' \in {opened, opened + 1}
      /\ \A s \in Sessions : s <= opened =>
            s <= opened' /\ (phase[s] # "registered" => phase'[s] # "registered")
  <2>1. opened' \in {opened, opened + 1}
    BY <1>0, RemoteSteps, SessionStepLocal, GatewayStepStream DEF Connect
  <2> QED
    BY <1>0, <2>1, SessionsStay DEF Sessions
<1>2. ASSUME NEW x \in Requests, targets'[x] = targets[x]
      PROVE  \A i \in DOMAIN targets'[x] :
                /\ targets'[x][i] <= opened'
                /\ phase[targets[x][i]] # "registered" => phase'[targets'[x][i]] # "registered"
  <2>1. \A i \in DOMAIN targets[x] : targets[x][i] \in Sessions /\ targets[x][i] <= opened
    BY <1>0 DEF TargetsInv
  <2> QED
    BY <1>1, <1>2, <2>1
<1>3. ASSUME NEW x \in RouteRequests, targets'[x] = targets[x], pc'[x] = pc[x],
             answer'[x] = answer[x], pc[x] \in DeployPCs => deployMu' = deployMu
      PROVE  TargetsAt(x)'
  <2>1. x \in Requests /\ TargetsAt(x)
    BY <1>0 DEF Requests, TargetsInv
  <2> QED
    BY <1>2, <1>3, <2>1 DEF TargetsAt
<1>4. ASSUME NEW r \in Requests, RequestStep(r) PROVE TargetsInv'
  <2>1. ASSUME NEW x \in Requests \ {r}
        PROVE  /\ \A i \in DOMAIN targets'[x] : targets'[x][i] <= opened'
               /\ x \in RouteRequests => TargetsAt(x)'
    <3>1. targets'[x] = targets[x] /\ pc'[x] = pc[x] /\ answer'[x] = answer[x]
      BY <1>0, <1>4, <2>1, RequestStepLocal
    <3>2. x \in RouteRequests /\ pc[x] \in DeployPCs => deployMu = x /\ x # None
      BY <1>0, StoreAssumption DEF TargetsInv, TargetsAt
    <3>3. UNCHANGED deployMu \/ deployMu = r \/ deployMu = None
      BY <1>4, RequestStepTargets
    <3>4. x \in RouteRequests /\ pc[x] \in DeployPCs => deployMu' = deployMu
      BY <2>1, <3>2, <3>3
    <3> QED
      BY <1>2, <1>3, <2>1, <3>1, <3>4
  <2>2. \A i \in DOMAIN targets'[r] : targets'[r][i] <= opened'
    <3>1. CASE targets'[r] = targets[r]
      BY <1>2, <3>1
    <3>2. CASE targets'[r] = <<>>
      BY <3>2
    <3>3. CASE targets'[r] \in Orders(ReadySessions) /\ ReadySessions # {}
      BY <1>0, <1>1, <3>3, OrderedTargets DEF ReadySessions
    <3>4. CASE \E g \in Gateways : hubSession[g] # None /\ targets'[r] = <<hubSession[g]>>
      <4>1. PICK g \in Gateways : hubSession[g] # None /\ targets'[r] = <<hubSession[g]>>
        BY <3>4
      <4>2. hubSession[g] \in Sessions /\ hubSession[g] <= opened
        BY <4>1, BaseParts DEF SessionTypeOK, HeldInv
      <4> QED
        BY <1>1, <4>1, <4>2
    <3> QED
      BY <1>4, <3>1, <3>2, <3>3, <3>4, RequestStepTargets
  <2>3. ASSUME r \in RouteRequests PROVE TargetsAt(r)'
    <3>0. TargetsAt(r) /\ r \notin DrainRequests
      BY <1>0, <2>3, RequestsAssumption DEF TargetsInv
    <3>1. pc'[r] # "done" => answer'[r] = "none"
      BY <1>4, <3>0, RequestStepTargets DEF TargetsAt
    <3>2. pc'[r] \in DeployPCs => deployMu' = r
      BY <1>4, <3>0, RequestStepTargets DEF TargetsAt
    <3>3. /\ \A i \in DOMAIN targets'[r] : phase'[targets'[r][i]] # "registered"
          /\ \A i, j \in DOMAIN targets'[r] : targets'[r][i] = targets'[r][j] => i = j
      <4>1. CASE targets'[r] = targets[r]
        BY <1>2, <3>0, <4>1 DEF TargetsAt
      <4>2. CASE targets'[r] = <<>>
        BY <4>2
      <4>3. CASE targets'[r] \in Orders(ReadySessions) /\ ReadySessions # {}
        BY <1>0, <1>1, <4>3, OrderedTargets DEF ReadySessions
      <4> QED
        BY <1>4, <3>0, <4>1, <4>2, <4>3, RequestStepTargets
    <3> QED
      BY <3>1, <3>2, <3>3 DEF TargetsAt
  <2> QED
    BY <2>1, <2>2, <2>3 DEF TargetsInv, Requests
<1>5. ASSUME UNCHANGED requestVars PROVE TargetsInv'
  BY <1>0, <1>2, <1>3, <1>5 DEF TargetsInv, Requests, requestVars
<1>6. ASSUME ControlPlaneRestart PROVE TargetsInv'
  <2>1. /\ targets' = targets /\ \A x \in Requests : pc'[x] \in {"idle", "done"}
        /\ \A x \in Requests : pc'[x] = "idle" => pc[x] = "idle" /\ answer'[x] = answer[x]
        /\ phase' = [s \in Sessions |-> "closed"]
    BY <1>6 DEF ControlPlaneRestart
  <2>2. ASSUME NEW x \in RouteRequests PROVE TargetsAt(x)'
    BY <1>0, <2>1 DEF TargetsInv, TargetsAt, DeployPCs, Requests
  <2> QED
    BY <1>2, <2>1, <2>2 DEF TargetsInv
<1> QED
  BY <1>4, <1>5, <1>6, StepKinds, RemoteStepsKeepRequests DEF vars

LEMMA BaseInit == Init => BaseInv
<1> SUFFICES ASSUME Init PROVE BaseInv
  OBVIOUS
<1>1. UnopenedInv /\ RepliesInv
  BY BoundsAssumption DEF Init, UnopenedInv, RepliesInv, Sessions
<1>2. HeldInv
  BY DEF Init, GatewayInit, HeldInv
<1>3. TargetsInv
  BY DEF Init, TargetsInv, TargetsAt, Requests, DeployPCs
<1> QED
  BY <1>1, <1>2, <1>3, IInvInit DEF BaseInv

LEMMA BaseStep == BaseInv /\ [Next]_vars => BaseInv'
  BY UnopenedStep, HeldStep, TargetsStep, IInvStep DEF BaseInv

-------------------------------------------------------------------------------
(* What a step does to the frames and acknowledgements of one session *)

SameQueues(s) ==
    sendCh'[s] = sendCh[s] /\ wire'[s] = wire[s] /\ up'[s] = up[s] /\ acks'[s] = acks[s]

\* Nothing, or the session is cut off and what it carried is lost.
FlowCut(s) ==
    /\ sendCh'[s] \in {sendCh[s], <<>>} /\ wire'[s] \in {wire[s], <<>>}
    /\ up'[s] \in {up[s], <<>>} /\ acks'[s] \in {acks[s], <<>>}
    /\ Applies(s)' \in {Applies(s), None}
    /\ \/ SameQueues(s) /\ Applies(s)' = Applies(s)
       \/ phase'[s] = "closed"
       \/ ~Linked(s)'

FlowSnapshot(s) ==
    /\ phase[s] = "registered"
    /\ \E f \in Frames :
          f.type = "SNAPSHOT" /\ f.req = None /\ wire'[s] = Append(wire[s], f)
    /\ sendCh'[s] = sendCh[s] /\ up'[s] = up[s] /\ acks'[s] = acks[s]
    /\ Applies(s)' = Applies(s)

FlowForward(s) ==
    /\ sendCh[s] # <<>> /\ sendCh'[s] = Tail(sendCh[s])
    /\ IF Linked(s) THEN wire'[s] = Append(wire[s], Head(sendCh[s])) ELSE wire'[s] = wire[s]
    /\ up'[s] = up[s] /\ acks'[s] = acks[s] /\ Applies(s)' = Applies(s)

FlowReceive(s) ==
    /\ up[s] # <<>> /\ up'[s] = Tail(up[s])
    /\ \/ acks'[s] = Append(acks[s], Head(up[s]))
       \/ Head(up[s]).type = "HEARTBEAT" /\ acks'[s] = acks[s]
    /\ sendCh'[s] = sendCh[s] /\ wire'[s] = wire[s] /\ Applies(s)' = Applies(s)

\* The reply of the session's gateway.
Replied(s, f) == up'[s] = IF phase[s] = "closed" THEN up[s] ELSE Append(up[s], f)

FlowAnswer(s) ==
    /\ Linked(s) /\ wire[s] # <<>> /\ wire'[s] = Tail(wire[s])
    /\ \E ok \in BOOLEAN :
          /\ Replied(s, Ack(Head(wire[s]).req, ok))
          /\ Head(wire[s]).type = "ACTIVATE" => ok = FALSE
          /\ Head(wire[s]).type = "PREPARE" /\ ok = TRUE =>
                pending'[owner[s]] = Head(wire[s]).route
          /\ Head(wire[s]).type = "SET_DRAINING" =>
                draining'[owner[s]] = Head(wire[s]).draining
    /\ sendCh'[s] = sendCh[s] /\ acks'[s] = acks[s]
    /\ Applies(s) = None /\ Applies(s)' = None

FlowStart(s) ==
    /\ Linked(s) /\ wire[s] # <<>> /\ wire'[s] = Tail(wire[s])
    /\ Head(wire[s]).type = "ACTIVATE"
    /\ Applies(s) = None /\ Applies(s)' = Head(wire[s]).req
    /\ active'[owner[s]].version = Head(wire[s]).route.version
    /\ sendCh'[s] = sendCh[s] /\ up'[s] = up[s] /\ acks'[s] = acks[s]

FlowFinish(s) ==
    /\ Applies(s) # None /\ Applies(s)' = None
    /\ active'[owner[s]] = active[owner[s]]
    /\ \E ok \in BOOLEAN :
          /\ Replied(s, Ack(Applies(s), ok))
          /\ ok = TRUE => file'[owner[s]] = active[owner[s]]
    /\ sendCh'[s] = sendCh[s] /\ wire'[s] = wire[s] /\ acks'[s] = acks[s]

FlowBeat(s) ==
    /\ Replied(s, [type |-> "HEARTBEAT", req |-> None, ok |-> Ready(owner[s])])
    /\ sendCh'[s] = sendCh[s] /\ wire'[s] = wire[s] /\ acks'[s] = acks[s]
    /\ Applies(s)' = Applies(s)

FlowSend(s, r) ==
    /\ SendFrame(r) /\ Target(r) = s /\ FrameOf(r) \in BroadcastFrames
    /\ sendCh'[s] = Append(sendCh[s], FrameOf(r))
    /\ wire'[s] = wire[s] /\ up'[s] = up[s] /\ acks'[s] = acks[s] /\ Applies(s)' = Applies(s)

FlowTake(s, r) ==
    /\ TakeAck(r) /\ Target(r) = s
    /\ acks[s] # <<>> /\ acks'[s] = Tail(acks[s])
    /\ sendCh'[s] = sendCh[s] /\ wire'[s] = wire[s] /\ up'[s] = up[s] /\ Applies(s)' = Applies(s)

Flow(s) ==
    \/ FlowCut(s) \/ FlowSnapshot(s) \/ FlowForward(s) \/ FlowReceive(s) \/ FlowAnswer(s)
    \/ FlowStart(s) \/ FlowFinish(s) \/ FlowBeat(s)
    \/ \E r \in Requests : FlowSend(s, r) \/ FlowTake(s, r)

LEMMA FlowOfSession ==
    ASSUME BaseInv, NEW s \in Sessions, NEW t \in Sessions, SessionStep(t)
    PROVE  Flow(s)
<1>0. SessionTypeOK /\ TypeInv
  BY BaseParts
<1>1. UNCHANGED <<owner, link, applying>> /\ Applies(s)' = Applies(s) /\ Linked(s)' = Linked(s)
  BY <1>0, SessionStepLocal DEF gatewayVars, Applies, Linked
<1>2. CASE s # t
  <2>1. SameQueues(s)
    BY <1>0, <1>2
    DEF SessionStep, SendSnapshot, ForwardFrame, HubReceive, CloseSession, OnWire,
        SessionTypeOK, SameQueues
  <2> QED
    BY <1>1, <2>1 DEF FlowCut, SameQueues, Flow
<1>3. CASE s = t
  <2>1. CASE SendSnapshot(s)
    <3> DEFINE f == [type |-> "SNAPSHOT", req |-> None, route |-> ListActiveRoutes,
                     draining |-> FALSE]
    <3>1. f \in Frames /\ f.type = "SNAPSHOT" /\ f.req = None
      BY <1>0, TypeInvParts
      DEF StoreTypeOK, ListActiveRoutes, Frames, SnapshotFrames, FramesOf
    <3> HIDE DEF f
    <3>2. OnWire(s, f) /\ phase[s] = "registered" /\ UNCHANGED <<sendCh, up, acks>>
      BY <2>1 DEF SendSnapshot, f
    <3>3. CASE Linked(s)
      <4>1. wire'[s] = Append(wire[s], f)
        BY <1>0, <3>2, <3>3 DEF OnWire, SessionTypeOK
      <4> QED
        BY <1>1, <3>1, <3>2, <4>1 DEF FlowSnapshot, Flow
    <3>4. CASE ~Linked(s)
      BY <1>1, <3>2, <3>4 DEF OnWire, FlowCut, SameQueues, Flow
    <3> QED
      BY <3>3, <3>4
  <2>2. CASE ForwardFrame(s)
    <3>1. FlowForward(s)
      BY <1>0, <1>1, <2>2 DEF ForwardFrame, OnWire, SessionTypeOK, FlowForward
    <3> QED
      BY <3>1 DEF Flow
  <2>3. CASE HubReceive(s)
    <3>1. FlowReceive(s)
      BY <1>0, <1>1, <2>3 DEF HubReceive, SessionTypeOK, FlowReceive
    <3> QED
      BY <3>1 DEF Flow
  <2>4. CASE CloseSession(s)
    <3>1. /\ UNCHANGED <<sendCh, wire, acks>> /\ phase'[s] = "closed"
          /\ up'[s] \in {up[s], <<>>}
      BY <1>0, <2>4 DEF CloseSession, SessionTypeOK
    <3> QED
      BY <1>1, <3>1 DEF FlowCut, Flow
  <2> QED
    BY <1>3, <2>1, <2>2, <2>3, <2>4 DEF SessionStep
<1> QED
  BY <1>2, <1>3

LEMMA FlowOfGateway ==
    ASSUME BaseInv, [Next]_vars, NEW s \in Sessions, s <= opened,
           NEW g \in Gateways, GatewayStep(g)
    PROVE  Flow(s)
<1>0. /\ SessionTypeOK /\ GatewayTypeOK /\ TypeInv /\ None \notin Sessions /\ LinkInv
      /\ UNCHANGED <<sendCh, acks, ready>>
      /\ owner[s] \in Gateways /\ owner'[s] = owner[s] /\ (Linked(s)' => Linked(s))
      /\ wire \in [Sessions -> Seq(Frames)] /\ up \in [Sessions -> Seq(Replies)]
  BY BaseParts, SessionsStay, GatewayStepReplies, RequestsAssumption DEF SessionTypeOK
<1>1. CASE link[g] # s
  <2>1. wire'[s] = wire[s] /\ up'[s] = up[s]
    <3>1. wire'[s] = wire[s]
      BY <1>0, <1>1, GatewayWire
    <3>2. UNCHANGED up \/ \E f : up' = [up EXCEPT ![link[g]] = Append(@, f)]
      BY <1>0, GatewayStepReplies
    <3> QED
      BY <1>0, <1>1, <3>1, <3>2
  <2>2. Applies(s)' = Applies(s)
    <3>1. CASE owner[s] = g
      BY <1>0, <1>1, <3>1 DEF Applies, Linked
    <3>2. CASE owner[s] # g
      BY <1>0, <3>2, GatewayStepLocal DEF Applies, Linked
    <3> QED
      BY <3>1, <3>2
  <2> QED
    BY <1>0, <2>1, <2>2 DEF FlowCut, SameQueues, Flow
<1>2. CASE link[g] = s
  <2>0. owner[s] = g /\ Linked(s) /\ Applies(s) = applying[g]
    BY <1>0, <1>2 DEF LinkInv, Linked, Applies
  <2>1. CASE Connect(g)
    BY <1>0, <1>2, <2>1 DEF Connect
  <2>2. CASE ClientDisconnect(g) \/ GatewayRestart(g)
    <3>1. /\ link'[g] = None /\ wire'[s] = <<>> /\ up'[s] = up[s]
      BY <1>0, <1>2, <2>2 DEF ClientDisconnect, GatewayRestart, SessionTypeOK
    <3>2. ~Linked(s)' /\ Applies(s)' = None
      BY <1>0, <2>0, <3>1 DEF Linked, Applies
    <3> QED
      BY <1>0, <3>1, <3>2 DEF FlowCut, Flow
  <2>3. CASE LocalDrain(g) \/ Canary(g)
    <3>1. UNCHANGED <<wire, up, link, applying>>
      BY <2>3 DEF LocalDrain, SetDraining, Canary, SetCanary, sessionVars
    <3>2. Applies(s)' = Applies(s)
      BY <1>0, <3>1 DEF Applies, Linked
    <3> QED
      BY <1>0, <3>1, <3>2 DEF FlowCut, SameQueues, Flow
  <2>4. CASE Heartbeat(g)
    <3>1. UNCHANGED <<wire, link, applying>>
      BY <2>4 DEF Heartbeat, gatewayVars
    <3>2. Applies(s)' = Applies(s)
      BY <1>0, <3>1 DEF Applies, Linked
    <3>3. Replied(s, [type |-> "HEARTBEAT", req |-> None, ok |-> Ready(owner[s])])
      BY <1>0, <1>2, <2>0, <2>4 DEF Heartbeat, Reply, Replied
    <3>4. FlowBeat(s)
      BY <1>0, <3>1, <3>2, <3>3 DEF FlowBeat
    <3> QED
      BY <3>4 DEF Flow
  <2>5. CASE OnActivated(g)
    <3>1. /\ applying[g] # None /\ applying'[g] = None /\ UNCHANGED <<active, wire, link>>
          /\ \/ file'[g] = active[g] /\ Reply(g, Ack(applying[g], TRUE))
             \/ Reply(g, Ack(applying[g], FALSE))
      BY <1>0, <2>5 DEF OnActivated, FinishActivate, ActivateNotSaved, GatewayTypeOK
    <3>2. Applies(s)' = None
      BY <1>0, <2>0, <3>1 DEF Applies, Linked
    <3>3. \A f : Reply(g, f) => Replied(s, f)
      BY <1>0, <1>2 DEF Reply, Replied
    <3>4. FlowFinish(s)
      BY <1>0, <2>0, <3>1, <3>2, <3>3 DEF FlowFinish
    <3> QED
      BY <3>4 DEF Flow
  <2>6. CASE \/ OnSnapshot(g) \/ OnPrepare(g) \/ OnActivate(g) \/ OnInterrupt(g)
             \/ OnSetDraining(g)
    <3>1. PICK type : Received(g, type)
      BY <2>6 DEF OnSnapshot, OnPrepare, OnActivate, OnInterrupt, OnSetDraining
    <3>2. /\ wire[s] # <<>> /\ Frame(g) = Head(wire[s]) /\ applying[g] = None
          /\ wire'[s] = Tail(wire[s]) /\ UNCHANGED link /\ Frame(g).type = type
      BY <1>0, <1>2, <2>6, <3>1
      DEF OnSnapshot, OnPrepare, OnActivate, OnInterrupt, OnSetDraining, Handled, Received,
          Frame, SessionTypeOK
    <3>3. \A f : Reply(g, f) => Replied(s, f)
      BY <1>0, <1>2 DEF Reply, Replied
    <3>4. CASE StartActivate(g, Frame(g).route, Frame(g).req) /\ Received(g, "ACTIVATE")
               /\ UNCHANGED up
      <4>1. /\ applying'[g] = Frame(g).req
            /\ active'[g].version = Frame(g).route.version /\ Frame(g).type = "ACTIVATE"
        BY <1>0, <3>4 DEF StartActivate, WasPrepared, GatewayTypeOK, Received, Frame
      <4>2. Applies(s) = None /\ Applies(s)' = Frame(g).req
        BY <1>0, <2>0, <3>2, <4>1 DEF Applies, Linked
      <4>3. FlowStart(s)
        BY <1>0, <2>0, <3>2, <3>4, <4>1, <4>2 DEF FlowStart
      <4> QED
        BY <4>3 DEF Flow
    <3>5. ASSUME NEW ok \in BOOLEAN, Reply(g, Ack(Frame(g).req, ok)),
                 applying' = applying,
                 Frame(g).type = "ACTIVATE" => ok = FALSE,
                 Frame(g).type = "PREPARE" /\ ok = TRUE => pending'[g] = Frame(g).route,
                 Frame(g).type = "SET_DRAINING" => draining'[g] = Frame(g).draining
          PROVE  Flow(s)
      <4>1. Applies(s) = None /\ Applies(s)' = None
        BY <1>0, <2>0, <3>2, <3>5 DEF Applies, Linked
      <4>2. FlowAnswer(s)
        BY <1>0, <2>0, <3>2, <3>3, <3>5, <4>1 DEF FlowAnswer
      <4> QED
        BY <4>2 DEF Flow
    <3>6. CASE OnSnapshot(g)
      <4>1. /\ Frame(g).type = "SNAPSHOT" /\ applying' = applying
            /\ \E ok \in BOOLEAN : Reply(g, Ack(Frame(g).req, ok))
        BY <3>6
        DEF OnSnapshot, HandleSnapshot, SnapshotNotReconciled, SetUnsynced, Handled, Received,
            Frame
      <4> QED
        BY <3>5, <4>1
    <3>7. CASE OnPrepare(g)
      <4>1. /\ Frame(g).type = "PREPARE" /\ applying' = applying
            /\ \/ pending'[g] = Frame(g).route /\ Reply(g, Ack(Frame(g).req, TRUE))
               \/ Reply(g, Ack(Frame(g).req, FALSE))
        BY <1>0, <3>7
        DEF OnPrepare, HandlePrepare, PrepareRefused, SetUnsynced, ListenerNotPrepared,
            Handled, Received, Frame, GatewayTypeOK, gatewayVars
      <4> QED
        BY <3>5, <4>1
    <3>8. CASE OnActivate(g)
      <4>1. CASE UNCHANGED gatewayVars /\ Handled(g, FALSE)
        <5>1. /\ Frame(g).type = "ACTIVATE" /\ applying' = applying
              /\ Reply(g, Ack(Frame(g).req, FALSE))
          BY <3>8, <4>1 DEF OnActivate, Handled, Received, Frame, gatewayVars
        <5> QED
          BY <3>5, <5>1
      <4> QED
        BY <3>4, <3>8, <4>1 DEF OnActivate
    <3>9. CASE OnInterrupt(g)
      <4>1. /\ Frame(g).type = "INTERRUPT" /\ applying' = applying
            /\ Reply(g, Ack(Frame(g).req, TRUE))
        BY <3>9 DEF OnInterrupt, Handled, Received, Frame, gatewayVars
      <4> QED
        BY <3>5, <4>1
    <3>10. CASE OnSetDraining(g)
      <4>1. /\ Frame(g).type = "SET_DRAINING" /\ applying' = applying
            /\ Reply(g, Ack(Frame(g).req, TRUE))
            /\ draining'[g] = Frame(g).draining
        BY <1>0, <3>10
        DEF OnSetDraining, SetDraining, Handled, Received, Frame, GatewayTypeOK
      <4> QED
        BY <3>5, <4>1
    <3> QED
      BY <2>6, <3>6, <3>7, <3>8, <3>9, <3>10
  <2> QED
    BY <2>1, <2>2, <2>3, <2>4, <2>5, <2>6 DEF GatewayStep
<1> QED
  BY <1>1, <1>2

LEMMA FlowStep ==
    ASSUME BaseInv, [Next]_vars, NEW s \in Sessions, s <= opened
    PROVE  Flow(s)
<1>0. /\ SessionTypeOK /\ TypeInv /\ None \notin Sessions
      /\ owner[s] \in Gateways /\ owner'[s] = owner[s]
  BY BaseParts, SessionsStay, RequestsAssumption
<1>1. ASSUME NEW r \in Requests, RequestStep(r) PROVE Flow(s)
  <2>1. /\ UNCHANGED <<wire, up, link, applying>> /\ Applies(s)' = Applies(s)
    BY <1>0, <1>1, RequestStepSessions DEF gatewayVars, Applies, Linked
  <2>2. CASE sendCh'[s] = sendCh[s] /\ acks'[s] = acks[s]
    BY <2>1, <2>2 DEF FlowCut, SameQueues, Flow
  <2>3. CASE sendCh'[s] # sendCh[s]
    <3>1. FlowSend(s, r)
      BY <1>0, <1>1, <2>1, <2>3, RequestStepSessions DEF FlowSend, SessionTypeOK
    <3> QED
      BY <3>1 DEF Flow
  <2>4. CASE acks'[s] # acks[s]
    <3>1. FlowTake(s, r)
      BY <1>0, <1>1, <2>1, <2>4, RequestStepSessions DEF FlowTake, SessionTypeOK
    <3> QED
      BY <3>1 DEF Flow
  <2> QED
    BY <2>2, <2>3, <2>4
<1>2. ASSUME ControlPlaneRestart PROVE Flow(s)
  <2>1. /\ UNCHANGED <<wire, link, applying>> /\ Applies(s)' = Applies(s)
        /\ sendCh'[s] = <<>> /\ up'[s] = <<>> /\ acks'[s] = <<>> /\ phase'[s] = "closed"
    BY <1>0, <1>2 DEF ControlPlaneRestart, gatewayVars, Applies, Linked
  <2> QED
    BY <2>1 DEF FlowCut, Flow
<1>3. ASSUME UNCHANGED vars PROVE Flow(s)
  BY <1>3 DEF vars, sessionVars, gatewayVars, Applies, Linked, FlowCut, SameQueues, Flow
<1> QED
  BY <1>1, <1>2, <1>3, FlowOfSession, FlowOfGateway, StepKinds

\* While a gateway applies an ACTIVATE its table stays as it is.
LEMMA TableWhileApplying ==
    ASSUME BaseInv, [Next]_vars, NEW s \in Sessions, s <= opened,
           Applies(s) # None, Applies(s)' = Applies(s)
    PROVE  active'[owner[s]] = active[owner[s]]
<1>0. /\ GatewayTypeOK /\ TypeInv /\ owner[s] \in Gateways /\ owner'[s] = owner[s]
      /\ applying[owner[s]] # None /\ applying'[owner[s]] # None
  BY BaseParts, SessionsStay DEF Applies
<1>1. ASSUME NEW g \in Gateways, GatewayStep(g) PROVE active'[owner[s]] = active[owner[s]]
  <2>1. CASE owner[s] # g
    BY <1>0, <1>1, <2>1, GatewayStepLocal
  <2>2. CASE owner[s] = g
    <3>1. CASE \/ OnSnapshot(g) \/ OnPrepare(g) \/ OnActivate(g) \/ OnInterrupt(g)
               \/ OnSetDraining(g)
      BY <1>0, <2>2, <3>1
      DEF OnSnapshot, OnPrepare, OnActivate, OnInterrupt, OnSetDraining, Received
    <3>2. CASE Connect(g) \/ ClientDisconnect(g) \/ Heartbeat(g) \/ LocalDrain(g) \/ Canary(g)
      BY <3>2
      DEF Connect, ClientDisconnect, Heartbeat, LocalDrain, Canary, SetDraining, SetCanary,
          gatewayVars
    <3>3. CASE OnActivated(g)
      BY <3>3 DEF OnActivated, FinishActivate, ActivateNotSaved
    <3>4. CASE GatewayRestart(g)
      BY <1>0, <2>2, <3>4 DEF GatewayRestart, Restart, GatewayTypeOK
    <3> QED
      BY <1>1, <3>1, <3>2, <3>3, <3>4 DEF GatewayStep
  <2> QED
    BY <2>1, <2>2
<1>2. ASSUME UNCHANGED gatewayVars PROVE active'[owner[s]] = active[owner[s]]
  BY <1>2 DEF gatewayVars
<1> QED
  BY <1>0, <1>1, <1>2, RemoteSteps, SessionStepLocal

\* The types of one session's queues.
LEMMA QueueTypes ==
    ASSUME BaseInv, NEW s \in Sessions
    PROVE  /\ sendCh[s] \in Seq(Frames) /\ wire[s] \in Seq(Frames)
           /\ up[s] \in Seq(Replies) /\ acks[s] \in Seq(Replies)
           /\ sendCh[s] # <<>> => Head(sendCh[s]) \in Frames
           /\ wire[s] # <<>> => Head(wire[s]) \in Frames
           /\ up[s] # <<>> => Head(up[s]) \in Replies /\ Head(up[s]) \in PlainReplies
           /\ acks[s] # <<>> => Head(acks[s]) \in Replies
<1>1. /\ sendCh[s] \in Seq(BroadcastFrames) /\ wire[s] \in Seq(Frames)
      /\ up[s] \in Seq(Replies) /\ acks[s] \in Seq(Replies) /\ up[s] \in Seq(PlainReplies)
  BY BaseParts DEF SessionTypeOK, RepliesInv
<1>2. sendCh[s] \in Seq(Frames)
  BY <1>1, WiderSequences, BroadcastFramesAreFrames
<1> QED
  BY <1>1, <1>2

\* A reply keeps its session's request apart from the others.
LEMMA ReplyQueue ==
    ASSUME BaseInv, NEW s \in Sessions, NEW f \in Replies, Replied(s, f), NEW r
    PROVE  /\ HasFrame(up'[s], r) => HasFrame(up[s], r) \/ f.req = r
           /\ OnceIn(up[s], r) /\ (f.req = r => ~HasFrame(up[s], r)) => OnceIn(up'[s], r)
           /\ phase[s] # "closed" /\ (HasFrame(up[s], r) \/ f.req = r) => HasFrame(up'[s], r)
  BY QueueTypes, AppendQueue DEF Replied

LEMMA ReplyTypes ==
    ASSUME BaseInv, NEW s \in Sessions, s <= opened
    PROVE  /\ \A ok \in BOOLEAN : wire[s] # <<>> => Ack(Head(wire[s]).req, ok) \in Replies
           /\ \A ok \in BOOLEAN : Applies(s) # None => Ack(Applies(s), ok) \in Replies
           /\ [type |-> "HEARTBEAT", req |-> None, ok |-> Ready(owner[s])] \in Replies
           /\ \A x : \A ok \in BOOLEAN : Ack(x, ok).req = x /\ Ack(x, ok).ok = ok
<1>0. owner[s] \in Gateways /\ GatewayTypeOK
  BY BaseParts DEF UnopenedInv
<1>1. \A ok \in BOOLEAN : wire[s] # <<>> => Ack(Head(wire[s]).req, ok) \in Replies
  BY QueueTypes, FrameParts DEF Ack, Replies
<1>2. Applies(s) # None => Applies(s) \in RouteRequests
  BY <1>0 DEF Applies, GatewayTypeOK
<1>3. \A ok \in BOOLEAN : Applies(s) # None => Ack(Applies(s), ok) \in Replies
  BY <1>2 DEF Ack, Replies, Requests
<1>4. [type |-> "HEARTBEAT", req |-> None, ok |-> Ready(owner[s])] \in Replies
  BY <1>0 DEF Ready, GatewayTypeOK, Replies
<1>5. \A x : \A ok \in BOOLEAN : Ack(x, ok).req = x /\ Ack(x, ok).ok = ok
  BY DEF Ack
<1> QED
  BY <1>1, <1>3, <1>4, <1>5

-------------------------------------------------------------------------------
(* Frames of one request on one session *)

\* Without a new frame of r, what is quiet stays quiet and a single frame stays single.
LEMMA QuietStep ==
    ASSUME BaseInv, [Next]_vars, NEW s \in Sessions, s <= opened, NEW r \in Requests,
           ~FlowSend(s, r)
    PROVE  /\ Quiet(r, s) => Quiet(r, s)'
           /\ Once(r, s) => Once(r, s)'
<1> DEFINE S == HasFrame(sendCh[s], r)
           W == HasFrame(wire[s], r)
           U == HasFrame(up[s], r)
           K == HasFrame(acks[s], r)
           A == Applies(s) = r
<1>0. r # None /\ Flow(s)
  BY FlowStep, RequestsAssumption, StoreAssumption DEF Requests
<1>e. ~HasFrame(<<>>, r) /\ OnceIn(<<>>, r)
  BY EmptyQueue
<1>1. CASE FlowCut(s)
  BY <1>0, <1>1, <1>e DEF FlowCut, Quiet, Once
<1>2. CASE FlowSnapshot(s)
  <2>1. PICK f \in Frames : f.type = "SNAPSHOT" /\ f.req = None /\ wire'[s] = Append(wire[s], f)
    BY <1>2 DEF FlowSnapshot
  <2>2. /\ HasFrame(wire'[s], r) <=> W
        /\ OnceIn(wire[s], r) => OnceIn(wire'[s], r)
    BY <1>0, <2>1, QueueTypes, AppendQueue
  <2> QED
    BY <1>2, <2>2 DEF FlowSnapshot, Quiet, Once
<1>3. CASE FlowForward(s)
  <2>1. /\ S <=> Head(sendCh[s]).req = r \/ HasFrame(sendCh'[s], r)
        /\ OnceIn(sendCh[s], r) => /\ OnceIn(sendCh'[s], r)
                                   /\ ~(Head(sendCh[s]).req = r /\ HasFrame(sendCh'[s], r))
    BY <1>3, QueueTypes, TailQueue DEF FlowForward
  <2>2. CASE Linked(s)
    <3>1. /\ HasFrame(wire'[s], r) <=> W \/ Head(sendCh[s]).req = r
          /\ OnceIn(wire[s], r) /\ (Head(sendCh[s]).req = r => ~W) => OnceIn(wire'[s], r)
      <4>1. /\ wire'[s] = Append(wire[s], Head(sendCh[s]))
            /\ wire[s] \in Seq(Frames) /\ Head(sendCh[s]) \in Frames
        BY <1>3, <2>2, QueueTypes DEF FlowForward
      <4> QED
        BY <4>1, AppendQueue
    <3> QED
      BY <1>3, <2>1, <3>1 DEF FlowForward, Quiet, Once
  <2>3. CASE ~Linked(s)
    BY <1>3, <2>1, <2>3 DEF FlowForward, Quiet, Once
  <2> QED
    BY <2>2, <2>3
<1>4. CASE FlowReceive(s)
  <2>1. /\ U <=> Head(up[s]).req = r \/ HasFrame(up'[s], r)
        /\ OnceIn(up[s], r) => /\ OnceIn(up'[s], r)
                               /\ ~(Head(up[s]).req = r /\ HasFrame(up'[s], r))
    BY <1>4, QueueTypes, TailQueue DEF FlowReceive
  <2>2. CASE acks'[s] = Append(acks[s], Head(up[s]))
    <3>1. /\ HasFrame(acks'[s], r) <=> K \/ Head(up[s]).req = r
          /\ OnceIn(acks[s], r) /\ (Head(up[s]).req = r => ~K) => OnceIn(acks'[s], r)
      BY <1>4, <2>2, QueueTypes, AppendQueue DEF FlowReceive
    <3> QED
      BY <1>4, <2>1, <3>1 DEF FlowReceive, Quiet, Once
  <2>3. CASE acks'[s] = acks[s]
    BY <1>4, <2>1, <2>3 DEF FlowReceive, Quiet, Once
  <2> QED
    BY <1>4, <2>2, <2>3 DEF FlowReceive
<1>5. CASE FlowAnswer(s)
  <2>1. /\ W <=> Head(wire[s]).req = r \/ HasFrame(wire'[s], r)
        /\ OnceIn(wire[s], r) => /\ OnceIn(wire'[s], r)
                                 /\ ~(Head(wire[s]).req = r /\ HasFrame(wire'[s], r))
    BY <1>5, QueueTypes, TailQueue DEF FlowAnswer
  <2>2. PICK ok \in BOOLEAN : Replied(s, Ack(Head(wire[s]).req, ok))
    BY <1>5 DEF FlowAnswer
  <2>3. /\ Ack(Head(wire[s]).req, ok) \in Replies
        /\ Ack(Head(wire[s]).req, ok).req = Head(wire[s]).req
    BY <1>5, ReplyTypes DEF FlowAnswer
  <2>4. /\ HasFrame(up'[s], r) => U \/ Head(wire[s]).req = r
        /\ OnceIn(up[s], r) /\ (Head(wire[s]).req = r => ~U) => OnceIn(up'[s], r)
    BY <2>2, <2>3, ReplyQueue
  <2> QED
    BY <1>0, <1>5, <2>1, <2>4 DEF FlowAnswer, Quiet, Once
<1>6. CASE FlowStart(s)
  <2>1. /\ W <=> Head(wire[s]).req = r \/ HasFrame(wire'[s], r)
        /\ OnceIn(wire[s], r) => /\ OnceIn(wire'[s], r)
                                 /\ ~(Head(wire[s]).req = r /\ HasFrame(wire'[s], r))
    BY <1>6, QueueTypes, TailQueue DEF FlowStart
  <2> QED
    BY <1>0, <1>6, <2>1 DEF FlowStart, Quiet, Once
<1>7. CASE FlowFinish(s)
  <2>1. PICK ok \in BOOLEAN : Replied(s, Ack(Applies(s), ok))
    BY <1>7 DEF FlowFinish
  <2>2. Ack(Applies(s), ok) \in Replies /\ Ack(Applies(s), ok).req = Applies(s)
    BY <1>7, ReplyTypes DEF FlowFinish
  <2>3. /\ HasFrame(up'[s], r) => U \/ A
        /\ OnceIn(up[s], r) /\ (A => ~U) => OnceIn(up'[s], r)
    BY <2>1, <2>2, ReplyQueue
  <2> QED
    BY <1>0, <1>7, <2>3 DEF FlowFinish, Quiet, Once
<1>8. CASE FlowBeat(s)
  <2> DEFINE f == [type |-> "HEARTBEAT", req |-> None, ok |-> Ready(owner[s])]
  <2>1. f \in Replies /\ f.req = None /\ Replied(s, f)
    BY <1>8, ReplyTypes DEF FlowBeat
  <2> HIDE DEF f
  <2>2. /\ HasFrame(up'[s], r) => U
        /\ OnceIn(up[s], r) => OnceIn(up'[s], r)
    BY <1>0, <2>1, ReplyQueue
  <2> QED
    BY <1>8, <2>2 DEF FlowBeat, Quiet, Once
<1>9. ASSUME NEW x \in Requests, FlowSend(s, x)
      PROVE  (Quiet(r, s) => Quiet(r, s)') /\ (Once(r, s) => Once(r, s)')
  <2>1. x # r /\ FrameOf(x).req = x /\ FrameOf(x) \in Frames
    BY <1>9, BroadcastFramesAreFrames DEF FlowSend, FrameOf
  <2>2. /\ HasFrame(sendCh'[s], r) <=> S
        /\ OnceIn(sendCh[s], r) => OnceIn(sendCh'[s], r)
    BY <1>9, <2>1, QueueTypes, AppendQueue DEF FlowSend
  <2> QED
    BY <1>9, <2>2 DEF FlowSend, Quiet, Once
<1>10. ASSUME NEW x \in Requests, FlowTake(s, x)
       PROVE  (Quiet(r, s) => Quiet(r, s)') /\ (Once(r, s) => Once(r, s)')
  <2>1. /\ K <=> Head(acks[s]).req = r \/ HasFrame(acks'[s], r)
        /\ OnceIn(acks[s], r) => OnceIn(acks'[s], r)
    BY <1>10, QueueTypes, TailQueue DEF FlowTake
  <2> QED
    BY <1>10, <2>1 DEF FlowTake, Quiet, Once
<1> QED
  BY <1>0, <1>1, <1>2, <1>3, <1>4, <1>5, <1>6, <1>7, <1>8, <1>9, <1>10 DEF Flow

-------------------------------------------------------------------------------
(* Progress of a deployment *)

LEMMA DeployerTypes ==
    ASSUME BaseInv, NEW r \in RouteRequests
    PROVE  /\ r \in Requests /\ pc[r] \in RoutePCs /\ pos[r] \in Nat
           /\ targets[r] \in Seq(Sessions) /\ DOMAIN targets[r] = 1 .. Len(targets[r])
           /\ Len(targets[r]) \in Nat
           /\ pc[r] \in SendPCs \union WaitPCs => pos[r] \in DOMAIN targets[r]
           /\ pc[r] = "commit" => pos[r] = 1
           /\ pc[r] = "lock" => pos[r] = 1
           /\ \A i \in DOMAIN targets[r] :
                 targets[r][i] \in Sessions /\ targets[r][i] <= opened
           /\ \A i, j \in DOMAIN targets[r] : targets[r][i] = targets[r][j] => i = j
<1>1. r \in Requests /\ RequestInv
  BY BaseParts DEF Requests
<1>2. targets[r] \in Seq(Sessions)
  BY <1>1, RequestTypes
<1>3. /\ pc[r] \in RoutePCs /\ pos[r] \in Nat
      /\ pc[r] \in SendPCs \union WaitPCs => pos[r] \in 1 .. Len(targets[r])
      /\ pc[r] = "commit" => pos[r] = 1
      /\ pc[r] = "lock" => pos[r] = 1
  BY <1>1 DEF RequestInv, RequestTypeOK, LoopReset
<1>4. /\ \A i \in DOMAIN targets[r] : targets[r][i] <= opened
      /\ \A i, j \in DOMAIN targets[r] : targets[r][i] = targets[r][j] => i = j
  BY <1>1, BaseParts DEF TargetsInv, TargetsAt
<1> QED
  BY <1>1, <1>2, <1>3, <1>4

\* A frame is sent to one session, the next one.
LEMMA ProgressOfSend ==
    ASSUME BaseInv, NEW r \in RouteRequests, SendFrame(r), NEW i \in DOMAIN targets[r]
    PROVE  /\ targets'[r] = targets[r] /\ route'[r] = route[r]
           /\ i # pos[r] => Progress(r, i)' = Progress(r, i) /\ Target(r) # targets[r][i]
           /\ i = pos[r] =>
                 /\ Target(r) = targets[r][i]
                 /\ \/ /\ pc[r] = "prepareSend"
                       /\ Progress(r, i) = "unasked" /\ Progress(r, i)' = "asked"
                    \/ /\ pc[r] = "activateSend"
                       /\ Progress(r, i) = "prepared" /\ Progress(r, i)' = "activating"
<1>0. /\ pc[r] \in {"prepareSend", "activateSend"} /\ r \in Requests
      /\ pos[r] \in 1 .. Len(targets[r]) /\ i \in 1 .. Len(targets[r])
      /\ Len(targets[r]) \in Nat
  BY DeployerTypes DEF SendFrame, SendPCs, WaitPCs, RoutePCs
<1>1. targets'[r] = targets[r] /\ route'[r] = route[r]
  BY DEF SendFrame
<1>2. \/ pos[r] < Len(targets[r]) /\ pos'[r] = pos[r] + 1 /\ pc'[r] = pc[r]
      \/ /\ pos[r] = Len(targets[r]) /\ pos'[r] = 1
         /\ pc[r] = "prepareSend" => pc'[r] = "prepareWait"
         /\ pc[r] = "activateSend" => pc'[r] = "activateWait"
  <2>1. pc \in [Requests -> RoutePCs \union OtherPCs] /\ pos \in [Requests -> Nat]
    BY BaseParts, RequestTypes
  <2> QED
    BY <1>0, <2>1 DEF SendFrame, AfterSend, SentAll
<1>3. i # pos[r] => Target(r) # targets[r][i]
  BY <1>0, DeployerTypes DEF Target
<1>4. i = pos[r] => Target(r) = targets[r][i]
  BY DEF Target
<1>5. i # pos[r] => Progress(r, i)' = Progress(r, i)
  BY <1>0, <1>2 DEF Progress
<1>6. i = pos[r] =>
         \/ /\ pc[r] = "prepareSend"
            /\ Progress(r, i) = "unasked" /\ Progress(r, i)' = "asked"
         \/ /\ pc[r] = "activateSend"
            /\ Progress(r, i) = "prepared" /\ Progress(r, i)' = "activating"
  BY <1>0, <1>2 DEF Progress
<1> QED
  BY <1>1, <1>3, <1>4, <1>5, <1>6

\* An acknowledgement of r is taken from one session, the next one.
LEMMA ProgressOfTake ==
    ASSUME BaseInv, NEW r \in RouteRequests, TakeAck(r), NEW i \in DOMAIN targets'[r],
           Progress(r, i)' # "over"
    PROVE  /\ targets'[r] = targets[r] /\ route'[r] = route[r] /\ pc[r] \in WaitPCs
           /\ \/ Progress(r, i)' = Progress(r, i) /\ Head(acks[Target(r)]).req # r
              \/ Progress(r, i)' = Progress(r, i) /\ Target(r) # targets[r][i]
              \/ /\ Target(r) = targets[r][i]
                 /\ Head(acks[Target(r)]).req = r /\ Head(acks[Target(r)]).ok
                 /\ \/ Progress(r, i) = "asked" /\ Progress(r, i)' = "prepared"
                    \/ Progress(r, i) = "activating" /\ Progress(r, i)' = "activated"
<1>0. /\ pc[r] \in {"prepareWait", "activateWait"} /\ r \in Requests
      /\ pos[r] \in 1 .. Len(targets[r]) /\ Len(targets[r]) \in Nat
      /\ pc[r] \in WaitPCs
      /\ pc \in [Requests -> RoutePCs \union OtherPCs] /\ pos \in [Requests -> Nat]
      /\ answer \in [Requests -> Answers]
  BY DeployerTypes, BaseParts, RequestTypes DEF TakeAck, WaitPCs, RoutePCs
<1>1. CASE Head(acks[Target(r)]).req # r
  <2>1. UNCHANGED <<pc, answer, deployMu, route, targets, pos, ready>>
    BY <1>1 DEF TakeAck, AckOf
  <2> QED
    BY <1>0, <1>1, <2>1 DEF Progress
<1>2. CASE Fail(r)
  <2>1. pc'[r] = "done" /\ answer'[r] = "503"
    BY <1>0, <1>2 DEF Fail, Answer
  <2> QED
    BY <2>1 DEF Progress
<1>3. CASE Head(acks[Target(r)]).req = r /\ ~Fail(r)
  <2>1. /\ UNCHANGED <<route, targets>> /\ Head(acks[Target(r)]).ok
        /\ IF pos[r] < Len(targets[r])
           THEN /\ pos' = [pos EXCEPT ![r] = @ + 1]
                /\ UNCHANGED <<pc, answer, deployMu, ready>>
           ELSE BroadcastDone(r) /\ pos' = [pos EXCEPT ![r] = 1]
    BY <1>3 DEF TakeAck, AckOf
  <2>2. \/ pos[r] < Len(targets[r]) /\ pos'[r] = pos[r] + 1 /\ pc'[r] = pc[r]
        \/ /\ pos[r] = Len(targets[r])
           /\ pc[r] = "prepareWait" => pc'[r] = "commit"
           /\ pc[r] = "activateWait" => pc'[r] = "done" /\ answer'[r] = "200"
    BY <1>0, <2>1 DEF BroadcastDone, Answer
  <2>3. i \in 1 .. Len(targets[r]) /\ targets'[r] = targets[r]
    BY <2>1, DeployerTypes
  <2>4. i # pos[r] => Target(r) # targets[r][i]
    BY <1>0, <2>3, DeployerTypes DEF Target
  <2>5. i = pos[r] => Target(r) = targets[r][i]
    BY DEF Target
  <2>6. i # pos[r] => Progress(r, i)' = Progress(r, i)
    BY <1>0, <2>2, <2>3 DEF Progress
  <2>7. i = pos[r] => \/ Progress(r, i) = "asked" /\ Progress(r, i)' = "prepared"
                      \/ Progress(r, i) = "activating" /\ Progress(r, i)' = "activated"
    BY <1>0, <2>2, <2>3 DEF Progress
  <2> QED
    BY <1>0, <1>3, <2>1, <2>4, <2>5, <2>6, <2>7
<1> QED
  BY <1>1, <1>2, <1>3

\* The session becomes a target of deployment r.
Begins(r, i) ==
    /\ pc[r] = "lock" /\ Progress(r, i)' = "unasked"
    /\ targets'[r][i] \in ReadySessions
    /\ UNCHANGED <<gatewayVars, sessionVars>>

\* Nothing happens between the deployment and the session.
Rests(r, i) ==
    /\ Progress(r, i)' = Progress(r, i)
    /\ ~FlowSend(targets[r][i], r)
    /\ FlowTake(targets[r][i], r) => Head(acks[targets[r][i]]).req # r

\* The deployment's frame goes to the session.
Asks(r, i) ==
    /\ SendFrame(r) /\ Target(r) = targets[r][i]
    /\ \/ /\ pc[r] = "prepareSend"
          /\ Progress(r, i) = "unasked" /\ Progress(r, i)' = "asked"
       \/ /\ pc[r] = "activateSend"
          /\ Progress(r, i) = "prepared" /\ Progress(r, i)' = "activating"

\* The deployment takes the session's acknowledgement.
Gets(r, i) ==
    /\ TakeAck(r) /\ Target(r) = targets[r][i]
    /\ Head(acks[targets[r][i]]).req = r /\ Head(acks[targets[r][i]]).ok
    /\ \/ Progress(r, i) = "asked" /\ Progress(r, i)' = "prepared"
       \/ Progress(r, i) = "activating" /\ Progress(r, i)' = "activated"

LEMMA ProgressStep ==
    ASSUME BaseInv, [Next]_vars, NEW r \in RouteRequests, NEW i \in DOMAIN targets'[r],
           Progress(r, i)' # "over"
    PROVE  \/ Begins(r, i)
           \/ /\ targets'[r] = targets[r] /\ route'[r] = route[r]
              /\ Rests(r, i) \/ Asks(r, i) \/ Gets(r, i)
<1>0. /\ r \in Requests /\ pc \in [Requests -> RoutePCs \union OtherPCs]
      /\ pos \in [Requests -> Nat] /\ answer \in [Requests -> Answers]
      /\ targets \in [Requests -> Seq(Sessions)] /\ TypeInv
  BY BaseParts, RequestTypes, DeployerTypes
<1>1. CASE SendFrame(r)
  <2>1. targets'[r] = targets[r]
    BY <1>1 DEF SendFrame
  <2>2. CASE i = pos[r]
    BY <1>1, <2>1, <2>2, ProgressOfSend DEF Asks
  <2>3. CASE i # pos[r]
    <3>1. /\ route'[r] = route[r] /\ Progress(r, i)' = Progress(r, i)
          /\ Target(r) # targets[r][i]
      BY <1>1, <2>1, <2>3, ProgressOfSend
    <3> QED
      BY <2>1, <3>1 DEF Rests, FlowSend, FlowTake
  <2> QED
    BY <2>2, <2>3
<1>2. CASE TakeAck(r)
  <2>1. \A p \in WaitPCs : p \notin SendPCs
    BY DEF WaitPCs, SendPCs
  <2>2. ~SendFrame(r)
    BY <1>2, <2>1 DEF SendFrame, TakeAck
  <2> QED
    BY <1>2, <2>2, ProgressOfTake DEF Rests, Gets, FlowSend, FlowTake
<1>3. CASE ~SendFrame(r) /\ ~TakeAck(r)
  <2>a. ASSUME pc'[r] = pc[r], pos'[r] = pos[r], targets'[r] = targets[r],
               route'[r] = route[r], answer'[r] = answer[r]
        PROVE  targets'[r] = targets[r] /\ route'[r] = route[r] /\ Rests(r, i)
    <3>1. Progress(r, i)' = Progress(r, i)
      BY <2>a DEF Progress
    <3> QED
      BY <1>3, <2>a, <3>1 DEF Rests, FlowSend, FlowTake
  <2>b. ASSUME Fail(r) PROVE FALSE
    <3>1. pc'[r] = "done" /\ answer'[r] = "503"
      BY <1>0, <2>b DEF Fail, Answer
    <3> QED
      BY <3>1 DEF Progress
  <2>1. ASSUME NEW x \in Requests, RequestStep(x), x # r
        PROVE  targets'[r] = targets[r] /\ route'[r] = route[r] /\ Rests(r, i)
    BY <1>0, <2>1, <2>a, RequestStepLocal
  <2>2. ASSUME UNCHANGED requestVars
        PROVE  targets'[r] = targets[r] /\ route'[r] = route[r] /\ Rests(r, i)
    BY <2>2, <2>a DEF requestVars
  <2>3. CASE GiveUpWaiting(r) \/ CancelSending(r)
    BY <2>3, <2>b DEF GiveUpWaiting, CancelSending
  <2>4. ASSUME NEW e \in Expected, Stage(r, e) PROVE FALSE
    <3>1. \/ pc'[r] = "lock"
          \/ pc'[r] = "done" /\ answer'[r] \in {"409", "500"}
      BY <1>0, <2>4 DEF Stage, Answer
    <3> QED
      BY <3>1 DEF Progress
  <2>5. CASE LockAndTarget(r)
    <3>1. /\ pc[r] = "lock" /\ pc'[r] = "prepareSend" /\ UNCHANGED pos
          /\ ReadySessions # {} /\ targets'[r] \in Orders(ReadySessions)
          /\ UNCHANGED <<gatewayVars, sessionVars>>
      BY <1>0, <2>5, <2>b DEF LockAndTarget
    <3>2. targets'[r][i] \in ReadySessions /\ ~(i < 1)
      <4>1. targets'[r] \in [1 .. Cardinality(ReadySessions) -> ReadySessions]
        BY <3>1 DEF Orders
      <4>2. Cardinality(ReadySessions) \in Nat
        BY ReadySessionsFinite, FS_CardinalityType
      <4>3. i \in 1 .. Cardinality(ReadySessions)
        BY <4>1
      <4> QED
        BY <4>1, <4>2, <4>3
    <3>3. pos'[r] = 1
      BY <3>1, DeployerTypes
    <3>4. Progress(r, i)' = "unasked"
      BY <3>1, <3>2, <3>3 DEF Progress
    <3> QED
      BY <3>1, <3>2, <3>4 DEF Begins
  <2>6. CASE Commit(r)
    <3>1. /\ pc[r] = "commit" /\ pc'[r] = "activateSend"
          /\ UNCHANGED <<route, targets, pos>>
      BY <1>0, <2>6, <2>b DEF Commit
    <3>2. pos[r] = 1 /\ i \in 1 .. Len(targets[r]) /\ Len(targets[r]) \in Nat
      BY <3>1, DeployerTypes
    <3>3. Progress(r, i)' = Progress(r, i)
      BY <3>1, <3>2 DEF Progress
    <3> QED
      BY <1>3, <3>1, <3>3 DEF Rests, FlowSend, FlowTake
  <2>7. CASE ControlPlaneRestart
    <3>1. /\ UNCHANGED <<route, targets>>
          /\ pc'[r] = IF pc[r] = "idle" THEN "idle" ELSE "done"
          /\ answer'[r] = IF pc[r] \in {"idle", "done"} THEN answer[r] ELSE "lost"
      BY <1>0, <2>7 DEF ControlPlaneRestart
    <3>2. Progress(r, i)' = Progress(r, i)
      BY <3>1 DEF Progress
    <3> QED
      BY <1>3, <3>1, <3>2 DEF Rests, FlowSend, FlowTake
  <2>8. r \notin InterruptRequests /\ r \notin DrainRequests
    BY RequestsAssumption
  <2>9. ASSUME RequestStep(r)
        PROVE  \/ Begins(r, i)
               \/ /\ targets'[r] = targets[r] /\ route'[r] = route[r]
                  /\ Rests(r, i) \/ Asks(r, i) \/ Gets(r, i)
    BY <1>3, <2>3, <2>4, <2>5, <2>6, <2>8, <2>9 DEF RequestStep, BroadcastStep
  <2> QED
    BY <2>1, <2>2, <2>7, <2>9, StepKinds, RemoteStepsKeepRequests DEF vars
<1> QED
  BY <1>1, <1>2, <1>3

-------------------------------------------------------------------------------
(* A 200 is durable *)

\* Gateway g has version v or a later one, also after a restart.
Holds(g, v) ==
    active[g].version >= v /\ file[g] # None /\ file[g].version >= v

ActivateFrames(r) ==
    {f \in Frames : f.req = r => f.type = "ACTIVATE" /\ f.route = route[r]}

\* A positive acknowledgement of r by gateway g means that g holds r's version.
HonestReplies(r, g) == {f \in Replies : f.req = r /\ f.ok => Holds(g, route[r].version)}

Activating(r, s) ==
    /\ sendCh[s] \in Seq(ActivateFrames(r)) /\ wire[s] \in Seq(ActivateFrames(r))
    /\ Applies(s) = r => active[owner[s]].version >= route[r].version
    /\ up[s] \in Seq(HonestReplies(r, owner[s]))
    /\ acks[s] \in Seq(HonestReplies(r, owner[s]))

DurableAt(r, i) ==
    /\ Progress(r, i) \in {"unasked", "prepared"} => Quiet(r, targets[r][i])
    /\ Progress(r, i) = "asked" => Once(r, targets[r][i])
    /\ Progress(r, i) = "activating" => Activating(r, targets[r][i])
    /\ Progress(r, i) = "activated" => Holds(owner[targets[r][i]], route[r].version)

DurableInv ==
    \A r \in RouteRequests :
        /\ pc[r] \in {"idle", "lock"} =>
              \A s \in Sessions : s <= opened => Quiet(r, s)
        /\ \A i \in DOMAIN targets[r] : DurableAt(r, i)

\* What a gateway holds it keeps: SNAPSHOT and ACTIVATE bring it no older version, and a
\* restart brings it back to its file.
LEMMA HoldsStep ==
    ASSUME BaseInv, [Next]_vars, NEW g \in Gateways, NEW v \in Nat, Holds(g, v)
    PROVE  Holds(g, v)'
<1>0. /\ TypeInv /\ GatewayTypeOK /\ VersionInv /\ ServedAt(g)
      /\ active[g].version \in Nat /\ file[g].version \in Nat /\ pending[g].version \in Nat
      /\ active \in [Gateways -> Routes] /\ file \in [Gateways -> Routes \union {None}]
  BY BaseParts, VersionsAreNatural DEF ServedInv, Holds, GatewayTypeOK
<1>1. ASSUME UNCHANGED gatewayVars PROVE Holds(g, v)'
  BY <1>1 DEF gatewayVars, Holds
<1>2. ASSUME NEW h \in Gateways, GatewayStep(h), h # g PROVE Holds(g, v)'
  BY <1>0, <1>2, GatewayStepLocal DEF Holds
<1>3. ASSUME GatewayStep(g) PROVE Holds(g, v)'
  <2>1. CASE UNCHANGED <<active, file>>
    BY <2>1 DEF Holds
  <2>2. CASE /\ Received(g, "SNAPSHOT")
             /\ active' = [active EXCEPT ![g] = Frame(g).route]
             /\ file' = [file EXCEPT ![g] = Frame(g).route]
    <3>1. SnapshotWaits(g) /\ Frame(g) \in Frames
      BY <1>0, <2>2, ReceivedFrame DEF Received, SnapshotWaits, Frame
    <3>2. /\ Frame(g).route.version >= active[g].version
          /\ Frame(g).route \in Routes /\ Frame(g).route.version \in Nat
      BY <1>0, <3>1, FrameParts, VersionsAreNatural DEF ServedAt
    <3>3. Frame(g).route # None
      BY <3>2, NoneAssumption
    <3>4. Frame(g).route.version >= v
      BY <1>0, <3>2 DEF Holds
    <3> QED
      BY <1>0, <2>2, <3>3, <3>4 DEF Holds
  <2>3. CASE /\ pending[g] # NoRoute
             /\ active' = [active EXCEPT ![g] = pending[g]]
             /\ UNCHANGED file
    BY <1>0, <2>3 DEF Holds, ServedAt
  <2>4. CASE UNCHANGED active /\ file' = [file EXCEPT ![g] = active[g]]
    <3>1. active[g] # None
      BY <1>0, NoneAssumption
    <3> QED
      BY <1>0, <2>4, <3>1 DEF Holds
  <2>5. CASE /\ active' = [active EXCEPT ![g] = IF file[g] = None THEN NoRoute ELSE file[g]]
             /\ UNCHANGED file
    BY <1>0, <2>5 DEF Holds
  <2> QED
    BY <1>0, <1>3, <2>1, <2>2, <2>3, <2>4, <2>5, TableSteps
<1> QED
  BY <1>0, <1>1, <1>2, <1>3, RemoteSteps, SessionStepLocal

\* While r's ACTIVATE is under way the session carries nothing that would mislead it.
LEMMA ActivatingStep ==
    ASSUME BaseInv, [Next]_vars, NEW s \in Sessions, s <= opened, NEW r \in RouteRequests,
           route'[r] = route[r], ~FlowSend(s, r), Activating(r, s)
    PROVE  Activating(r, s)'
<1> DEFINE g == owner[s]
           v == route[r].version
           F == ActivateFrames(r)
           H == HonestReplies(r, g)'
<1>0. /\ r # None /\ Flow(s) /\ r \in Requests /\ owner[s] \in Gateways
      /\ owner'[s] = owner[s] /\ v \in Nat
      /\ active[g] \in Routes /\ active[g].version \in Nat
  <2>1. r # None /\ r \in Requests /\ Flow(s) /\ owner[s] \in Gateways /\ owner'[s] = owner[s]
    BY FlowStep, SessionsStay, StoreAssumption DEF Requests
  <2>2. route[r] \in Routes /\ active[g] \in Routes
    BY <2>1, BaseParts, RequestTypes DEF GatewayTypeOK
  <2> QED
    BY <2>1, <2>2 DEF Routes
<1>1. ActivateFrames(r)' = F
  BY DEF ActivateFrames
<1>2. Holds(g, v) => Holds(g, v)'
  BY <1>0, HoldsStep
<1>3. HonestReplies(r, owner[s]) \subseteq H /\ HonestReplies(r, owner[s])' = H
  BY <1>0, <1>2 DEF HonestReplies
<1>4. /\ sendCh[s] \in Seq(F) /\ wire[s] \in Seq(F) /\ up[s] \in Seq(H) /\ acks[s] \in Seq(H)
      /\ <<>> \in Seq(F) /\ <<>> \in Seq(H)
      /\ Applies(s) = r => active[g].version >= v
  BY <1>3, WiderSequences DEF Activating
<1>5. \A f \in Frames : f.req # r => f \in F
  BY DEF ActivateFrames
<1>6. \A f \in Replies : f.req # r \/ ~f.ok \/ Holds(g, v)' => f \in H
  BY <1>0 DEF HonestReplies
<1>7. /\ \A f \in F : f.req = r => f.type = "ACTIVATE" /\ f.route = route[r]
      /\ \A q \in Seq(F) : q # <<>> => Head(q) \in F /\ Tail(q) \in Seq(F)
      /\ \A q \in Seq(H) : q # <<>> => Head(q) \in H /\ Tail(q) \in Seq(H)
      /\ \A q \in Seq(F) : \A f \in F : Append(q, f) \in Seq(F)
      /\ \A q \in Seq(H) : \A f \in H : Append(q, f) \in Seq(H)
  <2>1. \A f \in F : f.req = r => f.type = "ACTIVATE" /\ f.route = route[r]
    BY DEF ActivateFrames
  <2> HIDE DEF F, H
  <2> QED
    BY <2>1
<1>8. ASSUME NEW f \in Replies, f.req # r \/ ~f.ok \/ Holds(g, v)', Replied(s, f)
      PROVE  up'[s] \in Seq(H)
  BY <1>4, <1>6, <1>7, <1>8 DEF Replied
<1> SUFFICES /\ sendCh'[s] \in Seq(F) /\ wire'[s] \in Seq(F)
             /\ up'[s] \in Seq(H) /\ acks'[s] \in Seq(H)
             /\ Applies(s)' = r => active'[g].version >= v
  BY <1>0, <1>1, <1>3 DEF Activating
<1> HIDE DEF g, v, F, H
<1>9. Applies(s)' = Applies(s) => (Applies(s)' = r => active'[g].version >= v)
  BY <1>0, <1>4, TableWhileApplying DEF g
<1>10. CASE FlowCut(s)
  BY <1>0, <1>4, <1>9, <1>10 DEF FlowCut
<1>11. CASE FlowSnapshot(s)
  BY <1>0, <1>4, <1>5, <1>7, <1>9, <1>11 DEF FlowSnapshot
<1>12. CASE FlowForward(s)
  BY <1>4, <1>7, <1>9, <1>12 DEF FlowForward
<1>13. CASE FlowReceive(s)
  BY <1>4, <1>7, <1>9, <1>13 DEF FlowReceive
<1>14. CASE FlowAnswer(s)
  <2>1. PICK ok \in BOOLEAN : /\ Replied(s, Ack(Head(wire[s]).req, ok))
                              /\ Head(wire[s]).type = "ACTIVATE" => ok = FALSE
    BY <1>14 DEF FlowAnswer
  <2> DEFINE f == Ack(Head(wire[s]).req, ok)
  <2>2. f \in Replies /\ f.req = Head(wire[s]).req /\ f.ok = ok /\ Replied(s, f)
    BY <1>14, <2>1, ReplyTypes DEF FlowAnswer
  <2> HIDE DEF f
  <2>3. Head(wire[s]) \in F /\ wire'[s] \in Seq(F)
    BY <1>4, <1>7, <1>14 DEF FlowAnswer
  <2>4. f.req # r \/ ~f.ok
    BY <1>7, <2>1, <2>2, <2>3
  <2>5. up'[s] \in Seq(H)
    BY <1>8, <2>2, <2>4
  <2> QED
    BY <1>0, <1>4, <1>14, <2>3, <2>5 DEF FlowAnswer
<1>15. CASE FlowStart(s)
  <2>1. Head(wire[s]) \in F /\ wire'[s] \in Seq(F)
    BY <1>4, <1>7, <1>15 DEF FlowStart
  <2>2. Applies(s)' = r => active'[g].version >= v
    BY <1>0, <1>7, <1>15, <2>1 DEF FlowStart, g, v
  <2> QED
    BY <1>4, <1>15, <2>1, <2>2 DEF FlowStart
<1>16. CASE FlowFinish(s)
  <2>1. PICK ok \in BOOLEAN : /\ Replied(s, Ack(Applies(s), ok))
                              /\ ok = TRUE => file'[owner[s]] = active[owner[s]]
    BY <1>16 DEF FlowFinish
  <2> DEFINE f == Ack(Applies(s), ok)
  <2>2. f \in Replies /\ f.req = Applies(s) /\ f.ok = ok /\ Replied(s, f)
    BY <1>16, <2>1, ReplyTypes DEF FlowFinish
  <2> HIDE DEF f
  <2>3. active[g] # None
    BY <1>0, NoneAssumption
  <2>4. f.req # r \/ ~f.ok \/ Holds(g, v)'
    <3>1. CASE Applies(s) = r /\ ok = TRUE
      <4>1. /\ active'[g] = active[g] /\ file'[g] = active[g] /\ active[g].version >= v
            /\ g' = g /\ v' = v
        BY <1>0, <1>4, <1>16, <2>1, <3>1 DEF FlowFinish, g, v
      <4> QED
        BY <2>3, <4>1 DEF Holds
    <3> QED
      BY <2>2, <3>1
  <2>5. up'[s] \in Seq(H)
    BY <1>8, <2>2, <2>4
  <2> QED
    BY <1>0, <1>4, <1>16, <2>5 DEF FlowFinish
<1>17. CASE FlowBeat(s)
  <2> DEFINE f == [type |-> "HEARTBEAT", req |-> None, ok |-> Ready(owner[s])]
  <2>1. f \in Replies /\ f.req = None /\ Replied(s, f)
    BY <1>17, ReplyTypes DEF FlowBeat
  <2> HIDE DEF f
  <2>2. up'[s] \in Seq(H)
    BY <1>0, <1>8, <2>1
  <2> QED
    BY <1>4, <1>9, <1>17, <2>2 DEF FlowBeat
<1>18. ASSUME NEW x \in Requests, FlowSend(s, x)
       PROVE  /\ sendCh'[s] \in Seq(F) /\ wire'[s] \in Seq(F)
              /\ up'[s] \in Seq(H) /\ acks'[s] \in Seq(H)
              /\ Applies(s)' = r => active'[g].version >= v
  <2>1. x # r /\ FrameOf(x).req = x /\ FrameOf(x) \in Frames
    BY <1>18, BroadcastFramesAreFrames DEF FlowSend, FrameOf
  <2> QED
    BY <1>4, <1>5, <1>7, <1>9, <1>18, <2>1 DEF FlowSend
<1>19. ASSUME NEW x \in Requests, FlowTake(s, x)
       PROVE  /\ sendCh'[s] \in Seq(F) /\ wire'[s] \in Seq(F)
              /\ up'[s] \in Seq(H) /\ acks'[s] \in Seq(H)
              /\ Applies(s)' = r => active'[g].version >= v
  BY <1>4, <1>7, <1>9, <1>19 DEF FlowTake
<1> QED
  BY <1>0, <1>10, <1>11, <1>12, <1>13, <1>14, <1>15, <1>16, <1>17, <1>18, <1>19 DEF Flow

\* A request that has not begun had not begun before.
LEMMA WaitingStep ==
    ASSUME BaseInv, [Next]_vars, NEW r \in Requests
    PROVE  /\ pc'[r] \in {"idle", "lock"} => pc[r] \in {"idle", "lock"}
           /\ pc'[r] = "idle" => pc[r] = "idle"
<1>0. RequestInv /\ pc \in [Requests -> RoutePCs \union OtherPCs] /\ TypeInv
  BY BaseParts, RequestTypes
<1>1. ASSUME pc'[r] = pc[r]
      PROVE  /\ pc'[r] \in {"idle", "lock"} => pc[r] \in {"idle", "lock"}
             /\ pc'[r] = "idle" => pc[r] = "idle"
  BY <1>1
<1>2. ASSUME ControlPlaneRestart
      PROVE  /\ pc'[r] \in {"idle", "lock"} => pc[r] \in {"idle", "lock"}
             /\ pc'[r] = "idle" => pc[r] = "idle"
  BY <1>0, <1>2 DEF ControlPlaneRestart
<1>3. ASSUME RequestStep(r)
      PROVE  /\ pc'[r] \in {"idle", "lock"} => pc[r] \in {"idle", "lock"}
             /\ pc'[r] = "idle" => pc[r] = "idle"
  <2>f. ASSUME Fail(r) PROVE pc'[r] = "done"
    BY <1>0, <2>f DEF Fail, Answer
  <2>1. CASE SendFrame(r)
    BY <1>0, <2>1 DEF SendFrame, AfterSend, SentAll, SendPCs
  <2>2. CASE TakeAck(r)
    <3>1. CASE Fail(r)
      BY <2>f, <3>1
    <3>2. CASE BroadcastDone(r)
      BY <1>0, <3>2 DEF BroadcastDone, Answer
    <3> QED
      BY <2>2, <3>1, <3>2 DEF TakeAck
  <2>3. CASE GiveUpWaiting(r) \/ CancelSending(r)
    BY <2>3, <2>f DEF GiveUpWaiting, CancelSending
  <2>4. CASE LockAndTarget(r)
    BY <1>0, <2>4, <2>f DEF LockAndTarget
  <2>5. CASE Commit(r)
    BY <1>0, <2>5, <2>f DEF Commit
  <2>6. ASSUME NEW e \in Expected, Stage(r, e)
        PROVE  pc[r] = "idle" /\ pc'[r] \in {"lock", "done"}
    BY <1>0, <2>6 DEF Stage, Answer
  <2>7. ASSUME StartInterrupt(r) \/ \E g \in Gateways, v \in BOOLEAN : StartDrain(r, g, v)
        PROVE  pc[r] = "idle" /\ pc'[r] \in {"send", "done"}
    BY <1>0, <2>7 DEF StartInterrupt, StartDrain, Answer
  <2> QED
    BY <1>3, <2>1, <2>2, <2>3, <2>4, <2>5, <2>6, <2>7 DEF RequestStep, BroadcastStep
<1>4. ASSUME NEW x \in Requests, RequestStep(x), x # r PROVE pc'[r] = pc[r]
  BY <1>0, <1>4, RequestStepLocal
<1> QED
  BY <1>1, <1>2, <1>3, <1>4, StepKinds, RemoteStepsKeepRequests DEF vars, requestVars

\* A session that has just been opened carries nothing.
LEMMA NewSession ==
    ASSUME BaseInv, [Next]_vars, NEW s \in Sessions, s <= opened', ~(s <= opened)
    PROVE  /\ sendCh'[s] = <<>> /\ wire'[s] = <<>> /\ up'[s] = <<>> /\ acks'[s] = <<>>
           /\ Applies(s)' = None /\ ready'[s] = FALSE /\ phase'[s] = "registered"
           /\ owner'[s] \in Gateways
<1>0. /\ SessionTypeOK /\ UnopenedInv /\ FreshInv /\ HeldInv /\ opened \in Nat /\ TypeInv
      /\ s \in Nat /\ ready \in [Sessions -> BOOLEAN]
  BY BaseParts DEF SessionTypeOK, Sessions
<1>1. ASSUME UNCHANGED opened PROVE FALSE
  BY <1>1
<1>2. PICK g \in Gateways : Connect(g)
  <2>1. \A t \in Sessions : SessionStep(t) => UNCHANGED opened
    BY <1>0, SessionStepLocal
  <2>2. \A g \in Gateways : GatewayStep(g) => Connect(g) \/ UNCHANGED opened
    BY <1>0, GatewayStepStream
  <2>3. \A r \in Requests : RequestStep(r) => UNCHANGED opened
    BY <1>0, RequestStepSessions
  <2>4. ControlPlaneRestart \/ UNCHANGED vars => UNCHANGED opened
    BY DEF ControlPlaneRestart, vars, sessionVars
  <2> QED
    BY <1>1, <2>1, <2>2, <2>3, <2>4, StepKinds
<1>3. /\ link[g] = None /\ opened' = opened + 1
      /\ UNCHANGED <<gatewayVars, ready, sendCh, wire, up, acks>>
      /\ owner' = [owner EXCEPT ![opened + 1] = g]
      /\ phase' = [phase EXCEPT ![opened + 1] = "registered"]
  BY <1>2 DEF Connect
<1>4. s = opened + 1 /\ s > opened
  BY <1>0, <1>3
<1>5. owner'[s] = g /\ phase'[s] = "registered" /\ applying[g] = None
  BY <1>0, <1>3, <1>4 DEF SessionTypeOK, HeldInv
<1>6. sendCh[s] = <<>> /\ wire[s] = <<>> /\ up[s] = <<>> /\ acks[s] = <<>> /\ ~ready[s]
  BY <1>0, <1>4 DEF UnopenedInv, FreshInv
<1>7. Applies(s)' = None
  BY <1>3, <1>5 DEF Applies, gatewayVars
<1>8. ready'[s] = FALSE
  BY <1>0, <1>3, <1>6
<1> QED
  BY <1>3, <1>5, <1>6, <1>7, <1>8

\* Nothing of a request that has not begun is anywhere.
LEMMA UnbegunStep ==
    ASSUME BaseInv, [Next]_vars, NEW r \in Requests, pc'[r] \in {"idle", "lock"},
           \A s \in Sessions : s <= opened => Quiet(r, s),
           NEW s \in Sessions, s <= opened'
    PROVE  Quiet(r, s)'
<1>1. r # None
  BY RequestsAssumption, StoreAssumption DEF Requests
<1>2. CASE s <= opened
  <2>1. ~FlowSend(s, r)
    BY WaitingStep DEF FlowSend, SendFrame, SendPCs
  <2> QED
    BY <1>2, <2>1, QuietStep
<1>3. CASE ~(s <= opened)
  <2>1. /\ sendCh'[s] = <<>> /\ wire'[s] = <<>> /\ up'[s] = <<>> /\ acks'[s] = <<>>
        /\ Applies(s)' = None
    BY <1>3, NewSession
  <2>2. ~HasFrame(<<>>, r)
    BY EmptyQueue
  <2> QED
    BY <1>1, <2>1, <2>2 DEF Quiet
<1> QED
  BY <1>2, <1>3

\* A queue without frames of r is also one of whatever is asked of r's frames.
LEMMA WithoutFrames ==
    ASSUME NEW S, NEW T, NEW r, NEW q \in Seq(S), ~HasFrame(q, r),
           \A f \in S : f.req # r => f \in T
    PROVE  q \in Seq(T)
<1>1. q \in [1 .. Len(q) -> S] /\ DOMAIN q = 1 .. Len(q) /\ Len(q) \in Nat
  OBVIOUS
<1>2. \A i \in 1 .. Len(q) : q[i] \in T
  BY <1>1 DEF HasFrame
<1>3. q \in [1 .. Len(q) -> T]
  BY <1>1, <1>2
<1> QED
  BY <1>1, <1>3 DEF Seq

\* The frame that a deployment sends.
LEMMA FrameSent ==
    ASSUME BaseInv, NEW r \in RouteRequests, SendFrame(r), NEW s \in Sessions, s = Target(r)
    PROVE  /\ FrameOf(r).req = r /\ FrameOf(r) \in Frames /\ FrameOf(r).route = route[r]
           /\ pc[r] = "activateSend" => FrameOf(r).type = "ACTIVATE"
           /\ pc[r] = "prepareSend" => FrameOf(r).type = "PREPARE"
           /\ sendCh'[s] = Append(sendCh[s], FrameOf(r))
           /\ wire'[s] = wire[s] /\ up'[s] = up[s] /\ acks'[s] = acks[s]
           /\ UNCHANGED <<gatewayVars, link, owner, phase>> /\ Applies(s)' = Applies(s)
<1>1. RequestStep(r) /\ TypeInv /\ r \in Requests /\ SessionTypeOK
  BY BaseParts DEF RequestStep, BroadcastStep, Requests
<1>2. pc[r] \in SendPCs /\ Target(r) \in Sessions
  BY <1>1, TargetType DEF SendFrame
<1>3. FrameOf(r) \in Frames
  <2>1. FrameOf(r) \in BroadcastFrames
    BY <1>1, <1>2, TypeInvParts
    DEF FrameOf, BroadcastFrames, FramesOf, RequestInv, RequestTypeOK, RoutePCs, OtherPCs,
        SendPCs
  <2> QED
    BY <2>1, BroadcastFramesAreFrames
<1>4. /\ FrameOf(r).req = r /\ FrameOf(r).route = route[r]
      /\ pc[r] = "activateSend" => FrameOf(r).type = "ACTIVATE"
      /\ pc[r] = "prepareSend" => FrameOf(r).type = "PREPARE"
  <2>1. FrameOf(r).req = r /\ FrameOf(r).route = route[r]
    BY DEF FrameOf
  <2>2. pc[r] = "activateSend" => FrameOf(r).type = "ACTIVATE"
    BY RequestsAssumption DEF FrameOf
  <2>3. pc[r] = "prepareSend" => FrameOf(r).type = "PREPARE"
    BY RequestsAssumption DEF FrameOf
  <2> QED
    BY <2>1, <2>2, <2>3
<1>5. /\ sendCh'[Target(r)] = Append(sendCh[Target(r)], FrameOf(r))
      /\ UNCHANGED <<gatewayVars, link, owner, phase, wire, up, acks>>
  BY <1>1, <1>2 DEF SendFrame, SessionTypeOK
<1>6. Applies(s)' = Applies(s)
  BY <1>5 DEF Applies, Linked, gatewayVars
<1> QED
  BY <1>3, <1>4, <1>5, <1>6

\* The acknowledgement that a deployment takes.
LEMMA AckTaken ==
    ASSUME BaseInv, NEW r \in RouteRequests, TakeAck(r), NEW s \in Sessions, s = Target(r)
    PROVE  /\ acks[s] # <<>> /\ acks'[s] = Tail(acks[s])
           /\ sendCh'[s] = sendCh[s] /\ wire'[s] = wire[s] /\ up'[s] = up[s]
           /\ UNCHANGED <<gatewayVars, link, owner, phase>> /\ Applies(s)' = Applies(s)
<1>1. TypeInv /\ r \in Requests /\ SessionTypeOK
  BY BaseParts DEF Requests
<1>2. pc[r] \in WaitPCs /\ Target(r) \in Sessions
  BY <1>1, TargetType DEF TakeAck
<1>3. /\ acks[Target(r)] # <<>> /\ acks'[Target(r)] = Tail(acks[Target(r)])
      /\ UNCHANGED <<gatewayVars, link, owner, phase, sendCh, wire, up>>
  BY <1>1, <1>2 DEF TakeAck, SessionTypeOK
<1>4. Applies(s)' = Applies(s)
  BY <1>3 DEF Applies, Linked, gatewayVars
<1> QED
  BY <1>3, <1>4

\* What becomes of r's frames on the i-th session in one step of its deployment.
LEMMA DurableAtStep ==
    ASSUME BaseInv, DurableInv, [Next]_vars, NEW r \in RouteRequests,
           NEW i \in DOMAIN targets'[r]
    PROVE  DurableAt(r, i)'
<1>0. r \in Requests /\ r # None
  BY StoreAssumption DEF Requests
<1>1. CASE Progress(r, i)' = "over"
  BY <1>1 DEF DurableAt
<1>2. CASE Begins(r, i)
  <2>1. /\ targets'[r][i] \in Sessions /\ ready[targets'[r][i]] /\ pc[r] = "lock"
        /\ UNCHANGED <<gatewayVars, sessionVars>> /\ Progress(r, i)' = "unasked"
    BY <1>2 DEF Begins, ReadySessions
  <2>2. targets'[r][i] <= opened
    BY <2>1, BaseParts DEF UnopenedInv, Sessions
  <2>3. Quiet(r, targets'[r][i])
    BY <2>1, <2>2 DEF DurableInv
  <2>4. Quiet(r, targets[r][i])'
    BY <2>1, <2>3 DEF Quiet, Applies, Linked, gatewayVars, sessionVars
  <2> QED
    BY <2>1, <2>4 DEF DurableAt
<1>3. CASE ~Begins(r, i) /\ Progress(r, i)' # "over"
  <2>0. /\ targets'[r] = targets[r] /\ route'[r] = route[r]
        /\ Rests(r, i) \/ Asks(r, i) \/ Gets(r, i)
    BY <1>3, ProgressStep
  <2>1. PICK s \in Sessions : /\ s <= opened /\ i \in DOMAIN targets[r]
                              /\ targets[r][i] = s /\ targets'[r][i] = s
    BY <2>0, DeployerTypes
  <2> DEFINE p == Progress(r, i)
  <2>2. DurableAt(r, i)
    BY <2>1 DEF DurableInv
  <2>3. owner'[s] = owner[s] /\ owner[s] \in Gateways /\ route[r].version \in Nat
    BY <1>0, <2>1, SessionsStay, BaseParts, VersionsAreNatural
  <2>4. ASSUME Holds(owner[s], route[r].version) PROVE Holds(owner[s], route[r].version)'
    <3> DEFINE h == owner[s]
               v == route[r].version
    <3>1. h' = h /\ v' = v
      BY <2>0, <2>3
    <3>2. h \in Gateways /\ v \in Nat /\ Holds(h, v)
      BY <2>3, <2>4
    <3> HIDE DEF h, v
    <3>3. active'[h].version >= v /\ file'[h] # None /\ file'[h].version >= v
      BY <3>2, HoldsStep DEF Holds
    <3> QED
      BY <3>1, <3>3 DEF Holds, h, v
  <2>5. CASE Rests(r, i)
    <3>1. ~FlowSend(s, r) /\ Progress(r, i)' = p
      BY <2>1, <2>5 DEF Rests
    <3>2. /\ Quiet(r, s) => Quiet(r, s)'
          /\ Once(r, s) => Once(r, s)'
      BY <1>0, <2>1, <3>1, QuietStep
    <3>3. Activating(r, s) => Activating(r, s)'
      BY <2>0, <2>1, <3>1, ActivatingStep
    <3> QED
      BY <2>1, <2>2, <2>4, <3>1, <3>2, <3>3 DEF DurableAt
  <2>6. CASE Asks(r, i)
    <3>1. /\ SendFrame(r) /\ Target(r) = s
          /\ \/ /\ pc[r] = "prepareSend" /\ p = "unasked" /\ Progress(r, i)' = "asked"
             \/ /\ pc[r] = "activateSend" /\ p = "prepared" /\ Progress(r, i)' = "activating"
      BY <2>1, <2>6 DEF Asks
    <3>2. Quiet(r, s)
      BY <2>1, <2>2, <3>1 DEF DurableAt
    <3> HIDE DEF p
    <3>3. /\ Applies(s)' = Applies(s) /\ FrameOf(r).req = r /\ FrameOf(r) \in Frames /\ FrameOf(r).route = route[r]
          /\ pc[r] = "activateSend" => FrameOf(r).type = "ACTIVATE"
          /\ sendCh'[s] = Append(sendCh[s], FrameOf(r))
          /\ wire'[s] = wire[s] /\ up'[s] = up[s] /\ acks'[s] = acks[s]
          /\ UNCHANGED <<gatewayVars, link, owner>>
      BY <2>1, <3>1, FrameSent
    <3>5. CASE Progress(r, i)' = "asked"
      <4>1. HasFrame(sendCh'[s], r) /\ OnceIn(sendCh'[s], r)
        <5>1. ~HasFrame(sendCh[s], r) => OnceIn(sendCh[s], r)
          BY DEF HasFrame, OnceIn
        <5> QED
          BY <2>1, <3>2, <3>3, <5>1, QueueTypes, AppendQueue DEF Quiet
      <4>2. \A q : ~HasFrame(q, r) => OnceIn(q, r)
        BY DEF HasFrame, OnceIn
      <4>3. Once(r, s)'
        BY <2>1, <3>2, <3>3, <4>1, <4>2 DEF Quiet, Once
      <4> QED
        BY <2>1, <3>5, <4>3 DEF DurableAt
    <3>6. CASE Progress(r, i)' = "activating"
      <4>1. pc[r] = "activateSend"
        BY <3>1, <3>6
      <4> DEFINE F == ActivateFrames(r)'
                 H == HonestReplies(r, owner[s])'
      <4>2. /\ \A f \in Frames : f.req # r => f \in F
            /\ \A f \in Replies : f.req # r => f \in H
            /\ FrameOf(r) \in F
        BY <2>0, <3>3, <4>1 DEF ActivateFrames, HonestReplies
      <4> HIDE DEF F, H
      <4>3. /\ sendCh[s] \in Seq(F) /\ wire[s] \in Seq(F)
            /\ up[s] \in Seq(H) /\ acks[s] \in Seq(H)
        BY <2>1, <3>2, <4>2, WithoutFrames, QueueTypes DEF Quiet
      <4>4. sendCh'[s] \in Seq(F)
        BY <3>3, <4>2, <4>3
      <4>6. Activating(r, s)'
        BY <3>2, <3>3, <4>3, <4>4 DEF Activating, F, H, Quiet
      <4> QED
        BY <2>1, <3>6, <4>6 DEF DurableAt
    <3> QED
      BY <3>1, <3>5, <3>6
  <2>7. CASE Gets(r, i)
    <3>1. /\ TakeAck(r) /\ Target(r) = s /\ Head(acks[s]).req = r /\ Head(acks[s]).ok
          /\ \/ p = "asked" /\ Progress(r, i)' = "prepared"
             \/ p = "activating" /\ Progress(r, i)' = "activated"
      BY <2>1, <2>7 DEF Gets
    <3> HIDE DEF p
    <3>2. /\ acks[s] # <<>> /\ acks'[s] = Tail(acks[s]) /\ Applies(s)' = Applies(s)
          /\ sendCh'[s] = sendCh[s] /\ wire'[s] = wire[s] /\ up'[s] = up[s]
      BY <2>1, <3>1, AckTaken
    <3>3. CASE Progress(r, i)' = "prepared"
      <4>1. Once(r, s)
        BY <2>1, <2>2, <3>1, <3>3 DEF DurableAt, p
      <4>2. acks[s] \in Seq(Replies)
        BY <2>1, QueueTypes
      <4>3. HasFrame(acks[s], r) /\ ~HasFrame(acks'[s], r)
        BY <3>1, <3>2, <4>1, <4>2, TailQueue DEF Once
      <4>4. Quiet(r, s)'
        BY <2>1, <3>2, <4>1, <4>3 DEF Once, Quiet
      <4> QED
        BY <2>1, <3>3, <4>4 DEF DurableAt
    <3>4. CASE Progress(r, i)' = "activated"
      <4>1. Activating(r, s)
        BY <2>1, <2>2, <3>1, <3>4 DEF DurableAt, p
      <4>2. Head(acks[s]) \in HonestReplies(r, owner[s])
        BY <3>2, <4>1 DEF Activating
      <4>3. Holds(owner[s], route[r].version)
        BY <3>1, <4>2 DEF HonestReplies
      <4> QED
        BY <2>0, <2>1, <2>4, <3>4, <4>3 DEF DurableAt
    <3> QED
      BY <3>1, <3>3, <3>4
  <2> QED
    BY <2>0, <2>5, <2>6, <2>7
<1> QED
  BY <1>1, <1>2, <1>3

LEMMA DurableStep == BaseInv /\ DurableInv /\ [Next]_vars => DurableInv'
<1> SUFFICES ASSUME BaseInv, DurableInv, [Next]_vars, NEW r \in RouteRequests
             PROVE  /\ pc'[r] \in {"idle", "lock"} =>
                          \A s \in Sessions : s <= opened' => Quiet(r, s)'
                    /\ \A i \in DOMAIN targets'[r] : DurableAt(r, i)'
  BY DEF DurableInv
<1>1. ASSUME pc'[r] \in {"idle", "lock"}, NEW s \in Sessions, s <= opened'
      PROVE  Quiet(r, s)'
  <2>1. r \in Requests
    BY DEF Requests
  <2>2. \A t \in Sessions : t <= opened => Quiet(r, t)
    BY <1>1, <2>1, WaitingStep DEF DurableInv
  <2> QED
    BY <1>1, <2>1, <2>2, UnbegunStep
<1> QED
  BY <1>1, DurableAtStep

LEMMA DurableInit == Init => DurableInv
<1> SUFFICES ASSUME Init PROVE DurableInv
  OBVIOUS
<1>1. \A r \in RouteRequests : DOMAIN targets[r] = {}
  BY DEF Init, Requests
<1>2. \A s \in Sessions : ~(s <= opened)
  BY BoundsAssumption DEF Init, Sessions
<1> QED
  BY <1>1, <1>2 DEF DurableInv

LEMMA DurableSuccess == BaseInv /\ DurableInv => SuccessIsDurable
<1> SUFFICES ASSUME BaseInv, DurableInv, NEW r \in RouteRequests, answer[r] = "200",
                    NEW i \in DOMAIN targets[r]
             PROVE  Holds(owner[targets[r][i]], route[r].version)
  BY DEF SuccessIsDurable, Holds
<1>1. pc[r] = "done"
  BY BaseParts DEF TargetsInv, TargetsAt
<1>2. Progress(r, i) = "activated"
  BY <1>1 DEF Progress
<1> QED
  BY <1>2 DEF DurableInv, DurableAt

\* A 200 is durable, for any number of gateways, sessions, requests and faults: every
\* gateway of the deployment uses that version or a later one from then on and keeps it
\* in its snapshot file (hub.go broadcastAndWait counts only acknowledgements of its own
\* request, and control_client.go saves the snapshot before it acknowledges an ACTIVATE).
THEOREM SuccessStays == Spec => []SuccessIsDurable
<1> DEFINE I == BaseInv /\ DurableInv
<1>1. Init => I
  BY BaseInit, DurableInit
<1>2. I /\ [Next]_vars => I'
  BY BaseStep, DurableStep
<1>3. I => SuccessIsDurable
  BY DurableSuccess
<1> QED
  BY <1>1, <1>2, <1>3, PTL DEF Spec

-------------------------------------------------------------------------------
(* The order of the frames on their way to a gateway *)

Hits(q, A) == \E i \in DOMAIN q : q[i] \in A

\* Behind a frame of A there are only frames of B.
OrderIn(q, A, B) == \A i, j \in DOMAIN q : i < j /\ q[i] \in A => q[j] \in B

\* The same for all that is on its way to the gateway of session s: the stream carries
\* what is ahead of the frames in s.send.
Ordered(s, A, B) ==
    /\ OrderIn(wire[s], A, B) /\ OrderIn(sendCh[s], A, B)
    /\ Hits(wire[s], A) => sendCh[s] \in Seq(B)

LEMMA OrderEmpty == ASSUME NEW A, NEW B PROVE ~Hits(<<>>, A) /\ OrderIn(<<>>, A, B)
  BY DEF Hits, OrderIn

LEMMA OrderAppend ==
    ASSUME NEW S, NEW q \in Seq(S), NEW f \in S, NEW A, NEW B
    PROVE  /\ Hits(Append(q, f), A) <=> Hits(q, A) \/ f \in A
           /\ OrderIn(q, A, B) /\ (f \in B \/ ~Hits(q, A)) => OrderIn(Append(q, f), A, B)
<1>1. /\ DOMAIN Append(q, f) = 1 .. Len(q) + 1 /\ DOMAIN q = 1 .. Len(q) /\ Len(q) \in Nat
      /\ \A i \in 1 .. Len(q) : Append(q, f)[i] = q[i]
      /\ Append(q, f)[Len(q) + 1] = f
  OBVIOUS
<1> DEFINE a == Append(q, f)
<1> HIDE DEF a
<1>2. ASSUME Hits(a, A) PROVE Hits(q, A) \/ f \in A
  BY <1>1, <1>2 DEF Hits, a
<1>3. ASSUME Hits(q, A) PROVE Hits(a, A)
  <2>1. PICK i \in 1 .. Len(q) : q[i] \in A
    BY <1>1, <1>3 DEF Hits
  <2> QED
    BY <1>1, <2>1 DEF Hits, a
<1>4. ASSUME f \in A PROVE Hits(a, A)
  BY <1>1, <1>4 DEF Hits, a
<1>5. ASSUME OrderIn(q, A, B), f \in B \/ ~Hits(q, A) PROVE OrderIn(a, A, B)
  BY <1>1, <1>5 DEF Hits, OrderIn, a
<1> QED
  BY <1>2, <1>3, <1>4, <1>5 DEF a

LEMMA OrderTail ==
    ASSUME NEW S, NEW q \in Seq(S), q # <<>>, NEW A, NEW B
    PROVE  /\ Hits(q, A) <=> Head(q) \in A \/ Hits(Tail(q), A)
           /\ OrderIn(q, A, B) => OrderIn(Tail(q), A, B)
           /\ OrderIn(q, A, B) /\ Head(q) \in A => Tail(q) \in Seq(B)
<1>1. /\ DOMAIN Tail(q) = 1 .. Len(q) - 1 /\ DOMAIN q = 1 .. Len(q) /\ Len(q) \in Nat \ {0}
      /\ \A i \in 1 .. Len(q) - 1 : Tail(q)[i] = q[i + 1]
      /\ Head(q) = q[1] /\ Tail(q) \in Seq(S) /\ Len(Tail(q)) = Len(q) - 1
  OBVIOUS
<1> DEFINE t == Tail(q)
<1> HIDE DEF t
<1>2. ASSUME Hits(q, A) PROVE Head(q) \in A \/ Hits(t, A)
  <2>1. PICK i \in 1 .. Len(q) : q[i] \in A
    BY <1>1, <1>2 DEF Hits
  <2>2. CASE i = 1
    BY <1>1, <2>1, <2>2
  <2>3. CASE i # 1
    <3>1. i - 1 \in 1 .. Len(q) - 1 /\ t[i - 1] = q[i]
      BY <1>1, <2>3 DEF t
    <3> QED
      BY <1>1, <2>1, <3>1 DEF Hits, t
  <2> QED
    BY <2>2, <2>3
<1>3. ASSUME Hits(t, A) PROVE Hits(q, A)
  <2>1. PICK i \in 1 .. Len(q) - 1 : t[i] \in A
    BY <1>1, <1>3 DEF Hits, t
  <2>2. i + 1 \in 1 .. Len(q) /\ q[i + 1] = t[i]
    BY <1>1 DEF t
  <2> QED
    BY <1>1, <2>1, <2>2 DEF Hits
<1>4. ASSUME Head(q) \in A PROVE Hits(q, A)
  BY <1>1, <1>4 DEF Hits
<1>5. ASSUME OrderIn(q, A, B) PROVE OrderIn(t, A, B)
  <2> SUFFICES ASSUME NEW i \in 1 .. Len(q) - 1, NEW j \in 1 .. Len(q) - 1, i < j, t[i] \in A
               PROVE  t[j] \in B
    BY <1>1 DEF OrderIn, t
  <2>1. /\ i + 1 \in 1 .. Len(q) /\ q[i + 1] = t[i] /\ i + 1 < j + 1
        /\ j + 1 \in 1 .. Len(q) /\ q[j + 1] = t[j]
    BY <1>1 DEF t
  <2> QED
    BY <1>1, <1>5, <2>1 DEF OrderIn
<1>6. ASSUME OrderIn(q, A, B), Head(q) \in A PROVE t \in Seq(B)
  <2>1. \A j \in 1 .. Len(q) - 1 : t[j] \in B
    <3> SUFFICES ASSUME NEW j \in 1 .. Len(q) - 1 PROVE t[j] \in B
      OBVIOUS
    <3>1. 1 \in 1 .. Len(q) /\ j + 1 \in 1 .. Len(q) /\ 1 < j + 1 /\ q[j + 1] = t[j]
      BY <1>1 DEF t
    <3> QED
      BY <1>1, <1>6, <3>1 DEF OrderIn
  <2>2. t \in [1 .. Len(q) - 1 -> S] /\ Len(q) - 1 \in Nat
    <3>1. t \in Seq(S) /\ Len(t) = Len(q) - 1 /\ Len(q) - 1 \in Nat
      BY <1>1 DEF t
    <3>2. t \in [1 .. Len(t) -> S]
      BY <3>1
    <3> QED
      BY <3>1, <3>2
  <2>3. t \in [1 .. Len(q) - 1 -> B]
    BY <2>1, <2>2
  <2> QED
    BY <2>2, <2>3 DEF Seq
<1> QED
  BY <1>2, <1>3, <1>4, <1>5, <1>6 DEF t

LEMMA OrderMisses ==
    ASSUME NEW S, NEW q \in Seq(S), NEW A, NEW T
    PROVE  /\ ~Hits(q, A) /\ (\A f \in S : f \notin A => f \in T) => q \in Seq(T)
           /\ (\A f \in S : f \notin A) => ~Hits(q, A)
<1>1. q \in [1 .. Len(q) -> S] /\ DOMAIN q = 1 .. Len(q) /\ Len(q) \in Nat
  OBVIOUS
<1>2. ASSUME ~Hits(q, A), \A f \in S : f \notin A => f \in T PROVE q \in Seq(T)
  <2>1. \A i \in 1 .. Len(q) : q[i] \in T
    BY <1>1, <1>2 DEF Hits
  <2>2. q \in [1 .. Len(q) -> T]
    BY <1>1, <2>1
  <2> QED
    BY <1>1, <2>2 DEF Seq
<1>3. ASSUME \A f \in S : f \notin A PROVE ~Hits(q, A)
  BY <1>1, <1>3 DEF Hits
<1> QED
  BY <1>2, <1>3

\* The frames on their way to a gateway stay within T when only such frames are added.
LEMMA FramesWithin ==
    ASSUME NEW s \in Sessions, Flow(s), NEW T, sendCh[s] \in Seq(T), wire[s] \in Seq(T),
           phase[s] = "registered" => \A f \in Frames : f.req = None /\ f.type = "SNAPSHOT" => f \in T,
           \A x \in Requests : FlowSend(s, x) => FrameOf(x) \in T
    PROVE  sendCh'[s] \in Seq(T) /\ wire'[s] \in Seq(T)
<1>0. /\ <<>> \in Seq(T)
      /\ \A q \in Seq(T) : q # <<>> => Head(q) \in T /\ Tail(q) \in Seq(T)
      /\ \A q \in Seq(T) : \A f \in T : Append(q, f) \in Seq(T)
  OBVIOUS
<1>1. CASE FlowCut(s)
  BY <1>0, <1>1 DEF FlowCut
<1>2. CASE FlowSnapshot(s)
  BY <1>0, <1>2 DEF FlowSnapshot
<1>3. CASE FlowForward(s)
  BY <1>0, <1>3 DEF FlowForward
<1>4. CASE FlowAnswer(s) \/ FlowStart(s)
  BY <1>0, <1>4 DEF FlowAnswer, FlowStart
<1>5. ASSUME NEW x \in Requests, FlowSend(s, x)
      PROVE  sendCh'[s] \in Seq(T) /\ wire'[s] \in Seq(T)
  BY <1>0, <1>5 DEF FlowSend
<1>6. CASE FlowReceive(s) \/ FlowFinish(s) \/ FlowBeat(s) \/ \E x \in Requests : FlowTake(s, x)
  BY <1>6 DEF FlowReceive, FlowFinish, FlowBeat, FlowTake
<1> QED
  BY <1>1, <1>2, <1>3, <1>4, <1>5, <1>6 DEF Flow

LEMMA SentWithin ==
    ASSUME NEW s \in Sessions, Flow(s), NEW T, sendCh[s] \in Seq(T),
           \A x \in Requests : FlowSend(s, x) => FrameOf(x) \in T
    PROVE  sendCh'[s] \in Seq(T)
<1>0. /\ <<>> \in Seq(T)
      /\ \A q \in Seq(T) : q # <<>> => Head(q) \in T /\ Tail(q) \in Seq(T)
      /\ \A q \in Seq(T) : \A f \in T : Append(q, f) \in Seq(T)
  OBVIOUS
<1>1. CASE FlowCut(s) \/ FlowForward(s)
  BY <1>0, <1>1 DEF FlowCut, FlowForward
<1>2. ASSUME NEW x \in Requests, FlowSend(s, x) PROVE sendCh'[s] \in Seq(T)
  BY <1>0, <1>2 DEF FlowSend
<1>3. CASE sendCh'[s] = sendCh[s]
  BY <1>3
<1> QED
  BY <1>1, <1>2, <1>3
  DEF Flow, FlowSnapshot, FlowReceive, FlowAnswer, FlowStart, FlowFinish, FlowBeat, FlowTake

\* The order of the frames stays when nothing is sent that would break it.
LEMMA OrderedStep ==
    ASSUME BaseInv, [Next]_vars, NEW s \in Sessions, s <= opened, NEW A, NEW B,
           Ordered(s, A, B), phase[s] = "registered" => sendCh[s] \in Seq(B),
           \A x \in Requests : FlowSend(s, x) =>
              FrameOf(x) \in B \/ (~Hits(wire[s], A) /\ ~Hits(sendCh[s], A))
    PROVE  Ordered(s, A, B)'
<1>0. /\ Flow(s) /\ sendCh[s] \in Seq(Frames) /\ wire[s] \in Seq(Frames)
      /\ phase[s] = "registered" => wire[s] = <<>>
      /\ ~Hits(<<>>, A) /\ OrderIn(<<>>, A, B) /\ <<>> \in Seq(B)
  BY FlowStep, QueueTypes, BaseParts, OrderEmpty DEF FreshInv
<1>1. ASSUME wire[s] # <<>>, wire'[s] = Tail(wire[s]), sendCh'[s] = sendCh[s]
      PROVE  Ordered(s, A, B)'
  BY <1>0, <1>1, OrderTail DEF Ordered
<1>2. CASE SameQueues(s) \/ FlowCut(s)
  BY <1>0, <1>2 DEF SameQueues, FlowCut, Ordered
<1>3. CASE sendCh'[s] = sendCh[s] /\ wire'[s] = wire[s]
  BY <1>3 DEF Ordered
<1>4. CASE FlowSnapshot(s)
  <2>1. PICK f \in Frames : wire'[s] = Append(wire[s], f)
    BY <1>4 DEF FlowSnapshot
  <2>2. OrderIn(wire'[s], A, B) /\ sendCh[s] \in Seq(B) /\ sendCh'[s] = sendCh[s]
    BY <1>0, <1>4, <2>1, OrderAppend DEF FlowSnapshot, Ordered
  <2> QED
    BY <2>2 DEF Ordered
<1>5. CASE FlowForward(s)
  <2>0. sendCh[s] # <<>> /\ sendCh'[s] = Tail(sendCh[s]) /\ Head(sendCh[s]) \in Frames
    BY <1>5, QueueTypes DEF FlowForward
  <2>1. /\ OrderIn(sendCh'[s], A, B)
        /\ Head(sendCh[s]) \in A => sendCh'[s] \in Seq(B)
    BY <1>0, <2>0, OrderTail DEF Ordered
  <2>2. Hits(wire[s], A) => Head(sendCh[s]) \in B /\ sendCh'[s] \in Seq(B)
    BY <2>0 DEF Ordered
  <2>3. CASE Linked(s)
    <3>1. wire'[s] = Append(wire[s], Head(sendCh[s]))
      BY <1>5, <2>3 DEF FlowForward
    <3>2. /\ OrderIn(wire'[s], A, B)
          /\ Hits(wire'[s], A) <=> Hits(wire[s], A) \/ Head(sendCh[s]) \in A
      BY <1>0, <2>0, <2>2, <3>1, OrderAppend DEF Ordered
    <3> QED
      BY <2>1, <2>2, <3>2 DEF Ordered
  <2>4. CASE ~Linked(s)
    BY <1>5, <2>1, <2>2, <2>4 DEF FlowForward, Ordered
  <2> QED
    BY <2>3, <2>4
<1>6. ASSUME NEW x \in Requests, FlowSend(s, x) PROVE Ordered(s, A, B)'
  <2>1. /\ FrameOf(x) \in Frames /\ sendCh'[s] = Append(sendCh[s], FrameOf(x))
        /\ wire'[s] = wire[s]
    BY <1>6, BroadcastFramesAreFrames DEF FlowSend
  <2>2. FrameOf(x) \in B \/ (~Hits(wire[s], A) /\ ~Hits(sendCh[s], A))
    BY <1>6
  <2>3. OrderIn(sendCh'[s], A, B)
    BY <1>0, <2>1, <2>2, OrderAppend DEF Ordered
  <2>4. ASSUME Hits(wire[s], A) PROVE sendCh'[s] \in Seq(B)
    BY <2>1, <2>2, <2>4 DEF Ordered
  <2> QED
    BY <2>1, <2>3, <2>4 DEF Ordered
<1> QED
  BY <1>0, <1>1, <1>2, <1>3, <1>4, <1>5, <1>6
  DEF Flow, FlowReceive, FlowAnswer, FlowStart, FlowFinish, FlowBeat, FlowTake

-------------------------------------------------------------------------------
(* An ACTIVATE finds its route prepared *)

ControlTypes == {"SNAPSHOT", "PREPARE", "ACTIVATE"}
\* The frames that change a table, and those that leave it alone.
ControlFrames == {f \in Frames : f.type \in ControlTypes}
PlainFrames == {f \in Frames : f.type \notin ControlTypes}
OtherFrames == {f \in Frames : f.type # "ACTIVATE"}
OfRequest(r) == {f \in Frames : f.req = r}

PrepareFrames(r) ==
    {f \in Frames : f.req = r => f.type = "PREPARE" /\ f.route = route[r]}

\* The gateway of session s has r's route prepared and nothing on the way to it that
\* would change that.
Deployable(r, s) ==
    /\ sendCh[s] \in Seq(PlainFrames) /\ wire[s] \in Seq(PlainFrames)
    /\ Linked(s) => pending[owner[s]] = route[r]

PreparedReplies(r, s) == {f \in Replies : f.req = r /\ f.ok => Deployable(r, s)}

\* r's PREPARE is the last frame on its way that would change the table.
Asked(r, s) ==
    /\ Ordered(s, OfRequest(r), PlainFrames)
    /\ sendCh[s] \in Seq(PrepareFrames(r)) /\ wire[s] \in Seq(PrepareFrames(r))
    /\ Applies(s) # r
    /\ up[s] \in Seq(PreparedReplies(r, s)) /\ acks[s] \in Seq(PreparedReplies(r, s))

PreparedAt(r, i) ==
    /\ Progress(r, i) = "asked" => Asked(r, targets[r][i])
    /\ Progress(r, i) = "prepared" => Deployable(r, targets[r][i])

FoundFrames(s) == {f \in Frames : f.type = "ACTIVATE" => pending[owner[s]] = f.route}

\* Nothing ahead of an ACTIVATE changes the table, and it names what is prepared.
FoundAt(s) ==
    /\ Ordered(s, ControlFrames, OtherFrames)
    /\ phase[s] = "registered" => sendCh[s] \in Seq(PlainFrames)
    /\ Linked(s) => sendCh[s] \in Seq(FoundFrames(s)) /\ wire[s] \in Seq(FoundFrames(s))

PreparedInv ==
    /\ \A s \in Sessions : s <= opened => FoundAt(s)
    /\ \A r \in RouteRequests : \A i \in DOMAIN targets[r] : PreparedAt(r, i)

\* What is prepared on a gateway that stays connected changes only with a frame.
LEMMA PendingStep ==
    ASSUME BaseInv, [Next]_vars, NEW s \in Sessions, s <= opened, Linked(s)',
           pending'[owner[s]] # pending[owner[s]]
    PROVE  /\ wire[s] # <<>> /\ Head(wire[s]) \in ControlFrames
           /\ wire'[s] = Tail(wire[s]) /\ sendCh'[s] = sendCh[s]
<1>0. /\ GatewayTypeOK /\ TypeInv /\ SessionTypeOK /\ owner[s] \in Gateways
      /\ owner'[s] = owner[s] /\ Linked(s) /\ None \notin Sessions
      /\ link[owner[s]] = s /\ link'[owner[s]] = s
  BY BaseParts, SessionsStay, RequestsAssumption DEF Linked
<1>1. PICK g \in Gateways : GatewayStep(g)
  <2>1. ASSUME UNCHANGED gatewayVars PROVE FALSE
    BY <2>1 DEF gatewayVars
  <2> QED
    BY <1>0, <2>1, RemoteSteps, SessionStepLocal
<1>2. owner[s] = g
  BY <1>0, <1>1, GatewayStepLocal
<1>3. UNCHANGED sendCh
  BY <1>0, <1>1, GatewayStepReplies
<1>4. CASE \/ Connect(g) \/ ClientDisconnect(g) \/ OnActivated(g) \/ OnInterrupt(g)
           \/ OnSetDraining(g) \/ Heartbeat(g) \/ LocalDrain(g) \/ Canary(g)
  BY <1>4
  DEF Connect, ClientDisconnect, OnActivated, FinishActivate, ActivateNotSaved, OnInterrupt,
      OnSetDraining, SetDraining, Heartbeat, LocalDrain, Canary, SetCanary, gatewayVars
<1>5. CASE GatewayRestart(g)
  BY <1>0, <1>2, <1>5 DEF GatewayRestart, SessionTypeOK
<1>6. CASE OnSnapshot(g) \/ OnPrepare(g) \/ OnActivate(g)
  <2>1. PICK type \in ControlTypes : Received(g, type)
    BY <1>6 DEF OnSnapshot, OnPrepare, OnActivate, ControlTypes
  <2>2. wire[s] # <<>> /\ Head(wire[s]) \in Frames /\ Head(wire[s]).type = type
    BY <1>0, <1>2, <2>1, ReceivedFrame DEF Received, Frame
  <2>3. wire'[s] = Tail(wire[s])
    BY <1>0, <1>2, <1>6 DEF OnSnapshot, OnPrepare, OnActivate, Handled, SessionTypeOK
  <2> QED
    BY <1>3, <2>2, <2>3 DEF ControlFrames
<1> QED
  BY <1>1, <1>4, <1>5, <1>6 DEF GatewayStep

\* Only the deployment that holds deployMu sends frames that change a table.
LEMMA ControlSender ==
    ASSUME BaseInv, NEW r \in RouteRequests, pc[r] \in DeployPCs,
           NEW s \in Sessions, NEW x \in Requests, FlowSend(s, x), x # r
    PROVE  FrameOf(x) \in PlainFrames
<1>1. FrameOf(x) \in BroadcastFrames /\ FrameOf(x) \in Frames /\ pc[x] \in SendPCs
  BY BroadcastFramesAreFrames DEF FlowSend, SendFrame
<1>2. x \notin RouteRequests
  <2>1. ASSUME x \in RouteRequests PROVE FALSE
    <3>1. pc[x] \in DeployPCs
      BY <1>1, <2>1, DeployerTypes DEF SendPCs, DeployPCs, RoutePCs
    <3> QED
      BY <2>1, <3>1, BaseParts DEF TargetsInv, TargetsAt
  <2> QED
    BY <2>1
<1>3. FrameOf(x).req = x
  BY DEF FrameOf
<1>4. FrameOf(x).type \notin ControlTypes
  BY <1>1, <1>2, <1>3 DEF BroadcastFrames, FramesOf, ControlTypes
<1> QED
  BY <1>1, <1>4 DEF PlainFrames

LEMMA DeployableStep ==
    ASSUME BaseInv, [Next]_vars, NEW r \in RouteRequests, pc[r] \in DeployPCs,
           NEW s \in Sessions, s <= opened, phase[s] # "registered",
           route'[r] = route[r], ~FlowSend(s, r), Deployable(r, s)
    PROVE  Deployable(r, s)'
<1>0. /\ Flow(s) /\ owner'[s] = owner[s] /\ (Linked(s)' => Linked(s))
      /\ sendCh[s] \in Seq(PlainFrames) /\ wire[s] \in Seq(PlainFrames)
      /\ <<>> \in Seq(PlainFrames)
  BY FlowStep, SessionsStay DEF Deployable
<1>1. ASSUME Linked(s)' PROVE pending'[owner[s]] = pending[owner[s]]
  <2>1. wire[s] # <<>> => Head(wire[s]) \in PlainFrames
    BY <1>0
  <2> QED
    BY <1>1, <2>1, PendingStep DEF PlainFrames, ControlFrames
<1>2. \A x \in Requests : FlowSend(s, x) => FrameOf(x) \in PlainFrames
  BY ControlSender
<1>3. sendCh'[s] \in Seq(PlainFrames) /\ wire'[s] \in Seq(PlainFrames)
  BY <1>0, <1>2, FramesWithin
<1>4. Linked(s)' => pending'[owner'[s]] = route'[r]
  BY <1>0, <1>1 DEF Deployable
<1> QED
  BY <1>3, <1>4 DEF Deployable

LEMMA AskedStep ==
    ASSUME BaseInv, [Next]_vars, NEW r \in RouteRequests, pc[r] \in DeployPCs,
           NEW s \in Sessions, s <= opened, phase[s] # "registered",
           route'[r] = route[r], ~FlowSend(s, r), Asked(r, s)
    PROVE  Asked(r, s)'
<1> DEFINE F == PrepareFrames(r)
           H == PreparedReplies(r, s)'
<1>0. /\ r # None /\ Flow(s) /\ r \in Requests /\ owner'[s] = owner[s]
      /\ sendCh[s] \in Seq(F) /\ wire[s] \in Seq(F) /\ Applies(s) # r
      /\ Ordered(s, OfRequest(r), PlainFrames)
      /\ wire[s] \in Seq(Frames)
  BY FlowStep, SessionsStay, StoreAssumption, QueueTypes DEF Asked, Requests
<1>1. PrepareFrames(r)' = F
  BY DEF PrepareFrames
<1>2. Deployable(r, s) => Deployable(r, s)'
  BY DeployableStep
<1>3. PreparedReplies(r, s) \subseteq H
  BY <1>2 DEF PreparedReplies
<1>4. up[s] \in Seq(H) /\ acks[s] \in Seq(H) /\ <<>> \in Seq(H)
  BY <1>3, WiderSequences DEF Asked
<1>5. \A x \in Requests : FlowSend(s, x) => x # r /\ FrameOf(x) \in PlainFrames
  BY ControlSender
<1>6. Ordered(s, OfRequest(r), PlainFrames)'
  BY <1>0, <1>5, OrderedStep
<1>7. sendCh'[s] \in Seq(F) /\ wire'[s] \in Seq(F)
  <2>1. ASSUME NEW x \in Requests, FlowSend(s, x) PROVE FrameOf(x) \in F
    <3>1. x # r /\ FrameOf(x).req = x /\ FrameOf(x) \in Frames
      BY <1>5, <2>1 DEF FrameOf, PlainFrames
    <3> QED
      BY <3>1 DEF PrepareFrames
  <2> HIDE DEF F
  <2> QED
    BY <1>0, <2>1, FramesWithin
<1>8. \A f \in Replies : f.req # r \/ ~f.ok \/ Deployable(r, s)' => f \in H
  BY DEF PreparedReplies
<1>9. /\ \A q \in Seq(H) : q # <<>> => Head(q) \in H /\ Tail(q) \in Seq(H)
      /\ \A q \in Seq(H) : \A f \in H : Append(q, f) \in Seq(H)
      /\ \A q \in Seq(F) : q # <<>> => Head(q) \in F
  <2> HIDE DEF F, H
  <2> QED
    OBVIOUS
<1>10. \A f \in F : f.req = r => f.type = "PREPARE" /\ f.route = route[r]
  BY DEF PrepareFrames
<1> SUFFICES Applies(s)' # r /\ up'[s] \in Seq(H) /\ acks'[s] \in Seq(H)
  BY <1>1, <1>6, <1>7 DEF Asked
<1>11. ASSUME NEW f \in Replies, f.req # r \/ ~f.ok \/ Deployable(r, s)', Replied(s, f)
       PROVE  up'[s] \in Seq(H)
  <2>1. f \in H
    BY <1>8, <1>11
  <2> HIDE DEF H
  <2> QED
    BY <1>4, <1>9, <1>11, <2>1 DEF Replied
<1> HIDE DEF F, H
<1>12. CASE FlowCut(s)
  BY <1>0, <1>4, <1>12 DEF FlowCut
<1>13. CASE FlowSnapshot(s) \/ FlowForward(s)
  BY <1>0, <1>4, <1>13 DEF FlowSnapshot, FlowForward
<1>14. CASE FlowReceive(s)
  BY <1>0, <1>4, <1>9, <1>14 DEF FlowReceive
<1>15. CASE FlowAnswer(s)
  <2>1. PICK ok \in BOOLEAN : /\ Replied(s, Ack(Head(wire[s]).req, ok))
                              /\ Head(wire[s]).type = "PREPARE" /\ ok = TRUE =>
                                    pending'[owner[s]] = Head(wire[s]).route
    BY <1>15 DEF FlowAnswer
  <2> DEFINE f == Ack(Head(wire[s]).req, ok)
  <2>2. f \in Replies /\ f.req = Head(wire[s]).req /\ f.ok = ok /\ Replied(s, f)
    BY <1>15, <2>1, ReplyTypes DEF FlowAnswer
  <2> HIDE DEF f
  <2>3. Head(wire[s]) \in F /\ Head(wire[s]) \in Frames /\ wire'[s] = Tail(wire[s])
        /\ sendCh'[s] = sendCh[s] /\ wire[s] # <<>>
    BY <1>0, <1>9, <1>15 DEF FlowAnswer
  <2>4. ASSUME f.req = r, f.ok PROVE Deployable(r, s)'
    <3>1. pending'[owner[s]] = route[r]
      BY <1>10, <2>1, <2>2, <2>3, <2>4
    <3>2. Head(wire[s]) \in OfRequest(r)
      BY <2>2, <2>3, <2>4 DEF OfRequest
    <3>3. Tail(wire[s]) \in Seq(PlainFrames) /\ Hits(wire[s], OfRequest(r))
      BY <1>0, <2>3, <3>2, OrderTail DEF Ordered
    <3>4. sendCh[s] \in Seq(PlainFrames)
      BY <1>0, <3>3 DEF Ordered
    <3> QED
      BY <1>0, <2>3, <3>1, <3>3, <3>4 DEF Deployable
  <2>5. up'[s] \in Seq(H)
    BY <1>11, <2>2, <2>4
  <2> QED
    BY <1>0, <1>4, <1>15, <2>5 DEF FlowAnswer
<1>16. CASE FlowStart(s)
  <2>1. Head(wire[s]) \in F
    BY <1>0, <1>9, <1>16 DEF FlowStart
  <2>2. Head(wire[s]).req # r
    BY <1>10, <1>16, <2>1 DEF FlowStart
  <2> QED
    BY <1>4, <1>16, <2>2 DEF FlowStart
<1>17. CASE FlowFinish(s)
  <2>1. PICK ok \in BOOLEAN : Replied(s, Ack(Applies(s), ok))
    BY <1>17 DEF FlowFinish
  <2> DEFINE f == Ack(Applies(s), ok)
  <2>2. f \in Replies /\ f.req = Applies(s) /\ Replied(s, f)
    BY <1>17, <2>1, ReplyTypes DEF FlowFinish
  <2> HIDE DEF f
  <2>3. up'[s] \in Seq(H)
    BY <1>0, <1>11, <2>2
  <2> QED
    BY <1>0, <1>4, <1>17, <2>3 DEF FlowFinish
<1>18. CASE FlowBeat(s)
  <2> DEFINE f == [type |-> "HEARTBEAT", req |-> None, ok |-> Ready(owner[s])]
  <2>1. f \in Replies /\ f.req = None /\ Replied(s, f)
    BY <1>18, ReplyTypes DEF FlowBeat
  <2> HIDE DEF f
  <2>2. up'[s] \in Seq(H)
    BY <1>0, <1>11, <2>1
  <2> QED
    BY <1>0, <1>4, <1>18, <2>2 DEF FlowBeat
<1>19. ASSUME NEW x \in Requests, FlowSend(s, x) \/ FlowTake(s, x)
       PROVE  Applies(s)' # r /\ up'[s] \in Seq(H) /\ acks'[s] \in Seq(H)
  BY <1>0, <1>4, <1>9, <1>19 DEF FlowSend, FlowTake
<1> QED
  BY <1>0, <1>12, <1>13, <1>14, <1>15, <1>16, <1>17, <1>18, <1>19 DEF Flow

LEMMA PreparedAtStep ==
    ASSUME BaseInv, DurableInv, PreparedInv, [Next]_vars, NEW r \in RouteRequests,
           NEW i \in DOMAIN targets'[r]
    PROVE  PreparedAt(r, i)'
<1>0. r \in Requests
  BY DEF Requests
<1>1. CASE Progress(r, i)' \notin {"asked", "prepared"}
  BY <1>1 DEF PreparedAt
<1>2. CASE Progress(r, i)' \in {"asked", "prepared"}
  <2>0. /\ targets'[r] = targets[r] /\ route'[r] = route[r]
        /\ Rests(r, i) \/ Asks(r, i) \/ Gets(r, i)
    <3>1. Progress(r, i)' # "over" /\ ~Begins(r, i)
      BY <1>2 DEF Begins
    <3> QED
      BY <3>1, ProgressStep
  <2>1. PICK s \in Sessions : /\ s <= opened /\ i \in DOMAIN targets[r]
                              /\ targets[r][i] = s /\ targets'[r][i] = s
    BY <2>0, DeployerTypes
  <2>2. PreparedAt(r, i) /\ DurableAt(r, i) /\ phase[s] # "registered"
    BY <2>1, BaseParts DEF PreparedInv, DurableInv, TargetsInv, TargetsAt
  <2>3. Progress(r, i) \in {"unasked", "asked", "prepared", "activating"} => pc[r] \in DeployPCs
    BY DEF Progress, DeployPCs
  <2>4. CASE Rests(r, i)
    <3>1. ~FlowSend(s, r) /\ Progress(r, i)' = Progress(r, i) /\ pc[r] \in DeployPCs
      BY <1>2, <2>1, <2>3, <2>4 DEF Rests
    <3>2. Deployable(r, s) => Deployable(r, s)'
      BY <2>0, <2>1, <2>2, <3>1, DeployableStep
    <3>3. Asked(r, s) => Asked(r, s)'
      BY <2>0, <2>1, <2>2, <3>1, AskedStep
    <3> QED
      BY <2>1, <2>2, <3>1, <3>2, <3>3 DEF PreparedAt
  <2>5. CASE Asks(r, i)
    <3>1. /\ SendFrame(r) /\ Target(r) = s /\ pc[r] = "prepareSend"
          /\ Progress(r, i) = "unasked" /\ Progress(r, i)' = "asked"
      BY <1>2, <2>1, <2>5 DEF Asks
    <3>2. Quiet(r, s)
      BY <2>1, <2>2, <3>1 DEF DurableAt
    <3>3. /\ Applies(s)' = Applies(s) /\ FrameOf(r).req = r /\ FrameOf(r) \in Frames
          /\ FrameOf(r).route = route[r] /\ FrameOf(r).type = "PREPARE"
          /\ sendCh'[s] = Append(sendCh[s], FrameOf(r))
          /\ wire'[s] = wire[s] /\ up'[s] = up[s] /\ acks'[s] = acks[s]
      BY <2>1, <3>1, FrameSent
    <3>4. ~Hits(sendCh[s], OfRequest(r)) /\ ~Hits(wire[s], OfRequest(r))
      BY <3>2 DEF Quiet, HasFrame, Hits, OfRequest
    <3>5. Ordered(s, OfRequest(r), PlainFrames)
      BY <3>4 DEF Ordered, OrderIn, Hits
    <3>6. Ordered(s, OfRequest(r), PlainFrames)'
      BY <2>1, <2>2, <3>4, <3>5, OrderedStep
    <3> DEFINE F == PrepareFrames(r)'
               H == PreparedReplies(r, s)'
    <3>7. /\ \A f \in Frames : f.req # r => f \in F
          /\ \A f \in Replies : f.req # r => f \in H
          /\ FrameOf(r) \in F
      BY <2>0, <3>3 DEF PrepareFrames, PreparedReplies
    <3> HIDE DEF F, H
    <3>8. /\ sendCh[s] \in Seq(F) /\ wire[s] \in Seq(F)
          /\ up[s] \in Seq(H) /\ acks[s] \in Seq(H)
      BY <2>1, <3>2, <3>7, WithoutFrames, QueueTypes DEF Quiet
    <3>9. sendCh'[s] \in Seq(F)
      BY <3>3, <3>7, <3>8
    <3>10. Asked(r, s)'
      BY <3>2, <3>3, <3>6, <3>8, <3>9 DEF Asked, F, H, Quiet
    <3> QED
      BY <2>1, <3>1, <3>10 DEF PreparedAt
  <2>6. CASE Gets(r, i)
    <3>1. /\ TakeAck(r) /\ Target(r) = s /\ Head(acks[s]).req = r /\ Head(acks[s]).ok
          /\ Progress(r, i) = "asked" /\ Progress(r, i)' = "prepared"
      BY <1>2, <2>1, <2>6 DEF Gets
    <3>2. Asked(r, s) /\ acks[s] # <<>>
      BY <2>1, <2>2, <3>1, AckTaken DEF PreparedAt
    <3>3. Head(acks[s]) \in PreparedReplies(r, s)
      BY <3>2 DEF Asked
    <3>4. Deployable(r, s)
      BY <3>1, <3>3 DEF PreparedReplies
    <3>5. ~FlowSend(s, r)
      <4>1. \A p \in WaitPCs : p \notin SendPCs
        BY DEF WaitPCs, SendPCs
      <4> QED
        BY <3>1, <4>1 DEF TakeAck, FlowSend, SendFrame
    <3>6. Deployable(r, s)'
      BY <2>0, <2>1, <2>2, <2>3, <3>1, <3>4, <3>5, DeployableStep
    <3> QED
      BY <2>1, <3>1, <3>6 DEF PreparedAt
  <2> QED
    BY <2>0, <2>4, <2>5, <2>6
<1> QED
  BY <1>1, <1>2

\* An ACTIVATE is sent to a session whose gateway has the route prepared.
LEMMA ActivateSender ==
    ASSUME BaseInv, PreparedInv, NEW s \in Sessions, NEW x \in Requests, FlowSend(s, x),
           FrameOf(x) \notin OtherFrames
    PROVE  x \in RouteRequests /\ Deployable(x, s) /\ FrameOf(x).route = route[x]
<1>1. /\ FrameOf(x) \in BroadcastFrames /\ FrameOf(x) \in Frames /\ FrameOf(x).req = x
      /\ FrameOf(x).route = route[x] /\ pc[x] \in SendPCs /\ Target(x) = s
  <2>1. FrameOf(x).req = x /\ FrameOf(x).route = route[x]
    BY DEF FrameOf
  <2> QED
    BY <2>1, BroadcastFramesAreFrames DEF FlowSend, SendFrame
<1>2. FrameOf(x).type = "ACTIVATE"
  BY <1>1 DEF OtherFrames
<1>3. x \in RouteRequests
  BY <1>1, <1>2 DEF BroadcastFrames, FramesOf
<1>4. pc[x] = "activateSend"
  <2>1. pc[x] # "prepareSend"
    BY <1>2, <1>3, RequestsAssumption DEF FrameOf
  <2> QED
    BY <1>1, <1>3, <2>1, DeployerTypes DEF SendPCs, RoutePCs
<1>5. pos[x] \in DOMAIN targets[x] /\ pos[x] \in Nat
  BY <1>1, <1>3, DeployerTypes
<1>6. Progress(x, pos[x]) = "prepared"
  BY <1>4, <1>5 DEF Progress
<1>7. Deployable(x, targets[x][pos[x]])
  BY <1>3, <1>5, <1>6 DEF PreparedInv, PreparedAt
<1> QED
  BY <1>1, <1>3, <1>7 DEF Target

LEMMA FoundStep ==
    ASSUME BaseInv, PreparedInv, [Next]_vars, NEW s \in Sessions, s <= opened'
    PROVE  FoundAt(s)'
<1>1. CASE ~(s <= opened)
  <2>1. sendCh'[s] = <<>> /\ wire'[s] = <<>>
    BY <1>1, NewSession
  <2>2. \A A, B : ~Hits(<<>>, A) /\ OrderIn(<<>>, A, B)
    BY OrderEmpty
  <2> QED
    BY <2>1, <2>2 DEF FoundAt, Ordered
<1>2. CASE s <= opened
  <2>0. /\ Flow(s) /\ FoundAt(s) /\ owner'[s] = owner[s] /\ (Linked(s)' => Linked(s))
        /\ phase'[s] = "registered" => phase[s] = "registered"
        /\ wire[s] \in Seq(Frames) /\ sendCh[s] \in Seq(Frames)
    BY <1>2, FlowStep, SessionsStay, QueueTypes DEF PreparedInv
  <2>1. Seq(PlainFrames) \subseteq Seq(OtherFrames)
    BY WiderSequences DEF PlainFrames, OtherFrames, ControlTypes
  <2>2. ASSUME NEW x \in Requests, FlowSend(s, x), FrameOf(x) \notin OtherFrames
        PROVE  ~Hits(wire[s], ControlFrames) /\ ~Hits(sendCh[s], ControlFrames)
    <3>1. sendCh[s] \in Seq(PlainFrames) /\ wire[s] \in Seq(PlainFrames)
      BY <2>2, ActivateSender DEF Deployable
    <3>2. \A f \in PlainFrames : f \notin ControlFrames
      BY DEF PlainFrames, ControlFrames
    <3> QED
      BY <3>1, <3>2, OrderMisses
  <2>3. Ordered(s, ControlFrames, OtherFrames)'
    <3>1. phase[s] = "registered" => sendCh[s] \in Seq(OtherFrames)
      BY <2>0, <2>1 DEF FoundAt
    <3> QED
      BY <1>2, <2>0, <2>2, <3>1, OrderedStep DEF FoundAt
  <2>4. ASSUME phase'[s] = "registered" PROVE sendCh'[s] \in Seq(PlainFrames)
    <3>1. sendCh[s] \in Seq(PlainFrames) /\ phase[s] = "registered"
      BY <2>0, <2>4 DEF FoundAt
    <3>2. ASSUME NEW x \in Requests, FlowSend(s, x) PROVE FrameOf(x) \in PlainFrames
      <4>1. /\ FrameOf(x) \in BroadcastFrames /\ FrameOf(x) \in Frames /\ FrameOf(x).req = x
            /\ pc[x] \in SendPCs /\ Target(x) = s
        BY <3>2, BroadcastFramesAreFrames DEF FlowSend, SendFrame, FrameOf
      <4>2. x \notin RouteRequests
        <5>1. ASSUME x \in RouteRequests PROVE FALSE
          <6>1. pos[x] \in DOMAIN targets[x]
            BY <4>1, <5>1, DeployerTypes
          <6> QED
            BY <3>1, <4>1, <5>1, <6>1, BaseParts DEF TargetsInv, TargetsAt, Target
        <5> QED
          BY <5>1
      <4>3. FrameOf(x).type \notin ControlTypes
        BY <4>1, <4>2 DEF BroadcastFrames, FramesOf, ControlTypes
      <4> QED
        BY <4>1, <4>3 DEF PlainFrames
    <3> QED
      BY <2>0, <3>1, <3>2, SentWithin
  <2>5. ASSUME Linked(s)'
        PROVE  sendCh'[s] \in Seq(FoundFrames(s)') /\ wire'[s] \in Seq(FoundFrames(s)')
    <3>1. Linked(s) /\ sendCh[s] \in Seq(FoundFrames(s)) /\ wire[s] \in Seq(FoundFrames(s))
      BY <2>0, <2>5 DEF FoundAt
    <3>2. CASE pending'[owner[s]] = pending[owner[s]]
      <4>1. FoundFrames(s)' = FoundFrames(s)
        BY <2>0, <3>2 DEF FoundFrames
      <4>2. \A f \in Frames : f.req = None /\ f.type = "SNAPSHOT" => f \in FoundFrames(s)
        BY DEF FoundFrames
      <4>3. ASSUME NEW x \in Requests, FlowSend(s, x) PROVE FrameOf(x) \in FoundFrames(s)
        <5>1. FrameOf(x) \in Frames
          BY <4>3, BroadcastFramesAreFrames DEF FlowSend
        <5>2. CASE FrameOf(x) \in OtherFrames
          BY <5>2 DEF OtherFrames, FoundFrames
        <5>3. CASE FrameOf(x) \notin OtherFrames
          BY <3>1, <4>3, <5>1, <5>3, ActivateSender DEF Deployable, FoundFrames
        <5> QED
          BY <5>2, <5>3
      <4> DEFINE T == FoundFrames(s)
      <4> HIDE DEF T
      <4>4. sendCh'[s] \in Seq(T) /\ wire'[s] \in Seq(T)
        BY <2>0, <3>1, <4>2, <4>3, FramesWithin DEF T
      <4> QED
        BY <4>1, <4>4 DEF T
    <3>3. CASE pending'[owner[s]] # pending[owner[s]]
      <4>1. /\ wire[s] # <<>> /\ Head(wire[s]) \in ControlFrames
            /\ wire'[s] = Tail(wire[s]) /\ sendCh'[s] = sendCh[s]
        BY <1>2, <2>5, <3>3, PendingStep
      <4>2. Hits(wire[s], ControlFrames) /\ Tail(wire[s]) \in Seq(OtherFrames)
        BY <2>0, <4>1, OrderTail DEF FoundAt, Ordered
      <4>3. sendCh[s] \in Seq(OtherFrames)
        BY <2>0, <4>2 DEF FoundAt, Ordered
      <4>4. Seq(OtherFrames) \subseteq Seq(FoundFrames(s)')
        <5>1. OtherFrames \subseteq FoundFrames(s)'
          BY DEF OtherFrames, FoundFrames
        <5> QED
          BY <5>1, WiderSequences
      <4> QED
        BY <4>1, <4>2, <4>3, <4>4
    <3> QED
      BY <3>2, <3>3
  <2> QED
    BY <2>3, <2>4, <2>5 DEF FoundAt
<1> QED
  BY <1>1, <1>2

LEMMA PreparedStep == BaseInv /\ DurableInv /\ PreparedInv /\ [Next]_vars => PreparedInv'
  BY PreparedAtStep, FoundStep DEF PreparedInv

LEMMA PreparedInit == Init => PreparedInv
<1> SUFFICES ASSUME Init PROVE PreparedInv
  OBVIOUS
<1>1. \A r \in RouteRequests : DOMAIN targets[r] = {}
  BY DEF Init, Requests
<1>2. \A s \in Sessions : ~(s <= opened)
  BY BoundsAssumption DEF Init, Sessions
<1> QED
  BY <1>1, <1>2 DEF PreparedInv

LEMMA PreparedActivate == BaseInv /\ PreparedInv => ActivateFindsPrepared
<1> SUFFICES ASSUME BaseInv, PreparedInv, NEW g \in Gateways, Received(g, "ACTIVATE")
             PROVE  pending[g] = Frame(g).route
  BY DEF ActivateFindsPrepared
<1>1. link[g] \in Sessions /\ Frame(g) \in Frames /\ Frame(g).type = "ACTIVATE"
  BY ReceivedFrame, BaseParts DEF Received, Frame
<1>2. link[g] <= opened /\ owner[link[g]] = g /\ Linked(link[g])
  BY <1>1, BaseParts DEF LinkInv, Linked, Received
<1>3. wire[link[g]] \in Seq(FoundFrames(link[g])) /\ wire[link[g]] # <<>>
  BY <1>1, <1>2 DEF PreparedInv, FoundAt, Received
<1>4. Head(wire[link[g]]) \in FoundFrames(link[g])
  BY <1>3
<1> QED
  BY <1>1, <1>2, <1>4 DEF FoundFrames, Frame

\* After the commit no connected gateway can refuse the route: an ACTIVATE that reaches a
\* gateway finds exactly the route it names prepared, whatever earlier deployments left on
\* its stream (hub.go sends an ACTIVATE only to sessions that acknowledged the PREPARE, and
\* deployMu keeps other deployments' frames away from them).
THEOREM ActivateFinds == Spec => []ActivateFindsPrepared
<1> DEFINE I == BaseInv /\ DurableInv /\ PreparedInv
<1>1. Init => I
  BY BaseInit, DurableInit, PreparedInit
<1>2. I /\ [Next]_vars => I'
  BY BaseStep, DurableStep, PreparedStep
<1>3. I => ActivateFindsPrepared
  BY PreparedActivate
<1> QED
  BY <1>1, <1>2, <1>3, PTL DEF Spec

-------------------------------------------------------------------------------
(* No acknowledgement goes missing while only deployments read the ack channels *)

OnlyDeployments == \A x \in InterruptRequests \union DrainRequests : pc[x] = "idle"

AckInv ==
    \A r \in RouteRequests : \A i \in DOMAIN targets[r] :
        Progress(r, i) \in {"asked", "activating"} =>
            LET s == targets[r][i] IN phase[s] = "closed" \/ ~Linked(s) \/ ~Quiet(r, s)

\* On a live stream what is under way stays under way, unless its waiter takes it.
LEMMA UnderWayStep ==
    ASSUME BaseInv, [Next]_vars, NEW s \in Sessions, s <= opened, NEW r \in Requests,
           phase'[s] # "closed", Linked(s)', ~Quiet(r, s),
           \A x \in Requests : FlowTake(s, x) => x = r /\ Head(acks[s]).req # r
    PROVE  ~Quiet(r, s)'
<1> DEFINE S == HasFrame(sendCh[s], r)
           W == HasFrame(wire[s], r)
           U == HasFrame(up[s], r)
           K == HasFrame(acks[s], r)
           A == Applies(s) = r
<1>0. r # None /\ Flow(s) /\ Linked(s) /\ phase[s] # "closed"
  BY FlowStep, SessionsStay, RequestsAssumption, StoreAssumption DEF Requests
<1>1. CASE FlowCut(s)
  BY <1>1 DEF FlowCut, SameQueues, Quiet
<1>2. CASE FlowSnapshot(s)
  <2>1. PICK f \in Frames : wire'[s] = Append(wire[s], f)
    BY <1>2 DEF FlowSnapshot
  <2>2. W => HasFrame(wire'[s], r)
    BY <2>1, QueueTypes, AppendQueue
  <2> QED
    BY <1>2, <2>2 DEF FlowSnapshot, Quiet
<1>3. CASE FlowForward(s)
  <2>1. S => Head(sendCh[s]).req = r \/ HasFrame(sendCh'[s], r)
    BY <1>3, QueueTypes, TailQueue DEF FlowForward
  <2>2. /\ wire'[s] = Append(wire[s], Head(sendCh[s]))
        /\ wire[s] \in Seq(Frames) /\ Head(sendCh[s]) \in Frames
    BY <1>0, <1>3, QueueTypes DEF FlowForward
  <2>3. W \/ Head(sendCh[s]).req = r => HasFrame(wire'[s], r)
    BY <2>2, AppendQueue
  <2> QED
    BY <1>3, <2>1, <2>3 DEF FlowForward, Quiet
<1>4. CASE FlowReceive(s)
  <2>1. U => Head(up[s]).req = r \/ HasFrame(up'[s], r)
    BY <1>4, QueueTypes, TailQueue DEF FlowReceive
  <2>2. CASE acks'[s] = Append(acks[s], Head(up[s]))
    <3>1. K \/ Head(up[s]).req = r => HasFrame(acks'[s], r)
      BY <1>4, <2>2, QueueTypes, AppendQueue DEF FlowReceive
    <3> QED
      BY <1>4, <2>1, <3>1 DEF FlowReceive, Quiet
  <2>3. CASE acks'[s] = acks[s] /\ Head(up[s]).type = "HEARTBEAT"
    <3>1. Head(up[s]).req # r
      BY <1>0, <1>4, <2>3, QueueTypes DEF FlowReceive, PlainReplies
    <3> QED
      BY <1>4, <2>1, <2>3, <3>1 DEF FlowReceive, Quiet
  <2> QED
    BY <1>4, <2>2, <2>3 DEF FlowReceive
<1>5. CASE FlowAnswer(s)
  <2>1. W => Head(wire[s]).req = r \/ HasFrame(wire'[s], r)
    BY <1>5, QueueTypes, TailQueue DEF FlowAnswer
  <2>2. PICK ok \in BOOLEAN : Replied(s, Ack(Head(wire[s]).req, ok))
    BY <1>5 DEF FlowAnswer
  <2>3. /\ Ack(Head(wire[s]).req, ok) \in Replies
        /\ Ack(Head(wire[s]).req, ok).req = Head(wire[s]).req
    BY <1>5, ReplyTypes DEF FlowAnswer
  <2>4. U \/ Head(wire[s]).req = r => HasFrame(up'[s], r)
    BY <1>0, <2>2, <2>3, ReplyQueue
  <2> QED
    BY <1>0, <1>5, <2>1, <2>4 DEF FlowAnswer, Quiet
<1>6. CASE FlowStart(s)
  <2>1. W => Head(wire[s]).req = r \/ HasFrame(wire'[s], r)
    BY <1>6, QueueTypes, TailQueue DEF FlowStart
  <2> QED
    BY <1>0, <1>6, <2>1 DEF FlowStart, Quiet
<1>7. CASE FlowFinish(s)
  <2>1. PICK ok \in BOOLEAN : Replied(s, Ack(Applies(s), ok))
    BY <1>7 DEF FlowFinish
  <2>2. Ack(Applies(s), ok) \in Replies /\ Ack(Applies(s), ok).req = Applies(s)
    BY <1>7, ReplyTypes DEF FlowFinish
  <2>3. U \/ A => HasFrame(up'[s], r)
    BY <1>0, <2>1, <2>2, ReplyQueue
  <2> QED
    BY <1>7, <2>3 DEF FlowFinish, Quiet
<1>8. CASE FlowBeat(s)
  <2> DEFINE f == [type |-> "HEARTBEAT", req |-> None, ok |-> Ready(owner[s])]
  <2>1. f \in Replies /\ Replied(s, f)
    BY <1>8, ReplyTypes DEF FlowBeat
  <2> HIDE DEF f
  <2>2. U => HasFrame(up'[s], r)
    BY <1>0, <2>1, ReplyQueue
  <2> QED
    BY <1>8, <2>2 DEF FlowBeat, Quiet
<1>9. ASSUME NEW x \in Requests, FlowSend(s, x) PROVE ~Quiet(r, s)'
  <2>1. FrameOf(x) \in Frames
    BY <1>9, BroadcastFramesAreFrames DEF FlowSend
  <2>2. S => HasFrame(sendCh'[s], r)
    BY <1>9, <2>1, QueueTypes, AppendQueue DEF FlowSend
  <2> QED
    BY <1>9, <2>2 DEF FlowSend, Quiet
<1>10. ASSUME NEW x \in Requests, FlowTake(s, x) PROVE ~Quiet(r, s)'
  <2>1. K => HasFrame(acks'[s], r)
    BY <1>10, QueueTypes, TailQueue DEF FlowTake
  <2> QED
    BY <1>10, <2>1 DEF FlowTake, Quiet
<1> QED
  BY <1>0, <1>1, <1>2, <1>3, <1>4, <1>5, <1>6, <1>7, <1>8, <1>9, <1>10 DEF Flow

LEMMA OnlyDeploymentsBefore ==
    ASSUME BaseInv, [Next]_vars, OnlyDeployments'
    PROVE  OnlyDeployments
  BY WaitingStep DEF OnlyDeployments, Requests

\* The deployment is the only reader of its sessions' ack channels.
LEMMA SingleReader ==
    ASSUME BaseInv, OnlyDeployments, NEW r \in RouteRequests, pc[r] \in DeployPCs,
           NEW x \in Requests, TakeAck(x)
    PROVE  x = r
<1>1. pc[x] \in WaitPCs /\ pc[x] # "idle"
  BY DEF TakeAck, WaitPCs
<1>2. x \in RouteRequests
  BY <1>1 DEF OnlyDeployments, Requests
<1>3. pc[x] \in DeployPCs
  BY <1>1, <1>2, DeployerTypes DEF WaitPCs, DeployPCs, RoutePCs
<1> QED
  BY <1>2, <1>3, BaseParts DEF TargetsInv, TargetsAt

LEMMA AckStep ==
    ASSUME BaseInv, OnlyDeployments => AckInv, [Next]_vars, OnlyDeployments'
    PROVE  AckInv'
<1>0. OnlyDeployments /\ AckInv
  BY OnlyDeploymentsBefore
<1> SUFFICES ASSUME NEW r \in RouteRequests, NEW i \in DOMAIN targets'[r],
                    Progress(r, i)' \in {"asked", "activating"},
                    phase'[targets'[r][i]] # "closed", Linked(targets[r][i])'
             PROVE  ~Quiet(r, targets[r][i])'
  BY DEF AckInv
<1>1. /\ targets'[r] = targets[r] /\ route'[r] = route[r]
      /\ Rests(r, i) \/ Asks(r, i) \/ Gets(r, i)
  <2>1. Progress(r, i)' # "over" /\ ~Begins(r, i)
    BY DEF Begins
  <2> QED
    BY <2>1, ProgressStep
<1>2. PICK s \in Sessions : /\ s <= opened /\ i \in DOMAIN targets[r]
                            /\ targets[r][i] = s /\ targets'[r][i] = s
  BY <1>1, DeployerTypes
<1>3. r \in Requests /\ Linked(s)' /\ phase'[s] # "closed"
  BY <1>2 DEF Requests
<1>4. CASE Rests(r, i)
  <2>1. /\ Progress(r, i) \in {"asked", "activating"}
        /\ FlowTake(s, r) => Head(acks[s]).req # r
    BY <1>2, <1>4 DEF Rests
  <2>2. pc[r] \in DeployPCs
    BY <2>1 DEF Progress, DeployPCs
  <2>3. \A x \in Requests : FlowTake(s, x) => x = r /\ Head(acks[s]).req # r
    BY <1>0, <2>1, <2>2, SingleReader DEF FlowTake
  <2>4. Linked(s) /\ phase[s] # "closed"
    BY <1>2, <1>3, SessionsStay
  <2>5. ~Quiet(r, s)
    BY <1>0, <1>2, <2>1, <2>4 DEF AckInv
  <2>6. ~Quiet(r, s)'
    BY <1>2, <1>3, <2>3, <2>5, UnderWayStep
  <2> QED
    BY <1>2, <2>6
<1>5. CASE Asks(r, i)
  <2>1. SendFrame(r) /\ Target(r) = s
    BY <1>2, <1>5 DEF Asks
  <2>2. /\ FrameOf(r).req = r /\ FrameOf(r) \in Frames
        /\ sendCh'[s] = Append(sendCh[s], FrameOf(r))
    BY <1>2, <2>1, FrameSent
  <2>3. HasFrame(sendCh'[s], r)
    BY <1>2, <2>2, QueueTypes, AppendQueue
  <2> QED
    BY <1>2, <2>3 DEF Quiet
<1>6. CASE Gets(r, i)
  BY <1>6 DEF Gets
<1> QED
  BY <1>1, <1>4, <1>5, <1>6

LEMMA AckArrives == BaseInv /\ OnlyDeployments /\ AckInv => AckReachesItsWaiter
<1> SUFFICES ASSUME BaseInv, OnlyDeployments, AckInv, NEW r \in Requests, pc[r] \in WaitPCs,
                    NEW i \in pos[r] .. Len(targets[r])
             PROVE  LET s == targets[r][i] IN
                    \/ phase[s] = "closed" \/ ~Linked(s)
                    \/ HasFrame(sendCh[s], r) \/ HasFrame(wire[s], r)
                    \/ applying[owner[s]] = r
                    \/ HasFrame(up[s], r) \/ HasFrame(acks[s], r)
  BY DEF AckReachesItsWaiter
<1>1. r \in RouteRequests
  BY DEF OnlyDeployments, Requests, WaitPCs
<1>2. pos[r] \in 1 .. Len(targets[r]) /\ DOMAIN targets[r] = 1 .. Len(targets[r])
      /\ Len(targets[r]) \in Nat /\ pc[r] \in {"prepareWait", "activateWait"}
  BY <1>1, DeployerTypes DEF WaitPCs, RoutePCs
<1>3. i \in DOMAIN targets[r] /\ ~(i < pos[r])
  BY <1>2
<1>4. Progress(r, i) \in {"asked", "activating"}
  BY <1>2, <1>3 DEF Progress
<1>5. LET s == targets[r][i] IN phase[s] = "closed" \/ ~Linked(s) \/ ~Quiet(r, s)
  BY <1>1, <1>3, <1>4 DEF AckInv
<1> QED
  BY <1>5 DEF Quiet, Applies

\* While only deployments are under way no acknowledgement goes missing on a live stream:
\* what a deployment waits for is on its way to the gateway or back (hub.go
\* broadcastAndWait drops the acks of other requests from the shared channel, but deployMu
\* leaves it a single reader).  With interrupt or drain requests it is not so.
THEOREM DeploymentsGetTheirAcks == Spec => [](OnlyDeployments => AckReachesItsWaiter)
<1> DEFINE I == BaseInv /\ (OnlyDeployments => AckInv)
<1>1. Init => I
  <2>1. Init => AckInv
    <3>1. Init => \A r \in RouteRequests : DOMAIN targets[r] = {}
      BY DEF Init, Requests
    <3> QED
      BY <3>1 DEF AckInv
  <2> QED
    BY <2>1, BaseInit
<1>2. I /\ [Next]_vars => I'
  BY BaseStep, AckStep
<1>3. I => (OnlyDeployments => AckReachesItsWaiter)
  BY AckArrives
<1> QED
  BY <1>1, <1>2, <1>3, PTL DEF Spec

-------------------------------------------------------------------------------
(* A drained gateway stays out of the quorum *)

\* A request answers once; before it begins there is nothing of it anywhere; a draining
\* request has one session.
BeginInv ==
    /\ \A x \in Requests :
          /\ pc[x] # "done" => answer[x] = "none"
          /\ pc[x] = "idle" => \A s \in Sessions : s <= opened => Quiet(x, s)
    /\ \A d \in DrainRequests :
          pc[d] \in {"send", "wait"} \/ answer[d] = "204" => Len(targets[d]) = 1

\* Request d drains, and nothing else disturbs what it does.
Alone(d) ==
    faults = 0 /\ drainTo[d] = TRUE /\ \A e \in DrainRequests \ {d} : pc[e] = "idle"

DrainFrames == {f \in Frames : f.type = "SET_DRAINING" => f.draining = TRUE}
CalmReplies == {f \in Replies : f.type = "HEARTBEAT" => f.ok = FALSE}
RepliesTo(d) == {f \in Replies : f.req = d}

\* Once the gateway has acknowledged, it drains, and no heartbeat behind the
\* acknowledgement reports it ready.
DrainAt(d, s) ==
    /\ sendCh[s] \in Seq(DrainFrames) /\ wire[s] \in Seq(DrainFrames)
    /\ OrderIn(up[s], RepliesTo(d), CalmReplies)
    /\ Hits(acks[s], RepliesTo(d)) => up[s] \in Seq(CalmReplies)
    /\ Hits(up[s], RepliesTo(d)) \/ Hits(acks[s], RepliesTo(d)) => draining[owner[s]] = TRUE

Drained(s) ==
    draining[owner[s]] = TRUE /\ up[s] \in Seq(CalmReplies) /\ ready[s] = FALSE

DrainInv ==
    \A d \in DrainRequests : Alone(d) =>
        /\ \A s \in Sessions : s <= opened => DrainAt(d, s)
        /\ answer[d] = "204" => Drained(targets[d][1])

\* The steps of a draining request.
LEMMA DrainRequestStep ==
    ASSUME BaseInv, NEW d \in DrainRequests, RequestStep(d)
    PROVE  \/ /\ \E g \in Gateways, v \in BOOLEAN :
                    /\ StartDrain(d, g, v) /\ drainTo'[d] \in {drainTo[d], v}
              /\ pc[d] = "idle" /\ pc'[d] \in {"send", "done"}
              /\ pc'[d] = "send" => Len(targets'[d]) = 1 /\ answer'[d] = answer[d]
              /\ pc'[d] = "done" => answer'[d] = "404"
              /\ UNCHANGED <<gatewayVars, sessionVars>>
           \/ /\ targets'[d] = targets[d] /\ pc[d] \in {"send", "wait"}
              /\ answer'[d] = answer[d] /\ drainTo' = drainTo
              /\ pc'[d] \in {"send", "wait"}
           \/ pc'[d] = "done" /\ answer'[d] = "503" /\ drainTo' = drainTo
           \/ /\ TakeAck(d) /\ pc[d] = "wait" /\ pc'[d] = "done" /\ answer'[d] = "204"
              /\ targets'[d] = targets[d] /\ drainTo' = drainTo
              /\ Head(acks[Target(d)]).req = d
              /\ ready' = [ready EXCEPT ![targets[d][1]] = FALSE]
<1>0. /\ d \in Requests /\ d \notin RouteRequests /\ d \notin InterruptRequests
      /\ RequestInv /\ TypeInv
      /\ pc \in [Requests -> RoutePCs \union OtherPCs] /\ answer \in [Requests -> Answers]
      /\ targets \in [Requests -> Seq(Sessions)] /\ drainTo \in [Requests -> BOOLEAN]
  BY BaseParts, RequestTypes, RequestsAssumption DEF Requests
<1>1. pc[d] \in OtherPCs
  BY <1>0 DEF RequestInv, RequestTypeOK
<1>2. CASE \E g \in Gateways, v \in BOOLEAN : StartDrain(d, g, v)
  <2>1. PICK g \in Gateways, v \in BOOLEAN : StartDrain(d, g, v)
    BY <1>2
  <2>2. pc[d] = "idle" /\ UNCHANGED <<gatewayVars, sessionVars>>
    BY <2>1 DEF StartDrain
  <2>3. CASE hubSession[g] = None /\ Answer(d, "404") /\ UNCHANGED <<targets, drainTo>>
    BY <1>0, <2>1, <2>2, <2>3 DEF Answer
  <2>4. CASE hubSession[g] # None
    <3>1. /\ pc'[d] = "send" /\ targets'[d] = <<hubSession[g]>> /\ drainTo'[d] = v
          /\ answer'[d] = answer[d]
      BY <1>0, <2>1, <2>4 DEF StartDrain
    <3>2. Len(<<hubSession[g]>>) = 1
      OBVIOUS
    <3> QED
      BY <2>1, <2>2, <3>1, <3>2
  <2> QED
    BY <2>1, <2>3, <2>4 DEF StartDrain
<1>3. ASSUME Fail(d) PROVE pc'[d] = "done" /\ answer'[d] = "503"
  BY <1>0, <1>3 DEF Fail, Answer
<1>4. CASE SendFrame(d)
  <2>1. pc[d] = "send" /\ UNCHANGED <<targets, answer, drainTo>>
    BY <1>1, <1>4 DEF SendFrame, SendPCs, OtherPCs
  <2>2. pc'[d] \in {"send", "wait"}
    BY <1>0, <1>4, <2>1 DEF SendFrame, AfterSend, SentAll
  <2> QED
    BY <2>1, <2>2
<1>5. CASE TakeAck(d)
  <2>1. pc[d] = "wait" /\ drainTo' = drainTo
    BY <1>1, <1>5 DEF TakeAck, WaitPCs, OtherPCs
  <2>2. CASE UNCHANGED <<pc, answer, targets>>
    BY <2>1, <2>2
  <2>3. CASE Fail(d)
    BY <1>3, <2>1, <2>3
  <2>4. CASE /\ Head(acks[Target(d)]).req = d /\ BroadcastDone(d) /\ AfterBroadcast(d)
             /\ UNCHANGED targets
    <3>1. pc'[d] = "done" /\ answer'[d] = "204"
      BY <1>0, <2>1, <2>4 DEF BroadcastDone, Answer
    <3> QED
      BY <1>5, <2>1, <2>4, <3>1 DEF AfterBroadcast
  <2> QED
    BY <1>5, <2>2, <2>3, <2>4 DEF TakeAck, AckOf
<1>6. CASE GiveUpWaiting(d) \/ CancelSending(d)
  BY <1>3, <1>6 DEF GiveUpWaiting, CancelSending
<1> QED
  BY <1>0, <1>2, <1>4, <1>5, <1>6 DEF RequestStep, BroadcastStep

LEMMA BeginStep == BaseInv /\ BeginInv /\ [Next]_vars => BeginInv'
<1> SUFFICES ASSUME BaseInv, BeginInv, [Next]_vars PROVE BeginInv'
  OBVIOUS
<1>0. TypeInv /\ answer \in [Requests -> Answers] /\ pc \in [Requests -> RoutePCs \union OtherPCs]
      /\ targets \in [Requests -> Seq(Sessions)] /\ \A d \in DrainRequests : d \in Requests
  BY BaseParts, RequestTypes DEF Requests
<1>1. ASSUME NEW x \in Requests, pc'[x] # "done" PROVE answer'[x] = "none"
  <2>0. pc[x] # "done" => answer[x] = "none"
    BY DEF BeginInv
  <2>1. CASE RequestStep(x)
    BY <1>1, <2>0, <2>1, RequestStepTargets
  <2>2. ASSUME NEW y \in Requests, RequestStep(y), y # x PROVE answer'[x] = "none"
    BY <1>0, <1>1, <2>0, <2>2, RequestStepLocal
  <2>3. CASE ControlPlaneRestart
    BY <1>0, <1>1, <2>0, <2>3 DEF ControlPlaneRestart
  <2>4. CASE UNCHANGED requestVars
    BY <1>1, <2>0, <2>4 DEF requestVars
  <2> QED
    BY <2>1, <2>2, <2>3, <2>4, StepKinds, RemoteStepsKeepRequests DEF vars
<1>2. ASSUME NEW x \in Requests, pc'[x] = "idle", NEW s \in Sessions, s <= opened'
      PROVE  Quiet(x, s)'
  <2>1. \A t \in Sessions : t <= opened => Quiet(x, t)
    BY <1>2, WaitingStep DEF BeginInv
  <2> QED
    BY <1>2, <2>1, UnbegunStep
<1>3. ASSUME NEW d \in DrainRequests, pc'[d] \in {"send", "wait"} \/ answer'[d] = "204"
      PROVE  Len(targets'[d]) = 1
  <2>0. pc[d] \in {"send", "wait"} \/ answer[d] = "204" => Len(targets[d]) = 1
    BY DEF BeginInv
  <2>1. CASE RequestStep(d)
    BY <1>3, <2>0, <2>1, DrainRequestStep
  <2>2. ASSUME NEW y \in Requests, RequestStep(y), y # d PROVE Len(targets'[d]) = 1
    BY <1>0, <1>3, <2>0, <2>2, RequestStepLocal
  <2>3. CASE ControlPlaneRestart
    <3>1. /\ targets' = targets /\ pc'[d] \in {"idle", "done"}
          /\ answer'[d] \in {answer[d], "lost"}
      BY <1>0, <2>3 DEF ControlPlaneRestart
    <3> QED
      BY <1>3, <2>0, <3>1
  <2>4. CASE UNCHANGED requestVars
    BY <1>3, <2>0, <2>4 DEF requestVars
  <2> QED
    BY <1>0, <2>1, <2>2, <2>3, <2>4, StepKinds, RemoteStepsKeepRequests DEF vars
<1> QED
  BY <1>1, <1>2, <1>3 DEF BeginInv

\* Every disturbance is counted.
LEMMA FaultsStep ==
    ASSUME BaseInv, [Next]_vars, faults' = 0
    PROVE  faults = 0 /\ ~Disturb
<1>1. faults \in Nat
  BY BaseParts, TypeInvParts, BoundsAssumption
<1>2. ~Disturb
  BY <1>1 DEF Disturb
<1>3. UNCHANGED faults
  <2>1. \A s \in Sessions : SessionStep(s) => UNCHANGED faults
    BY <1>2 DEF SessionStep, SendSnapshot, ForwardFrame, HubReceive, CloseSession
  <2>2. ASSUME NEW g \in Gateways, GatewayStep(g) PROVE UNCHANGED faults
    <3>1. CASE Connect(g) \/ ClientDisconnect(g) \/ Heartbeat(g) \/ LocalDrain(g) \/ Canary(g)
      BY <1>2, <3>1 DEF Connect, ClientDisconnect, Heartbeat, LocalDrain, Canary
    <3>2. CASE OnSnapshot(g) \/ OnPrepare(g) \/ OnActivate(g) \/ OnActivated(g)
      BY <1>2, <3>2 DEF OnSnapshot, OnPrepare, OnActivate, OnActivated
    <3>3. CASE OnInterrupt(g) \/ OnSetDraining(g) \/ GatewayRestart(g)
      BY <1>2, <3>3 DEF OnInterrupt, OnSetDraining, GatewayRestart
    <3> QED
      BY <2>2, <3>1, <3>2, <3>3 DEF GatewayStep
  <2>3. ASSUME NEW r \in Requests, RequestStep(r) PROVE UNCHANGED faults
    <3>1. CASE BroadcastStep(r)
      BY <1>2, <3>1 DEF BroadcastStep, SendFrame, TakeAck, GiveUpWaiting, CancelSending
    <3>2. CASE (\E e \in Expected : Stage(r, e)) \/ LockAndTarget(r) \/ Commit(r)
      BY <1>2, <3>2 DEF Stage, LockAndTarget, Commit
    <3>3. CASE StartInterrupt(r) \/ \E g \in Gateways, v \in BOOLEAN : StartDrain(r, g, v)
      BY <3>3 DEF StartInterrupt, StartDrain
    <3> QED
      BY <2>3, <3>1, <3>2, <3>3 DEF RequestStep
  <2>4. ControlPlaneRestart => UNCHANGED faults
    BY <1>2 DEF ControlPlaneRestart
  <2> QED
    BY <2>1, <2>2, <2>3, <2>4, StepKinds DEF vars
<1> QED
  BY <1>2, <1>3

\* A gateway that drains goes on draining: only frames of draining requests reach it.
LEMMA DrainingStays ==
    ASSUME BaseInv, [Next]_vars, faults' = 0, NEW g \in Gateways, draining[g] = TRUE,
           \A s \in Sessions : s <= opened => wire[s] \in Seq(DrainFrames)
    PROVE  draining'[g] = TRUE
<1>0. /\ GatewayTypeOK /\ TypeInv /\ SessionTypeOK /\ LinkInv /\ ~Disturb
      /\ draining \in [Gateways -> BOOLEAN]
  BY BaseParts, FaultsStep DEF GatewayTypeOK
<1>1. ASSUME UNCHANGED draining PROVE draining'[g] = TRUE
  BY <1>1
<1>2. ASSUME NEW h \in Gateways, GatewayStep(h), h # g PROVE draining'[g] = TRUE
  BY <1>0, <1>2, GatewayStepLocal
<1>3. ASSUME GatewayStep(g) PROVE draining'[g] = TRUE
  <2>1. CASE LocalDrain(g) \/ GatewayRestart(g)
    BY <1>0, <2>1 DEF LocalDrain, GatewayRestart
  <2>2. CASE OnSetDraining(g)
    <3>1. Received(g, "SET_DRAINING") /\ draining' = [draining EXCEPT ![g] = Frame(g).draining]
      BY <2>2 DEF OnSetDraining, SetDraining
    <3>2. /\ link[g] \in Sessions /\ link[g] <= opened /\ wire[link[g]] # <<>>
          /\ Frame(g).type = "SET_DRAINING"
      BY <1>0, <3>1, ReceivedFrame DEF LinkInv, Received, Frame
    <3>3. Frame(g) \in DrainFrames
      BY <3>2 DEF Frame
    <3> QED
      BY <1>0, <3>1, <3>2, <3>3 DEF DrainFrames
  <2>3. CASE \/ Connect(g) \/ ClientDisconnect(g) \/ OnInterrupt(g) \/ Heartbeat(g)
             \/ OnActivated(g)
    BY <1>1, <2>3
    DEF Connect, ClientDisconnect, OnInterrupt, Heartbeat, OnActivated, FinishActivate,
        ActivateNotSaved, gatewayVars
  <2>4. CASE OnSnapshot(g) \/ OnPrepare(g) \/ OnActivate(g) \/ Canary(g)
    BY <1>1, <2>4
    DEF OnSnapshot, HandleSnapshot, SnapshotNotReconciled, SetUnsynced, OnPrepare,
        HandlePrepare, PrepareRefused, ListenerNotPrepared, OnActivate, StartActivate, Canary,
        SetCanary, gatewayVars
  <2> QED
    BY <1>3, <2>1, <2>2, <2>3, <2>4 DEF GatewayStep
<1> QED
  BY <1>0, <1>1, <1>2, <1>3, RemoteSteps, SessionStepLocal DEF gatewayVars

\* The frame of a draining request asks to drain.
LEMMA DrainSender ==
    ASSUME BaseInv, NEW d \in DrainRequests, Alone(d), NEW s \in Sessions,
           NEW x \in Requests, FlowSend(s, x)
    PROVE  FrameOf(x) \in DrainFrames
<1>1. /\ FrameOf(x) \in BroadcastFrames /\ FrameOf(x) \in Frames /\ pc[x] \in SendPCs
      /\ FrameOf(x).req = x /\ FrameOf(x).draining = drainTo[x]
  <2>1. FrameOf(x).req = x /\ FrameOf(x).draining = drainTo[x]
    BY DEF FrameOf
  <2> QED
    BY <2>1, BroadcastFramesAreFrames DEF FlowSend, SendFrame
<1>2. CASE x = d
  BY <1>1, <1>2 DEF Alone, DrainFrames
<1>3. CASE x # d
  <2>1. x \notin DrainRequests
    BY <1>1, <1>3 DEF Alone, SendPCs
  <2>2. FrameOf(x).type # "SET_DRAINING"
    BY <1>1, <2>1 DEF BroadcastFrames, FramesOf
  <2> QED
    BY <1>1, <2>2 DEF DrainFrames
<1> QED
  BY <1>2, <1>3

LEMMA DrainAtStep ==
    ASSUME BaseInv, [Next]_vars, NEW d \in DrainRequests, Alone(d), faults' = 0,
           \A t \in Sessions : t <= opened => DrainAt(d, t), NEW s \in Sessions, s <= opened
    PROVE  DrainAt(d, s)'
<1> DEFINE R == RepliesTo(d)
           C == CalmReplies
           g == owner[s]
<1>0. /\ d # None /\ Flow(s) /\ d \in Requests /\ d \notin RouteRequests
      /\ owner[s] \in Gateways /\ owner'[s] = owner[s] /\ DrainAt(d, s) /\ GatewayTypeOK
      /\ up[s] \in Seq(Replies) /\ acks[s] \in Seq(Replies) /\ wire[s] \in Seq(Frames)
  BY FlowStep, SessionsStay, RequestsAssumption, QueueTypes, BaseParts DEF Requests
<1>1. sendCh'[s] \in Seq(DrainFrames) /\ wire'[s] \in Seq(DrainFrames)
  <2>1. \A f \in Frames : f.req = None /\ f.type = "SNAPSHOT" => f \in DrainFrames
    BY DEF DrainFrames
  <2> QED
    BY <1>0, <2>1, DrainSender, FramesWithin DEF DrainAt
<1>2. draining[g] = TRUE => draining'[g] = TRUE
  BY <1>0, DrainingStays DEF DrainAt
<1>3. /\ OrderIn(up[s], R, C)
      /\ Hits(acks[s], R) => up[s] \in Seq(C)
      /\ Hits(up[s], R) \/ Hits(acks[s], R) => draining[g] = TRUE
  BY <1>0 DEF DrainAt
<1>e. ~Hits(<<>>, R) /\ OrderIn(<<>>, R, C) /\ <<>> \in Seq(C)
  BY OrderEmpty
<1> SUFFICES /\ OrderIn(up'[s], R, C)
             /\ Hits(acks'[s], R) => up'[s] \in Seq(C)
             /\ Hits(up'[s], R) \/ Hits(acks'[s], R) => draining'[g] = TRUE
  BY <1>0, <1>1 DEF DrainAt
<1>t. \A f \in Replies : f.type = "ACK" => f \in C
  BY DEF CalmReplies
<1>r. \A f \in Replies : f \in R <=> f.req = d
  BY DEF RepliesTo
<1> HIDE DEF R, C, g
<1>4. ASSUME NEW f \in Replies, Replied(s, f), acks'[s] = acks[s],
             f \in C \/ (~Hits(up[s], R) /\ ~Hits(acks[s], R)),
             f \in R => draining'[g] = TRUE
      PROVE  /\ OrderIn(up'[s], R, C)
             /\ Hits(acks'[s], R) => up'[s] \in Seq(C)
             /\ Hits(up'[s], R) \/ Hits(acks'[s], R) => draining'[g] = TRUE
  <2>1. CASE up'[s] = up[s]
    BY <1>2, <1>3, <1>4, <2>1
  <2>2. CASE up'[s] = Append(up[s], f)
    <3>1. /\ Hits(up'[s], R) <=> Hits(up[s], R) \/ f \in R
          /\ OrderIn(up'[s], R, C)
      BY <1>0, <1>3, <1>4, <2>2, OrderAppend
    <3>2. Hits(acks[s], R) => up'[s] \in Seq(C)
      BY <1>3, <1>4, <2>2
    <3> QED
      BY <1>2, <1>3, <1>4, <3>1, <3>2
  <2> QED
    BY <1>4, <2>1, <2>2 DEF Replied
<1>5. CASE FlowCut(s)
  BY <1>2, <1>3, <1>5, <1>e DEF FlowCut
<1>6. CASE up'[s] = up[s] /\ acks'[s] = acks[s]
  BY <1>2, <1>3, <1>6
<1>7. CASE FlowReceive(s)
  <2>0. up[s] # <<>> /\ up'[s] = Tail(up[s]) /\ Head(up[s]) \in Replies
    BY <1>7, QueueTypes DEF FlowReceive
  <2>1. /\ Hits(up[s], R) <=> Head(up[s]) \in R \/ Hits(up'[s], R)
        /\ OrderIn(up'[s], R, C)
        /\ Head(up[s]) \in R => up'[s] \in Seq(C)
    BY <1>0, <1>3, <2>0, OrderTail
  <2>2. up[s] \in Seq(C) => up'[s] \in Seq(C)
    BY <2>0
  <2>3. CASE acks'[s] = Append(acks[s], Head(up[s]))
    <3>1. Hits(Append(acks[s], Head(up[s])), R) <=> Hits(acks[s], R) \/ Head(up[s]) \in R
      BY <1>0, <2>0, OrderAppend
    <3>2. Hits(acks'[s], R) <=> Hits(acks[s], R) \/ Head(up[s]) \in R
      BY <2>3, <3>1
    <3> QED
      BY <1>2, <1>3, <2>1, <2>2, <3>2
  <2>4. CASE acks'[s] = acks[s]
    BY <1>2, <1>3, <2>1, <2>2, <2>4
  <2> QED
    BY <1>7, <2>3, <2>4 DEF FlowReceive
<1>8. CASE FlowAnswer(s)
  <2>1. PICK ok \in BOOLEAN : /\ Replied(s, Ack(Head(wire[s]).req, ok))
                              /\ Head(wire[s]).type = "SET_DRAINING" =>
                                    draining'[owner[s]] = Head(wire[s]).draining
    BY <1>8 DEF FlowAnswer
  <2> DEFINE f == Ack(Head(wire[s]).req, ok)
  <2>2. f \in Replies /\ f.req = Head(wire[s]).req /\ Replied(s, f) /\ acks'[s] = acks[s]
    BY <1>8, <2>1, ReplyTypes DEF FlowAnswer
  <2>3. f.type = "ACK"
    BY DEF Ack
  <2> HIDE DEF f
  <2>4. ASSUME f \in R PROVE draining'[g] = TRUE
    <3>1. wire[s] # <<>> /\ Head(wire[s]) \in Frames /\ Head(wire[s]).req = d
          /\ Head(wire[s]) \in DrainFrames
      BY <1>0, <1>8, <1>r, <2>2, <2>4 DEF FlowAnswer, DrainAt
    <3>2. Head(wire[s]).type = "SET_DRAINING"
      BY <1>0, <3>1, RequestsAssumption
      DEF Frames, SnapshotFrames, BroadcastFrames, FramesOf
    <3> QED
      BY <2>1, <3>1, <3>2 DEF DrainFrames, g
  <2> QED
    BY <1>4, <1>t, <2>2, <2>3, <2>4
<1>9. CASE FlowFinish(s)
  <2>1. PICK ok \in BOOLEAN : Replied(s, Ack(Applies(s), ok))
    BY <1>9 DEF FlowFinish
  <2> DEFINE f == Ack(Applies(s), ok)
  <2>2. f \in Replies /\ f.req = Applies(s) /\ Replied(s, f) /\ acks'[s] = acks[s]
    BY <1>9, <2>1, ReplyTypes DEF FlowFinish
  <2>3. f.type = "ACK"
    BY DEF Ack
  <2> HIDE DEF f
  <2>4. Applies(s) # d
    BY <1>0 DEF Applies, GatewayTypeOK
  <2> QED
    BY <1>4, <1>r, <1>t, <2>2, <2>3, <2>4
<1>10. CASE FlowBeat(s)
  <2> DEFINE f == [type |-> "HEARTBEAT", req |-> None, ok |-> Ready(owner[s])]
  <2>1. f \in Replies /\ f.req = None /\ Replied(s, f) /\ acks'[s] = acks[s]
    BY <1>10, ReplyTypes DEF FlowBeat
  <2>2. draining[g] = TRUE => f \in C
    <3>1. draining[g] = TRUE => Ready(g) = FALSE
      BY DEF Ready
    <3> QED
      BY <2>1, <3>1 DEF C, CalmReplies, g
  <2> HIDE DEF f
  <2>3. f \notin R
    BY <1>0, <1>r, <2>1
  <2> QED
    BY <1>3, <1>4, <2>1, <2>2, <2>3
<1>11. ASSUME NEW x \in Requests, FlowTake(s, x)
       PROVE  /\ OrderIn(up'[s], R, C)
              /\ Hits(acks'[s], R) => up'[s] \in Seq(C)
              /\ Hits(up'[s], R) \/ Hits(acks'[s], R) => draining'[g] = TRUE
  <2>1. Hits(acks'[s], R) => Hits(acks[s], R)
    BY <1>0, <1>11, OrderTail DEF FlowTake
  <2> QED
    BY <1>2, <1>3, <1>11, <2>1 DEF FlowTake
<1> QED
  BY <1>0, <1>5, <1>6, <1>7, <1>8, <1>9, <1>10, <1>11
  DEF Flow, FlowSnapshot, FlowForward, FlowStart, FlowSend

LEMMA DrainedStep ==
    ASSUME BaseInv, [Next]_vars, NEW d \in DrainRequests, Alone(d), faults' = 0,
           \A t \in Sessions : t <= opened => DrainAt(d, t),
           NEW s \in Sessions, s <= opened, Drained(s)
    PROVE  Drained(s)'
<1> DEFINE C == CalmReplies
<1>0. /\ Flow(s) /\ owner[s] \in Gateways /\ owner'[s] = owner[s] /\ TypeInv /\ SessionTypeOK
      /\ ready \in [Sessions -> BOOLEAN] /\ up[s] \in Seq(C) /\ <<>> \in Seq(C)
  BY FlowStep, SessionsStay, BaseParts DEF SessionTypeOK, Drained
<1>1. draining'[owner[s]] = TRUE
  BY <1>0, DrainingStays DEF DrainAt, Drained
<1>2. up'[s] \in Seq(C)
  <2>1. ASSUME NEW f \in C, Replied(s, f) PROVE up'[s] \in Seq(C)
    BY <1>0, <2>1 DEF Replied
  <2>2. \A f \in Replies : f.type = "ACK" => f \in C
    BY DEF CalmReplies
  <2>3. \A r, ok : Ack(r, ok).type = "ACK"
    BY DEF Ack
  <2>4. CASE FlowAnswer(s)
    <3>1. PICK ok \in BOOLEAN : Replied(s, Ack(Head(wire[s]).req, ok))
      BY <2>4 DEF FlowAnswer
    <3>2. Ack(Head(wire[s]).req, ok) \in Replies
      BY <2>4, ReplyTypes DEF FlowAnswer
    <3> QED
      BY <2>1, <2>2, <2>3, <3>1, <3>2
  <2>5. CASE FlowFinish(s)
    <3>1. PICK ok \in BOOLEAN : Replied(s, Ack(Applies(s), ok))
      BY <2>5 DEF FlowFinish
    <3>2. Ack(Applies(s), ok) \in Replies
      BY <2>5, ReplyTypes DEF FlowFinish
    <3> QED
      BY <2>1, <2>2, <2>3, <3>1, <3>2
  <2>6. CASE FlowBeat(s)
    <3> DEFINE f == [type |-> "HEARTBEAT", req |-> None, ok |-> Ready(owner[s])]
    <3>1. f \in Replies /\ Replied(s, f)
      BY <2>6, ReplyTypes DEF FlowBeat
    <3>2. Ready(owner[s]) = FALSE
      BY DEF Ready, Drained
    <3>3. f \in C
      BY <3>1, <3>2 DEF CalmReplies
    <3> QED
      BY <2>1, <3>1, <3>3
  <2> HIDE DEF C
  <2>7. CASE FlowReceive(s)
    <3>1. up[s] \in Seq(C) /\ up[s] # <<>> /\ up'[s] = Tail(up[s])
      BY <1>0, <2>7 DEF FlowReceive
    <3> QED
      BY <3>1
  <2>8. CASE FlowCut(s)
    <3>1. up'[s] = up[s] \/ up'[s] = <<>>
      BY <2>8 DEF FlowCut
    <3> QED
      BY <1>0, <3>1
  <2> QED
    BY <1>0, <2>4, <2>5, <2>6, <2>7, <2>8
    DEF Flow, FlowSnapshot, FlowForward, FlowStart, FlowSend, FlowTake
<1>3. ready'[s] = FALSE
  <2>0. ready[s] = FALSE
    BY DEF Drained
  <2>1. ASSUME NEW t \in Sessions, SessionStep(t) PROVE ready'[s] = FALSE
    <3>1. CASE UNCHANGED ready
      BY <2>0, <3>1
    <3>2. CASE HubReceive(t) /\ StoreReady(t, Head(up[t])) /\ Head(up[t]).type = "HEARTBEAT"
      <4>1. CASE t # s
        BY <1>0, <2>0, <3>2, <4>1 DEF StoreReady
      <4>2. CASE t = s
        <5>1. Head(up[s]) \in C
          BY <1>0, <3>2, <4>2 DEF HubReceive
        <5>2. Head(up[s]).ok = FALSE
          BY <3>2, <4>2, <5>1 DEF CalmReplies
        <5> QED
          BY <1>0, <3>2, <4>2, <5>2 DEF StoreReady
      <4> QED
        BY <4>1, <4>2
    <3> QED
      BY <2>1, <3>1, <3>2
      DEF SessionStep, SendSnapshot, ForwardFrame, HubReceive, CloseSession
  <2>2. ASSUME NEW h \in Gateways, GatewayStep(h) PROVE ready'[s] = FALSE
    BY <1>0, <2>0, <2>2, GatewayStepReplies
  <2>3. ASSUME NEW r \in Requests, RequestStep(r) PROVE ready'[s] = FALSE
    BY <1>0, <2>0, <2>3, RequestStepSessions
  <2>4. CASE ControlPlaneRestart
    BY <2>4 DEF ControlPlaneRestart
  <2>5. CASE UNCHANGED vars
    BY <2>0, <2>5 DEF vars, sessionVars
  <2> QED
    BY <2>1, <2>2, <2>3, <2>4, <2>5, StepKinds
<1> QED
  BY <1>0, <1>1, <1>2, <1>3 DEF Drained

\* The session of a draining request.
LEMMA DrainSession ==
    ASSUME BaseInv, BeginInv, NEW d \in DrainRequests,
           pc[d] = "wait" \/ answer[d] = "204"
    PROVE  /\ targets[d][1] \in Sessions /\ targets[d][1] <= opened
           /\ pc[d] = "wait" => Target(d) = targets[d][1]
<1>0. d \in Requests /\ RequestInv /\ targets[d] \in Seq(Sessions)
  BY BaseParts, RequestTypes DEF Requests
<1>1. Len(targets[d]) = 1
  BY DEF BeginInv
<1>2. 1 \in DOMAIN targets[d] /\ targets[d][1] \in Sessions
  BY <1>0, <1>1
<1>3. targets[d][1] <= opened
  BY <1>0, <1>2, BaseParts DEF TargetsInv
<1>4. ASSUME pc[d] = "wait" PROVE pos[d] = 1
  <2>1. pc[d] \in SendPCs \union WaitPCs
    BY <1>4 DEF WaitPCs
  <2>2. pos[d] \in 1 .. Len(targets[d])
    BY <1>0, <2>1 DEF RequestInv, RequestTypeOK
  <2> QED
    BY <1>1, <2>2
<1> QED
  BY <1>2, <1>3, <1>4 DEF Target

LEMMA DrainStep == BaseInv /\ BeginInv /\ DrainInv /\ [Next]_vars => DrainInv'
<1> SUFFICES ASSUME BaseInv, BeginInv, DrainInv, [Next]_vars,
                    NEW d \in DrainRequests, Alone(d)'
             PROVE  /\ \A s \in Sessions : s <= opened' => DrainAt(d, s)'
                    /\ answer'[d] = "204" => Drained(targets[d][1])'
  BY DEF DrainInv
<1>0. /\ faults' = 0 /\ faults = 0 /\ ~Disturb /\ d \in Requests /\ d # None /\ TypeInv
      /\ drainTo'[d] = TRUE /\ ~ControlPlaneRestart
      /\ \A e \in DrainRequests \ {d} : pc[e] = "idle" /\ pc'[e] = "idle"
      /\ drainTo \in [Requests -> BOOLEAN]
  <2>1. faults' = 0 /\ drainTo'[d] = TRUE /\ \A e \in DrainRequests \ {d} : pc'[e] = "idle"
    BY DEF Alone
  <2>2. faults = 0 /\ ~Disturb /\ ~ControlPlaneRestart
    BY <2>1, FaultsStep DEF ControlPlaneRestart
  <2>3. \A e \in DrainRequests : e \in Requests /\ e # None
    BY RequestsAssumption DEF Requests
  <2> QED
    BY <2>1, <2>2, <2>3, WaitingStep, BaseParts, RequestTypes
<1>1. CASE Alone(d)
  <2>0. /\ \A t \in Sessions : t <= opened => DrainAt(d, t)
        /\ answer[d] = "204" => Drained(targets[d][1])
    BY <1>1 DEF DrainInv
  <2>1. ASSUME NEW s \in Sessions, s <= opened' PROVE DrainAt(d, s)'
    <3>1. CASE s <= opened
      BY <1>0, <1>1, <2>0, <3>1, DrainAtStep
    <3>2. CASE ~(s <= opened)
      <4>1. sendCh'[s] = <<>> /\ wire'[s] = <<>> /\ up'[s] = <<>> /\ acks'[s] = <<>>
        BY <2>1, <3>2, NewSession
      <4>2. \A A, B : ~Hits(<<>>, A) /\ OrderIn(<<>>, A, B)
        BY OrderEmpty
      <4> QED
        BY <4>1, <4>2 DEF DrainAt
    <3> QED
      BY <3>1, <3>2
  <2>2. ASSUME answer'[d] = "204" PROVE Drained(targets[d][1])'
    <3>1. CASE answer[d] = "204"
      <4>1. targets'[d] = targets[d]
        <5>1. pc[d] = "done"
          BY <1>0, <3>1 DEF BeginInv
        <5>2. ~RequestStep(d)
          BY <1>0, <5>1, RequestStepTargets
        <5>3. \A x \in Requests \ {d} : RequestStep(x) => targets'[d] = targets[d]
          BY <1>0, RequestStepLocal
        <5> QED
          BY <1>0, <5>2, <5>3, StepKinds, RemoteStepsKeepRequests DEF vars, requestVars
      <4>2. PICK s \in Sessions : s = targets[d][1] /\ s <= opened
        BY <1>0, <3>1, DrainSession
      <4>3. Drained(s)'
        BY <1>0, <1>1, <2>0, <3>1, <4>2, DrainedStep
      <4> QED
        BY <4>1, <4>2, <4>3
    <3>2. CASE answer[d] # "204"
      <4>1. RequestStep(d)
        <5>1. \A x \in Requests \ {d} : RequestStep(x) => answer'[d] = answer[d]
          BY <1>0, RequestStepLocal
        <5> QED
          BY <1>0, <2>2, <3>2, <5>1, StepKinds, RemoteStepsKeepRequests DEF vars, requestVars
      <4>2. /\ TakeAck(d) /\ pc[d] = "wait" /\ targets'[d] = targets[d]
            /\ Head(acks[Target(d)]).req = d
            /\ ready' = [ready EXCEPT ![targets[d][1]] = FALSE]
        <5>1. pc[d] # "done" /\ answer[d] = "none"
          BY <1>0, <4>1, RequestStepTargets DEF BeginInv
        <5> QED
          BY <2>2, <4>1, <5>1, DrainRequestStep
      <4>3. PICK s \in Sessions : s = targets[d][1] /\ s <= opened /\ Target(d) = s
        BY <1>0, <4>2, DrainSession
      <4>4. acks[s] # <<>> /\ Head(acks[s]) \in RepliesTo(d) /\ acks[s] \in Seq(Replies)
        BY <4>2, <4>3, QueueTypes DEF TakeAck, RepliesTo
      <4>5. Hits(acks[s], RepliesTo(d))
        BY <4>4, OrderTail
      <4>6. draining[owner[s]] = TRUE /\ up[s] \in Seq(CalmReplies)
        BY <2>0, <4>3, <4>5 DEF DrainAt
      <4>7. UNCHANGED <<draining, owner, up>>
        BY <4>2 DEF TakeAck, gatewayVars
      <4>8. ready'[s] = FALSE
        BY <4>2, <4>3, BaseParts DEF SessionTypeOK
      <4> QED
        BY <4>2, <4>3, <4>6, <4>7, <4>8 DEF Drained
    <3> QED
      BY <3>1, <3>2
  <2> QED
    BY <2>1, <2>2
<1>2. CASE ~Alone(d)
  <2>1. drainTo[d] # TRUE
    BY <1>0, <1>2 DEF Alone
  <2>2. RequestStep(d)
    <3>1. \A x \in Requests \ {d} : RequestStep(x) => drainTo'[d] = drainTo[d]
      BY <1>0, RequestStepLocal
    <3> QED
      BY <1>0, <2>1, <3>1, StepKinds, RemoteStepsKeepRequests DEF vars, requestVars
  <2>3. /\ pc[d] = "idle" /\ UNCHANGED <<gatewayVars, sessionVars>>
        /\ answer'[d] \in {answer[d], "404"}
    BY <1>0, <2>1, <2>2, DrainRequestStep
  <2>4. answer'[d] # "204"
    BY <1>0, <2>3 DEF BeginInv
  <2>5. ASSUME NEW s \in Sessions, s <= opened' PROVE DrainAt(d, s)'
    <3>0. /\ s <= opened /\ up'[s] = up[s] /\ acks'[s] = acks[s]
          /\ sendCh'[s] = sendCh[s] /\ wire'[s] = wire[s]
      BY <2>3, <2>5 DEF sessionVars
    <3>1. \A e \in DrainRequests : Quiet(e, s)
      BY <1>0, <2>3, <3>0 DEF BeginInv, Requests
    <3>2. ~Hits(up[s], RepliesTo(d)) /\ ~Hits(acks[s], RepliesTo(d))
      BY <3>1 DEF Quiet, HasFrame, Hits, RepliesTo
    <3>3. OrderIn(up[s], RepliesTo(d), CalmReplies)
      BY <3>2 DEF OrderIn, Hits
    <3>4. sendCh[s] \in Seq(DrainFrames) /\ wire[s] \in Seq(DrainFrames)
      <4> DEFINE A == {f \in Frames : f.req \in DrainRequests}
      <4>1. ~Hits(sendCh[s], A) /\ ~Hits(wire[s], A)
        BY <3>1 DEF Quiet, HasFrame, Hits
      <4>2. \A f \in Frames : f \notin A => f \in DrainFrames
        BY DEF DrainFrames, Frames, SnapshotFrames, BroadcastFrames, FramesOf
      <4> HIDE DEF A
      <4> QED
        BY <4>1, <4>2, OrderMisses, QueueTypes
    <3> QED
      BY <3>0, <3>2, <3>3, <3>4 DEF DrainAt
  <2> QED
    BY <2>4, <2>5
<1> QED
  BY <1>1, <1>2

LEMMA DrainsOut == BaseInv /\ BeginInv /\ DrainInv => DrainedLeavesQuorum
<1> SUFFICES ASSUME BaseInv, BeginInv, DrainInv, NEW d \in DrainRequests,
                    answer[d] = "204", drainTo[d], faults = 0,
                    \A e \in DrainRequests \ {d} : pc[e] = "idle"
             PROVE  draining[owner[targets[d][1]]] /\ targets[d][1] \notin ReadySessions
  BY DEF DrainedLeavesQuorum
<1>1. drainTo[d] = TRUE
  BY BaseParts, RequestTypes DEF Requests
<1>2. Drained(targets[d][1])
  BY <1>1 DEF DrainInv, Alone
<1> QED
  BY <1>2 DEF Drained, ReadySessions

LEMMA DrainInit == Init => BeginInv /\ DrainInv
<1> SUFFICES ASSUME Init PROVE BeginInv /\ DrainInv
  OBVIOUS
<1>1. \A s \in Sessions : ~(s <= opened)
  BY BoundsAssumption DEF Init, Sessions
<1>2. \A x \in Requests : pc[x] = "idle" /\ answer[x] = "none"
  BY DEF Init
<1>3. DrainRequests \subseteq Requests
  BY DEF Requests
<1>4. BeginInv
  BY <1>1, <1>2, <1>3 DEF BeginInv
<1>5. DrainInv
  BY <1>1, <1>2, <1>3 DEF DrainInv
<1> QED
  BY <1>4, <1>5

\* After a 204 to {"draining": true}, with no disturbance and no other draining request
\* begun, the gateway drains and its session is out of the publication quorum for good: no
\* heartbeat that was under way brings it back (hub.go SetDraining clears s.ready behind
\* the acknowledgement, and the stream delivers heartbeats in order).
THEOREM DrainedStaysOut == Spec => []DrainedLeavesQuorum
<1> DEFINE I == BaseInv /\ BeginInv /\ DrainInv
<1>1. Init => I
  BY BaseInit, DrainInit
<1>2. I /\ [Next]_vars => I'
  BY BaseStep, BeginStep, DrainStep
<1>3. I => DrainedLeavesQuorum
  BY DrainsOut
<1> QED
  BY <1>1, <1>2, <1>3, PTL DEF Spec
===============================================================================
