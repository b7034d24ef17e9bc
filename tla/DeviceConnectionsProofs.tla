------------------------ MODULE DeviceConnectionsProofs ------------------------
(***************************************************************************)
(* The gauge of active connections is exact, for every finite set of       *)
(* connections.  Types and gauge go together: that total is a natural      *)
(* number rests on its being a cardinality.                                *)
(***************************************************************************)
EXTENDS DeviceConnections, FiniteSetTheorems, TLAPS

Registered == {"dialing", "negotiating", "relaying", "oneDone"}

\* The relay receives twice at most: nothing before it is half done.
ReceivedInv ==
    \A c \in Conns : at[c] \notin {"oneDone", "closed"} => received[c] = 0

GaugeInv == TypeOK /\ GaugeIsExact /\ ReceivedInv

LEMMA CountAdd ==
    ASSUME NEW S \in SUBSET Conns, NEW c \in Conns, c \notin S
    PROVE  /\ Cardinality(S) \in Nat
           /\ Cardinality(S \union {c}) = Cardinality(S) + 1
<1>1. IsFiniteSet(S)
  BY ConnsAssumption, FS_Subset
<1> QED
  BY <1>1, FS_AddElement, FS_CardinalityType

LEMMA CountRemove ==
    ASSUME NEW S \in SUBSET Conns, NEW c \in S
    PROVE  /\ Cardinality(S \ {c}) \in Nat
           /\ Cardinality(S \ {c}) = Cardinality(S) - 1
<1>1. IsFiniteSet(S)
  BY ConnsAssumption, FS_Subset
<1>2. IsFiniteSet(S \ {c})
  BY <1>1, FS_Subset, S \ {c} \in SUBSET S
<1> QED
  BY <1>1, <1>2, FS_RemoveElement, FS_CardinalityType

\* Whatever way a handler takes out, its deferred calls keep the invariant.
LEMMA ReturnGauge ==
    ASSUME GaugeInv, NEW c \in Conns, Return(c)
    PROVE  GaugeInv'
<1> USE DEF GaugeInv
<1>1. /\ at' = [at EXCEPT ![c] = "closed"]
      /\ byDevice' = byDevice \ {c}
      /\ received' = received
  BY DEF Return, Untrack
<1>2. /\ byDevice' = {d \in Conns : at'[d] \in Registered}
      /\ total' = Cardinality(byDevice')
      /\ total' \in Nat
  <2>1. byDevice' = {d \in Conns : at'[d] \in Registered}
    BY <1>1 DEF GaugeIsExact, TypeOK, Registered, Points
  <2>2. CASE c \in byDevice
    <3>1. total' = total - 1 /\ total = Cardinality(byDevice)
      BY <2>2 DEF Return, Untrack, GaugeIsExact
    <3> QED
      BY <2>1, <2>2, <3>1, <1>1, CountRemove DEF TypeOK
  <2>3. CASE c \notin byDevice
    <3>1. total' = total /\ byDevice \ {c} = byDevice
      BY <2>3 DEF Return, Untrack
    <3> QED
      BY <2>1, <3>1, <1>1 DEF GaugeIsExact, TypeOK
  <2> QED
    BY <2>2, <2>3
<1>3. TypeOK'
  BY <1>1, <1>2 DEF TypeOK, Return, CloseSockets, tableVars, Points, SocketStates
<1>4. ReceivedInv'
  BY <1>1 DEF ReceivedInv, TypeOK
<1> QED
  BY <1>2, <1>3, <1>4 DEF GaugeIsExact, Registered

\* A handler that moves on between two unregistered, or two registered, points.
LEMMA MoveGauge ==
    ASSUME GaugeIsExact, TypeOK, NEW c \in Conns, NEW from \in Points,
           NEW to \in Points, Go(c, from, to), from \in Registered <=> to \in Registered,
           byDevice' = byDevice, total' = total
    PROVE  GaugeIsExact' /\ at' \in [Conns -> Points]
BY DEF GaugeIsExact, TypeOK, Go, Registered

LEMMA InitGauge == Init => GaugeInv
<1> SUFFICES ASSUME Init PROVE GaugeInv
  OBVIOUS
<1>1. Cardinality({}) = 0
  BY FS_EmptySet
<1>2. TypeOK
  <2>1. /\ version \in 0 .. MaxVersion
        /\ used \in [Conns -> 0 .. MaxVersion] /\ total \in Nat
        /\ received \in [Conns -> 0 .. 2]
    BY ConnsAssumption DEF Init
  <2>2. /\ admitting \in BOOLEAN /\ at \in [Conns -> Points]
        /\ client \in [Conns -> SocketStates] /\ upstream \in [Conns -> SocketStates]
    BY DEF Init, Points, SocketStates
  <2>3. copying \in [Conns -> [Sides -> CopyStates]]
    BY DEF Init, CopyStates
  <2> QED
    BY <2>1, <2>2, <2>3 DEF Init, TypeOK
<1>3. GaugeIsExact
  BY <1>1 DEF Init, GaugeIsExact
<1>4. ReceivedInv
  BY DEF Init, ReceivedInv
<1> QED
  BY <1>2, <1>3, <1>4 DEF GaugeInv

\* One step of a handler.
LEMMA HandlerGauge ==
    ASSUME GaugeInv, NEW c \in Conns, Accept(c) \/ HandlerStep(c)
    PROVE  GaugeInv'
<1> USE ConnsAssumption DEF GaugeInv
<1>1. CASE Return(c)
  BY <1>1, ReturnGauge
<1>2. CASE Track(c)
  <2>1. /\ at[c] = "targeted" /\ at' = [at EXCEPT ![c] = "dialing"]
        /\ byDevice' = byDevice \union {c} /\ total' = total + 1
        /\ received' = received
    BY <1>2 DEF Track, Go, socketVars
  <2>2. c \notin byDevice
    BY <2>1 DEF GaugeIsExact
  <2>3. total' = Cardinality(byDevice') /\ total' \in Nat
    <3>1. byDevice \in SUBSET Conns /\ total = Cardinality(byDevice)
      BY DEF GaugeIsExact, TypeOK
    <3>2. /\ Cardinality(byDevice) \in Nat
          /\ Cardinality(byDevice \union {c}) = Cardinality(byDevice) + 1
      BY <2>2, <3>1, CountAdd
    <3> QED
      BY <2>1, <3>1, <3>2
  <2>4. GaugeIsExact'
    BY <2>1, <2>3 DEF GaugeIsExact, TypeOK, Points
  <2>5. TypeOK'
    BY <1>2, <2>1, <2>3 DEF TypeOK, Track, tableVars, socketVars, Points
  <2>6. ReceivedInv'
    BY <2>1 DEF ReceivedInv, TypeOK
  <2> QED
    BY <2>4, <2>5, <2>6
<1>3. CASE RelayOneDone(c)
  <2>1. GaugeIsExact' /\ at' \in [Conns -> Points]
    BY <1>3, MoveGauge DEF RelayOneDone, registryVars, Registered, Points
  <2>2. received[c] = 0
    BY <1>3 DEF RelayOneDone, Go, ReceivedInv
  <2>3. TypeOK'
    <3>1. received' \in [Conns -> 0 .. 2]
      BY <1>3, <2>2 DEF TypeOK, RelayOneDone
    <3> QED
      BY <1>3, <2>1, <3>1 DEF TypeOK, RelayOneDone, tableVars, registryVars
  <2>4. ReceivedInv'
    BY <1>3 DEF ReceivedInv, TypeOK, RelayOneDone, Go
  <2> QED
    BY <2>1, <2>3, <2>4
<1>4. ASSUME NEW from \in Points, NEW to \in Points \ {"oneDone", "closed"},
             Go(c, from, to), from \notin {"oneDone", "closed"},
             from \in Registered <=> to \in Registered,
             UNCHANGED <<byDevice, total, received>>, TypeOK'
      PROVE  GaugeInv'
  <2>1. GaugeIsExact'
    BY <1>4, MoveGauge
  <2>2. ReceivedInv'
    BY <1>4 DEF ReceivedInv, TypeOK, Go
  <2> QED
    BY <1>4, <2>1, <2>2
<1>5. CASE Accept(c)
  <2>1. Go(c, "new", "accepted") /\ UNCHANGED <<byDevice, total, received>>
    BY <1>5 DEF Accept, registryVars, socketVars
  <2>2. TypeOK'
    BY <1>5, <2>1 DEF Accept, Go, TypeOK, Points, SocketStates, tableVars, registryVars, socketVars
  <2> QED
    BY <1>4, <2>1, <2>2 DEF Points, Registered
<1>6. CASE Admit(c) /\ ~Return(c)
  <2>1. Go(c, "accepted", "admitted") /\ UNCHANGED <<byDevice, total, received>>
    BY <1>6 DEF Admit, registryVars, socketVars
  <2>2. TypeOK'
    BY <1>6, <2>1 DEF Admit, Go, TypeOK, Points, tableVars, registryVars, socketVars
  <2> QED
    BY <1>4, <2>1, <2>2 DEF Points, Registered
<1>7. CASE ReadRoute(c) /\ ~Return(c)
  <2>1. Go(c, "admitted", "routed") /\ UNCHANGED <<byDevice, total, received>>
    BY <1>7 DEF ReadRoute, registryVars, socketVars
  <2>2. TypeOK'
    BY <1>7, <2>1 DEF ReadRoute, Go, TypeOK, Points, tableVars, registryVars, socketVars
  <2> QED
    BY <1>4, <2>1, <2>2 DEF Points, Registered
<1>8. CASE Handshake(c) /\ ~Return(c)
  <2>1. Go(c, "routed", "targeted") /\ UNCHANGED <<byDevice, total, received>>
    BY <1>8 DEF Handshake, registryVars, socketVars
  <2>2. TypeOK'
    BY <1>8, <2>1 DEF Handshake, Go, TypeOK, Points, tableVars, registryVars, socketVars
  <2> QED
    BY <1>4, <2>1, <2>2 DEF Points, Registered
<1>9. CASE Dial(c) /\ ~Return(c)
  <2>1. Go(c, "dialing", "negotiating") /\ UNCHANGED <<byDevice, total, received>>
    BY <1>9 DEF Dial, registryVars, socketVars
  <2>2. TypeOK'
    BY <1>9, <2>1 DEF Dial, Go, TypeOK, Points, tableVars, registryVars, socketVars
  <2> QED
    BY <1>4, <2>1, <2>2 DEF Points, Registered
<1>10. CASE Negotiate(c) /\ ~Return(c)
  <2>1. Go(c, "negotiating", "relaying") /\ UNCHANGED <<byDevice, total, received>>
    BY <1>10 DEF Negotiate, registryVars, socketVars
  <2>2. copying' \in [Conns -> [Sides -> CopyStates]]
    <3>1. [d \in Sides |-> "running"] \in [Sides -> CopyStates]
      BY DEF CopyStates
    <3> QED
      BY <1>10, <3>1 DEF Negotiate, TypeOK
  <2>3. TypeOK'
    BY <1>10, <2>1, <2>2 DEF Negotiate, Go, TypeOK, Points, SocketStates, tableVars, registryVars
  <2> QED
    BY <1>4, <2>1, <2>3 DEF Points, Registered
<1> QED
  BY <1>1, <1>2, <1>3, <1>5, <1>6, <1>7, <1>8, <1>9, <1>10
     DEF HandlerStep, RelayBothDone, RelayCancelled

\* The copies, the peers and the control side do not touch the registry.
LEMMA OtherGauge ==
    ASSUME GaugeInv,
           \/ \E c \in Conns : PeerStops(c)
           \/ \E c \in Conns, d \in Sides : CopyEnds(c, d) \/ CopyFails(c, d)
           \/ ActivateRoute \/ SetAdmitting \/ Interrupt \/ UNCHANGED vars
    PROVE  GaugeInv'
<1> USE ConnsAssumption DEF GaugeInv
<1>1. UNCHANGED <<at, byDevice, total, received>>
  BY DEF PeerStops, CopyEnds, CopyFails, ActivateRoute, SetAdmitting, Interrupt, vars,
         registryVars, socketVars
<1>2. TypeOK'
  <2>1. CASE \E c \in Conns : PeerStops(c)
    BY <2>1 DEF PeerStops, TypeOK, SocketStates, tableVars, registryVars
  <2>2. CASE \E c \in Conns, d \in Sides : CopyEnds(c, d) \/ CopyFails(c, d)
    <3>1. PICK c \in Conns, d \in Sides : CopyEnds(c, d) \/ CopyFails(c, d)
      BY <2>2
    <3>2. copying' = [copying EXCEPT ![c][d] = "done"]
      BY <3>1 DEF CopyEnds, CopyFails
    <3>3. copying' \in [Conns -> [Sides -> CopyStates]]
      BY <3>2 DEF TypeOK, CopyStates
    <3> QED
      BY <3>1, <3>3 DEF CopyEnds, CopyFails, TypeOK, tableVars, registryVars
  <2>3. CASE ActivateRoute \/ SetAdmitting
    <3>1. version' \in 0 .. MaxVersion
      BY <2>3 DEF ActivateRoute, SetAdmitting, TypeOK
    <3>2. admitting' \in BOOLEAN
      BY <2>3 DEF ActivateRoute, SetAdmitting, TypeOK
    <3> QED
      BY <2>3, <3>1, <3>2 DEF ActivateRoute, SetAdmitting, TypeOK, registryVars, socketVars
  <2>4. CASE Interrupt
    BY <2>4 DEF Interrupt, TypeOK, tableVars, socketVars
  <2>5. CASE UNCHANGED vars
    BY <2>5 DEF vars, TypeOK, tableVars, registryVars, socketVars
  <2> QED
    BY <2>1, <2>2, <2>3, <2>4, <2>5
<1>3. GaugeIsExact' /\ ReceivedInv'
  BY <1>1 DEF GaugeIsExact, ReceivedInv
<1> QED
  BY <1>2, <1>3

LEMMA GaugeInvHolds == Spec => []GaugeInv
<1>1. GaugeInv /\ [Next]_vars => GaugeInv'
  BY HandlerGauge, OtherGauge DEF Next
<1> QED
  BY InitGauge, <1>1, PTL DEF Spec

\* Every handler is at a point of handleShadowsocks, every socket and copy in one of
\* its states, and the registry's counters are numbers: total is never below zero
\* (connections.go, gateway.go).
THEOREM ConnectionsTyped == Spec => []TypeOK
BY GaugeInvHolds, PTL DEF GaugeInv

\* The gauge proxymesh_active_connections counts the handlers that dial or relay,
\* however handlers return, peers stop and INTERRUPTs arrive
\* (connections.go Track and the function it returns, gateway.go handleShadowsocks).
THEOREM GaugeExact == Spec => []GaugeIsExact
BY GaugeInvHolds, PTL DEF GaugeInv
===============================================================================
