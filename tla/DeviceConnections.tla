--------------------------- MODULE DeviceConnections ---------------------------
(***************************************************************************)
(* The connections of one device through one gateway: the handler of an    *)
(* accepted connection (gateway.go handleShadowsocks), the registry that   *)
(* INTERRUPT cancels (connections.go), the dial through the SOCKS5         *)
(* upstream (socks5.go) and the relay with its two copying goroutines.     *)
(* What travels over a connection is left out; what counts is which side   *)
(* has stopped sending and which socket is closed.                         *)
(***************************************************************************)
EXTENDS Integers, FiniteSets

CONSTANTS Conns,            \* connections of the device in a behaviour
          MaxVersion        \* bound: route versions

ASSUME ConnsAssumption == IsFiniteSet(Conns) /\ MaxVersion \in Nat

VARIABLES version,          \* Table.active's version for the device, 0: no route
          admitting,        \* Gateway.Ready() and the listener's active flag
          at,               \* where each connection's handler stands
          used,             \* the version its handler has read, 0 before
          byDevice,         \* Connections.byDevice: the registered cancel functions
          total,            \* Connections.total
          cancelled,        \* the connections whose ctx is cancelled
          client, upstream, \* the handler's two sockets
          copying,          \* the relay's goroutine from each side to the other
          received,         \* values the relay has received from its channel done
          interrupted       \* history: the connections on a replaced route that
                            \* were there when an INTERRUPT was handled

tableVars == <<version, admitting>>
registryVars == <<byDevice, total, cancelled>>
socketVars == <<client, upstream, copying, received>>
vars == <<tableVars, at, used, registryVars, socketVars, interrupted>>

Points == {"new", "accepted", "admitted", "routed", "targeted", "dialing",
           "negotiating", "relaying", "oneDone", "closed"}
\* eof: the peer has stopped sending; closed: the gateway has closed the socket.
SocketStates == {"none", "open", "eof", "closed"}
Sides == {"client", "upstream"}
CopyStates == {"none", "running", "done"}

Init ==
    /\ version = 0
    /\ admitting = FALSE
    /\ at = [c \in Conns |-> "new"]
    /\ used = [c \in Conns |-> 0]
    /\ byDevice = {}
    /\ total = 0
    /\ cancelled = {}
    /\ client = [c \in Conns |-> "none"]
    /\ upstream = [c \in Conns |-> "none"]
    /\ copying = [c \in Conns |-> [d \in Sides |-> "none"]]
    /\ received = [c \in Conns |-> 0]
    /\ interrupted = {}

Go(c, from, to) ==
    /\ at[c] = from
    /\ at' = [at EXCEPT ![c] = to]

\* Mutant: the function Track returns is not deferred.
UntrackForgotten(c) == UNCHANGED <<byDevice, total>>

\* Mutant: the counter goes down without a look at the map.
UntrackUnchecked(c) ==
    /\ byDevice' = byDevice \ {c}
    /\ total' = total - 1

\* The function Track returns; handlers that never got to Track have none.
Untrack(c) ==
    /\ byDevice' = byDevice \ {c}
    /\ total' = IF c \in byDevice THEN total - 1 ELSE total

\* Mutant: the upstream connection is not closed.
CloseClientOnly(c) ==
    /\ client' = [client EXCEPT ![c] = "closed"]
    /\ UNCHANGED upstream

CloseSockets(c) ==
    /\ client' = [client EXCEPT ![c] = "closed"]
    /\ upstream' = [upstream EXCEPT ![c] = IF @ = "none" THEN "none" ELSE "closed"]

\* The handler returns and its deferred calls run: upstream.Close, cancel, untrack,
\* raw.Close.
Return(c) ==
    /\ at' = [at EXCEPT ![c] = "closed"]
    /\ CloseSockets(c)
    /\ cancelled' = cancelled \union {c}
    /\ Untrack(c)
    /\ UNCHANGED <<tableVars, used, copying, received, interrupted>>

-------------------------------------------------------------------------------
(* acceptLoop and handleShadowsocks *)

Accept(c) ==
    /\ Go(c, "new", "accepted")
    /\ client' = [client EXCEPT ![c] = "open"]
    /\ UNCHANGED <<tableVars, used, registryVars, upstream, copying, received,
                   interrupted>>

Admit(c) ==
    \/ /\ admitting
       /\ Go(c, "accepted", "admitted")
       /\ UNCHANGED <<tableVars, used, registryVars, socketVars, interrupted>>
    \/ ~admitting /\ at[c] = "accepted" /\ Return(c)

\* Table.ByDevice; the credential may have expired.
ReadRoute(c) ==
    \/ /\ version # 0
       /\ Go(c, "admitted", "routed")
       /\ used' = [used EXCEPT ![c] = version]
       /\ UNCHANGED <<tableVars, registryVars, socketVars, interrupted>>
    \/ at[c] = "admitted" /\ Return(c)

\* The target address is read under a deadline.
Handshake(c) ==
    \/ /\ Go(c, "routed", "targeted")
       /\ UNCHANGED <<tableVars, used, registryVars, socketVars, interrupted>>
    \/ at[c] = "routed" /\ Return(c)

Track(c) ==
    /\ Go(c, "targeted", "dialing")
    /\ byDevice' = byDevice \union {c}
    /\ total' = total + 1
    /\ UNCHANGED <<tableVars, used, cancelled, socketVars, interrupted>>

\* DialSOCKS5: the TCP connection, under ctx and the dial timeout.
Dial(c) ==
    \/ /\ Go(c, "dialing", "negotiating")
       /\ c \notin cancelled
       /\ UNCHANGED <<tableVars, used, registryVars, socketVars, interrupted>>
    \/ at[c] = "dialing" /\ Return(c)

\* The SOCKS5 negotiation: it fails, or its deadline passes, or it ends well and the
\* relay starts its goroutines.  It does not look at ctx.
Negotiate(c) ==
    \/ /\ Go(c, "negotiating", "relaying")
       /\ upstream' = [upstream EXCEPT ![c] = "open"]
       /\ copying' = [copying EXCEPT ![c] = [d \in Sides |-> "running"]]
       /\ UNCHANGED <<tableVars, used, registryVars, client, received, interrupted>>
    \/ at[c] = "negotiating" /\ Return(c)

-------------------------------------------------------------------------------
(* relay *)

Socket(c, d) == IF d = "client" THEN client[c] ELSE upstream[c]
Other(d) == IF d = "client" THEN "upstream" ELSE "client"

\* io.Copy returns: nothing more comes from its source, or its destination fails.
\* At the end of its source it may still be blocked in a Write to a peer that does not
\* read (there is no write deadline); a closed socket ends its Read and its Write.
\* Neither destination is a *net.TCPConn (they are the Shadowsocks connection and
\* the bufferedConn of socks5.go), so CloseWrite is never called: the other peer is
\* not told.  The channel done holds both values: the goroutine never blocks.
CopyEnds(c, d) ==
    /\ copying[c][d] = "running"
    /\ Socket(c, d) \in {"eof", "closed"}
    /\ copying' = [copying EXCEPT ![c][d] = "done"]
    /\ UNCHANGED <<tableVars, at, used, registryVars, client, upstream, received,
                   interrupted>>

CopyFails(c, d) ==
    /\ copying[c][d] = "running"
    /\ Socket(c, d) = "open" /\ Socket(c, Other(d)) \in {"eof", "closed"}
    /\ copying' = [copying EXCEPT ![c][d] = "done"]
    /\ UNCHANGED <<tableVars, at, used, registryVars, client, upstream, received,
                   interrupted>>

\* Mutant: only the copy from the client reports its end.
DoneSentByClient(c) == Cardinality({d \in {"client"} : copying[c][d] = "done"})

DoneSent(c) == Cardinality({d \in Sides : copying[c][d] = "done"})

\* The select takes the first value from done ...
RelayOneDone(c) ==
    /\ DoneSent(c) > received[c]
    /\ Go(c, "relaying", "oneDone")
    /\ received' = [received EXCEPT ![c] = @ + 1]
    /\ UNCHANGED <<tableVars, used, registryVars, client, upstream, copying,
                   interrupted>>

\* ... and waits for the second one, no longer for ctx.
RelayBothDone(c) ==
    /\ at[c] = "oneDone"
    /\ DoneSent(c) > received[c]
    /\ Return(c)

\* Mutant: the relay does not look at ctx.
CtxUnwatched(c) == FALSE

CtxDone(c) == c \in cancelled

\* The select's other case: both sockets are closed and the handler returns.
RelayCancelled(c) ==
    /\ at[c] = "relaying"
    /\ CtxDone(c)
    /\ Return(c)

-------------------------------------------------------------------------------
(* The rest of the gateway, and the peers *)

\* A new route is activated (control_client.go, ACTIVATE).
ActivateRoute ==
    /\ version < MaxVersion
    /\ version' = version + 1
    /\ UNCHANGED <<admitting, at, used, registryVars, socketVars, interrupted>>

SetAdmitting ==
    /\ admitting' = ~admitting
    /\ UNCHANGED <<version, at, used, registryVars, socketVars, interrupted>>

\* The handler still runs, with a route that is no longer the active one.
OnReplacedRoute(c) == at[c] # "closed" /\ used[c] # 0 /\ used[c] < version

\* Connections.Interrupt: every registered cancel function is called.
Interrupt ==
    /\ cancelled' = cancelled \union byDevice
    /\ interrupted' = interrupted \union {c \in Conns : OnReplacedRoute(c)}
    /\ UNCHANGED <<tableVars, at, used, byDevice, total, socketVars>>

PeerStops(c) ==
    /\ \/ /\ client[c] = "open"
          /\ client' = [client EXCEPT ![c] = "eof"]
          /\ UNCHANGED upstream
       \/ /\ upstream[c] = "open"
          /\ upstream' = [upstream EXCEPT ![c] = "eof"]
          /\ UNCHANGED client
    /\ UNCHANGED <<tableVars, at, used, registryVars, copying, received, interrupted>>

HandlerStep(c) ==
    \/ Admit(c) \/ ReadRoute(c) \/ Handshake(c) \/ Track(c) \/ Dial(c) \/ Negotiate(c)
    \/ RelayOneDone(c) \/ RelayBothDone(c) \/ RelayCancelled(c)

Next ==
    \/ \E c \in Conns : Accept(c) \/ HandlerStep(c) \/ PeerStops(c)
    \/ \E c \in Conns, d \in Sides : CopyEnds(c, d) \/ CopyFails(c, d)
    \/ ActivateRoute \/ SetAdmitting \/ Interrupt

Spec == Init /\ [][Next]_vars

\* Goroutines run on and deadlines pass.  Nothing is assumed of the peers: a side may
\* stay open and silent for ever, and need not read what is written to it.  A copy has
\* to end only once the gateway has closed its sockets.
FairSpec ==
    /\ Spec
    /\ \A c \in Conns : WF_vars(HandlerStep(c))
    /\ \A c \in Conns, d \in Sides : WF_vars(Socket(c, d) = "closed" /\ CopyEnds(c, d))

-------------------------------------------------------------------------------
(* Properties *)

TypeOK ==
    /\ version \in 0 .. MaxVersion /\ admitting \in BOOLEAN
    /\ at \in [Conns -> Points] /\ used \in [Conns -> 0 .. MaxVersion]
    /\ byDevice \subseteq Conns /\ total \in Nat /\ cancelled \subseteq Conns
    /\ client \in [Conns -> SocketStates] /\ upstream \in [Conns -> SocketStates]
    /\ copying \in [Conns -> [Sides -> CopyStates]]
    /\ received \in [Conns -> 0 .. 2]
    /\ interrupted \subseteq Conns

\* The gauge proxymesh_active_connections, which a drain waits for to become 0, is
\* the number of handlers that dial or relay: each way out of a handler gives it back.
GaugeIsExact ==
    /\ byDevice = {c \in Conns : at[c] \in {"dialing", "negotiating", "relaying", "oneDone"}}
    /\ total = Cardinality(byDevice)

\* No goroutine outlives its connection: once the handler has returned, both copies
\* come to an end, whatever the peers do.
NoLeakedCopies ==
    \A c \in Conns : at[c] = "closed" ~> \A d \in Sides : copying[c][d] # "running"

\* An interrupted connection that dials, negotiates or relays in both directions
\* ends, unless one direction has ended first.
InterruptEndsFullRelay ==
    \A c \in Conns : (c \in cancelled) ~> (at[c] = "closed" \/ DoneSent(c) > 0)

\* The peers of c read what they are sent: a copy whose source has ended gets rid of
\* what it still holds and returns.
PeersRead(c) == \A d \in Sides : WF_vars(CopyEnds(c, d))

\* A connection both of whose peers have stopped sending is released, provided they
\* read: the relay takes the end of each direction from done, in whichever order they
\* come, and loses none (relay; without that provision io.Copy may block in Write).
FinishedIsReleased ==
    \A c \in Conns : PeersRead(c) =>
        ((client[c] = "eof" /\ upstream[c] = "eof") ~> at[c] = "closed")

-------------------------------------------------------------------------------
(* Claims of the documentation that the code does not keep *)

\* api/openapi/openapi.yaml: "Close existing connections for a device on every
\* gateway".  No relay through the replaced route outlives an INTERRUPT that came
\* after its handler had read that route.
InterruptReachesAll ==
    \A c \in interrupted : at[c] = "relaying" => c \in cancelled

\* README.md: "existing connections remain until they close or the interrupt API is
\* called": a registered connection that is interrupted ends.
InterruptEndsConnections == \A c \in Conns : (c \in cancelled) ~> (at[c] = "closed")
===============================================================================
