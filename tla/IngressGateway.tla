---------------------------- MODULE IngressGateway ----------------------------
(***************************************************************************)
(* The ingress side of the gateways: the routing table with the devices'   *)
(* ingresses, the listeners by port, the snapshot file, and one operator   *)
(* per way a frame handler may end.  A handler is one step: a process that *)
(* dies inside it comes back from the file, as if it had not begun.        *)
(***************************************************************************)
EXTENDS DeviceStore

CONSTANTS Gateways

VARIABLES table,        \* Table.active: per device its route, or None
          prepared,     \* Table.pending
          listeners,    \* Gateway.listeners: per port, or None
          synced,       \* Gateway.controlSynced
          draining,     \* Gateway.draining
          file          \* the table in the snapshot file, None if there is no file

ingressVars == <<table, prepared, listeners, synced, draining, file>>

TableRoutes == [version : Nat, dev : DeviceValues]
Tables == [Devices -> TableRoutes \union {None}]
\* A listener takes new connections when it is active.
Listeners == [device : Devices, method : Methods, password : Passwords, active : BOOLEAN]

ASSUME ListenerAssumption == None \notin Listeners
ASSUME TableAssumption == None \notin Tables /\ None \notin TableRoutes

Ready(g) == synced[g] /\ ~draining[g]

NoTable == [d \in Devices |-> None]
NoListeners == [p \in Ports |-> None]

\* The ingresses a table wants listeners for, each with its device.
Desired(t) ==
    UNION {{[device |-> d, ingress |-> i] : i \in EffectiveIngresses(t[d].dev)} :
           d \in {e \in Devices : t[e] # None}}

Listener(x, active) ==
    [device |-> x.device, method |-> x.ingress.method, password |-> x.ingress.password,
     active |-> active]

ListenersFor(S) ==
    [p \in Ports |-> IF \E x \in S : x.ingress.port = p
                     THEN Listener(CHOOSE x \in S : x.ingress.port = p, TRUE) ELSE None]

-------------------------------------------------------------------------------
(* ReconcileListeners *)

DuplicatePort(t) ==
    \E x, y \in Desired(t) : x # y /\ x.ingress.port = y.ingress.port

\* Mutant: a listener is kept although its password has changed.
KeptWhateverPassword(l, x) ==
    l # None /\ <<l.device, l.method>> = <<x.device, x.ingress.method>>

\* The listener that is there already is the one that is wanted.
Kept(l, x) ==
    l # None /\ <<l.device, l.method, l.password>>
                = <<x.device, x.ingress.method, x.ingress.password>>

KeptOf(g, t) == {x \in Desired(t) : Kept(listeners[g][x.ingress.port], x)}
Missing(g, t) == Desired(t) \ KeptOf(g, t)

Startable(x) == ValidCredential(x.ingress.method, x.ingress.password)

\* The table can be served, whatever listeners there are now.
Reconcilable(t) == ~DuplicatePort(t) /\ \A x \in Desired(t) : Startable(x)

\* Kept listeners are activated, the others closed, missing ones started active.
Reconcile(g, t) ==
    /\ ~DuplicatePort(t)
    /\ \A x \in Missing(g, t) : Startable(x)
    /\ listeners' = [listeners EXCEPT ![g] =
          [p \in Ports |->
             IF \E x \in KeptOf(g, t) : x.ingress.port = p
             THEN [listeners[g][p] EXCEPT !.active = TRUE]
             ELSE ListenersFor(Missing(g, t))[p]]]

\* The listeners it leaves when it stops: all of them at a duplicate port, before
\* it touches anything; at one that does not start, the kept ones and some of the
\* missing ones (map order).
LeftListeners(g, t) ==
    IF DuplicatePort(t) THEN {listeners[g]}
    ELSE {[p \in Ports |->
             IF \E x \in KeptOf(g, t) : x.ingress.port = p
             THEN [listeners[g][p] EXCEPT !.active = TRUE]
             ELSE ListenersFor(S)[p]] :
          S \in {T \in SUBSET Missing(g, t) : T # Missing(g, t) /\ \A x \in T : Startable(x)}}

ReconcileStops(g, t) ==
    \E left \in LeftListeners(g, t) : listeners' = [listeners EXCEPT ![g] = left]

\* Without an error of the operating system it would have succeeded.
CouldReconcile(g, t) == ~DuplicatePort(t) /\ \A x \in Missing(g, t) : Startable(x)

-------------------------------------------------------------------------------
(* PrepareDevice, PrepareListener *)

Unused(g, i) == listeners[g][i.port] = None

\* The port is another device's, or the credential is not valid.
CannotPrepare(g, d, i) ==
    \/ ~Unused(g, i) /\ listeners[g][i.port].device # d
    \/ ~ValidCredential(i.method, i.password)

\* Mutant: a listener that is there already is opened again.
OpenAll(g, d, S) ==
    listeners' = [listeners EXCEPT ![g] =
        [p \in Ports |->
           IF \E i \in S : i.port = p
           THEN Listener([device |-> d, ingress |-> CHOOSE i \in S : i.port = p], FALSE)
           ELSE listeners[g][p]]]

\* Inactive listeners for those of the ingresses that have none.
OpenInactive(g, d, S) ==
    listeners' = [listeners EXCEPT ![g] =
        [p \in Ports |->
           IF \E i \in S : i.port = p /\ Unused(g, i)
           THEN Listener([device |-> d, ingress |-> CHOOSE i \in S : i.port = p], FALSE)
           ELSE listeners[g][p]]]

PrepareDevice(g, d, v) ==
    /\ \A i \in EffectiveIngresses(v) : ~CannotPrepare(g, d, i)
    /\ OpenInactive(g, d, EffectiveIngresses(v))

\* It stops at f, in slice order; what it has opened before stays open.
PrepareStopsAt(g, d, v, f) ==
    /\ f \in EffectiveIngresses(v)
    /\ \A i \in EffectiveIngresses(v) : Before(i, f) => ~CannotPrepare(g, d, i)
    /\ CannotPrepare(g, d, f) \/ Unused(g, f)
    /\ OpenInactive(g, d, {i \in EffectiveIngresses(v) : Before(i, f)})

-------------------------------------------------------------------------------
(* The frame handlers.  t is the table the handler installs. *)

Install(g, t) == table' = [table EXCEPT ![g] = t]

\* The listeners follow the table and the file is replaced.
Applied(g, t) ==
    /\ Install(g, t)
    /\ Reconcile(g, t)
    /\ file' = [file EXCEPT ![g] = t]
    /\ UNCHANGED <<synced, draining>>

\* ReconcileListeners fails: the table is new, the file old, the gateway not ready.
NotReconciled(g, t) ==
    /\ Install(g, t)
    /\ ReconcileStops(g, t)
    /\ synced' = [synced EXCEPT ![g] = FALSE]
    /\ UNCHANGED <<file, draining>>

\* SaveSnapshot fails after the listeners have changed.
NotSaved(g, t) ==
    /\ Install(g, t)
    /\ Reconcile(g, t)
    /\ synced' = [synced EXCEPT ![g] = FALSE]
    /\ UNCHANGED <<file, draining>>

\* Table.UpdateDevice: nothing without an active route.
UpdateDevice(g, d, v) ==
    IF table[g][d] = None THEN table[g] ELSE [table[g] EXCEPT ![d].dev = v]

NotNewer(g, d, rt) == table[g][d] # None /\ rt.version <= table[g][d].version

\* Table.Prepare, after the listeners.
KeepPrepared(g, d, rt) ==
    /\ ~NotNewer(g, d, rt)
    /\ prepared' = [prepared EXCEPT ![g][d] = rt]
    /\ UNCHANGED synced

\* Table.Prepare refuses: the listeners stay prepared, the gateway is not ready.
RefusePrepared(g, d, rt) ==
    /\ NotNewer(g, d, rt)
    /\ synced' = [synced EXCEPT ![g] = FALSE]
    /\ UNCHANGED prepared

WasPrepared(g, d, rt) == prepared[g][d] # None /\ prepared[g][d].version = rt.version

\* Table.Activate: the prepared route, with the ingresses it was prepared with.
ActivatePrepared(g, d) == [table[g] EXCEPT ![d] = prepared[g][d]]

Forget(g, d) == prepared' = [prepared EXCEPT ![g][d] = None]

\* SNAPSHOT: the file is replaced first, then the table is loaded and reconciled.
SnapshotApplied(g, t) ==
    /\ file' = [file EXCEPT ![g] = t]
    /\ Install(g, t)
    /\ prepared' = [prepared EXCEPT ![g] = NoTable]
    /\ Reconcile(g, t)
    /\ synced' = [synced EXCEPT ![g] = TRUE]
    /\ UNCHANGED draining

SnapshotNotReconciled(g, t) ==
    /\ file' = [file EXCEPT ![g] = t]
    /\ Install(g, t)
    /\ prepared' = [prepared EXCEPT ![g] = NoTable]
    /\ ReconcileStops(g, t)
    /\ synced' = [synced EXCEPT ![g] = FALSE]
    /\ UNCHANGED draining

SnapshotNotSaved(g) ==
    /\ synced' = [synced EXCEPT ![g] = FALSE]
    /\ UNCHANGED <<table, prepared, listeners, draining, file>>

\* The process ends (CloseListeners) and is started again: the table comes from
\* the file and is reconciled.
Restart(g) ==
    LET t == IF file[g] = None THEN NoTable ELSE file[g] IN
    /\ Reconcilable(t)
    /\ Install(g, t)
    /\ prepared' = [prepared EXCEPT ![g] = NoTable]
    /\ listeners' = [listeners EXCEPT ![g] = ListenersFor(Desired(t))]
    /\ synced' = [synced EXCEPT ![g] = FALSE]
    /\ draining' = [draining EXCEPT ![g] = FALSE]
    /\ UNCHANGED file

\* run returns the error of ReconcileListeners: with this file it never starts.
CannotStart(g) ==
    /\ file[g] # None /\ ~Reconcilable(file[g])
    /\ Install(g, NoTable)
    /\ prepared' = [prepared EXCEPT ![g] = NoTable]
    /\ listeners' = [listeners EXCEPT ![g] = NoListeners]
    /\ synced' = [synced EXCEPT ![g] = FALSE]
    /\ draining' = [draining EXCEPT ![g] = FALSE]
    /\ UNCHANGED file
===============================================================================
