------------------------------ MODULE GatewayNode ------------------------------
(***************************************************************************)
(* The control side of the gateways' processes: the routing table, the     *)
(* readiness flags and the snapshot file that survives a restart, with one *)
(* operator per frame handler of control_client.go.  The table is followed *)
(* for one device.  The listeners are not part of this module: an error of *)
(* PrepareListener, ReconcileListeners or SaveSnapshot is an outcome of    *)
(* the handler that calls it.                                              *)
(***************************************************************************)
EXTENDS RouteStore

CONSTANTS Gateways,
          RequireCanary     \* the process's REQUIRE_CANARY setting

ASSUME CanaryAssumption == RequireCanary \in BOOLEAN

VARIABLES active,           \* Table.active (version 0: no route)
          pending,          \* Table.pending (version 0: none)
          loaded,           \* Table.loaded
          synced,           \* Gateway.controlSynced
          draining,         \* Gateway.draining
          canary,           \* Gateway.canaryOK
          file,             \* the snapshot file, None when it does not exist
          applying,         \* the request whose ACTIVATE has changed the table
                            \* and is not yet saved and acknowledged, or None
          served            \* history: the highest version the gateway has
                            \* ever held while it was ready

gatewayVars == <<active, pending, loaded, synced, draining, canary, file,
                 applying, served>>

GatewayInit ==
    /\ active = [g \in Gateways |-> NoRoute]
    /\ pending = [g \in Gateways |-> NoRoute]
    /\ loaded = [g \in Gateways |-> FALSE]
    /\ synced = [g \in Gateways |-> FALSE]
    /\ draining = [g \in Gateways |-> FALSE]
    /\ canary = [g \in Gateways |-> ~RequireCanary]
    /\ file = [g \in Gateways |-> None]
    /\ applying = [g \in Gateways |-> None]
    /\ served = [g \in Gateways |-> 0]

GatewayTypeOK ==
    /\ active \in [Gateways -> Routes]
    /\ pending \in [Gateways -> Routes]
    /\ loaded \in [Gateways -> BOOLEAN]
    /\ synced \in [Gateways -> BOOLEAN]
    /\ draining \in [Gateways -> BOOLEAN]
    /\ canary \in [Gateways -> BOOLEAN]
    /\ file \in [Gateways -> Routes \union {None}]
    /\ applying \in [Gateways -> RouteRequests \union {None}]
    /\ served \in [Gateways -> Nat]

Ready(g) == loaded[g] /\ synced[g] /\ ~draining[g] /\ canary[g]

\* Every step that may change what g serves records it.
RecordServed(g) ==
    served' = [served EXCEPT ![g] =
        IF Ready(g)' /\ active'[g].version > @ THEN active'[g].version ELSE @]

-------------------------------------------------------------------------------
(* SNAPSHOT: save the file, load the table, reconcile the listeners, synced. *)

LoadTable(g, rt) ==
    /\ file' = [file EXCEPT ![g] = rt]
    /\ active' = [active EXCEPT ![g] = rt]
    /\ pending' = [pending EXCEPT ![g] = NoRoute]
    /\ loaded' = [loaded EXCEPT ![g] = TRUE]

HandleSnapshot(g, rt) ==
    /\ LoadTable(g, rt)
    /\ synced' = [synced EXCEPT ![g] = TRUE]
    /\ UNCHANGED <<draining, canary, applying>>
    /\ RecordServed(g)

\* ReconcileListeners fails: the table has been loaded by then, and a gateway that was
\* synchronised has served it until controlSynced is cleared.
SnapshotNotReconciled(g, rt) ==
    /\ LoadTable(g, rt)
    /\ served' = [served EXCEPT ![g] =
          IF synced[g] /\ ~draining[g] /\ canary[g] /\ rt.version > @ THEN rt.version ELSE @]
    /\ synced' = [synced EXCEPT ![g] = FALSE]
    /\ UNCHANGED <<draining, canary, applying>>

SetUnsynced(g) ==
    /\ synced' = [synced EXCEPT ![g] = FALSE]
    /\ UNCHANGED <<active, pending, loaded, draining, canary, file, applying,
                   served>>

-------------------------------------------------------------------------------
(* PREPARE and ACTIVATE of a route. *)

NotNewer(g, rt) == rt.version <= active[g].version

\* Table.Prepare: remember the route next to the active one.
HandlePrepare(g, rt) ==
    /\ ~NotNewer(g, rt)
    /\ pending' = [pending EXCEPT ![g] = rt]
    /\ UNCHANGED <<active, loaded, synced, draining, canary, file, applying,
                   served>>

\* PrepareListener fails, before the table is touched.
ListenerNotPrepared(g) == UNCHANGED gatewayVars

\* Table.Prepare refuses the route: the handler also clears controlSynced.
PrepareRefused(g, rt) == NotNewer(g, rt) /\ SetUnsynced(g)

WasPrepared(g, rt) == pending[g] # NoRoute /\ pending[g].version = rt.version

\* Table.Activate: from here on new connections use the route; the handler goes
\* on to reconcile and save (FinishActivate).
StartActivate(g, rt, r) ==
    /\ WasPrepared(g, rt)
    /\ active' = [active EXCEPT ![g] = pending[g]]
    /\ pending' = [pending EXCEPT ![g] = NoRoute]
    /\ applying' = [applying EXCEPT ![g] = r]
    /\ UNCHANGED <<loaded, synced, draining, canary, file>>
    /\ RecordServed(g)

\* Mutant: acknowledged without SaveSnapshot.
FinishActivateUnsaved(g) ==
    /\ applying' = [applying EXCEPT ![g] = None]
    /\ UNCHANGED <<active, pending, loaded, synced, draining, canary, file, served>>

\* The listeners are reconciled and the snapshot file is replaced.
FinishActivate(g) ==
    /\ file' = [file EXCEPT ![g] = active[g]]
    /\ applying' = [applying EXCEPT ![g] = None]
    /\ UNCHANGED <<active, pending, loaded, synced, draining, canary, served>>

\* ReconcileListeners or SaveSnapshot fails: the table keeps the new route.
ActivateNotSaved(g) ==
    /\ synced' = [synced EXCEPT ![g] = FALSE]
    /\ applying' = [applying EXCEPT ![g] = None]
    /\ UNCHANGED <<active, pending, loaded, draining, canary, file, served>>

-------------------------------------------------------------------------------
(* Readiness: draining (frame, local POST /drain and /undrain) and canary. *)

SetDraining(g, v) ==
    /\ draining' = [draining EXCEPT ![g] = v]
    /\ UNCHANGED <<active, pending, loaded, synced, canary, file, applying>>
    /\ RecordServed(g)

\* canaryLoop: a dial through the active route decides; without a route it fails.
SetCanary(g, ok) ==
    /\ RequireCanary
    /\ canary[g] # ok
    /\ ok => active[g] # NoRoute
    /\ canary' = [canary EXCEPT ![g] = ok]
    /\ UNCHANGED <<active, pending, loaded, synced, draining, file, applying>>
    /\ RecordServed(g)

\* Mutant: a restarted process counts as synchronised.
StartFlagsSynced(g) ==
    /\ draining' = [draining EXCEPT ![g] = FALSE]
    /\ canary' = [canary EXCEPT ![g] = ~RequireCanary]
    /\ UNCHANGED synced

\* The readiness flags of a new process.
StartFlags(g) ==
    /\ synced' = [synced EXCEPT ![g] = FALSE]
    /\ draining' = [draining EXCEPT ![g] = FALSE]
    /\ canary' = [canary EXCEPT ![g] = ~RequireCanary]

LoadSnapshot(g) == IF file[g] = None THEN NoRoute ELSE file[g]

\* The process dies and is started again: the table comes from the file.
Restart(g) ==
    /\ active' = [active EXCEPT ![g] = LoadSnapshot(g)]
    /\ pending' = [pending EXCEPT ![g] = NoRoute]
    /\ loaded' = [loaded EXCEPT ![g] = file[g] # None]
    /\ StartFlags(g)
    /\ applying' = [applying EXCEPT ![g] = None]
    /\ UNCHANGED <<file, served>>
===============================================================================
