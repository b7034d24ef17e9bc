------------------------------ MODULE RouteStore ------------------------------
(***************************************************************************)
(* The rows of device_routes for one device, as internal/store keeps them: *)
(* at most one 'active' row and at most one 'pending' row.  A transaction  *)
(* is one step (postgres.go runs each of them in one transaction, memory.go *)
(* under one mutex).  A route is its version and its credential; every     *)
(* PUT .../route draws a fresh credential id (api.go: randomToken), so a   *)
(* credential is named by the request that brought it.                     *)
(***************************************************************************)
EXTENDS Naturals

CONSTANTS RouteRequests,    \* the PUT .../route requests
          None,             \* "nothing": no credential, no request, no session
          InitialVersion    \* the version published before, 0 if there was none

ASSUME StoreAssumption == None \notin RouteRequests /\ InitialVersion \in Nat

VARIABLES committed,        \* the 'active' row (version 0: there is none)
          staged            \* the 'pending' row (version 0: there is none)

storeVars == <<committed, staged>>

Routes == [version : Nat, cred : RouteRequests \union {None}]

ASSUME NoneAssumption == None \notin Routes

NoRoute == [version |-> 0, cred |-> None]

StoreInit ==
    /\ committed = [version |-> InitialVersion, cred |-> None]
    /\ staged = NoRoute

\* What putRoute and putRouteFromProvider build.
NewRoute(r, expected) == [version |-> expected + 1, cred |-> r]

\* Mutant: the expected version is not compared.
StageRouteUnchecked(r, expected) ==
    /\ staged' = NewRoute(r, expected)
    /\ UNCHANGED committed

\* The compare-and-set on the active version; the new pending row replaces the
\* previous one, whoever staged it.
StageRoute(r, expected) ==
    /\ committed.version = expected
    /\ staged' = NewRoute(r, expected)
    /\ UNCHANGED committed

StageConflicts(expected) == committed.version # expected

\* Supersede the active row, activate the pending row of this version.
ActivateRoute(v) ==
    /\ staged # NoRoute
    /\ staged.version = v
    /\ committed' = staged
    /\ staged' = NoRoute

\* No pending row of this version: ErrConflict, the transaction rolls back.
ActivateConflicts(v) == staged = NoRoute \/ staged.version # v

ListActiveRoutes == committed

\* What the store promises: a stage when the version is the expected one, or the
\* activation of what is staged, each in one step.
StoreNext ==
    \/ \E r \in RouteRequests : StageRoute(r, committed.version)
    \/ ActivateRoute(staged.version)

StoreSpec == StoreInit /\ [][StoreNext]_storeVars
===============================================================================
