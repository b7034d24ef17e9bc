--------------------------- MODULE RouteTransactions ---------------------------
(***************************************************************************)
(* StageRoute and ActivateRoute of postgres.go statement by statement, for *)
(* the rows of device_routes of one device.  PostgreSQL runs them at READ  *)
(* COMMITTED: a statement sees the rows committed when it begins, waits    *)
(* for the transaction that has changed a row it wants, and then looks at  *)
(* the row again.  An UPDATE or DELETE is therefore two steps: find the    *)
(* rows, and change those that still match once nobody else holds them.    *)
(*                                                                         *)
(* A request stages its route, takes deployMu when the gateways have       *)
(* prepared it, and activates its version.  When the client goes away      *)
(* during a COMMIT the handler returns and the server may still execute it.*)
(*                                                                         *)
(* The unique index on the active rows is left out: an activation that     *)
(* gets as far as making an active row has superseded every other one and  *)
(* nobody else has made one (RouteTransactionsProofs, IndexIsIdle), so the *)
(* index neither refuses nor delays a statement.                           *)
(***************************************************************************)
EXTENDS Naturals

CONSTANTS RouteRequests,    \* the requests that publish a route
          None,             \* "nothing": no credential, no request
          InitialVersion    \* the version published before, 0 if there was none

ASSUME TransactionAssumption == None \notin RouteRequests /\ InitialVersion \in Nat

VARIABLES rows,         \* the committed rows of device_routes
          deviceLock,   \* the transaction that has the devices row FOR UPDATE
          deployMu,     \* the request that holds Hub.deployMu
          pc,           \* the request's next step
          expected,     \* its expectedVersion
          found,        \* the rows its running statement has found
          taken,        \* the rows its transaction has changed, as they were ...
          made          \* ... and the rows it has made of them, or inserted

txVars == <<rows, deviceLock, deployMu, pc, expected, found, taken, made>>

Rows == [version : Nat, cred : RouteRequests \union {None},
         status : {"pending", "active", "superseded"}]

\* The next step of a request in StageRoute, in ActivateRoute, and of one whose
\* COMMIT is on its way although the handler has returned.
Staging == {"lock", "check", "find_pending", "delete", "insert", "commit_stage"}
Activating == {"find_active", "supersede", "find_staged", "activate", "commit_activate"}
Lost == {"lost_stage", "lost_activate"}
Steps == {"idle", "staged", "done"} \union Staging \union Activating \union Lost

TxInit ==
    /\ rows = IF InitialVersion = 0 THEN {}
              ELSE {[version |-> InitialVersion, cred |-> None, status |-> "active"]}
    /\ deviceLock = None
    /\ deployMu = None
    /\ pc = [r \in RouteRequests |-> "idle"]
    /\ expected = [r \in RouteRequests |-> 0]
    /\ found = [r \in RouteRequests |-> {}]
    /\ taken = [r \in RouteRequests |-> {}]
    /\ made = [r \in RouteRequests |-> {}]

-------------------------------------------------------------------------------
(* The rules of the database *)

As(o, s) == [o EXCEPT !.status = s]

WithStatus(s) == {o \in rows : o.status = s}

\* MAX(version) of the active rows, 0 without one
ActiveIs(e) ==
    IF WithStatus("active") = {} THEN e = 0
    ELSE \E o \in WithStatus("active") : o.version = e

Version(r) == expected[r] + 1

\* Another transaction has changed the row and is not over.
HeldByOther(r, o) == \E q \in RouteRequests \ {r} : o \in taken[q]

\* The rows found that are still there and still match.
StillThere(r) == found[r] \intersect rows

\* A statement begins: the rows that match in its snapshot.
Find(r, S, next) ==
    /\ found' = [found EXCEPT ![r] = S]
    /\ pc' = [pc EXCEPT ![r] = next]
    /\ UNCHANGED <<rows, deviceLock, deployMu, expected, taken, made>>

\* It ends: the rows that still match, now that nobody holds one, become new ones.
Change(r, new, next) ==
    /\ \A o \in found[r] : ~HeldByOther(r, o)
    /\ taken' = [taken EXCEPT ![r] = @ \union StillThere(r)]
    /\ made' = [made EXCEPT ![r] = @ \union new]
    /\ found' = [found EXCEPT ![r] = {}]
    /\ pc' = [pc EXCEPT ![r] = next]
    /\ UNCHANGED <<rows, deviceLock, deployMu, expected>>

EndTransaction(r) ==
    /\ deviceLock' = IF deviceLock = r THEN None ELSE deviceLock
    /\ found' = [found EXCEPT ![r] = {}]
    /\ taken' = [taken EXCEPT ![r] = {}]
    /\ made' = [made EXCEPT ![r] = {}]

\* COMMIT, or the end of the connection before it.
CommitRows(r) == rows' = (rows \ taken[r]) \union made[r] /\ EndTransaction(r)
Rollback(r) == UNCHANGED rows /\ EndTransaction(r)

\* The handler goes on with this step; deployMu is held while it activates.
Goto(r, next) ==
    /\ pc' = [pc EXCEPT ![r] = next]
    /\ deployMu' = IF deployMu = r THEN None ELSE deployMu
    /\ UNCHANGED expected

-------------------------------------------------------------------------------
(* StageRoute *)

\* Mutant: the device is locked when the pending row has been deleted already.
AfterLockedLate ==
    [idle |-> "check", check |-> "find_pending", find_pending |-> "delete",
     delete |-> "lock", lock |-> "insert", insert |-> "commit_stage"]

\* The order of its statements.
After ==
    [idle |-> "lock", lock |-> "check", check |-> "find_pending",
     find_pending |-> "delete", delete |-> "insert", insert |-> "commit_stage"]

\* deployRoute calls StageRoute.
BeginStage(r, e) ==
    /\ pc[r] = "idle"
    /\ expected' = [expected EXCEPT ![r] = e]
    /\ pc' = [pc EXCEPT ![r] = After.idle]
    /\ UNCHANGED <<rows, deviceLock, deployMu, found, taken, made>>

\* SELECT id FROM devices ... FOR UPDATE
LockDevice(r) ==
    /\ pc[r] = "lock"
    /\ deviceLock = None
    /\ deviceLock' = r
    /\ pc' = [pc EXCEPT ![r] = After.lock]
    /\ UNCHANGED <<rows, deployMu, expected, found, taken, made>>

\* SELECT MAX(version) ... 'active', compared with the expected version
CheckVersion(r) ==
    /\ pc[r] = "check"
    /\ IF ActiveIs(expected[r])
       THEN Find(r, {}, After.check)
       ELSE Rollback(r) /\ Goto(r, "done")

\* DELETE ... 'pending'
FindPending(r) == pc[r] = "find_pending" /\ Find(r, WithStatus("pending"), After.find_pending)
DeletePending(r) == pc[r] = "delete" /\ Change(r, {}, After.delete)

\* Mutant: there is no primary key.
NoDuplicate(r) == FALSE

\* A row of the primary key that the transaction has not deleted itself.
DuplicateKey(r) == \E o \in rows \ taken[r] : o.version = Version(r)

KeyHeld(r) == \E o \in rows : o.version = Version(r) /\ HeldByOther(r, o)

\* INSERT ... 'pending': at a duplicate key the transaction fails (a 500).
InsertRoute(r) ==
    /\ pc[r] = "insert"
    /\ ~KeyHeld(r)
    /\ IF DuplicateKey(r) THEN Rollback(r) /\ Goto(r, "done")
       ELSE Change(r, {[version |-> Version(r), cred |-> r, status |-> "pending"]},
                   After.insert)

CommitStage(r) == pc[r] = "commit_stage" /\ CommitRows(r) /\ Goto(r, "staged")

-------------------------------------------------------------------------------
(* DeployRoute and ActivateRoute *)

\* The gateways have prepared the route, under deployMu; commit() is called.
BeginActivate(r) ==
    /\ pc[r] = "staged"
    /\ deployMu = None
    /\ deployMu' = r
    /\ pc' = [pc EXCEPT ![r] = "find_active"]
    /\ UNCHANGED <<rows, deviceLock, expected, found, taken, made>>

\* Not all of them have: the pending row stays, for the next stage to replace.
NotPrepared(r) ==
    /\ pc[r] = "staged"
    /\ Goto(r, "done")
    /\ UNCHANGED <<rows, deviceLock, found, taken, made>>

\* UPDATE ... 'active' -> 'superseded'
FindActive(r) == pc[r] = "find_active" /\ Find(r, WithStatus("active"), "supersede")
SupersedeActive(r) ==
    /\ pc[r] = "supersede"
    /\ Change(r, {As(o, "superseded") : o \in StillThere(r)}, "find_staged")

\* UPDATE ... 'pending' of this version -> 'active'; ErrConflict if there is none
FindStaged(r) ==
    /\ pc[r] = "find_staged"
    /\ Find(r, {o \in WithStatus("pending") : o.version = Version(r)}, "activate")
ActivateStaged(r) ==
    /\ pc[r] = "activate"
    /\ \A o \in found[r] : ~HeldByOther(r, o)
    /\ IF StillThere(r) = {} THEN Rollback(r) /\ Goto(r, "done")
       ELSE Change(r, {As(o, "active") : o \in StillThere(r)},
                   "commit_activate")

CommitActivate(r) == pc[r] = "commit_activate" /\ CommitRows(r) /\ Goto(r, "done")

-------------------------------------------------------------------------------
(* Failures *)

\* A statement fails or the client's context ends: rollback.
Abort(r) ==
    /\ pc[r] \in Staging \union Activating
    /\ Rollback(r)
    /\ Goto(r, "done")

\* The context ends while COMMIT is under way: the handler returns and releases
\* deployMu, the transaction is the server's.
LoseCommit(r) ==
    /\ \/ pc[r] = "commit_stage" /\ Goto(r, "lost_stage")
       \/ pc[r] = "commit_activate" /\ Goto(r, "lost_activate")
    /\ UNCHANGED <<rows, deviceLock, found, taken, made>>

EndLost(r) ==
    /\ pc[r] \in Lost
    /\ CommitRows(r) \/ Rollback(r)
    /\ Goto(r, "done")

-------------------------------------------------------------------------------
TxStep(r) ==
    \/ LockDevice(r) \/ CheckVersion(r) \/ FindPending(r) \/ DeletePending(r)
    \/ InsertRoute(r) \/ CommitStage(r) \/ BeginActivate(r) \/ NotPrepared(r)
    \/ FindActive(r) \/ SupersedeActive(r) \/ FindStaged(r) \/ ActivateStaged(r)
    \/ CommitActivate(r) \/ Abort(r) \/ LoseCommit(r) \/ EndLost(r)

TxNext == \E r \in RouteRequests : TxStep(r) \/ \E e \in Nat : BeginStage(r, e)

TxSpec == TxInit /\ [][TxNext]_txVars

-------------------------------------------------------------------------------
(* Properties *)

\* The row of a set of at most one, as RouteStore has it.
TheRow(S) ==
    IF S = {} THEN [version |-> 0, cred |-> None]
    ELSE LET o == CHOOSE o \in S : TRUE IN [version |-> o.version, cred |-> o.cred]

Store == INSTANCE RouteStore WITH committed <- TheRow(WithStatus("active")),
                                  staged <- TheRow(WithStatus("pending"))

\* The transactions implement the one-step store of the publication protocol:
\* whatever they interleave, fail half-way or commit after the handler has gone,
\* each commit is a compare-and-set stage or the activation of the staged row
\* (postgres.go StageRoute, ActivateRoute, which does not lock the device).
ImplementsRouteStore == Store!StoreSpec

WaitsFor(r, q) ==
    \/ pc[r] = "lock" /\ deviceLock = q
    \/ pc[r] \in {"delete", "supersede", "activate"} /\ \E o \in found[r] : o \in taken[q]
    \/ pc[r] = "insert" /\ \E o \in taken[q] : o.version = Version(r)

\* Row locks never close a cycle: of any set of transactions one waits for none
\* of the others, so PostgreSQL never has to abort one as deadlocked
\* (StageRoute locks the device first, ActivateRoute the active row).
NoLockCycle ==
    \A T \in SUBSET RouteRequests : T # {} =>
        \E r \in T : \A q \in T \ {r} : ~WaitsFor(r, q)
===============================================================================
