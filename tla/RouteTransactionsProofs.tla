------------------------ MODULE RouteTransactionsProofs ------------------------
(***************************************************************************)
(* For every number of requests, every interleaving of their statements    *)
(* and every failure: the transactions of postgres.go implement RouteStore *)
(* and never wait for each other in a circle.                              *)
(*                                                                         *)
(* The argument: a pending row always carries the version after the active *)
(* one.  A stage that has checked the active version either still finds    *)
(* it, or somebody has activated in between, and then the row of its own   *)
(* version exists and the primary key refuses the insert.  Once a stage    *)
(* has deleted the pending row no activation can have it.                  *)
(***************************************************************************)
EXTENDS RouteTransactions, TLAPS

\* Steps of a request that has the devices row.
HasDevice == {"check", "find_pending", "delete", "insert", "commit_stage", "lost_stage"}
\* ... that has deleted the pending row.
HasPending == {"insert", "commit_stage", "lost_stage"}
StageReady == {"commit_stage", "lost_stage"}
\* ... that has superseded the active row, and that has activated the pending one.
HasActive == {"find_staged", "activate"}
ActivateReady == {"commit_activate", "lost_activate"}
\* ... that has compared the expected version.
Checked == (HasDevice \ {"check"}) \union {"staged"} \union Activating \union {"lost_activate"}

TxTypeOK ==
    /\ rows \in SUBSET Rows
    /\ deviceLock \in RouteRequests \union {None}
    /\ deployMu \in RouteRequests \union {None}
    /\ pc \in [RouteRequests -> Steps]
    /\ expected \in [RouteRequests -> Nat]
    /\ found \in [RouteRequests -> SUBSET Rows]
    /\ taken \in [RouteRequests -> SUBSET Rows]
    /\ made \in [RouteRequests -> SUBSET Rows]

OneOfEach == \A o, p \in rows : o.version = p.version => o = p
Positive == \A o \in rows : o.version > 0
OneActive == \A o, p \in WithStatus("active") : o = p
OnePending == \A o, p \in WithStatus("pending") : o = p
PendingIsNext == \A o \in WithStatus("pending") : ActiveIs(o.version - 1)

RowsInv == OneOfEach /\ Positive /\ OneActive /\ OnePending /\ PendingIsNext

\* Somebody has published the version the request wants.
Published(r) == \E o \in rows : o.version = Version(r) /\ o.status # "pending"

NewRow(r) == [version |-> Version(r), cred |-> r, status |-> "pending"]
Superseded(S) == {As(o, "superseded") : o \in S}

LockInv ==
    /\ \A r, q \in RouteRequests : r # q => taken[r] \intersect taken[q] = {}
    /\ \A r \in RouteRequests : taken[r] \subseteq rows
    /\ \A r \in RouteRequests : pc[r] \in HasDevice <=> deviceLock = r

CheckedInv(r) == pc[r] \in Checked => ActiveIs(expected[r]) \/ Published(r)

StageInv(r) ==
    /\ pc[r] \in HasDevice \ {"check"} =>
          \A o \in WithStatus("pending") : o.version = Version(r)
    /\ pc[r] = "delete" =>
          /\ WithStatus("pending") \subseteq found[r]
          /\ \A o \in found[r] : o.status = "pending"
    /\ pc[r] \in HasPending => WithStatus("pending") = taken[r]
    /\ pc[r] = "insert" => found[r] = {} /\ made[r] = {}
    /\ pc[r] \in StageReady =>
          /\ ActiveIs(expected[r])
          /\ made[r] = {NewRow(r)}
          /\ \A o \in rows \ taken[r] : o.version # Version(r)

ActivateInv(r) ==
    /\ pc[r] = "supersede" =>
          /\ \A o \in found[r] : o.status = "active"
          /\ WithStatus("active") \subseteq found[r] \/ Published(r)
    /\ pc[r] \in HasActive =>
          /\ \A o \in taken[r] : o.status = "active"
          /\ made[r] = Superseded(taken[r])
          /\ WithStatus("active") \subseteq taken[r] \/ Published(r)
    /\ pc[r] = "activate" =>
          \A o \in found[r] : o.status = "pending" /\ o.version = Version(r)
    /\ pc[r] \in ActivateReady =>
          \E p \in WithStatus("pending") :
             /\ p.version = Version(r)
             /\ taken[r] = WithStatus("active") \union {p}
             /\ made[r] = Superseded(WithStatus("active"))
                          \union {As(p, "active")}

NothingHeld(r) ==
    pc[r] \notin HasPending \union HasActive \union ActivateReady =>
        taken[r] = {} /\ made[r] = {}

RequestInv(r) == CheckedInv(r) /\ StageInv(r) /\ ActivateInv(r) /\ NothingHeld(r)

TxInv == TxTypeOK /\ RowsInv /\ LockInv /\ \A r \in RouteRequests : RequestInv(r)

-------------------------------------------------------------------------------
(* Steps that leave the rows alone *)

USE DEF Steps, Staging, Activating, Lost

LEMMA AsFacts ==
    ASSUME NEW o \in Rows, NEW s \in {"pending", "active", "superseded"}
    PROVE  /\ As(o, s) \in Rows
           /\ As(o, s).version = o.version /\ As(o, s).cred = o.cred /\ As(o, s).status = s
BY DEF As, Rows

\* A request that does not move keeps its invariant while the rows stay.
LEMMA Frame ==
    ASSUME TxInv, NEW q \in RouteRequests, rows' = rows,
           pc'[q] = pc[q], expected'[q] = expected[q], found'[q] = found[q],
           taken'[q] = taken[q], made'[q] = made[q]
    PROVE  RequestInv(q)'
BY DEF TxInv, RequestInv, CheckedInv, StageInv, ActivateInv, NothingHeld, WithStatus,
       ActiveIs, Published, Version, NewRow

LEMMA RowsFrame == ASSUME TxInv, rows' = rows PROVE RowsInv'
BY DEF TxInv, RowsInv, OneOfEach, Positive, OneActive, OnePending, PendingIsNext, WithStatus,
       ActiveIs

\* It is enough to look at the request that moves.
LEMMA Mover ==
    ASSUME TxInv, NEW r \in RouteRequests, TxTypeOK', rows' = rows, LockInv', RequestInv(r)',
           \A q \in RouteRequests \ {r} :
              /\ pc'[q] = pc[q] /\ expected'[q] = expected[q] /\ found'[q] = found[q]
              /\ taken'[q] = taken[q] /\ made'[q] = made[q]
    PROVE  TxInv'
BY Frame, RowsFrame DEF TxInv

LEMMA BeginStageInv ==
    ASSUME TxInv, NEW r \in RouteRequests, NEW e \in Nat, BeginStage(r, e)
    PROVE  TxInv'
<1> USE DEF TxInv, TxTypeOK, BeginStage, After
<1>1. TxTypeOK'
  OBVIOUS
<1>2. LockInv'
  BY TransactionAssumption DEF LockInv, HasDevice
<1>3. RequestInv(r)'
  BY DEF RequestInv, CheckedInv, StageInv, ActivateInv, NothingHeld, Checked, HasDevice,
         HasPending, StageReady, HasActive, ActivateReady
<1> QED
  BY <1>1, <1>2, <1>3, Mover

LEMMA LockDeviceInv ==
    ASSUME TxInv, NEW r \in RouteRequests, LockDevice(r)
    PROVE  TxInv'
<1> USE DEF TxInv, TxTypeOK, LockDevice, After
<1>1. TxTypeOK'
  OBVIOUS
<1>2. LockInv'
  BY TransactionAssumption DEF LockInv, HasDevice
<1>3. RequestInv(r)'
  BY DEF RequestInv, CheckedInv, StageInv, ActivateInv, NothingHeld, Checked, HasDevice,
         HasPending, StageReady, HasActive, ActivateReady
<1> QED
  BY <1>1, <1>2, <1>3, Mover

\* A transaction that ends without a commit leaves nothing behind.
LEMMA RollbackInv ==
    ASSUME TxInv, NEW r \in RouteRequests, pc[r] # "idle", Rollback(r), Goto(r, "done")
    PROVE  TxInv'
<1> USE DEF TxInv, TxTypeOK, Rollback, EndTransaction, Goto
<1>1. TxTypeOK'
  OBVIOUS
<1>2. LockInv'
  BY TransactionAssumption DEF LockInv, HasDevice
<1>3. RequestInv(r)'
  BY DEF RequestInv, CheckedInv, StageInv, ActivateInv, NothingHeld, Checked, HasDevice,
         HasPending, StageReady, HasActive, ActivateReady
<1> QED
  BY <1>1, <1>2, <1>3, Mover

LEMMA CheckVersionInv ==
    ASSUME TxInv, NEW r \in RouteRequests, CheckVersion(r)
    PROVE  TxInv'
<1>1. CASE ActiveIs(expected[r])
  <2> USE <1>1 DEF TxInv, TxTypeOK, CheckVersion, Find, After
  <2>1. TxTypeOK'
    OBVIOUS
  <2>2. LockInv'
    BY DEF LockInv, HasDevice
  <2>3. \A o \in WithStatus("pending") : o.version = expected[r] + 1
    BY DEF RowsInv, PendingIsNext, Positive, OneActive, ActiveIs, WithStatus, Rows
  <2>4. RequestInv(r)'
    BY <2>3 DEF RequestInv, CheckedInv, StageInv, ActivateInv, NothingHeld, Checked, HasDevice,
           HasPending, StageReady, HasActive, ActivateReady, ActiveIs, WithStatus, Version
  <2> QED
    BY <2>1, <2>2, <2>4, Mover
<1>2. CASE ~ActiveIs(expected[r])
  BY <1>2, RollbackInv DEF CheckVersion
<1> QED
  BY <1>1, <1>2

LEMMA FindPendingInv ==
    ASSUME TxInv, NEW r \in RouteRequests, FindPending(r)
    PROVE  TxInv'
<1> USE DEF TxInv, TxTypeOK, FindPending, Find, After
<1>1. TxTypeOK'
  BY DEF WithStatus
<1>2. LockInv'
  BY DEF LockInv, HasDevice
<1>3. RequestInv(r)'
  BY DEF RequestInv, CheckedInv, StageInv, ActivateInv, NothingHeld, Checked, HasDevice,
         HasPending, StageReady, HasActive, ActivateReady, ActiveIs, WithStatus, Version, Published
<1> QED
  BY <1>1, <1>2, <1>3, Mover

LEMMA DeletePendingInv ==
    ASSUME TxInv, NEW r \in RouteRequests, DeletePending(r)
    PROVE  TxInv'
<1> USE DEF TxInv, TxTypeOK, DeletePending, Change, After
<1>1. TxTypeOK'
  BY DEF StillThere
<1>2. StillThere(r) = WithStatus("pending")
  BY DEF StillThere, WithStatus, RequestInv, StageInv
<1>3. taken[r] = {} /\ made[r] = {}
  BY DEF RequestInv, NothingHeld, HasPending, HasActive, ActivateReady
<1>4. LockInv'
  BY <1>2, <1>3 DEF LockInv, HasDevice, HeldByOther, StillThere
<1>5. taken'[r] = WithStatus("pending") /\ made'[r] = {} /\ found'[r] = {} /\ pc'[r] = "insert"
  BY <1>2, <1>3
<1>6. RequestInv(r)'
  BY <1>5 DEF RequestInv, CheckedInv, StageInv, ActivateInv, NothingHeld, Checked, HasDevice,
         HasPending, StageReady, HasActive, ActivateReady, ActiveIs, WithStatus, Version, Published
<1> QED
  BY <1>1, <1>4, <1>6, Mover

LEMMA InsertRouteInv ==
    ASSUME TxInv, NEW r \in RouteRequests, InsertRoute(r)
    PROVE  TxInv'
<1>1. CASE DuplicateKey(r)
  BY <1>1, RollbackInv DEF InsertRoute
<1>2. CASE ~DuplicateKey(r)
  <2> USE <1>2 DEF TxInv, TxTypeOK, InsertRoute, Change, After
  <2>1. StillThere(r) = {} /\ made[r] = {} /\ taken[r] = WithStatus("pending")
    BY DEF StillThere, RequestInv, StageInv, HasPending
  <2>2. /\ taken' = taken /\ found'[r] = {} /\ made'[r] = {NewRow(r)}
        /\ pc'[r] = "commit_stage"
    <3>1. Change(r, {NewRow(r)}, "commit_stage")
      BY DEF NewRow
    <3>2. taken' = [taken EXCEPT ![r] = taken[r] \union {}]
      BY <2>1, <3>1
    <3>3. taken' = taken
      BY <3>2
    <3> QED
      BY <2>1, <3>1, <3>3
  <2>3. TxTypeOK'
    BY <2>2 DEF Version, Rows
  <2>4. LockInv'
    BY <2>2 DEF LockInv, HasDevice
  <2>5. ActiveIs(expected[r])
    BY <2>1 DEF RequestInv, CheckedInv, Checked, HasDevice, Published, DuplicateKey, WithStatus
  <2>6. \A o \in rows \ taken[r] : o.version # Version(r)
    BY DEF DuplicateKey
  <2>7. NewRow(r)' = NewRow(r) /\ ActiveIs(expected[r])' /\ Version(r)' = Version(r)
        /\ WithStatus("pending")' = WithStatus("pending")
    BY <2>5 DEF NewRow, Version, ActiveIs, WithStatus
  <2>8. RequestInv(r)'
    BY <2>1, <2>2, <2>5, <2>6, <2>7
    DEF RequestInv, CheckedInv, StageInv, ActivateInv, NothingHeld, Checked, HasDevice,
         HasPending, StageReady, HasActive, ActivateReady
  <2> QED
    BY <2>2, <2>3, <2>4, <2>8, Mover
<1> QED
  BY <1>1, <1>2

LEMMA BeginActivateInv ==
    ASSUME TxInv, NEW r \in RouteRequests, BeginActivate(r)
    PROVE  TxInv'
<1> USE DEF TxInv, TxTypeOK, BeginActivate
<1>1. TxTypeOK'
  OBVIOUS
<1>2. LockInv'
  BY DEF LockInv, HasDevice
<1>3. RequestInv(r)'
  BY DEF RequestInv, CheckedInv, StageInv, ActivateInv, NothingHeld, Checked, HasDevice,
         HasPending, StageReady, HasActive, ActivateReady,
         ActiveIs, WithStatus, Version, Published
<1> QED
  BY <1>1, <1>2, <1>3, Mover

LEMMA NotPreparedInv ==
    ASSUME TxInv, NEW r \in RouteRequests, NotPrepared(r)
    PROVE  TxInv'
<1> USE DEF TxInv, TxTypeOK, NotPrepared, Goto
<1>1. TxTypeOK'
  OBVIOUS
<1>2. LockInv'
  BY DEF LockInv, HasDevice
<1>3. RequestInv(r)'
  BY DEF RequestInv, CheckedInv, StageInv, ActivateInv, NothingHeld, Checked, HasDevice,
         HasPending, StageReady, HasActive, ActivateReady
<1> QED
  BY <1>1, <1>2, <1>3, Mover

LEMMA FindActiveInv ==
    ASSUME TxInv, NEW r \in RouteRequests, FindActive(r)
    PROVE  TxInv'
<1> USE DEF TxInv, TxTypeOK, FindActive, Find
<1>1. TxTypeOK'
  BY DEF WithStatus
<1>2. LockInv'
  BY DEF LockInv, HasDevice
<1>3. RequestInv(r)'
  BY DEF RequestInv, CheckedInv, StageInv, ActivateInv, NothingHeld, Checked, HasDevice,
         HasPending, StageReady, HasActive, ActivateReady,
         ActiveIs, WithStatus, Version, Published
<1> QED
  BY <1>1, <1>2, <1>3, Mover

LEMMA SupersedeActiveInv ==
    ASSUME TxInv, NEW r \in RouteRequests, SupersedeActive(r)
    PROVE  TxInv'
<1> USE DEF TxInv, TxTypeOK, SupersedeActive, Change
<1>1. taken[r] = {} /\ made[r] = {}
  BY DEF RequestInv, NothingHeld, HasPending, HasActive, ActivateReady
<1>2. /\ taken'[r] = StillThere(r) /\ made'[r] = Superseded(StillThere(r))
      /\ found'[r] = {} /\ pc'[r] = "find_staged"
  BY <1>1 DEF Superseded
<1>3. StillThere(r) \subseteq rows
  BY DEF StillThere
<1>4. Superseded(StillThere(r)) \subseteq Rows
  BY <1>3, AsFacts DEF Superseded
<1>5. TxTypeOK'
  BY <1>2, <1>3, <1>4 DEF Superseded
<1>6. LockInv'
  BY <1>2, <1>3 DEF LockInv, HasDevice, HeldByOther, StillThere
<1>7. \A o \in StillThere(r) : o.status = "active"
  BY DEF StillThere, RequestInv, ActivateInv
<1>8. WithStatus("active") \subseteq StillThere(r) \/ Published(r)
  BY DEF StillThere, RequestInv, ActivateInv, WithStatus
<1>9. /\ Published(r)' = Published(r) /\ WithStatus("active")' = WithStatus("active")
      /\ ActiveIs(expected[r])' = ActiveIs(expected[r])
  BY DEF Published, WithStatus, Version, ActiveIs
<1>10. RequestInv(r)'
  BY <1>2, <1>7, <1>8, <1>9
  DEF RequestInv, CheckedInv, StageInv, ActivateInv, NothingHeld, Checked, HasDevice,
         HasPending, StageReady, HasActive, ActivateReady
<1> QED
  BY <1>5, <1>6, <1>10, Mover

LEMMA FindStagedInv ==
    ASSUME TxInv, NEW r \in RouteRequests, FindStaged(r)
    PROVE  TxInv'
<1> USE DEF TxInv, TxTypeOK, FindStaged, Find
<1>1. TxTypeOK'
  BY DEF WithStatus
<1>2. LockInv'
  BY DEF LockInv, HasDevice
<1>3. RequestInv(r)'
  BY DEF RequestInv, CheckedInv, StageInv, ActivateInv, NothingHeld, Checked, HasDevice,
         HasPending, StageReady, HasActive, ActivateReady,
         ActiveIs, WithStatus, Version, Published
<1> QED
  BY <1>1, <1>2, <1>3, Mover

LEMMA ActivateStagedInv ==
    ASSUME TxInv, NEW r \in RouteRequests, ActivateStaged(r)
    PROVE  TxInv'
<1>1. CASE StillThere(r) = {}
  BY <1>1, RollbackInv DEF ActivateStaged
<1>2. CASE StillThere(r) # {}
  <2> USE <1>2 DEF TxInv, TxTypeOK, ActivateStaged, Change
  <2>1. PICK p \in StillThere(r) : TRUE
    OBVIOUS
  <2>2. p \in WithStatus("pending") /\ p.version = Version(r)
    BY DEF StillThere, RequestInv, ActivateInv, WithStatus
  <2>3. StillThere(r) = {p}
    BY <2>1, <2>2 DEF StillThere, RequestInv, ActivateInv, WithStatus, RowsInv, OnePending
  <2>4. ~Published(r)
    BY <2>2 DEF Published, RowsInv, OneOfEach, WithStatus
  <2>5. taken[r] = WithStatus("active") /\ made[r] = Superseded(WithStatus("active"))
    <3>1. taken[r] \subseteq rows /\ pc[r] \in HasActive
      BY DEF LockInv, HasActive
    <3>2. ActivateInv(r)
      BY DEF RequestInv
    <3>3. /\ \A o \in taken[r] : o.status = "active"
          /\ made[r] = Superseded(taken[r])
          /\ WithStatus("active") \subseteq taken[r]
      BY <2>4, <3>1, <3>2 DEF ActivateInv
    <3>4. taken[r] = WithStatus("active")
      BY <3>1, <3>3 DEF WithStatus
    <3> QED
      BY <3>3, <3>4
  <2>6. /\ taken'[r] = WithStatus("active") \union {p}
        /\ made'[r] = Superseded(WithStatus("active")) \union {As(p, "active")}
        /\ found'[r] = {} /\ pc'[r] = "commit_activate"
    BY <2>3, <2>5
  <2>7. TxTypeOK'
    BY <2>2, <2>6, AsFacts DEF WithStatus
  <2>8. LockInv'
    BY <2>2, <2>3, <2>6 DEF LockInv, HasDevice, HeldByOther, StillThere, WithStatus
  <2>9. /\ WithStatus("active")' = WithStatus("active")
        /\ WithStatus("pending")' = WithStatus("pending")
        /\ ActiveIs(expected[r])' = ActiveIs(expected[r]) /\ Published(r)' = Published(r)
        /\ Version(r)' = Version(r)
    BY DEF Published, WithStatus, Version, ActiveIs
  <2>10. RequestInv(r)'
    BY <2>2, <2>6, <2>9
    DEF RequestInv, CheckedInv, StageInv, ActivateInv, NothingHeld, Checked, HasDevice,
         HasPending, StageReady, HasActive, ActivateReady
  <2> QED
    BY <2>7, <2>8, <2>10, Mover
<1> QED
  BY <1>1, <1>2

\* When an activation makes its active row, it has superseded the others and nobody
\* else has made one: one_active_route_per_device has nothing to refuse or to wait for.
LEMMA IndexIsIdle ==
    ASSUME TxInv, NEW r \in RouteRequests, ActivateStaged(r), StillThere(r) # {}
    PROVE  /\ WithStatus("active") \subseteq taken[r]
           /\ \A q \in RouteRequests \ {r} : pc[q] \notin ActivateReady
<1>1. PICK p \in StillThere(r) : TRUE
  OBVIOUS
<1>2. /\ p \in rows /\ p \in found[r] /\ pc[r] = "activate"
      /\ p.status = "pending" /\ p.version = Version(r)
  BY <1>1 DEF StillThere, ActivateStaged, TxInv, RequestInv, ActivateInv
<1>3. ~Published(r)
  BY <1>2 DEF Published, TxInv, RowsInv, OneOfEach
<1>4. WithStatus("active") \subseteq taken[r]
  BY <1>2, <1>3 DEF TxInv, RequestInv, ActivateInv, HasActive
<1>5. ASSUME NEW q \in RouteRequests \ {r}, pc[q] \in ActivateReady
      PROVE  FALSE
  <2>1. \E o \in WithStatus("pending") : o \in taken[q]
    BY <1>5 DEF TxInv, RequestInv, ActivateInv
  <2>2. p \in taken[q]
    BY <1>2, <2>1 DEF TxInv, RowsInv, OnePending, WithStatus
  <2> QED
    BY <1>2, <2>2 DEF ActivateStaged, HeldByOther
<1> QED
  BY <1>4, <1>5

LEMMA LoseCommitInv ==
    ASSUME TxInv, NEW r \in RouteRequests, LoseCommit(r)
    PROVE  TxInv'
<1> USE DEF TxInv, TxTypeOK, LoseCommit, Goto
<1>1. TxTypeOK'
  OBVIOUS
<1>2. LockInv'
  BY DEF LockInv, HasDevice
<1>3. RequestInv(r)'
  BY DEF RequestInv, CheckedInv, StageInv, ActivateInv, NothingHeld, Checked, HasDevice,
         HasPending, StageReady, HasActive, ActivateReady,
         ActiveIs, WithStatus, Version, Published, NewRow
<1> QED
  BY <1>1, <1>2, <1>3, Mover

-------------------------------------------------------------------------------
(* Commits *)

\* What the commit of a stage does to the rows.
LEMMA StageCommitRows ==
    ASSUME TxInv, NEW r \in RouteRequests, pc[r] \in StageReady, CommitRows(r)
    PROVE  /\ rows' = (rows \ WithStatus("pending")) \union {NewRow(r)}
           /\ NewRow(r) \in Rows
           /\ NewRow(r).version = Version(r) /\ NewRow(r).status = "pending"
           /\ WithStatus("active")' = WithStatus("active")
           /\ WithStatus("pending")' = {NewRow(r)}
           /\ ActiveIs(expected[r])
           /\ \A o \in rows : o.status # "pending" => o.version # Version(r)
<1>1. StageInv(r) /\ pc[r] \in HasPending
  BY DEF TxInv, RequestInv, StageReady, HasPending
<1>2. /\ WithStatus("pending") = taken[r] /\ made[r] = {NewRow(r)} /\ ActiveIs(expected[r])
      /\ \A o \in rows \ taken[r] : o.version # Version(r)
  BY <1>1 DEF StageInv
<1>3. rows' = (rows \ WithStatus("pending")) \union {NewRow(r)}
  BY <1>2 DEF CommitRows
<1>4. /\ NewRow(r) \in Rows
      /\ NewRow(r).version = Version(r) /\ NewRow(r).status = "pending"
  BY DEF NewRow, Rows, Version, TxInv, TxTypeOK
<1>5. WithStatus("active")' = WithStatus("active") /\ WithStatus("pending")' = {NewRow(r)}
  BY <1>3, <1>4 DEF WithStatus
<1>6. \A o \in rows : o.status # "pending" => o.version # Version(r)
  BY <1>2 DEF WithStatus
<1> QED
  BY <1>2, <1>3, <1>4, <1>5, <1>6

LEMMA StageCommitInv ==
    ASSUME TxInv, NEW r \in RouteRequests, pc[r] \in StageReady, CommitRows(r),
           NEW next \in {"staged", "done"}, Goto(r, next)
    PROVE  TxInv'
<1> DEFINE new == NewRow(r)
<1>1. /\ rows' = (rows \ WithStatus("pending")) \union {new}
      /\ new \in Rows /\ new.version = Version(r) /\ new.status = "pending"
      /\ WithStatus("active")' = WithStatus("active") /\ WithStatus("pending")' = {new}
      /\ ActiveIs(expected[r])
      /\ \A o \in rows : o.status # "pending" => o.version # Version(r)
  BY StageCommitRows
<1> HIDE DEF new
<1>2. TxTypeOK'
  BY <1>1 DEF TxInv, TxTypeOK, CommitRows, EndTransaction, Goto
<1>3. Version(r) \in Nat /\ Version(r) > 0 /\ Version(r) - 1 = expected[r]
  BY DEF TxInv, TxTypeOK, Version
<1>4. \A e : ActiveIs(e)' <=> ActiveIs(e)
  BY <1>1 DEF ActiveIs
<1>5. RowsInv'
  <2>1. OneOfEach'
    BY <1>1 DEF OneOfEach, TxInv, RowsInv, WithStatus
  <2>2. Positive'
    BY <1>1, <1>3 DEF Positive, TxInv, RowsInv
  <2>3. OneActive' /\ OnePending'
    BY <1>1 DEF OneActive, OnePending, TxInv, RowsInv
  <2>4. PendingIsNext'
    BY <1>1, <1>3, <1>4 DEF PendingIsNext
  <2> QED
    BY <2>1, <2>2, <2>3, <2>4 DEF RowsInv
<1>6. taken[r] = WithStatus("pending")
  BY DEF TxInv, RequestInv, StageInv, StageReady, HasPending
<1>7. LockInv'
  BY <1>1, <1>6, TransactionAssumption
  DEF TxInv, TxTypeOK, LockInv, CommitRows, EndTransaction, Goto, HasDevice, StageReady
<1>8. \A q \in RouteRequests : Published(q)' <=> Published(q)
  BY <1>1 DEF Published, Version, Goto, WithStatus
<1>9. ASSUME NEW q \in RouteRequests \ {r}
      PROVE  RequestInv(q)'
  <2>1. pc[q] \notin HasDevice
    BY TransactionAssumption DEF TxInv, LockInv, StageReady, HasDevice
  <2>2. pc[q] \notin ActivateReady
    BY <1>6 DEF TxInv, LockInv, RequestInv, ActivateInv
  <2>3. /\ pc'[q] = pc[q] /\ expected' = expected /\ found'[q] = found[q]
        /\ taken'[q] = taken[q] /\ made'[q] = made[q] /\ Version(q)' = Version(q)
    BY DEF TxInv, TxTypeOK, CommitRows, EndTransaction, Goto, Version
  <2>4. CheckedInv(q)'
    BY <1>4, <1>8, <2>3 DEF TxInv, RequestInv, CheckedInv
  <2>5. StageInv(q)'
    BY <2>1, <2>3 DEF StageInv, HasDevice, HasPending, StageReady
  <2>6. ActivateInv(q)'
    <3>1. ActivateInv(q)
      BY DEF TxInv, RequestInv
    <3>2. /\ pc[q] \in HasActive => made[q] = Superseded(taken[q])
          /\ pc[q] \in HasActive => made'[q] = Superseded(taken'[q])
      BY <2>3, <3>1 DEF ActivateInv
    <3>3. Superseded(taken[q])' = Superseded(taken'[q])
      BY DEF Superseded, As
    <3> QED
      BY <1>1, <1>8, <2>2, <2>3, <3>1, <3>2, <3>3 DEF ActivateInv
  <2>7. NothingHeld(q)'
    BY <2>3 DEF TxInv, RequestInv, NothingHeld
  <2> QED
    BY <2>4, <2>5, <2>6, <2>7 DEF RequestInv
<1>10. RequestInv(r)'
  <2>1. /\ pc'[r] = next /\ expected' = expected /\ taken'[r] = {} /\ made'[r] = {}
    BY DEF TxInv, TxTypeOK, CommitRows, EndTransaction, Goto
  <2>2. ActiveIs(expected[r])'
    BY <1>1, <1>4, <2>1 DEF Goto
  <2> QED
    BY <2>1, <2>2 DEF RequestInv, CheckedInv, StageInv, ActivateInv, NothingHeld, Checked,
       HasDevice, HasPending, StageReady, HasActive, ActivateReady
<1> QED
  BY <1>2, <1>5, <1>7, <1>9, <1>10 DEF TxInv

\* What the commit of an activation does to the rows.
LEMMA ActivateCommitRows ==
    ASSUME TxInv, NEW r \in RouteRequests, pc[r] \in ActivateReady, CommitRows(r)
    PROVE  \E p \in WithStatus("pending") :
              /\ WithStatus("pending") = {p}
              /\ p \in Rows /\ p.version = Version(r) /\ ActiveIs(p.version - 1)
              /\ taken[r] = WithStatus("active") \union {p}
              /\ rows' = (rows \ (WithStatus("active") \union {p}))
                         \union Superseded(WithStatus("active")) \union {As(p, "active")}
              /\ WithStatus("active")' = {As(p, "active")}
              /\ WithStatus("pending")' = {}
<1>1. PICK p \in WithStatus("pending") :
             /\ p.version = Version(r)
             /\ taken[r] = WithStatus("active") \union {p}
             /\ made[r] = Superseded(WithStatus("active")) \union {As(p, "active")}
  BY DEF TxInv, RequestInv, ActivateInv
<1>2. rows' = (rows \ (WithStatus("active") \union {p}))
              \union Superseded(WithStatus("active")) \union {As(p, "active")}
  BY <1>1 DEF CommitRows
<1>3. WithStatus("pending") = {p} /\ p \in Rows /\ ActiveIs(p.version - 1)
  BY DEF TxInv, TxTypeOK, RowsInv, OnePending, PendingIsNext, WithStatus
<1>4. /\ As(p, "active").status = "active"
      /\ \A o \in Superseded(WithStatus("active")) : o.status = "superseded"
  BY <1>3, AsFacts DEF Superseded, WithStatus, TxInv, TxTypeOK
<1>5. WithStatus("active")' = {As(p, "active")}
  BY <1>2, <1>4 DEF WithStatus
<1>6. WithStatus("pending")' = {}
  BY <1>2, <1>3, <1>4 DEF WithStatus
<1> QED
  BY <1>1, <1>2, <1>3, <1>5, <1>6

LEMMA ActivateCommitInv ==
    ASSUME TxInv, NEW r \in RouteRequests, pc[r] \in ActivateReady, CommitRows(r),
           Goto(r, "done")
    PROVE  TxInv'
<1>1. PICK p \in WithStatus("pending") :
         /\ WithStatus("pending") = {p}
         /\ p \in Rows /\ p.version = Version(r) /\ ActiveIs(p.version - 1)
         /\ taken[r] = WithStatus("active") \union {p}
         /\ rows' = (rows \ (WithStatus("active") \union {p}))
                    \union Superseded(WithStatus("active")) \union {As(p, "active")}
         /\ WithStatus("active")' = {As(p, "active")}
         /\ WithStatus("pending")' = {}
  BY ActivateCommitRows
<1> DEFINE now == As(p, "active")
           old == Superseded(WithStatus("active"))
<1>2. now \in Rows /\ now.version = p.version /\ now.status = "active"
  BY <1>1, AsFacts
<1>3. /\ old \subseteq Rows
      /\ \A o \in old : o.status = "superseded" /\ \E a \in WithStatus("active") :
                         o.version = a.version /\ o = As(a, "superseded")
      /\ \A a \in WithStatus("active") : \E o \in old : o.version = a.version
  BY AsFacts DEF Superseded, WithStatus, TxInv, TxTypeOK
<1>4. /\ rows' = (rows \ (WithStatus("active") \union {p})) \union old \union {now}
      /\ WithStatus("active")' = {now} /\ p \in rows /\ WithStatus("active") \subseteq rows
  BY <1>1 DEF WithStatus
<1> HIDE DEF now, old
<1>5. TxTypeOK'
  BY <1>2, <1>3, <1>4 DEF TxInv, TxTypeOK, CommitRows, EndTransaction, Goto
<1>6. RowsInv'
  <2>1. OneOfEach'
    <3>1. \A o \in rows' : \E x \in rows :
             /\ o.version = x.version
             /\ \/ o = x /\ x \notin WithStatus("active") \union {p}
                \/ x = p /\ o = now
                \/ x \in WithStatus("active") /\ o = As(x, "superseded")
      BY <1>2, <1>3, <1>4
    <3>2. p \notin WithStatus("active")
      BY <1>1 DEF WithStatus
    <3> QED
      BY <3>1, <3>2 DEF OneOfEach, TxInv, RowsInv
  <2>2. Positive'
    BY <1>2, <1>3, <1>4 DEF Positive, TxInv, RowsInv
  <2>3. OneActive' /\ OnePending' /\ PendingIsNext'
    BY <1>1, <1>4 DEF OneActive, OnePending, PendingIsNext
  <2> QED
    BY <2>1, <2>2, <2>3 DEF RowsInv
<1>7. LockInv'
  <2>1. taken'[r] = {} /\ \A q \in RouteRequests \ {r} : taken'[q] = taken[q]
    BY DEF TxInv, TxTypeOK, CommitRows, EndTransaction
  <2>2. \A q \in RouteRequests \ {r} : taken[q] \subseteq rows \ taken[r]
    BY DEF TxInv, LockInv
  <2>3. \A q \in RouteRequests : taken'[q] \subseteq rows'
    <3>1. rows \ taken[r] \subseteq rows'
      BY <1>1, <1>4
    <3> QED
      BY <2>1, <2>2, <3>1
  <2>4. \A q \in RouteRequests : pc'[q] \in HasDevice <=> deviceLock' = q
    BY TransactionAssumption
    DEF TxInv, TxTypeOK, LockInv, CommitRows, EndTransaction, Goto, HasDevice, ActivateReady
  <2> QED
    BY <2>1, <2>3, <2>4 DEF TxInv, LockInv
<1>8. /\ \A q \in RouteRequests : Version(q)' = Version(q)
      /\ expected' = expected
  BY DEF Version, Goto
<1>9. \A q \in RouteRequests : Published(q) => Published(q)'
  <2> SUFFICES ASSUME NEW q \in RouteRequests, NEW o \in rows,
                      o.version = Version(q), o.status # "pending"
               PROVE  \E x \in rows' : x.version = Version(q) /\ x.status # "pending"
    BY <1>8 DEF Published
  <2>1. o # p
    BY <1>1 DEF WithStatus
  <2>2. CASE o \in WithStatus("active")
    BY <1>3, <1>4, <2>2
  <2>3. CASE o \notin WithStatus("active")
    BY <1>4, <2>1, <2>3
  <2> QED
    BY <2>2, <2>3
<1>10. \A q \in RouteRequests : ActiveIs(expected[q]) => Published(q)'
  <2> SUFFICES ASSUME NEW q \in RouteRequests, ActiveIs(expected[q])
               PROVE  Published(q)'
    OBVIOUS
  <2>1. expected[q] \in Nat /\ p.version \in Nat
    BY <1>1 DEF TxInv, TxTypeOK, Rows
  <2>2. expected[q] = p.version - 1
    BY <1>1 DEF ActiveIs, TxInv, RowsInv, OneActive
  <2>3. Version(q) = p.version
    BY <2>1, <2>2 DEF Version
  <2> QED
    BY <1>2, <1>4, <1>8, <2>3 DEF Published
<1>11. ASSUME NEW q \in RouteRequests \ {r}
       PROVE  RequestInv(q)'
  <2>1. /\ pc'[q] = pc[q] /\ found'[q] = found[q] /\ taken'[q] = taken[q]
        /\ made'[q] = made[q]
    BY DEF TxInv, TxTypeOK, CommitRows, EndTransaction, Goto
  <2>2. p \notin taken[q] /\ taken[q] \intersect WithStatus("active") = {}
    BY <1>1 DEF TxInv, LockInv
  <2>3. pc[q] \notin HasPending
    BY <1>1, <2>2 DEF TxInv, RequestInv, StageInv
  <2>4. pc[q] \notin ActivateReady
    BY <1>1, <2>2 DEF TxInv, RequestInv, ActivateInv
  <2>5. CheckedInv(q)'
    BY <1>8, <1>9, <1>10, <2>1 DEF TxInv, RequestInv, CheckedInv
  <2>6. StageInv(q)'
    <3>1. StageInv(q)
      BY DEF TxInv, RequestInv
    <3> QED
      BY <1>1, <2>1, <2>3, <3>1 DEF StageInv, HasPending, StageReady
  <2>7. ActivateInv(q)'
    <3>1. ActivateInv(q) /\ CheckedInv(q)
      BY DEF TxInv, RequestInv
    <3>2. CASE pc[q] = "supersede"
      <4>1. Published(q)'
        BY <1>9, <1>10, <3>1, <3>2 DEF CheckedInv, Checked
      <4> QED
        BY <2>1, <3>1, <3>2, <4>1 DEF ActivateInv, HasActive, ActivateReady
    <3>3. CASE pc[q] \in HasActive
      <4>1. Published(q)'
        BY <1>9, <1>10, <3>1, <3>3 DEF CheckedInv, Checked, HasActive
      <4>2. Superseded(taken[q])' = Superseded(taken'[q])
        BY DEF Superseded, As
      <4> QED
        BY <1>8, <2>1, <3>1, <3>3, <4>1, <4>2 DEF ActivateInv, HasActive, ActivateReady
    <3> QED
      BY <2>1, <2>4, <3>2, <3>3 DEF ActivateInv, HasActive
  <2>8. NothingHeld(q)'
    BY <2>1 DEF TxInv, RequestInv, NothingHeld
  <2> QED
    BY <2>5, <2>6, <2>7, <2>8 DEF RequestInv
<1>12. RequestInv(r)'
  <2>1. pc'[r] = "done" /\ taken'[r] = {} /\ made'[r] = {}
    BY DEF TxInv, TxTypeOK, CommitRows, EndTransaction, Goto
  <2> QED
    BY <2>1 DEF RequestInv, CheckedInv, StageInv, ActivateInv, NothingHeld, Checked,
       HasDevice, HasPending, StageReady, HasActive, ActivateReady
<1> QED
  BY <1>5, <1>6, <1>7, <1>11, <1>12 DEF TxInv

-------------------------------------------------------------------------------
(* The invariant *)

LEMMA TxInitInv == TxInit => TxInv
<1> SUFFICES ASSUME TxInit PROVE TxInv
  OBVIOUS
<1> USE TransactionAssumption
<1>1. TxTypeOK
  BY DEF TxInit, TxTypeOK, Rows
<1>2. RowsInv
  BY DEF TxInit, RowsInv, OneOfEach, Positive, OneActive, OnePending, PendingIsNext, WithStatus
<1>3. LockInv
  BY DEF TxInit, LockInv, HasDevice
<1>4. \A r \in RouteRequests : RequestInv(r)
  BY DEF TxInit, RequestInv, CheckedInv, StageInv, ActivateInv, NothingHeld, Checked,
         HasDevice, HasPending, StageReady, HasActive, ActivateReady
<1> QED
  BY <1>1, <1>2, <1>3, <1>4 DEF TxInv

LEMMA TxStepInv ==
    ASSUME TxInv, NEW r \in RouteRequests, TxStep(r)
    PROVE  TxInv'
<1>1. CASE CommitStage(r)
  BY <1>1, StageCommitInv DEF CommitStage, StageReady
<1>2. CASE CommitActivate(r)
  BY <1>2, ActivateCommitInv DEF CommitActivate, ActivateReady
<1>3. CASE Abort(r)
  BY <1>3, RollbackInv DEF Abort
<1>4. CASE EndLost(r)
  <2>1. CASE Rollback(r)
    BY <1>4, <2>1, RollbackInv DEF EndLost
  <2>2. CASE CommitRows(r)
    BY <1>4, <2>2, StageCommitInv, ActivateCommitInv DEF EndLost, StageReady, ActivateReady
  <2> QED
    BY <1>4, <2>1, <2>2 DEF EndLost
<1> QED
  BY <1>1, <1>2, <1>3, <1>4, LockDeviceInv, CheckVersionInv, FindPendingInv,
     DeletePendingInv, InsertRouteInv, BeginActivateInv, NotPreparedInv, FindActiveInv,
     SupersedeActiveInv, FindStagedInv, ActivateStagedInv, LoseCommitInv DEF TxStep

LEMMA TxNextInv == TxInv /\ [TxNext]_txVars => TxInv'
<1> SUFFICES ASSUME TxInv, [TxNext]_txVars PROVE TxInv'
  OBVIOUS
<1>1. CASE TxNext
  BY <1>1, TxStepInv, BeginStageInv DEF TxNext
<1>2. CASE UNCHANGED txVars
  <2> USE <1>2 DEF txVars
  <2>1. TxTypeOK' /\ LockInv'
    BY DEF TxInv, TxTypeOK, LockInv
  <2>2. RowsInv'
    BY RowsFrame
  <2>3. \A q \in RouteRequests : RequestInv(q)'
    BY Frame
  <2> QED
    BY <2>1, <2>2, <2>3 DEF TxInv
<1> QED
  BY <1>1, <1>2

\* What the statements of StageRoute and ActivateRoute rely on, at every moment:
\* one row for a version, one active and one pending row, the pending one next
\* after the active one, and each row changed by one open transaction at most.
THEOREM TransactionsInvariant == TxSpec => []TxInv
BY TxInitInv, TxNextInv, PTL DEF TxSpec

-------------------------------------------------------------------------------
(* The transactions implement the store *)

LEMMA TheRowOf ==
    ASSUME NEW o PROVE TheRow({o}) = [version |-> o.version, cred |-> o.cred]
BY DEF TheRow

LEMMA TheRowOfNone == TheRow({}) = [version |-> 0, cred |-> None]
BY DEF TheRow

\* The rows change at the commit of a stage or of an activation and nowhere else.
LEMMA RowsChange ==
    ASSUME [TxNext]_txVars
    PROVE  \/ rows' = rows
           \/ \E r \in RouteRequests : CommitRows(r) /\ pc[r] \in StageReady \union ActivateReady
<1>1. CASE UNCHANGED txVars
  BY <1>1 DEF txVars
<1>2. ASSUME NEW r \in RouteRequests, TxStep(r)
      PROVE  rows' = rows \/ (CommitRows(r) /\ pc[r] \in StageReady \union ActivateReady)
  BY <1>2 DEF TxStep, LockDevice, CheckVersion, FindPending, DeletePending, InsertRoute,
     CommitStage, BeginActivate, NotPrepared, FindActive, SupersedeActive, FindStaged,
     ActivateStaged, CommitActivate, Abort, LoseCommit, EndLost, Find, Change, Rollback,
     StageReady, ActivateReady
<1>3. ASSUME NEW r \in RouteRequests, NEW e \in Nat, BeginStage(r, e)
      PROVE  rows' = rows
  BY <1>3 DEF BeginStage
<1> QED
  BY <1>1, <1>2, <1>3 DEF TxNext

LEMMA StageCommitIsStage ==
    ASSUME TxInv, NEW r \in RouteRequests, pc[r] \in StageReady, CommitRows(r)
    PROVE  Store!StageRoute(r, TheRow(WithStatus("active")).version)
<1> DEFINE active == WithStatus("active")
<1>1. /\ WithStatus("active")' = active
      /\ WithStatus("pending")' = {NewRow(r)}
  BY StageCommitRows
<1>2. TheRow(active).version = expected[r]
  <2>1. ActiveIs(expected[r])
    BY DEF TxInv, RequestInv, StageInv
  <2>2. CASE active = {}
    BY <2>1, <2>2, TheRowOfNone DEF ActiveIs
  <2>3. CASE active # {}
    <3>1. PICK o \in active : o.version = expected[r]
      BY <2>1, <2>3 DEF ActiveIs
    <3>2. active = {o}
      BY DEF TxInv, RowsInv, OneActive
    <3>3. TheRow({o}) = [version |-> o.version, cred |-> o.cred]
      BY TheRowOf
    <3> QED
      BY <3>1, <3>2, <3>3
  <2> QED
    BY <2>2, <2>3
<1>3. TheRow({NewRow(r)}) = [version |-> expected[r] + 1, cred |-> r]
  <2>1. NewRow(r).version = expected[r] + 1 /\ NewRow(r).cred = r
    BY DEF NewRow, Version
  <2> HIDE DEF NewRow
  <2>2. TheRow({NewRow(r)}) = [version |-> NewRow(r).version, cred |-> NewRow(r).cred]
    BY TheRowOf
  <2> QED
    BY <2>1, <2>2
<1>4. TheRow(WithStatus("active"))' = TheRow(active)
  BY <1>1 DEF TheRow
<1>5. TheRow(WithStatus("pending"))' = TheRow({NewRow(r)})
  BY <1>1 DEF TheRow
<1> QED
  BY <1>2, <1>3, <1>4, <1>5 DEF Store!StageRoute, Store!NewRoute

LEMMA ActivateCommitIsActivate ==
    ASSUME TxInv, NEW r \in RouteRequests, pc[r] \in ActivateReady, CommitRows(r)
    PROVE  Store!ActivateRoute(TheRow(WithStatus("pending")).version)
<1>1. PICK p \in WithStatus("pending") :
         /\ WithStatus("pending") = {p}
         /\ p \in Rows
         /\ WithStatus("active")' = {As(p, "active")}
         /\ WithStatus("pending")' = {}
  BY ActivateCommitRows
<1>2. p.version > 0
  BY DEF TxInv, RowsInv, Positive, WithStatus
<1>3. TheRow(WithStatus("pending")) = [version |-> p.version, cred |-> p.cred]
  BY <1>1, TheRowOf
<1>4. TheRow(WithStatus("active"))' = TheRow({As(p, "active")})
  BY <1>1 DEF TheRow
<1>5. TheRow(WithStatus("pending"))' = TheRow({})
  BY <1>1 DEF TheRow
<1>6. TheRow({As(p, "active")}) = [version |-> p.version, cred |-> p.cred]
  BY <1>1, AsFacts, TheRowOf
<1>7. TheRow(WithStatus("pending")) # Store!NoRoute
  BY <1>2, <1>3 DEF Store!NoRoute
<1> QED
  BY <1>3, <1>4, <1>5, <1>6, <1>7, TheRowOfNone DEF Store!ActivateRoute, Store!NoRoute

LEMMA StepRefinesStore ==
    ASSUME TxInv, [TxNext]_txVars
    PROVE  [Store!StoreNext]_(Store!storeVars)
<1>1. CASE rows' = rows
  <2>1. /\ TheRow(WithStatus("active"))' = TheRow(WithStatus("active"))
        /\ TheRow(WithStatus("pending"))' = TheRow(WithStatus("pending"))
    BY <1>1 DEF WithStatus
  <2> QED
    BY <2>1 DEF Store!storeVars
<1>2. CASE \E r \in RouteRequests : CommitRows(r) /\ pc[r] \in StageReady
  BY <1>2, StageCommitIsStage DEF Store!StoreNext
<1>3. CASE \E r \in RouteRequests : CommitRows(r) /\ pc[r] \in ActivateReady
  BY <1>3, ActivateCommitIsActivate DEF Store!StoreNext
<1> QED
  BY <1>1, <1>2, <1>3, RowsChange

\* StageRoute and ActivateRoute as PostgreSQL runs them, statement by statement
\* and with commits nobody waits for, are the one-step compare-and-set store the
\* publication protocol is built on, for any number of requests.
THEOREM TransactionsImplementStore == TxSpec => ImplementsRouteStore
<1>1. TxInit => Store!StoreInit
  <2> SUFFICES ASSUME TxInit PROVE Store!StoreInit
    OBVIOUS
  <2>1. WithStatus("pending") = {}
    BY DEF TxInit, WithStatus
  <2>2. TheRow(WithStatus("active")) = [version |-> InitialVersion, cred |-> None]
    <3>1. CASE InitialVersion = 0
      BY <3>1, TheRowOfNone DEF TxInit, WithStatus
    <3>2. CASE InitialVersion # 0
      <4> DEFINE o == [version |-> InitialVersion, cred |-> None, status |-> "active"]
      <4>1. WithStatus("active") = {o}
        BY <3>2 DEF TxInit, WithStatus
      <4>2. o.version = InitialVersion /\ o.cred = None
        OBVIOUS
      <4> HIDE DEF o
      <4> QED
        BY <4>1, <4>2, TheRowOf
    <3> QED
      BY <3>1, <3>2
  <2> QED
    BY <2>1, <2>2, TheRowOfNone DEF Store!StoreInit, Store!NoRoute
<1>2. TxInv /\ [TxNext]_txVars => [Store!StoreNext]_(Store!storeVars)
  BY StepRefinesStore
<1> QED
  BY <1>1, <1>2, TransactionsInvariant, PTL DEF TxSpec, ImplementsRouteStore, Store!StoreSpec

-------------------------------------------------------------------------------
(* Nobody waits in a circle *)

\* A request waits only for requests that have come further.
Rank(r) ==
    IF pc[r] = "lock" THEN 1
    ELSE IF pc[r] \in {"check", "find_pending", "delete"} THEN 2
    ELSE IF pc[r] = "supersede" THEN 3
    ELSE IF pc[r] \in HasActive THEN 4
    ELSE IF pc[r] = "insert" THEN 5
    ELSE 6

\* Which ones have changed a row.
LEMMA Holders ==
    ASSUME TxInv, NEW r \in RouteRequests, NEW q \in RouteRequests \ {r}, NEW o \in taken[q]
    PROVE  /\ o \in rows
           /\ pc[q] \in HasPending \union HasActive \union ActivateReady
           /\ pc[r] \in HasDevice => pc[q] \notin HasPending
           /\ pc[q] \in HasActive => o.status = "active"
BY DEF TxInv, RequestInv, NothingHeld, ActivateInv, LockInv, HasPending, HasDevice

LEMMA WaitsForLater ==
    ASSUME TxInv, NEW r \in RouteRequests, NEW q \in RouteRequests \ {r}, WaitsFor(r, q),
           NEW u \in RouteRequests \ {q}, WaitsFor(q, u)
    PROVE  Rank(r) < Rank(q)
<1>1. CASE pc[r] = "lock"
  BY <1>1 DEF WaitsFor, TxInv, LockInv, HasDevice, HasActive, Rank
<1>2. CASE pc[r] = "delete"
  <2>1. \E o \in taken[q] : TRUE
    BY <1>2 DEF WaitsFor
  <2> QED
    BY <1>2, <2>1, Holders DEF HasDevice, HasPending, HasActive, ActivateReady, Rank
<1>3. CASE pc[r] = "supersede"
  <2>1. \E o \in taken[q] : TRUE
    BY <1>3 DEF WaitsFor
  <2> QED
    BY <1>3, <2>1, Holders DEF HasPending, HasActive, ActivateReady, Rank
<1>4. CASE pc[r] = "activate"
  <2>1. PICK o \in taken[q] : o.status = "pending"
    BY <1>4 DEF WaitsFor, TxInv, RequestInv, ActivateInv
  <2>2. pc[q] \notin HasActive
    BY <2>1, Holders
  <2> QED
    BY <1>4, <2>2, <2>1, Holders DEF HasPending, HasActive, ActivateReady, Rank
<1>5. CASE pc[r] = "insert"
  <2>1. PICK o \in taken[q] : o.version = Version(r)
    BY <1>5 DEF WaitsFor
  <2>2. pc[q] \in HasActive \union ActivateReady
    BY <1>5, <2>1, Holders DEF HasDevice
  <2>3. pc[q] \notin HasActive
    <3> SUFFICES ASSUME pc[q] \in HasActive PROVE FALSE
      OBVIOUS
    <3>1. pc[q] = "activate"
      BY DEF HasActive, WaitsFor
    <3>2. PICK p \in taken[u] : p.status = "pending"
      BY <3>1 DEF WaitsFor, TxInv, RequestInv, ActivateInv
    <3>3. p \in rows /\ p.version = Version(r)
      BY <1>5, <3>2, Holders DEF TxInv, RequestInv, StageInv, HasDevice, WithStatus
    <3>4. o \in rows /\ o.status = "active"
      BY <2>1, Holders
    <3>5. o = p
      BY <2>1, <3>3, <3>4 DEF TxInv, RowsInv, OneOfEach
    <3> QED
      BY <3>2, <3>4, <3>5
  <2> QED
    BY <1>5, <2>2, <2>3 DEF HasActive, ActivateReady, Rank
<1> QED
  BY <1>1, <1>2, <1>3, <1>4, <1>5 DEF WaitsFor

LEMMA NoCycle == TxInv => NoLockCycle
<1> SUFFICES ASSUME TxInv, NEW T \in SUBSET RouteRequests, T # {},
                    \A r \in T : \E q \in T \ {r} : WaitsFor(r, q)
             PROVE  FALSE
  BY DEF NoLockCycle
<1>1. \A r \in T : Rank(r) \in 1..6
  BY DEF Rank
<1>2. \A r \in T : \E q \in T : Rank(r) < Rank(q)
  BY WaitsForLater
<1>3. \A r \in T : Rank(r) < 6
  <2> SUFFICES ASSUME NEW r \in T PROVE Rank(r) < 6
    OBVIOUS
  <2>1. PICK q \in T : Rank(r) < Rank(q)
    BY <1>2
  <2>2. Rank(r) \in 1..6 /\ Rank(q) \in 1..6
    BY <1>1
  <2> QED
    BY <2>1, <2>2
<1>4. \A r \in T : Rank(r) < 5
  BY <1>1, <1>2, <1>3
<1>5. \A r \in T : Rank(r) < 4
  BY <1>1, <1>2, <1>4
<1>6. \A r \in T : Rank(r) < 3
  BY <1>1, <1>2, <1>5
<1>7. \A r \in T : Rank(r) < 2
  BY <1>1, <1>2, <1>6
<1> QED
  BY <1>1, <1>2, <1>7

\* StageRoute and ActivateRoute, which take their locks in different orders, never
\* wait for each other in a circle, whatever the number of requests.
THEOREM TransactionsNeverDeadlock == TxSpec => []NoLockCycle
BY TransactionsInvariant, NoCycle, PTL
===============================================================================
