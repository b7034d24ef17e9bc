# ProxyMesh: TLA+ models and proofs

ProxyMesh gives each device a Shadowsocks port on every gateway and sends the
device's traffic through a SOCKS5 upstream, its *route*. A control plane stores the
routes in Postgres and publishes them to the gateways over one gRPC stream per
gateway. This directory models the publication of routes, the ingresses of the devices,
the generation of routes from providers, the database transactions under all of them and
the life of a device's connections, checks them with TLC and proves their main safety
properties with TLAPS.

## 1. The system

| Component | State | Operations | Where |
|---|---|---|---|
| Control API | none of its own; one goroutine per request | `putRoute`, `putRouteFromProvider`, `interrupt`, `setGatewayDraining`, `createDevice`, `rotateCredential`, `addIngress`, `deleteIngress`, `putProvider` | `internal/control/api.go` |
| Hub | sessions by gateway id (send and ack channels, ready flag, done), `deployMu` | `Connect`, `DeployRoute`, `DeployDevice`, `Interrupt`, `SetDraining`, `broadcastAndWait` | `internal/control/hub.go` |
| Store | `device_routes` (active, pending, superseded), `devices`, `device_ingresses`, `proxy_providers`, write-only rows | `StageRoute` (compare-and-set), `ActivateRoute`, `ListActiveRoutes`; `CreateDevice`, `UpdateDeviceCredential`, `AddDeviceIngress`, `DeleteDeviceIngress`; `UpsertProvider`, `GetProvider`, `ListProviders` | `internal/store` |
| Control client | the stream, the out channel | `connect`, `handle` (one case per frame type), heartbeat every 5 s | `internal/dataplane/control_client.go` |
| Table, snapshot file | active and pending route per device, `loaded`; an encrypted file | `Load`, `Prepare`, `Activate`, `UpdateDevice`; `SaveSnapshot`, `LoadSnapshot` | `table.go`, `snapshot.go` |
| Gateway | `draining`, `canaryOK`, `controlSynced` | `Ready`, `handleShadowsocks`, `relay` | `gateway.go` |
| Listeners | by port: device, method, password, active or not yet | `ReconcileListeners`, `PrepareDevice`, `PrepareListener`, `CloseListeners` | `gateway.go` |
| Connections | cancel functions by device, a counter | `Track`, `Interrupt` | `connections.go` |
| SOCKS5 client | none | `DialSOCKS5` | `internal/proxy/socks5.go` |
| Processes | environment settings | start from the file, canary loop, shutdown | `apps/*/main.go` |
| Providers | none of their own (a row each) | `Validate`, `Generate`, `SelectWeighted` | `internal/provider` |
| Credentials | none | `Validate`, `GeneratePassword` | `internal/ssconfig` |
| Codec, ciphers, configuration | none | pure functions | `internal/controlrpc`, ... |

A route is published in four moves: the API *stages* it (compare-and-set on the active
version, outside any lock), the hub takes `deployMu` and sends PREPARE to all ready
sessions, the database activates the pending row, the hub sends ACTIVATE to the same
sessions. Interrupts and draining requests use the same channels without `deployMu`. A
gateway that connects gets a SNAPSHOT of the active rows. A session takes part in
publications once a heartbeat has said that its gateway is ready.

A change of a device (a new password, port or primary port) is deployed the same way:
the handler reads the device and builds its proposal, then takes `deployMu`, sends
DEVICE_PREPARE (the gateways open inactive listeners), commits its own change of the rows
and sends DEVICE_UPDATE (table, listeners, file). Routes carry the device's ingresses
with them, so that the two kinds of deployment write the same part of a gateway's table.

What is hard here: the four moves of several requests interleave, with the snapshots of
connecting gateways and with heartbeats; each of the processes may die between any two
steps; acknowledgements are late, lost, or taken by another request; a connection's
handler, two copying goroutines and an INTERRUPT race; a handler's proposal is built from
rows that another request changes before it gets the lock; a reconciliation stops
half-way through the ports; SQL statements of several transactions interleave, and a
COMMIT may be executed after its handler has given up. `PROJECT.json` lists the hazards at
their lines.

What makes the components correct:

* publication: a gateway never uses what the database has not committed; a gateway
  that serves never goes back to an older version; a 200 means that the gateways of the
  deployment hold the version, in memory and on disk; a request is answered unless it
  waits to send to a session that has ended;
* hub: an acknowledgement reaches the request that waits for it; an ACTIVATE finds its
  PREPARE; drained gateways leave the quorum and ready ones join it;
* ingresses: the rows of a device agree with each other, a synchronised gateway listens on
  exactly the ports of its table, a 200 means that the gateways hold the device as the
  database has it, and what is stored can be served (with the exceptions of section 3);
* store: whatever the statements interleave, a stage is a compare-and-set, an activation
  activates the staged row, and no transactions deadlock;
* providers: what is accepted has the secrets of its templates, the selection follows the
  weights, a route comes from an enabled provider;
* connections: the gauge is exact, nothing leaks, an INTERRUPT ends what it should.

## 2. The modules

| Module | Models |
|---|---|
| `RouteStore` | the active and the pending row of one device; one transaction is one step |
| `RouteTransactions` | `StageRoute` and `ActivateRoute` statement by statement, with row locks; implements `RouteStore` |
| `GatewayNode` | the control side of the gateways: table, file, readiness flags, one operator per frame handler and per way it fails |
| `RoutePublication` | extends both with sessions, channels, streams, requests and faults; all actions of the protocol |
| `PublishedRoutes` | the abstract specification: versions are published one by one; a serving gateway holds a published version and never goes back |
| `DeviceStore` | `devices` and `device_ingresses`, the operations on them, valid credentials |
| `IngressGateway` | the ingress side of the gateways: table, listeners by port, file, one operator per way a handler ends |
| `IngressPlane` | extends both with the handlers of `api.go`, the deployments, the streams and faults |
| `ProviderAdapter` | `internal/provider` as operators |
| `ProviderRoutes` | extends `RouteTransactions` and `ProviderAdapter` with `putProvider` and `putRouteFromProvider` |
| `DeviceConnections` | the connections of one device at one gateway |
| `RoutePublicationProofs`, `RoutePublicationSafety`, `RoutePublicationRefinement`, `RoutePublicationDelivery`, `RouteTransactionsProofs`, `ProviderRoutesProofs`, `IngressPlaneProofs`, `DeviceConnectionsProofs` | the theorems |
| `MCRoutePublication`, `MCIngressPlane`, `MCProviderRoutes`, `MCDeviceConnections` | what TLC runs |

### How RoutePublication corresponds to the code

A *session* is one call of `Hub.Connect`: `Connect` reads REGISTER and enters the map,
`SendSnapshot` reads the rows and writes the SNAPSHOT, `ForwardFrame` is the select loop,
`HubReceive` the receive goroutine, `CloseSession` the return with its deferred calls.
`sendCh` and `acks` are the session's channels, `wire` what the stream carries to the
gateway, `up` what it carries back. The client's half is `ClientDisconnect`, `Heartbeat`
and one `On...` action per frame type; each handles the frame with all its calls and
writes the acknowledgement, except that ACTIVATE takes two steps (`OnActivate` changes
the table, `OnActivated` saves the file and acknowledges), because connections, the
canary, a local drain and a crash see the state between. `link` is the session a client
believes in; it differs from the hub's `hubSession` while one side has not noticed that
the stream broke. A disconnected gateway keeps its flags, as in the code, and goes on
serving.

A *request* is an HTTP request with its program counter `pc` and the locals of
`DeployRoute` and `broadcastAndWait` (`route`, `targets`, `pos`): `Stage`, `LockAndTarget`,
`SendFrame`, `TakeAck`, `GiveUpWaiting`, `CancelSending`, `Commit`, and `StartInterrupt`
and `StartDrain`. `readySessions` ranges over a Go map, so `targets` is any order of the
ready sessions. `PREPARE` and `ACTIVATE` carry the same `RequestID`, which is the request.
`newID` is taken to be unique (it is the clock in nanoseconds).

Errors of `SaveSnapshot`, `ReconcileListeners`, `PrepareListener` and of the database (also
a commit whose reply is lost), broken streams, deaths of either process (`GatewayRestart`,
`ControlPlaneRestart`), failing canaries, local drains and clients that go away are
*disturbances*, at most `MaxFaults` in a behaviour. The acknowledgement timeout is not:
it may fire at any time.

`served` is a history variable: the highest version the gateway has held while ready, also
between the steps inside a handler (a SNAPSHOT is in the table before its reconciliation
fails).

Left out of this module: the listeners (in `IngressPlane`), the rows
nothing reads back (`UpsertGateway`, `AppendAudit`, `RecordRouteDeployment`), a snapshot
file that cannot be decrypted, loss of power (the file is renamed, not synced), and the
400, 401 and 404 answers that change nothing.

### How RouteTransactions corresponds to the code

`rows` are the committed rows of `device_routes` of one device. A transaction keeps the
rows it has changed or deleted (`taken`) and those it has made of them or inserted
(`made`) to itself until it commits. Reads take one step. An UPDATE or DELETE takes two,
as PostgreSQL does at READ COMMITTED: it finds rows in its snapshot (`FindPending`,
`FindActive`, `FindStaged`), waits for whoever holds one of them, and changes those that
still match (`DeletePending`, `SupersedeActive`, `ActivateStaged`). `InsertRoute` waits
for, or is refused by, the primary key. `LoseCommit` and `EndLost` are a COMMIT that the
server executes, or not, after the handler has returned and released `deployMu`. The
database itself is external: its rules are what the statements rely on.

### How IngressPlane corresponds to the code

One action per handler up to its proposal (`Create`, `RotateCredential`, `AddIngress`,
`DeleteIngress`, `PutRoute` with `Stage`), then the shared deployment: `LockAndPrepare`,
`Commit`, `Succeed`, `GiveUp`. `job` holds what the handler read and what it proposes.
The difference matters: `Commit` changes the rows *as they are by then*
(`CommitChange`), while the gateways get the proposal. `stale` remembers the deployments
that committed when the device was no longer what they had read. A commit that fails, or
whose reply is lost, ends the request; the database may carry it out at any later moment
(`LateCommit`), among the steps of the next deployment, or never.

A session begins with `ListActiveRoutes`: `Connect` reads the routes with their devices,
`LoadIngresses` the ingresses of one device after the other, each as they are by then, and
`SendSnapshot` sends what was read. `torn` remembers the gateways whose SNAPSHOT was read
while ingresses changed. `GetDevice` also makes two queries and is one step here: a
request that has read a device half before and half after a change is one whose read
differs from what it finds at its commit, which is `stale`.

Each frame handler of the gateway is one step with all its calls and one disjunct per way
it ends: `Applied`, `NotReconciled`, `NotSaved`, `PrepareDevice`, `PrepareStopsAt`. A
handler that dies inside comes back from the file (`Restart`), or does not come back when
the file cannot be reconciled (`CannotStart`). `LeftListeners` are the states in which a
`ReconcileListeners` that fails may leave the ports: it ranges over a Go map. A listener is
*active* once connections may use it; a prepared one only reserves its port. A password
is the method it was drawn for and who drew it, which decides `ValidCredential`. A
rotation always draws one; `createDevice` and `addIngress` take the one the client sends
(`Asks`), which may be in use or have been used before.

Sending a frame to all sessions is one step and an acknowledgement arrives when the frame
is handled; `RoutePublication` has the channels in between. The credential of a
route is left out, its version is kept.

### How ProviderAdapter and ProviderRoutes correspond to the code

`Validate`, `Generate` (its outcomes, and `GenerateEnds` for its errors), `Render`,
`SelectPort`, `SelectWeighted`, `CryptoInt` and `CryptoUint` are operators with the names
of the functions. Random words are drawn from `0 .. MaxWord`, 2^64 - 1 in the code. A
text, be it a template, a state or a city, is the set of its expressions, Unset if it is
empty. `render` puts the values of the request, the alias and the fallback state into the
template first (`Fill`) and looks for secrets in the result (`RenderFails`), so that the
expressions of a value count like the template's own. An expression that only arises where
a template and a value meet, such as `{{secret.{{state}}}}`, is left out. The request
`putRouteFromProvider` reads one provider (`GetProvider`) or the ids and then each
provider with its own query (`ListIds`, `ListNext`), selects, generates and goes on with
the transactions; `putProvider` reads the secrets it keeps in one step (`PutProvider`) and
writes in another (`UpsertProvider`). `seen` is a history variable.

### How DeviceConnections corresponds to the code

`at` is where the handler of a connection stands: `Accept`, `Admit` (ready and listener
active), `ReadRoute` (`Table.ByDevice`), `Handshake` (the target address, under a
deadline), `Track`, `Dial` (under ctx), `Negotiate` (under a deadline, not under ctx),
then the relay. `Return` is any return, with the deferred calls. The two copies are
goroutines of their own (`CopyEnds`, `CopyFails`); `RelayOneDone` and `RelayBothDone` are
the two receives from `done`, `RelayCancelled` the other case of the select. Peers may
stop sending at any time, or never, and need not read: a copy whose source has ended may
stay in its Write, until the gateway closes the sockets. `version` stands for the table, `admitting` for the
flags; both change freely, which covers what RoutePublication lets them do.

## 3. What is checked

Passing runs:

| Run | Instance | Shows |
|---|---|---|
| `publish` | 2 gateways, 2 route requests, 2 sessions, 1 fault, 770,000 states | `TypeOK`, `NeverAhead`, `ServedNeverRollsBack`, `SuccessIsDurable`, `ActivateFindsPrepared`, `AckReachesItsWaiter`, refinement of `PublishedRoutes` |
| `restarts` | 1 gateway with canary and an earlier route, 2 route requests, 3 sessions, 2 faults, 1.7 million states | `NeverAhead`, `ServedNeverRollsBack`, `SuccessIsDurable` across restarts and reconnections |
| `operators` | 1 gateway, 1 route, 1 interrupt and 1 draining request, a send channel of one frame, 1 fault (the session may end), fairness, 536,000 states | `SuccessIsDurable`, `DrainedLeavesQuorum`, `EveryRequestAnswered`, `ReadyGatewayJoinsQuorum` |
| `ingress` | 3 devices (one with a legacy and a 2022 port, one without port, one to be created), 3 ports, 2 gateways, any 2 of 6 requests, 1 fault, 768,000 states | `ListenersMatchTable`, `DeviceRowsConsistent`, `LastChangeIsHeld`, `SnapshotsCanBeServed`, `OwnedIngressKeepsServing` |
| `providers` | 2 providers, 1 put, 3 routes of which 1 generated, rollbacks and lost commits anywhere, 115,000 states | `NoLockCycle`, `AcceptedProvidersGenerate`, `SelectionFollowsWeights`, `PublishedFromEnabledProvider`, refinement of `RouteStore` |
| `relay` | 2 connections, 2 versions, fairness, 62,000 states | `TypeOK`, `GaugeIsExact`, `NoLeakedCopies`, `InterruptEndsFullRelay`, `FinishedIsReleased` |

Runs that end in a counterexample, each against a sentence of the documentation (quoted
in `PROJECT.json`):

| Run | Claim | What happens |
|---|---|---|
| `agree` | all ready gateways hold the same routes (`README.md:5`) | a gateway between its snapshot and its first heartbeat misses a publication for good |
| `samestage` | a 200 is the activated route (`openapi.yaml:79`) | two PUTs with one `expectedVersion`: the database activates the other one's row |
| `refused` | a failed PREPARE leaves the prior route in use (`docs/architecture.md:29`) | the gateway stops serving every device until it reconnects |
| `sharedacks` | a 503 means that a gateway failed to acknowledge (`docs/runbook.md:81`) | the acknowledgement came and another request dropped it |
| `interruptmiss` | interrupt closes the device's connections (`openapi.yaml:91`) | a handler before `Track` is missed and relays through the replaced route |
| `interrupthalf` | connections remain until they close or are interrupted (`README.md:67`) | a half-finished relay does not look at ctx |

**Bounds.** Two route requests give every race of two publications (the hub serialises
the rest), and with `Expected` up to one past the last version every conflict. Two
gateways give a partial broadcast; three sessions of one gateway give a publication
over an old, a current and a coming session; two faults give a crash during the repair
of an earlier one. Channel capacities (32 in the code) are 4, which no run fills, except
that `operators` has a send channel of one frame, so that senders block. A
session has one heartbeat in flight and only one that tells the hub something new:
repeated ones set `ready` to the value it has. Gateways and requests are
interchangeable in the safety runs (symmetry); the liveness runs use no symmetry.
In `ingress`, three ports give a device a port to lose, one to keep and one that another
device may want; two requests give every stale read, and two gateways a deployment that
one applies and the other does not. A port may move from one device to another, or be
deleted and added again with the password it had, while a SNAPSHOT is read or on its way;
the fault may be a commit that comes late. In `providers`, three transactions give an
activation, a late commit and a stage at the same time; the values of a request hold no
expression, a variable, a secret of the provider or an unknown one; four bits of a random word and
weights up to 4 give totals that divide the number of words and totals that do not.
`CHECK_DEADLOCK` is off because a behaviour ends when its requests, sessions and faults
are used up.

**Fairness.** `FairSpec` of RoutePublication: the hub's goroutines that can run do run, the
deadline of an acknowledgement fires, the hub reads and writes its streams, a handler that
a gateway has begun goes on, the heartbeat ticks. Nothing is assumed of faults,
reconnections, clients, the canary, or of when a gateway handles a frame. `FairSpec` of
DeviceConnections: handlers run on, and a copy ends once the gateway has closed its
sockets, because `Close` ends a blocked Read and a blocked Write; the peers owe nothing. The
dial and the negotiation end because both are under a deadline. Only `FinishedIsReleased`
needs more, that the peers of the connection read what they are sent; that is its premise
(`PeersRead`), not part of the specification.

**What the properties set aside.** Each exception is a behaviour in which the code does not
keep the property; section 5 describes them.

* `EveryRequestAnswered`: a request that waits for room in the channel of a session that has
  ended, and those that wait for the `deployMu` it holds.
* `LastChangeIsHeld`, `SnapshotsCanBeServed`, `OwnedIngressKeepsServing`: the deployments in
  `stale`. The first speaks of the last change that reached the database, which may be that
  of a commit nobody waited for; then it says nothing of the deployment before it.
* `SnapshotsCanBeServed`: a port that is twice in the file of a gateway in `torn`.
* `OwnedIngressKeepsServing` speaks of rows, not of ports: a gateway that has a row which was
  deleted, and another that was added with the same port and password, may stop serving the
  port although the database has it (`HasRow`).
* `AcceptedProvidersGenerate`: secrets that are named by a value of the request, an alias or
  a fallback state.

Each property of a passing run has a mutant, an operator next to the one it replaces
that makes a plausible mistake; TLC then finds that property violated.

## 4. What is proved

For all sets of gateways and requests, all bounds, and any initial version:

* `TypeCorrect`: `Spec => []TypeOK`. `TypeInv` adds `LoopReset`: `pos` is 1 wherever
  a broadcast may begin, and a request at its commit has at least one target.
* `NothingAheadOfTheDatabase`: `Spec => []NeverAhead`. The invariant `VersionInv` says
  why: a request between commit and its answer carries a version that is committed
  (`CommitInv`), so do the SNAPSHOT and ACTIVATE frames in every channel (`QueuesInv`), so
  do tables and files (`TablesInv`), and committed versions only grow because a pending
  row is one above the active one (`StoreInv`).
* `NoRollback`: `Spec => []ServedNeverRollsBack`, and `Refinement`:
  `Spec => ImplementsPublishedRoutes`. The difficult case is a restarted gateway with an
  old file that a late SNAPSHOT makes ready. The invariant `IInv` adds `StreamInv` (a
  client's session is its own, nothing is on a stream before its SNAPSHOT, and no
  SNAPSHOT comes behind another frame) and `ServedInv`: a prepared route is newer than
  the active one, a synchronised gateway holds at least what it has served, and so does
  the SNAPSHOT that waits for it on its stream, which therefore cannot bring it back.
  `IInv` was checked with TLC on the instances of `publish` and `restarts` before it was
  proved.
* `RoutePublicationDelivery` proves what a request may conclude from the
  acknowledgements it collects. `BaseInv` adds to `IInv` that sessions not yet opened are
  empty, which sessions are targets, and that a request in its broadcasts holds `deployMu`.
  `Progress(r, i)` says how far a deployment is with its i-th session; `Flow` lists the
  twelve things a step can do to the queues of a session, once for all proofs.
  * `SuccessStays`: `Spec => []SuccessIsDurable`. PREPARE and ACTIVATE carry the same
    `RequestID`, so the danger is an acknowledgement of the first counted for the second.
    `DurableInv`: per request and session at most one frame or acknowledgement is on its way
    (`Once`), none before a frame is sent and after its acknowledgement is taken
    (`Quiet`), and an acknowledgement of an ACTIVATE on its way means that table and file
    hold the version.
  * `ActivateFinds`: `Spec => []ActivateFindsPrepared`. `PreparedInv`: nothing that changes
    the table is ahead of an ACTIVATE on a session (`Ordered`), an acknowledged PREPARE is
    what the gateway has prepared while the deployment lasts, and each ACTIVATE on its way
    names it.
  * `DeploymentsGetTheirAcks`: `Spec => [](OnlyDeployments => AckReachesItsWaiter)`.
    `AckInv`: what a deployment has asked a live session is on its way there or back. The
    hypothesis, that no interrupt and no draining request has begun, is needed: with one of
    them the property is false, which is what the run `sharedacks` shows.
  * `DrainedStaysOut`: `Spec => []DrainedLeavesQuorum`. `DrainInv`: once the acknowledgement
    of the draining request is on its way, the gateway drains, and every heartbeat behind
    it says that it is not ready.
* `TransactionsInvariant`, `TransactionsImplementStore`: `TxSpec => []TxInv` and
  `TxSpec => ImplementsRouteStore`. `TxInv` says that there is at most one row per version,
  one active and one pending row, that the pending row is always next after the active
  one, that a row is taken by one open transaction only, and where each of them stands.
  The difficult case is a stage that has checked the version before another request
  activates it, since an activation does not lock the device. The invariant keeps, for
  every stage past its check, that either the version it expects is still the active one,
  or its own version is published already, in which case the primary key refuses the
  insert. The theorem therefore rests on that key (its mutant removes it).
* `TransactionsNeverDeadlock`: `TxSpec => []NoLockCycle`. A rank is given to every
  step that may wait, such that a transaction waits only for one of a higher rank.
* `RoutesImplementStore`, `RoutesNeverDeadlock`: the same for `ProviderRoutes`, whose
  behaviours are behaviours of `TxSpec` (`SpecOfTransactions`).
* `StoredProvidersGenerate`: `Spec => []AcceptedProvidersGenerate`, for all
  configurations, requests, secrets and puts. The invariant is that each row and each
  definition on its way to a row is one that `Validate` accepts, with the secrets it has.
  What a template becomes when the values are put in holds no secrets but the template's
  own, which `Validate` has seen, and those of the values.
* `RoutesComeFromEnabledProviders`: `Spec => []PublishedFromEnabledProvider`. The
  invariant `RoutesInv` adds to the two above, for each request, that what it has listed or
  read was in the database since it began (`seen`), and for each row of the store where it
  comes from.
* `WordsFollowWeights`: `Spec => []SelectionFollowsWeights`, for lists of any length and
  any `MaxWord`. Sums over prefixes of the list are recursive functions, and the induction
  over the prefixes is by the least number for which a statement fails (`LeastNumber`): the
  set of counterexamples is a set, so no induction theorem with an operator parameter is
  needed. The words that are not drawn again are a multiple of the total, each remainder
  has as many words, and the remainders that select a definition are as many as its weight.
* `RowsConsistent`: `Spec => []DeviceRowsConsistent` and `ListenersFollowTable`:
  `Spec => []ListenersMatchTable` for IngressPlane. The invariant `PlaneInv` has a half for
  the requests and one for the gateways. `RequestInv`: the rows are consistent, a device
  with a route exists, and a request under way carries a typed proposal for a device
  that exists. The commits of stale requests are included: a commit changes the rows as
  they are, and each of the four changes keeps them consistent
  (`CreateKeepsRows`, ..., `DeleteKeepsRows`). The last needs that the order of the
  ingresses has a first element (`OldestExists`) and that one is left (`SomeAreLeft`).
  `GatewayInv`: tables,
  files and frames are typed and the listeners of a synchronised gateway match its
  table. `ReconcileMatches` says that a reconciliation that succeeds makes them match
  whatever was there, `OpenMatches` that a preparation never touches a port that the table
  wants, and wherever one fails after the table has changed `synced` is cleared.
* `StoredCanBeServed`: `Spec => []SnapshotsCanBeServed`. The invariant `ServedInv`: a request
  under way, or a commit that may still come, brings a password for the method it has read
  (`ReadInv`); listeners have valid credentials; and as long as nobody was stale, the rows
  are valid, and so are files, SNAPSHOTs on their way and what has been read of one, each
  with a port twice only if it is torn. Until the first ingress changes under it, a
  SNAPSHOT that is being read is a part of the rows, which have no port twice; afterwards it
  is torn. A file that an ACTIVATE or a DEVICE_UPDATE writes needs no statement about
  proposals: it is written after a reconciliation that succeeded, whose new listeners are
  valid because they started, and whose kept ones because they had.
* `LastChangeStaysHeld`: `Spec => []LastChangeIsHeld`. Four invariants, one upon the other.
  `CarryInv`: only the first frame on its way to a gateway can change its table, a frame
  of the deployment under way is the last one and not acknowledged yet, and an
  ACTIVATE finds its route prepared. `ProposedInv`: a proposal, of a request under way or of
  a commit that may still come, is the change applied to what was read. `LastInv`: if a
  request at its second broadcast is the last that changed its device, and is not stale,
  the rows are what it has proposed, because each of the store's changes is the proposed
  one when it is applied to what was read (`CommitAsProposed`; for a deletion this is that
  store and handler promote the same ingress, `DeleteAsProposed`). A late commit makes its
  own request the last one, which was answered with an error, so nothing is claimed of it.
  `HeldInv`: a gateway that has acknowledged the second frame of the last change holds the
  device of the database in table and file, and what is on its way to it, or has been read
  for it, leaves it so.
* `OwnedIngressStays`: `Spec => OwnedIngressKeepsServing`, an action property. The listeners of
  a synchronised gateway serve what its table offers and nothing else (`ServedByTable`, from
  the `Matches` of `GatewayInv` before and after the step), and the table of a gateway that
  stays synchronised changes only with the first frame on its way (`TableOfStep`). So what
  has to be invariant is that this frame, and the part of a SNAPSHOT that has been read,
  takes no row that table and database have in common (`Keeps`, in `Sound`). A commit could
  break it by giving the device a row that the table has and the frame has not; it cannot,
  because the row it brings is `Fresh`: it has the password of a rotation that has not
  committed (`Undrawn`), or the creation time of an addition that has not (`Untaken`,
  `Pending`), while no table, file, frame or half-read SNAPSHOT has a fresh row (`Drawn`,
  `Known`). Times identify added rows because each addition takes its own from the clock
  (`TimesInv`), whatever password its client chose; commits that may still come count as not
  committed. `Known` also says that a gateway has routes only for devices with a published
  one, so a SNAPSHOT never omits a device of the table. `OwnInv` is the conjunction.
* `GaugeExact`: `Spec => []GaugeIsExact` for DeviceConnections, together with its types,
  `ConnectionsTyped`: `Spec => []TypeOK` (the counter is a natural number because it is the
  size of the registry).

Assumptions: `None` is not a request, gateway, session, route, table or listener; the
kinds of requests are disjoint; the bounds are natural numbers, channel capacities not 0;
the sets of route requests and of connections are finite; normalising a country twice
changes nothing more; the providers at the start are valid, and so are the devices; the
kinds of requests on devices are disjoint; a password that a rotation draws is nobody's
before, neither a device's nor one that a client sends (`PasswordAssumption`; it is random,
16 or more bytes); rows at the start are older than `StartTime`, and two requests of a
device do not read the same `time.Now`. TLC evaluates all of them in the runs.

Only model-checked: liveness, which is out of the prover's reach (`EveryRequestAnswered`,
`ReadyGatewayJoinsQuorum`, `NoLeakedCopies`, `InterruptEndsFullRelay`, `FinishedIsReleased`).

## 5. Observations

What the models show about the code besides the runs that end in a counterexample.

* **Stale proposals** (`api.go:303`, `:146`). `putRoute`, `addIngress`, `deleteIngress` and
  `rotateCredential` build what they send before they wait for `deployMu`. When another
  request changes the device in between, the later deployment puts the gateways back to
  what it had read, and answers 200: a deleted port listens again, an added one is
  closed, until the gateway reconnects.
* **A rotation across a promotion.** `rotateCredential` draws a password for the method it
  has read. If the primary ingress is deleted in between, the password is stored for an
  ingress of another method, for which it may not be valid; then no SNAPSHOT
  can be reconciled and a gateway that restarts on such a file does not start
  (`apps/gateway/main.go:46`).
* **A device without port** that gets an ingress with `addIngress` has no primary one:
  `rotateCredential` answers a password that no port takes.
* **Reserved ports.** A DEVICE_PREPARE whose deployment fails leaves an inactive listener,
  which reserves its port against other devices until the next reconciliation.
* **The primary key of `device_routes`** is what keeps a stage from replacing a published
  version. The request that meets it is answered 500, not 409.
* **Provider secrets** (`api.go:328`). A put without secrets writes back those it has
  read; a put that rotated them in between is undone.
* **Validation.** `validatePortRule` looks at normalised countries and `selectPort` at the
  map's own keys; a template with a malformed `{{secret.` expression is accepted and
  never renders; a host rule without default gives an empty host for other countries.
* **Values with expressions** (`provider.go:231`). `render` looks for secrets after it has put
  in the values. A state `{{secret.nope}}`, in a request, an alias or the fallback states,
  makes an accepted provider fail with a missing secret, and one that names a secret of the
  provider puts that secret into, say, the username. `Validate` sees neither.
* **A torn SNAPSHOT** (`postgres.go:401`). `ListActiveRoutes` reads the ingresses of each
  device with a query of its own. A port that is deleted from one device and added to
  another in between is in the SNAPSHOT twice. The gateway saves it, cannot reconcile it and
  is not synchronised until it reconnects; if its process ends first, it does not start from
  that file (`apps/gateway/main.go:46`).
* **A port added again.** A SNAPSHOT read after a port was deleted and handled after it
  was added again closes the port, also with the same password, at a gateway that was not
  ready in between and so was no target of the addition; it stays closed until the
  gateway reconnects. This is the gap of the run `agree`, for ingresses.
* **Late commits** (`postgres.go:102`, `:115`, `:164`, `:331`). A client that goes away
  during a commit releases `deployMu`; the change may reach the database after the next
  deployment has, and then no gateway has it until it reconnects.
* **A send to an ended session** (`hub.go:169`). The send loop looks at the client's context
  only. When a session has ended with its channel full (32 frames), the request waits
  until its client gives up, a deployment with `deployMu`, and all others behind it.
* **A peer that does not read** (`gateway.go:257`). `io.Copy` writes without a deadline; a
  relay both of whose peers have stopped sending stays while one of them does not read.
* **Several providers.** `ListProviders` reads each with a query of its own: each definition was
  in the database since the request began, but they need not have been there together.
* **The ack channel.** With a channel smaller than the acknowledgements that abandoned
  requests leave behind, the receive loop blocks and heartbeats are no longer seen:
  `ReadyGatewayJoinsQuorum` fails for `AckCap` 1 and 2.

## 6. Plan

1. Proof: that with the canary required and no route no gateway ever becomes ready and no
   publication succeeds.
2. The orderly shutdown of both processes (`GracefulStop`, the drain before exit).

## 7. Not modelled

Ciphers, Shadowsocks framing, TLS, the JSON codec, environment settings, migrations,
scripts and infrastructure templates have no state of the system's own, or are I/O only.
The rows that nothing reads back (`gateways`, `route_deployments`, audit) and the
read-only endpoints do not influence anything modelled. The memory store serves
development and tests; the models follow PostgreSQL. `Hub.BroadcastDevice` and
`Table.ByUsername` are not called.
