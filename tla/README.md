# Verification of the VNG Cloud block-storage CSI driver

TLA+ models of the concurrent and failure-prone parts of the driver, model-checked
with TLC on small instances, with machine-checked TLAPS proofs of the safety of all
eleven state machines. `PROJECT.json` lists every run, property, mutant and
theorem and maps every definition to the source lines it models.

## 1. The system

The driver is one Go binary that runs as a controller (one pod, called by the CSI
sidecars) and as a node plugin (one per node, called by kubelet). Every RPC is a
goroutine; sidecars cancel on their own timeout and retry.

| Component | State it keeps | Operations | What makes it correct |
|---|---|---|---|
| Circuit breaker (`driver/internal/breaker.go`) | one entry per key under a mutex | Allow, Failure, Success, Since, EvictStale | a pause holds, is bounded, and ends in a real attempt |
| Attach/detach handlers (`driver/controller.go`, `internal/inflight.go`) | in-flight map, detach breaker, gauge, events | ControllerPublishVolume, ControllerUnpublishVolume | one handler per pair; no command while paused; every pause reported, no stale gauge |
| Delete handler (`driver/controller.go`) | delete breaker, gauge, events | DeleteVolume | a pause is overruled only by the probe; snapshots protect; released volumes get deleted |
| Cloud volume operations (`cloud/cloud.go`, `cloud_private.go`) | none: reads, one command, poll | AttachVolume, DetachVolume, DeleteVolume, resize, migrate | an OK was true during the call; one command at most moves the volume; nobody polls for what nobody performs |
| Modify coalescing (`driver/controller_modify_volume.go`) | a map of worker goroutines and channels | ControllerModifyVolume | merged requests agree; workers end |
| Metadata cache (`cloud/metacache.go`, `project_scope.go`) | value, expiry, the load in flight | get | one load at a time, bounded age, errors not cached, waiters woken |
| Rate limiter (`cloud/ratelimit.go`) | rate, lastAdj, 5xx spell, token bucket | DoRequest | one decrease per event; no climb during a spell; recovery |
| Create handler and gate (`driver/controller.go`, `internal/semaphore.go`) | in-flight names, slots | CreateVolume | no second volume of a name; no slot leaks |
| Expand and modify handlers (`driver/controller.go`, `cloud/cloud.go`) | in-flight map | ControllerExpandVolume, ModifyVolumeProperties, the execution of a coalesced modify | an OK was true during the call; a retried expand succeeds |
| Node service (`driver/node.go`, `mount.go`) | in-flight map, mounts, filesystem | NodeStage/Publish/Unpublish/Unstage/ExpandVolume | a pod sees the volume; an unstaged volume is free; teardown completes |
| Snapshots (`driver/controller.go`, `cloud/cloud.go`, `cloud_private.go`) | in-flight names and ids; the list is vServer's | CreateSnapshot, DeleteSnapshot, the paged lookup | no second snapshot of a name; what was reported stays; retries end in success |
| PreStop hook and start-up taint (`cmd/hooks/prestop.go`, `driver/node.go`) | the taints read, a completion signal, an informer | PreStop, removeNotReadyTaint | nobody's taint is lost; a drain is waited for; the hook ends |
| Error classification (`cloud/errclass.go`, `errors/cloud.go`, `project_scope.go`) | none | Classify and the wrappers under it | terminal exactly when a human is needed, however the error was coded |
| k8s client, metrics, metadata, wiring | counters, I/O | | not modelled (section 7) |

Interactions. The handlers call the cloud operations; those go through the project
lookup (a permanent metadata cache) and the rate limiter to vServer, which moves
volumes through their life cycle on its own. The handlers share the in-flight map,
the breakers, the gauges and the events on the PersistentVolume, each behind its own
lock or none: between any two of these accesses another handler can run. The sidecar
(external-attacher, csi-provisioner, external-resizer) retries until it gets OK.

Hard behaviours: handlers interleaving between locks; a sweep that deletes other
pairs' gauge series; commands that are carried out although their answer is lost; a
volume that moves between a read and the command; polls that must end; channels
without a receiver; reports applied out of order; restarts that lose the breaker; node
handlers that run on after kubelet gave them up; a paged list that moves between its
pages; taints that others write between the read and the patch; an informer that starts
after the check it should follow up; error codes that were overwritten on their way.
`PROJECT.json` "hazards" lists them line by line with the properties about each.

## 2. Modules

| Module | Models | State and steps |
|---|---|---|
| `Breaker` | `internal/breaker.go` | pure operators on an entry and on the map of entries; a method under the mutex is one operator |
| `DetachHandlers` | Publish/Unpublish handlers, `onDetach*`, `evictStaleDetachState`, `clearDetachStateOnAttach` | `pc` per handler; every lock acquisition is one step; the cloud call is a step with every outcome; `Restart` loses what is in memory |
| `ErrorClass` | Classify, effectiveCode and the wrappers of the delete path | pure operators: a cause gives the SDK errors it may arrive as, a wrapper stamps its code over one, Classify reads the result |
| `DeleteHandlers` | DeleteVolume, `onDelete*`, `probeVolumeDeletable` | as above, with the volume's state and snapshots at vServer and whether the project was resolved; EXTENDS `Breaker` and `ErrorClass`, every failed call has a cause and an error |
| `VServer` | the volume at the IaaS (external) and the driver's predicates on it | commands return a reply and the next volume |
| `CloudVolume` | AttachVolume, DetachVolume, IsDetachedFrom, DeleteVolume | one call per in-flight key: read, command, wait; EXTENDS `VServer`, which moves under it |
| `VolumeContract` | what those operations promise, without their steps (an abstract specification) | a call begins, may move the volume once, answers; `CloudVolume` implements it |
| `ModifyCoalescing` | callers, workers, their unbuffered channels | a send and its receive are one step of two goroutines |
| `MetaCache` | `metaCache.get` | a value is represented by the time it was read |
| `RateLimiter` | the limiter, the token bucket, DoRequest | `time.Now()` is read one step before the lock is taken |
| `CreateVolume` | CreateVolume, EitherCreateResizeVolume, the semaphore | volumes of a name are counted; a failed create was refused, carried out, or is carried out later |
| `VolumeModify` | the expand and modify handlers, ResizeOrModifyDisk, migrateVolumeToType, ModifyVolumeType | one call of each kind: get, read, migrate, resize, wait; the size and type a command carries are the call's, read earlier; sizes are asked in half GiBs and set in GiB |
| `NodeVolume` | the five node calls that change state, over the staging path, the target paths and the filesystem | one step per command of the mounter; what kubelet was told decides its next call; a handler may outlive kubelet's timeout |
| `Snapshots` | CreateSnapshot, DeleteSnapshot, GetVolumeSnapshotByName, CreateSnapshotFromVolume, waitSnapshotActive | one step per page; `server` is how vServer cuts and counts pages; `wish` and `holds` are csi-snapshotter's view |
| `NodeLifecycle` | removeNotReadyTaint and the PreStop hook, which meet in the node's taints | the remover's three requests; the hook's main goroutine, its informer and its event handler; others write taints and attachments |
| `DetachHandlersProofs`, `DeleteHandlersProofs`, `CloudVolumeProofs`, `CreateVolumeProofs`, `SnapshotsProofs` | theorems about the module each is named after, which it EXTENDS | section 5 |
| `CloudClientProofs`, `ModifyProofs`, `NodeProofs` | theorems about two modules each: `RateLimiter` and `MetaCache`; `VolumeModify` and `ModifyCoalescing`; `NodeVolume` and `NodeLifecycle` | section 5 |
| `MCDetachHandlers`, `MCDeleteHandlers` | breaker schedules and symmetry for TLC | |
| `MCCreate`, `MCNode` | `CreateVolume` and `MetaCache`, `NodeVolume` and `NodeLifecycle` for TLC | a behaviour follows one of the two machines |

Two machines that are proved about or run in one module share no name: the second one's `Init`,
`Next`, `Spec`, `vars` and `TypeOK` have the prefix `Cache` (`MetaCache`), `Merge`
(`ModifyCoalescing`) or `Life` (`NodeLifecycle`).

Abstractions. Error values are reduced to what the code branches on: the codes of the
switch in `DetachVolume`, terminal or not in `DetachHandlers`, and code, `sdkErrorCode` and
`statusCode` in `ErrorClass`, whose SDK errors stand for the ones the comments of
`errclass.go` report. An event is what the handler emits;
`emitVolumeEvent` swallows the failures of the Kubernetes API, so a property about
events is about what the handler sends. Log lines, messages and counters are left out,
the two `*_pending_seconds` gauges that alert are kept as sets of series. vServer is
modelled from the error codes and comments of the driver; each command may fail, or be
carried out with its answer lost. `VolumeModify` has its own volume (size, type, zone)
because `VServer` keeps only status and attachment; it assumes that vServer refuses to
shrink a volume or to change its zone by a resize. mount(8), findmnt and kubelet are
external to `NodeVolume`: mount(8) records the device and not the by-id link it was
given, findmnt names the filesystem around a path that is not mounted. client-go's informer
is external to `NodeLifecycle`: it lists once and then tells every deletion, as the object
or as a tombstone. vServer's list of snapshots is ordered by age and keeps that order.

A volume of `VServer` has one attachment: `vm` stands for `VmId` and for the list
`AttachedMachine`, which is taken to repeat it. `up` says whether that instance still exists. One
that was deleted may stay in the volume's record for a while; vServer then answers a detach with
ServerNotFound, which `DetachVolume` counts as done, and clears the record when it comes to know.
So the goal of a detach, in `VolumeContract` too, is a volume that is off the node or a node that
is gone.

In `DeleteHandlers` every call on the cloud begins with the project lookup, which may fail for
every cause, 404 included, until it has answered once (`resolved`, the permanent cache of
`project_scope.go`; another RPC may fill it at any time). The history `astray` of a call says
that the portal answered its probe 404. The states of a volume are what the two `CanDelete` tell
apart: a `parked` volume is on no instance, which satisfies the probe, in a status that the delete
itself goes on waiting for.

Refinement. `CloudVolume` instantiates `VolumeContract` with the call's `pc` mapped to idle,
running, ok or err, `reached` as what the call has seen and `spent` as whether it moved the
volume; `KeepsContract` is the specification of the contract, checked as a property. It says
that an OK was true at some time during the call, that a call moves the volume at most once
and only the way its VolumeAttachment asks, and that a VolumeAttachment goes only with a
successful detach.

## 3. Runs

| Run | Instance | What it shows |
|---|---|---|
| `detach_handlers` | 2 pairs, 2 calls, two breaker steps, clock 0..6, restarts | the safety of the detach path under every interleaving of locks, and that an expired pause ends in a real attempt |
| `cloud_volume` | 2 nodes and a delete on one volume, 2 faults | the operations implement `VolumeContract`, waits follow a running detach, the finalizer goes also when the volume or the instance is gone |
| `delete_handlers` | 1 volume, 2 calls, growing steps, 2 faults | the delete path, its probe, the project lookup, the class of its errors and its liveness |
| `delete_parked` (violation) | the same | finding 3 |
| `modify_coalescing` | 3 requests, 2 types or none | merging and termination of workers |
| `modify_late_sender` (violation) | 2 requests | finding 1 |
| `rate_limiter` | 2 requests, all outcomes, clock 0..8 | pacing of the rate and the 5xx spell |
| `create` | 3 calls, 3 names, 2 slots, 1 fault; beside them 3 callers of a cache, TTL 1, both kinds of cache | idempotence of create and the accounting of the gate; single flight, staleness, error freshness, waiters |
| `node` | 2 pods, 2 handlers at once, filesystem or block, 3 faults, timeouts, restarts or growths; beside them 2 own attachments and 1 of another node, 2 tries of the remover, 2 faults or interventions | pods see the volume, an unstaged volume is free to be detached, an OK means a full-size filesystem, teardown completes; taints and drains survive the remover, the hook ends |
| `volume_modify` | 1 expand, 1 keyed and 1 unkeyed modify, 3 types in 2 zones, 2 sizes, 4 requests, faults or timeouts | OK answers are true, a retried expand succeeds |
| `snapshots` | 2 names, one made before, 2 calls, 2 pages of 2, up to 4 snapshots, 2 faults or timeouts, every page size and both kinds of TotalPages | idempotence of the snapshot calls over a list that moves |
| `node_parked_hook` (violation) | 1 own attachment, no faults | finding 2 |

`create` and `node` run two machines each that share no state. What one can do does not depend
on where the other is, so it is enough that a behaviour follows one of them (`part`) while the
other stays in an initial state; the instances are those the machines would have on their own.

Where a safety property shares its run with the type invariant the two are one invariant:
`DeleteInv` (with `SnapshotsProtect`), `MergeInv` (`AcceptedAgree`), `LoadInv` (`SingleFlight`),
`BucketInv` (`BackoffLimitsBurst`), `GateInv` (`GateAccounting`), `MountInv` (`UnstagedIsFree`),
`ModifyInv` (`OKMeansReached`). The type invariants of `Snapshots` and `NodeLifecycle` (`LifeTypeOK`) carry a bound of
their own: a walk stays within its pages, and the completion channel is closed once.

Bounds and why they suffice. Two handlers are enough for every race between a handler
and "another handler": no step of the code involves three. Two pairs are needed because
the sweep of one pair's handler works on the other's entry. The breaker steps are scaled
(10 min .. 2 h become 1 or 2 ticks); the clock is long enough for a pair to trip after two
failures one tick apart, at 1, to fail again at 2, which takes it to the capped step and makes it
due at 3, to go stale at 6, more than twice the cap later, and to be evicted by the other handler. Three callers of the
cache give a leader, a waiter and a late arrival. In the rate limiter the constants keep
their order (cooldown < recover < quiet < hold cap) and the rate goes from 4 to 1 with
products rounded down; `IncreaseQPS` is 2 so that the cap at the ceiling matters.
`CHECK_DEADLOCK FALSE` is said where the model stops for a reason: the calls of
`ModifyCoalescing` are finitely many (and one may block for ever, findings 1 and 4); the
clock of `RateLimiter` ends; in `NodeVolume` the pods may all be gone and torn down, in
`VolumeModify` nothing more may be asked for. Two node handlers run at once only if
kubelet gave one of them up; a third would need a second timeout while the first handler
still runs, and would meet the same in-flight key. Three types are two in one zone and
one in the other: a plain type change and a migration. `delete_handlers` has one volume; what
handlers of two keys do to each other through the sweep is the same code as in
`detach_handlers`, which has two. Two pages of two are enough for a match on the first page,
on the second, and past the walk's end; the names may be looked up, made and deleted at once.
Two faults are a lost answer and a timeout, or a late create and its retry. Two own
attachments let the informer tell of one while the other is left, and `Snapshots` and
`NodeLifecycle` end when every wish is granted or the hook has ended (`CHECK_DEADLOCK FALSE`).

Fairness. A handler goroutine keeps running and its cloud calls end with the gRPC
deadline or the HTTP timeout: weak fairness per handler. The sidecars and
kubelet retry until they get OK, but a retry may meet an in-flight key again and again:
strong fairness of `DeleteVolume`, `CreateSnapshot`, `DeleteSnapshot`,
`ControllerExpandVolume` and `TearDown`. A poll for a snapshot ends with its context: weak
fairness of `WaitEnds`; nothing is assumed of how fast vServer makes a snapshot. The hook's
goroutines run on and a watch delivers what it saw: weak fairness of `Main` and `Informer`. vServer ends the operations it started and an operator repairs an
ERROR volume: weak fairness of `VolumeSettles` (nothing is assumed of a volume on a deleted instance: its detach ends by ServerNotFound); in `VolumeModify` a context that ends
before vServer does counts as an event, so that only finitely many do. `DetachHandlers` states no
fairness, and `DeleteHandlers` none of the clock: the pause need not run out. Restarts,
faults and what other users do are never fair.

Every property of a passing run has a mutant in `PROJECT.json`: a plausible bug of the
mapped definition that makes TLC report the property violated.

## 4. Findings

1. `modify_late_sender`: a caller that loaded the handler from the map may send after
   the worker drained the channel; the send has no context, so the RPC never ends.
2. `node_parked_hook`: the informer lists on a goroutine of its own. If the last attachment goes
   between the hook's first List and that one, no deletion is told, and the hook is parked until
   kubelet kills it, against the comment on `completionSignal` (`prestop.go:92`). A List that fails after
   the last deletion parks it too; `HookReleases` says that nothing else does.
3. `delete_parked`: the probe asks the driver's `CanDelete` (`entity/volume.go:45`: on no instance),
   the delete waits for the SDK's (a status). A volume parked on no instance in, say, DETACHING
   passes the probe, and the call then polls until its deadline, which the pause was to
   spare the worker (`controller.go:364`); the comment at line 389 says that the probe read the state
   the breaker was waiting for.

Two more are the exceptions that a property of a passing run names; the property says that
there is no other:

4. The permanently blocked coalescing worker (`WorkerEndsUnlessAbandoned`): the worker answers a
   request it rejects with a blocking send (`controller_modify_volume.go:103`). If that caller's
   context ended first, nobody receives: the worker never reaches its timeout again, the callers it
   accepted get no answer, and its map entry catches every later modify of the volume, although
   each volume's goroutine is said to follow a "timeout schedule of their own" (line 69). Without
   the exception TLC reports the property violated, with two requests of two types.
5. The unresolved project (`PauseIsOverruledByProbeOnly`): the probe of a paused delete takes every
   error of the class "not found" for a volume that is gone (`controller.go:805`). A portal that
   answers the project lookup 404 gives that class too: the call is let through although nothing was
   read of the volume, against "A failed probe says nothing about whether the IaaS would accept a
   delete" (line 373). It can happen only until the project was resolved once, and the delete that
   follows still makes the same lookup and waits for the volume to become deletable. Without the
   exception TLC reports the property violated.

Also met while modelling, most of them listed under "hazards":
- the sweep an attach runs can delete the gauge series of another pair that has just
  tripped; it comes back with the next failure;
- a first delete failure that is terminal opens the breaker without the event that
  announces the pause;
- a stage whose answer was lost is refused when it is retried;
- an expand that runs beside a type change sends the old type, and may migrate the volume
  back;
- 5xx answers at the floor keep moving `lastAdj`, so that the climb the hold cap promises
  (`ratelimit.go`, the comment at line 89) does not happen when they come more often than
  `rateLimitRecoverEvery`;
- a snapshot deleted while a lookup is past it moves the list up, and the lookup may miss
  the name: the create then makes a second one;
- a retried CreateSnapshot reports a snapshot ready that vServer is still making;
- a volume that goes to ERROR during a wait loses its code in `wrap(nil)`: the failure counts
  as stalled, and only the next RPC's read makes it terminal;
- a 404 that arrives as the SDK's catch-all means "gone" to the probe of a paused delete and
  an ordinary failure to DeleteVolume itself.

## 5. Proofs

The theorems below state `Spec => []P` or `Spec => A` for properties the runs check (and, beside
them, `PauseIsBounded` and `ClassifySeesThrough`, which no run checks by name), for every
value of the constants that the named assumptions admit. The argument is the same
everywhere: the property is seldom inductive, so each machine gets an inductive
invariant (`IInv`, or `CacheIInv`, `LifeIInv`, `MergeIInv`, `ModifyIInv` where two share a module; checked by TLC on the instance of the run before it was proved), proves
that `Init` implies it and that every step keeps it, and derives the property. The
bounds on clocks, faults and copies are constants of the theorems too: nothing depends on
their size.

### Detach handlers

`DetachHandlersProofs` proves, for every set of pairs and calls, every breaker schedule
and every clock bound, the type invariant, the safety properties of
`detach_handlers`, `PauseBounded` and the action property `DueDatesSpaced`. Two of them are the
two sides of the breaker's promise: `NoCommandWhilePaused`, no real detach during a pause,
and `ExpiredPauseCommands`, nothing but a real detach after it.

Assumptions: `BreakerAssumption` (the steps are positive and none exceeds the last one,
the trip thresholds are naturals), `PairAssumption`, `BoundAssumption`, and
`BudgetAssumption`: no handler outlives twice the capped step. The last one is needed:
a handler that took longer between its failure and `Since` could find the entry it just
recorded evicted by another call, and would then report a pause without its gauge.

The inductive invariant `IInv` is the conjunction of
- `TypeOK`, `CallsWellFormed` (an active call has a pair, an idle one has none) and
  `PairExclusive`: which handler may touch a pair;
- `SweepOnly`: keys are left to sweep only while a call is at a sweep;
- `AttemptWasDue`: a handler that is about to detach got Full for its own `now`, and the
  entry has not been tripped since, as only this handler may record a failure of the
  pair: implies `PausedNeverCommands`;
- `RecordIsFresh`: the entry of a handler that was told to probe, or that is between Failure
  and SetGauge, is due after the handler's own `now`, hence not stale for any other call's
  sweep;
- `ClearedIsClosed`: between Success and DeleteGauge the pair stays closed;
- `PauseBounded`, `GaugeNotOrphaned`, and `OpenIsReported`: an open pair was reported or
  its handler is on the way to report it, which is inductive where
  `OpenBreakerWasReported` is not.

`FailureFacts` and `EvictFacts` state once what the two breaker operations do to an
entry; `EntriesChange` says which steps change an entry at all.

### Node life

`NodeProofs` proves the three invariants of `NodeLifecycle` for every set of
attachments, every number of tries and of faults, from `LifecycleAssumption`. `TaintsKept` is
inductive: `TaintsChange` says that only the patch, the other writers and the end of the node
touch the taints, and the patch replaces what it has just compared. `DrainIsAwaited` is not; the
strengthening `CalmIsSeen` says that a hook that has yet to read a calm node has seen it calm,
and `TaintsKept` makes the drain taint that the hook reads the one that was put there.
`TriesLeft` bounds the remover's tries for the type invariant.

### Cloud volume operations and their contract

`ImplementsContract` is the refinement: initial states map to initial states, and every step
of `CloudVolume` is a step of `VolumeContract` or leaves the mapped variables alone. All the
steps of all the calls have one of few shapes (`Works`, `Starts`, `Acts` and the answers); the
lemma `Shapes` puts each action into one, and the simulation is proved shape by shape.
`IInv` adds to `TypeOK` the invariant `SpentIsOver`: a call whose command moved the volume
issues no other one, and a delete does not even wait. Without it the second attach that
follows a wait for a busy volume might be a second move of the volume, which the contract forbids.
`DetachWaitHasDetach` is inductive next to the two. Assumptions: `CloudAssumption`,
`NoNodeAssumption` (the keys and the absent node are no nodes, the faults are bounded).

### Node service

`NodeProofs` proves the three invariants of `NodeVolume`, from `NodeAssumption` (the
staging path is no target path). None is inductive: the handlers look at
little, so that what kubelet was told is true only because of who may touch what. `IInv` says
- `Placed`: the path and the steps of each kind of call;
- `KeyHeld`, `OneWaits`: one call has the in-flight key, kubelet waits for one call;
- `PathsUncertain`: kubelet takes no path for settled that a call with the key works on,
  although it may have given that call up (not claimed of the staging path of a block volume,
  which is not mounted and whose stage takes no key);
- `ExpandKnows`: an expand that kubelet waits for is of a path it knows to be there;
- `TargetsKnown`, `StageKnown`: what kubelet was told is true;
- `CallsAchieved`, `CallsResize`: what a handler has done by its place is still there, and an expand
  that kubelet waits for has found the volume and not the filesystem around it.

Every handler step before the answer has the shape `Leaves(c, to)`: it goes to `to`, touches
only its own path and only with the key, and has an `Outcome`. `WorkingKeeps` proves from that
shape alone that `IInv` stays; `AnswerKeeps` is where the outcome becomes kubelet's knowledge.

### Delete handlers and the class of errors

`DeleteHandlersProofs` proves the three invariants of `delete_handlers`, from
`DeleteAssumption` and `BreakerAssumption`. `VolumeIsHeld` says that a volume has one handler, so
that what it saw is overtaken only by vServer, users and evictions; `Witnessed`
says that a handler that is still deciding has in its history what the volume is like now (on no
instance, without a snapshot), which vServer and users may change under it. `OnlyTheProbeOverrules` follows
from it, with the portal's 404 to the probe (`astray`) as the one other way past an open breaker, which
finding 5 shows to be real; `CauseIsKnown` says
that a failure on its way to the breaker is classed terminal exactly when its cause needs a
human. `ClassifySeesThrough` is the lemma about `Classify` that the last one needs, and a
result of its own: for every SDK error of a cause, and every wrapper over it, the class is
terminal exactly when the cause needs a human.

### Create handler and gate

`CreateVolumeProofs` proves `GateInv` and `NoDuplicateVolumes`. The first is about
cardinalities: `OneMoves` says what moving one call between places does to the two
counts, which needs `IsFiniteSet(Calls)` (goroutines are finitely many); `Names # {}` is there
because an idle call has some name. For the second, `NameIsHeld` gives a call its name from
Insert to Delete, and `NoneFound` says that what its lookup found is still true when
it creates, unless vServer acted late. `PendingFailed` bounds the late creates by the faults.

### Rate limiter

`CloudClientProofs` proves `BucketInv` and the two action properties `MovesArePaced` and
`SpellHoldsRate`, from `RateAssumption` (positive rates and windows; the clock starts at 1). Reports
are applied out of order, each at most `MaxDelay` after its answer (`ReportsInTime`):
`MovesPast` says that the rate moves only when `lastAdj` does and `lastAdj` only forward,
`SpellIsKnown` that `lastSrvErr` is set back by no more than the delay. `TokensPaid` and `DebtIsBounded`
account for the bucket: what was let through since the last move was in the burst, came with
the rate since then, or is owed, by at most the reservation of `MaxWait`.

### Metadata cache

`CloudClientProofs` proves the three invariants of `MetaCache`, from `CacheAssumption`.
`LoadingRuns` says that the call object in the cache has no outcome yet, so that nobody joins one that has: with `StartsPast` it makes `FailureIsCurrent`,
that a failure is no older than any call that will get it, inductive. `LoadsInBudget`,
`ReadDuringLoad` and `StoredIsRecent` bound the age of what is stored.

### Modify coalescing

`ModifyProofs` proves `MergeInv` for every number of requests and every set of types, from
`MergeAssumption`. `AcceptedAgree` compares the type a worker merged with the types of the
callers it accepted, and a type is set when its request reaches the map: `AcceptedMade` says
that no worker has accepted a request that is yet to be made.

### Expand and modify handlers

`ModifyProofs` proves `ModifyInv`, from `ModifyAssumption`. That an OK was true needs what the
calls do between the read and the wait: `CallsCarry` says that what a call carries is what its
caller asked for, an expand at least the bytes csi-resizer waits for, the others the type they
name. `ObservedFits` then says that a call may be answered OK where it, or the volume as it is,
has what was asked for, and the step lemmas show it of every place
where the code takes a volume for good (the early return, the check after a migration, the poll). Stating this
showed that `reached` has to be judged by the request of the call a step leads to, which is why
`Wanted` takes that call and does not read the one before it.

### Snapshots

`SnapshotsProofs` proves the type invariant, `NoDuplicateSnapshots` and `HeldIsThere` for every
set of names and calls, every page size and number of pages, and a list of every length,
from `SnapshotAssumption` (positive pages; there are ids enough for what exists at the start).
`IInv` says
- `ListFits`: an id is given once; `Counted`: a create that is left to vServer was a fault;
- `Calling`: a running handler has its in-flight key for itself, and csi-snapshotter waits for
  one call of a name;
- `Wishing`: what a handler does is what csi-snapshotter wants if it still waits, the snapshot it
  found or made is still there, and the
  snapshot it was told has the name it was told for, and exists until the name is dropped;
- `Looking`: a walk has passed no snapshot of its name (`NotPassed`), a create that it led to
  has none to duplicate (`Absent`), and no name has two (`NoTwins`). Each of the three allows
  the excuses of the property: a walk that went blind, or a name that is `excused`.

`PagePlaces` says which places of the list a page shows, `LastPageSees` that a walk that
stops, by the count of pages or by a short page, has been shown the end of a list that is
`Listable` (it fits the pages, and an uncounted list is not cut into shorter ones), and `FirstFound` and `NoMatch` what a search of a page gives. `MakeList`,
`RemoveList` and `ActivateList` say what each change does to the list, and `RemoveLooks` is
where the list moves up under a walk. The duplicates are counted only in the last step, from
`NoTwins`. Nothing is proved by induction over the list: everything is said about its places.

### Only model-checked

Liveness under fairness, which the prover does not handle: `FinalizerRemoved`,
`ReleasedIsDeleted`, `WorkerEndsUnlessAbandoned`, `WaitersReturn`, `TeardownCompletes`,
`ExpandSucceeds`, `SnapshotServed` and `HookReleases`. The properties of the findings
(`NoRequestAfterRemoval`, `HookReleasesAlways` and `ProbeReadsAwaitedState`) are violated.

## 6. Plan

Modelled and checked: every component of section 1 that keeps state. Proved: every invariant
and every safety action property that a passing run checks, and the refinement of
`VolumeContract`. Left: a proof of the liveness properties, which needs a prover for fairness
and ENABLED, and the parts of section 7.

## 7. Not modelled

The Kubernetes client (an event that is emitted is a step of its handler), metrics and route
labels, the metadata service at start-up, driver wiring, flags, request validation and
parsing: pure I/O or functions of one request without state. Calls that only read:
NodeGetInfo, NodeGetVolumeStats, the ListSnapshots RPC, type and zone lookups.
