# pvc-migrate in TLA+

Specifications of the protocols of `pvc-migrate`: what its workflows write to a
Kubernetes cluster (and to S3), in which order, and how they recover when a pass
over a workflow dies half way. TLC checks small instances; TLAPS proves the
safety properties of the Lease, the cutover, the rename, the Pod migration, the
workflow names, the controller and the orphan cleanup for every instance.

## 1. The system

`pvc-migrate` moves filesystem PVC data and PVC identities between storage
classes, namespaces and clusters. A *workflow* is a record (a ConfigMap for CLI
sessions, a custom resource for the controller) with a phase and a checkpoint. A
*pass* (a CLI command or a reconcile) takes the workflow's Lease, reloads the
record, validates the cluster against the checkpoint, and continues from the
persisted phase. Everything else (the PV binder, PVC protection, provisioners,
workload controllers, users, other tools) runs beside it and is not under its
control.

| Part | Operations that change state | Modelled in |
| --- | --- | --- |
| Workflow Lease (`kube/session_lease.go`) | acquire, take over, renew, lose, release, delete | `LeaseOwnership`, `SessionLease`; proved |
| Switcher (`kube/switcher*.go`) | retain, delete claim, reserve volume, create bound claim, mark pair | `ClusterStorage`, `Switcher` |
| Offline migration (`app/migration_*`) | activate, complete, roll back, abort, clean up, delete | `VolumeCutover` (proved), `MigrationCleanup` |
| Rename, move (`app/rename_executor.go`, `move_executor.go`) | run, resume, abort, roll back, clean up, delete | `VolumeRename`; proved |
| Reservation, copy, promotion of one to the other (`app/reservation_*`, `copy_*`, `kube/reserver.go`, `reservation_copy_*`) | reserve, transfer, hand off, cancel, abort, clean up, delete | `ReservedStorage`, `Reserver`, `VolumeReclaim`, `ReservationRecords`, `ReservationExecutors`, `ReservationCopy` |
| Cleanup and reclaim (`app/volume_reclaim.go`, `source_release.go`, `kube/ownership.go`) | delete or give up a claim and its volume | with each workflow that uses it |
| Orphan cleanup (`app/orphan_cleanup.go`) | plan, confirm, plan again, delete or release | `OrphanCleanup`; proved |
| Pod migration (`app/*pod_migration_*`) | reserve, warm copy, pause, final sync, swap, resume, abort, roll back | `PodMigration` (without its cleanup); proved |
| Workload adapters (`controller/deployment.go`, `statefulset.go`, `grafana.go`, `vmcluster.go`, `kubeblocks_*.go`, `standalone.go`) | pause, verify, resume, roll back | `Workload`, `WorkloadReplicas`, `WorkloadOperators`, `WorkloadKubeBlocks`, `WorkloadStandalone`, `WorkloadManager` |
| Shared mounts (`kube/openebs_lvm.go`) | record, enable, restore | `PodMigration`, `BackupWorkflow` |
| Stores, names, session lock (`kube/workflow_*.go`, `app/workflow_lock.go`) | create, save, delete, collide, retry | `WorkflowNames` (proved), `ReservationRecords`, `WorkflowRecord` |
| Controller (`controller/workflow_*.go`) | admit, protect, plan, execute, abort, resume, finalize | `WorkflowRecord`, `WorkflowController`; proved |
| Cross-cluster copy (`crosscluster/`) | plan, reserve, transfer, promote, clean up, delete | `CrossClusterDestination`, `CrossClusterSession`, `CrossCluster` |
| Backup and restore (`backup/`, `objectstore/`) | lock, transfer, publish, restore, verify, delete | `ObjectStore`, `BackupWorkflow`, `RestoreWorkflow`, `RecoveryPoint` |
| Planner, copy engine, CLI, output | none of their own | see section 5 |

`PROJECT.json` lists the parts with their files and what is left out of each, the
hazards with the line where each bites, and the source lines behind every
definition.

What makes this code hard: passes die between a write to the cluster and the
checkpoint that records it; the API server may apply a call whose reply was
lost; another operator recreates a claim name that is free for a moment;
provisioners put a `Delete` policy back on a volume that was set to `Retain`;
Pods start on a claim after it was found idle; passes compete for a Lease and
each has its own idea of when it expires; records are edited, deleted and
recreated under the pass that works on them.

## 2. Modules

```
LeaseOwnership            what the Lease promises: one owner at a time, once each
  ^ implemented by
SessionLease              session_lease.go, with clocks, faults and late writes
  SessionLeaseProofs      inductive invariant, theorems

ClusterStorage            claims, volumes and the controllers of the cluster (external)
  Switcher                the methods of the Switcher, one operator each
    VolumeCutover         activation and rollback of a migrated volume
      VolumeCutoverProofs inductive invariant, theorems
      MigrationCleanup    abort, cleanup and deletion of the migration
    VolumeRename          rename and move of a claim, with cleanup
      VolumeRenameProofs  inductive invariant, theorems

ReservedStorage           the storage a reservation owns, one operator per write
  Reserver                what is checked before each write and noted after it
    VolumeReclaim         recovery, validation and choice of a cleanup
      ReservationRecords  the two records, their stores and the handoff
        ReservationExecutors   reserve, transfer, fail, abort
          ReservationCopy      cleanup, reconcilers, users, crashes

PodMigration              the workflow around the cutover of a workload's volumes
  PodMigrationProofs      inductive invariant, one lemma per kind of effect, theorems
Workload                  the workload and what every adapter shares
  WorkloadReplicas > WorkloadOperators > WorkloadKubeBlocks > WorkloadStandalone
    WorkloadManager       the manager under the executors that call it

ObjectStore > BackupWorkflow > RestoreWorkflow > RecoveryPoint
CrossClusterDestination > CrossClusterSession > CrossCluster
OrphanCleanup
  OrphanCleanupProofs     inductive invariant, theorems
WorkflowRecord > WorkflowController
  WorkflowControllerProofs   inductive invariant, theorems
WorkflowNames
  WorkflowNamesProofs     inductive invariant, theorems
MC*                       instances for TLC (the other runs need values only)
```

Common to all: `pc` (or the `pc` of a pass) is the next write or wait of the
running pass. A read and the write that depends on it are one step where the
write carries the UID or resourceVersion that was read, and a conflict is an
error of the pass. A wait is a step that is not enabled yet; its timeout is the
crash of the pass. A crash (`Crash`, `Interrupt`, `...Dies`) ends a pass at any
step and stands for process death, a lost Lease, a cancelled context and an API
error. Definitions called "Mutant" in their comment are plausible slips in the
code, each of which breaks one of the properties; no specification uses them.

**SessionLease.** The Lease object is a record with its resourceVersion. A
`Handle` is one acquisition: `main` is where its caller is, `loop` where its
renewal goroutine is. Every API call is two steps (read; conditional write), a
write may fail, be applied with its reply lost (`Lose`), or be delivered any
time later (`flight`, `Deliver`). Time is a counter; `Tick` lets the ticker and
the deadlines of the code expire. The other modules take the Lease as a mutex.

**ClusterStorage, Switcher.** A claim has a UID, a volume name, the session
annotation, and whether it is bound or being deleted. A volume has its policy,
the recorded original policy, the session and role labels, claimRef and phase.
`Controllers` are the binder, PVC protection, release and detach; `Reclaim` is
the provisioner; `StartPod` and `Intrude` are other users of the cluster.

**VolumeCutover.** One step per write or wait of `ActivatePVC` and
`RollbackPVC`, between `StartActivate`/`StartRollback` (preflight, transition)
and the transition that ends the pass. `phase` is the phase to resume from and
`failed` says that the record is in `Failed`; `status` is the checkpoint. With
`ActiveClaim = SourceClaim` this is a migration within a namespace, otherwise
the activated claim lands in another one. It starts from the state that
reservation and final sync leave.

**MigrationCleanup.** `job` is the cleanup pass, which works down the list of
`reclaimVolume`s that `prepareMigrationReclaimVolume` makes (the source and the
destination, one of them to be deleted or both to be given up), one API write per
step. `record` is the workflow object; with `record = "deleting"` the passes of
`FinalizeDeleted` abort the migration, run it to its end or clean it up. A
rollback is accepted after a cleanup that did not delete the record, so both are
explored together; a user may also delete the application's claim once the
migration is over, and `removed` remembers in which state.

**VolumeRename.** `RenamePVC` with its two directions (`From`/`To` follow the
phase), the executor's run, resume, abort, rollback and cleanup, and
`FinalizeDeleted`. The move executor takes the same steps.

**Reservation and copy.** `rec["R"]` and `rec["C"]` are the stored reservation
and the copy it may become, `w` the worker with the record it loaded; a save
succeeds only if the stored record is still that one. The handoff is the six
writes of `reservation_copy_crd_store.go`, resumed by the controller's recovery
or taken back when either record is deleted. Destination claim n is the n-th one
created under the planned name.

**PodMigration.** `rec` is the stored status: phase, `resumeFrom`, history, warm
passes, and per volume what is reserved, copied, active and rolled back. `wl` is
the workload: whether it is asked to run, its Pod, the pause owner, the marker
of a Pod recreated by the session, and what the Pod mounted; the application
writes for as long as its Pod exists. `tools` are the copy tools that exist, and
`sync` tells whether a destination has everything written so far. What happens
inside the swap of one volume is `VolumeCutover`; the history keeps no `Failed`
entry and no repetition, which its two readers skip anyway, and is not trimmed.

**Workload modules.** One controller object (`scale`, `pods`), the operator
object above it (`cr`: pause switch, owner annotation, replica count) and the
KubeBlocks side (`kb`: roles, OpsRequests) under one or two sessions. A session
keeps what the executors store: the plan, the checkpoint and the state in
memory. `Activate` stands for final sync and cutover. Each adapter is a module
of actions and predicates over these variables, named after its functions.

**RecoveryPoint.** `ObjectStore` is the bucket as `s3.go` uses it: a lock object
written and deleted conditionally on its ETag, data objects, the manifest. A
backup attempt is the tool Pod, the renewal goroutine and the executor; time is
counted in thirds of the lock's TTL. Backups are in different clusters and share
nothing but the lock. Restores write into one claim name, guarded by a lock
annotation; a claim that is created again has another UID and an empty volume.

**CrossCluster.** A `run` command plans first (`planCrossCluster`: capacity,
consumers, eligibility of source and destination class, policies) and creates its
session later, from what the plan saw. Each command loads the session, takes the
Lease and works on the copy it loaded; every save compares the resourceVersion
and passes `Validate`. `site` is what a pair of clusters is like and stays as it
is: whether the class binds on the first consumer (otherwise `BindImmediately`),
keeps its volumes, whether sources have a shared access mode, and how the callers
set `--online`.
The destination cluster's users and controllers are in
`CrossClusterDestination`. The conditions of the planner (`CrossClusterSession`)
decide which plans are made and nothing after that: they are a transcription of
`plan.go` and `policies.go` over small records, and no property depends on them.
The code checks both claims once per pass and then copies, with all its retries,
without holding either of them or looking at them again. Users may change both
meanwhile; `raced` has the volumes to which that happened.

**OrphanCleanup.** Starts from what a session of two volumes leaves when its
record is lost at any stage of each volume (`lost`). A pass plans, is confirmed,
plans again under the Lease and makes its writes one by one, each fenced by the
snapshot it planned from (`job`). An operator's own deletions and a workflow
that comes back under the name run beside it.

**WorkflowController, WorkflowRecord.** `WorkflowRecord` has the status
transactions as operators. The controller has three queues with a worker each,
fed by three event handlers; `pass` is the pass of each worker, with the UID it
loaded and whether its copy is still current. What the executors do to storage
is one step here.

**WorkflowNames.** A Rename object, a Move object and a CLI session under one
name: the collision checks, the Leases in their namespaces, the retry of stale
writes, the submission that waits and the cleanup that gives up its Lease before
it deletes the record. Each read of the API server is a step. A Rename locks in
the namespace of its claims (`app`); a Move in its session namespace, which is
the namespace of its source if it names none, so it may be `app` or `ops`; a
session beside its record, in either. A session may thus stand in the way of an
object of either kind, and the Lease of an object may be the one that a session
holds. What a cleanup does to claims and volumes is not here: `cleanup` is about
the record.

## 3. What TLC checks

| Run | Instance and bounds | Shows |
| --- | --- | --- |
| `session_lease` | 2 acquisitions, clock to 5, duration 3 with a second of 2 units, 1 fault | no two valid holders (`ValidHolderOwns`), no takeover before expiry (`NoTakeoverBeforeExpiry`), implements `LeaseOwnership` (`OwnershipSpec`) |
| `cutover` | 1 volume pair, 2 dying passes, 1 Pod, 1 foreign claim, 1 policy restore, 1 cleanup with any flags, 1 deleted claim, deletion of the object at any time | the copy in use is kept (`InUseKept`), the record, or its absence, is true of the cluster (`RecordTrue`), cutovers and deletions finish (`MigrationFinishes`) |
| `rename` | 3 dying passes, 2 Pods, 1 foreign claim, 1 policy restore, 2 rollbacks | the only copy is kept and the recorded claim leads to it (`DataServed`), the volume is given back as it was (`GivenBackWhole`), only own claims on protected volumes are deleted (`DeletesSafely`), rename, rollback and deletion finish (`Finishes`) |
| `pod_migration` | 2 volumes, 1 warm pass, 3 adapters, CLI and controller, with and without shared mounts and manual cutover, 2 interrupted passes, 1 failure | `NoLostWrites`; one copy at a time, the final one without the workload (`CopiesExclusive`); shared mounts recorded and a finished workflow whole (`NothingHalfDone`); never started on a mixture or beside a copy (`ResumesWhole`); runs and aborts get through where no marker is needed (`Recovers`) |
| `workloads` | every adapter; 1 session with a crash and a change from outside, or 2 sessions | Pods stay away during the cutover (`PauseHeld`), the workload is given back as found (`GivenBack`), a leader is switched first (`LeaderSpared`), retried operations end (`Settles`) |
| `reservation` | 1 volume, 2 claims under its name, up to 2 user requests, 1 claim deleted from outside, 1 crash | `NothingLeftBehind`, one of two records acts (`OneAuthority`), records are accepted again and the volume is delivered (`Delivers`), handoffs and deletions end (`Settles`) |
| `recovery_point` | 8 scenarios of 1 or 2 backups or restores with lost answers, crashes, edits, expiring locks, 2 attempts | what is published is whole (`Published`), `SharedWhileUsed`, what is restored is the manifest and created claims are given up (`Restored`), `DeletionFinishes` |
| `cross_cluster` | 1 volume, 2 processes, 2 claims, 2 Pods; 3 sites: late binding with 2 faults, the same with kept volumes and 1 fault, immediate binding with shared sources that are in use or not from the start, `--online` or not, and 1 fault | `TransferredWhole`, sessions end without a trace and copies can be cleaned up (`CleansUp`), delivered claims are never deleted (`DeliveredKept`) |
| `controller` | 1 name with reuse, 3 kinds, 3 queues, 2 faults, 1 abort request, retry window 2 | storage never without its finalizer (`NothingUnfinalized`), passes act on the object and request they were admitted with (`ActsAsAdmitted`), no wake-up is lost (`Answered`) |
| `orphan_cleanup` | 2 volumes lost at any stage, 1 dying pass, 1 intervention, a workflow that comes back | the served copy stays, freed volumes are whole, the Lease goes last (`CleansWhole`), `LiveSpared`, reruns finish (`StorageFreed`) |
| `names` | 2 records ever created, 1 mishap, 1 session record at a time, submissions with the session namespace `ops` | one works at a time (`OneAtWork`), `ReportedOwn`, `CleansOwn`, `CollisionResolves` |
| `pod_source_loss` | 1 volume, controller, 1 interrupted pass | expected to fail: see below |

Bounds. One crash leaves any step unfinished, a second strikes the recovery.
Foreign claims, Pods and policy restores are disturbances that do not depend on
each other, so one or two of each meet every step. Two volumes make a half-done
swap or cleanup possible; one warm pass gives both kinds of copy. A Lease
duration that is not a whole number of seconds makes the rounding matter, and a
clock of 5 leaves room for expiry and takeover. Where all disturbances at once
are too many states, the instance is a union of scenarios that share a budget
(`Budgets`, `Scenarios`), which is part of the initial state. Runs switch
deadlock checking off because a finished workflow stops.

Properties that are conjunctions (`RecordTrue`, `DataServed`, `Delivers`, ...)
name their parts, each of which has its own comment; so do the cases a property
leaves out, which are the disagreements below. `InUseKept` and `RecordTrue` also
hold of a migration into another namespace (`ActiveClaim = act`, 2.2 million
states), where `MigrationFinishes` does not: an activation that dies between
reservation and creation can be neither resumed nor rolled back there. The type invariants of the
modules (`TypeOK`) are kept as definitions; those of the seven components of
section 4 are proved.

What the properties leave out:

- `TransferredWhole` speaks of the volumes whose claims nobody changed between
  the validation of a pass and the end of its copy. For the others it does not
  hold, and the code has nothing that would notice.
- `CollisionResolves` lets a deleted object wait while a session record stands
  beside its Lease: the locker refuses the Lease then, and the finalizer stays
  until the session is cleaned up.
- `OneAtWork` keeps a session and an object apart if they share a Lease; a Move
  beside a session in another namespace is kept off by the checks before its
  passes only.
- `CleansOwn` is about the record that a cleanup deletes. A stale write makes the
  pass run again, after the Lease was given up, and finalize the claim and the
  volume once more; no property is about that second finalization.
- `ReportedOwn` tells objects apart by UID; a spec that is edited in place is in
  `WorkflowController` only.
- `LiveSpared` is about the storage of a workflow that came back. The stale
  record is deleted without a precondition; here nothing else replaces it.
- `LeaderSpared` is about one session whose switchover fails, is repeated or is
  not carried out. The code reads the role once; a leadership that somebody else
  moves onto the instance after that is not noticed.
- `Published` assumes that the requests of one acquisition of the S3 lock take
  less than a third of its TTL together (six minutes or more): `ExpiresAt` counts
  from the first of them, and no timeout bounds them.

Fairness. A running pass takes its next step; the cluster's controllers do their
work; an unfinished workflow is run again, and a deleted one is reconciled until
its finalizer goes. The reconcile loop requeues unfinished and deleted objects,
and the documentation asks the user to resume a session. Strong fairness is used
where a pass must get the Lease or the worker between others (`FinalizeDeleted`
and the recoveries of a handoff, `Deletions` of `RecoveryPoint`, the reruns of an
orphan cleanup): the code retries these with a backoff for ever, or the command
is repeated. Nothing is assumed about Pods, foreign claims, the
provisioner or users, nor that a user aborts, rolls back or approves a cutover.
In `names` reconciles are requeued and a command that runs comes to an end, which
frees its Lease; nobody has to start one. Liveness
does not cover a name that a foreign claim took: that is an error which the code
reports and cannot resolve.

### Disagreements with comments and documentation

`pod_source_loss` is a run that TLC refutes, with the quotation in
`PROJECT.json`: the controller takes a claim that its own interrupted activation
removed for a lost source, and fails the workflow on every reconcile.

The modules also state what other comments promise and the code does not keep;
naming the formula in the configuration of the module's run gives the
behaviour. None of them is assumed by a property that passes.

- *Lease.* A holder's own late renewal makes it give up the Lease
  (`GiveUpOnlyOnLoss`; `session_lease.go:433` against `:368`), and renewal retries
  go on past the expiry (`RetryUntilExpiryOnly`).
- *Rollback of a migration.* A rollback that dies after reserving the source
  volume of an unrecorded activation is refused on every resume
  (`RollbackFinishes`). A source claim that is being deleted counts as restored
  (`RestoredServes`, with `MaxRemovals = 0`). Consumers are not looked for when the record is `Failed`
  (`RollbackSparesConsumers`). After a cleanup with policy `Delete` and without
  `--finalize`, a rollback is still accepted, deletes the active claim and then
  misses the source volume (`RollbackHasSource`), although the flag `--finalize`
  is what "close[s] the rollback window"
  (`cli/offline_migration_lifecycle_commands.go:608`).
- *Cleanup of a migration.* The staged destination of an aborted migration is
  deleted although the source claim is terminating or another one of its name
  (`StagedCopyKept`): `migration_reclaim_volume.go` asks for the name where its
  comment speaks of the source PVC identity. A volume that is kept is protected
  by what was read when the pass was prepared; a claim deleted after that leaves
  a released volume with the policy `Delete`. After `cleanup --finalize` with
  policy `Keep`, the deletion of an object whose plan says `Delete` is refused
  for ever; after a finalizing pass that died and a rollback, the original policy
  is recorded anew as `Retain`, with the same end (`UnusedGivenUp` and
  `OriginalLost` in `MigrationFinishes`).
- *Pod migration.* Aborts and runs that depend on a marker end in a conflict
  when the pass died next to its write: standalone Pods before their deletion,
  VictoriaLogs after its owner was cleared, shared mounts recorded twice
  (`AbortSettles`, `RunSettles`; "Session commands resume from their persisted
  phase after interruption", the repository's `README.md`).
- *Workload adapters.* The probe of a VMCluster is not stored by a rollback, nor
  before the pausing phase, so `paused` stays set (`ProbeLost`), and its affected
  Pods are not recorded. A legacy KubeBlocks Cluster whose pass died with the
  Stop request open is stopped after the abort, and nobody starts it; a rerun
  after the Stop succeeded cannot finish its pause. Owner marks cleared before
  the end was saved refuse the rerun (`Settles`). Grafana records only the
  selected Pod. The role of an instance without a candidate is checked at
  planning only.
- *Reservation.* A volume provisioned with `Retain` and not labelled yet is not
  recognised and its deletion does not finish (`Unrecognized`).
- *Backup and restore.* A restore that would create its claim cannot be deleted
  while a foreign claim has the name (`Stuck`). A tool left behind by a dying
  backup may write after the lock expired (`Harmless`).
- *Cross-cluster.* The cleanup of a reservation that stopped between binding and
  checkpoint records a volume without its UID, and the save is refused by
  `Validate` ("destination PV identity is incomplete"): `ReservationCleanable`;
  `crosscluster/reservation_cleanup.go:217`. What a pass creates that had loaded
  the session before it was cleaned is left (`unrecorded`).
- *Controller.* An abort request may never be answered (`AbortAnswered`), a
  failed workflow is run again without a resume request (`ResumeExplicit`), a
  failure may be recorded with an earlier phase to resume from
  (`ResumesWhereItStopped`; `workflow_execution.go:545`), and a backup request that
  was edited and put back is retried for ever (`EditAnswered`). Renames and moves
  planned by the controller never freeze the hash of their request.
- *Orphan cleanup.* One dead pass wedges a session in which a volume without
  destination claim stands beside a reserved one, and a pass that dies after the
  last volume and before the stale record is refused on its rerun (outside of
  `Recoverable`). Sessions lost in the middle of an activation are refused.
- *Names.* Session commands look at ConfigMaps only, and a Move does not check for
  collisions again under its Lease; the model shows that one of two objects still
  never acts beside the other. A stale record write reruns a cleanup without the
  Lease, although `RetryStaleWorkflowWrite` says that "the pass must already hold
  the session lease"; the record is still the right one (`CleansOwn`).

## 4. What TLAPS proves

For any sets of handles, claims and volumes, any timing, and any number of
crashes, foreign objects, retries and records:

| Module | Theorem | States |
| --- | --- | --- |
| `SessionLeaseProofs` | `TypeCorrect` | the variables have their types |
| | `HolderSafe` | `ValidHolderOwns` |
| | `TakeoverSafe` | `NoTakeoverBeforeExpiry` |
| | `ReleaseSafe`, `ForeignSafe` | only an own Lease is released, a foreign one never written |
| | `Implements` | every step is a step of `LeaseOwnership` or a stutter |
| `VolumeCutoverProofs` | `TypeCorrect` | the variables have their types |
| | `SourceSafe` | the source volume is never reclaimed |
| | `OriginalSafe` | the policy to put back stays on record |
| | `DeletionsRetained`, `DeletionsOwn` | claims are deleted only on retained volumes, and only own ones |
| `VolumeRenameProofs` | `Invariance` | the inductive invariant |
| | `ServesTheData` | `DataServed` |
| | `GivesBackWhole` | `GivenBackWhole` |
| | `DeletesOnlySafely` | `DeletesSafely` |
| `PodMigrationProofs` | `Invariance` | the inductive invariant |
| | `NoWriteIsLost` | `NoLostWrites` |
| | `CopiesAreExclusive` | `CopiesExclusive` |
| | `NothingIsLeftHalfDone` | `NothingHalfDone` |
| | `ResumesOnlyWhole` | `ResumesWhole` |
| `WorkflowNamesProofs` | `Invariance` | the inductive invariant |
| | `OneWorksAtATime` | `OneAtWork` |
| | `ReportsItsOwn` | `ReportedOwn` |
| | `CleansOnlyItsOwn` | `CleansOwn` |
| `WorkflowControllerProofs` | `Inductive` | the inductive invariant |
| | `NeverUnfinalized` | `NothingUnfinalized` |
| | `PassesActAsAdmitted` | `ActsAsAdmitted` |
| `OrphanCleanupProofs` | `Inductive` | the inductive invariant |
| | `CleansOnlyLeftovers` | `CleansWhole` |
| | `ReturnedWorkflowSpared` | `LiveSpared` |

The theorems of the cutover are about `VolumeCutover!Spec`: the cutover and its
rollback without cleanups, of which the `cutover` run checks the composition with
`MigrationCleanup`. The others are about the specification that the run checks,
without its fairness. TLC found the inductive invariants of all but the first two
to hold in every state of their runs.

*Lease.* `ValidHolderOwns` is not inductive: it says nothing of writes under
way. The invariant adds that every pending or late write either carries a stale
resourceVersion or is sound for the Lease as it is now, that resourceVersions and
UIDs are never ahead of the server's counter, and that a handle's deadline is not
later than what the Lease it wrote grants. The lemmas `QuietStep`, `StoreStep`
and `DeliverStep` reduce each action to one of three kinds of effect.

*Cutover.* That the source volume is kept needs: until it is retained its
original claim is bound to it and not being deleted (`SourceInPlace`); the steps
that may follow the retention find it retained (`Pinned`); marks and recorded
policies come together (`Marked`); a UID recorded in the plan belongs to one
location (`RecordedClaims`); and what a rollback is about to delete is a claim
of the session on the destination volume (`Retiring`). The invariant is split
into a part about the cluster, kept by every single write (one lemma per write),
and a part about the running pass (one lemma per group of steps).

*Rename.* The volume can be lost only if it is released while its policy is
`Delete`. So: without `Retain` it refers to a claim that exists and is not being
deleted (`InPlace`); a reference to the UID of an existing claim means that the
volume is bound (`RefOK`); the only claim that is being deleted is the one that
`RenamePVC` moves away from (`DyingInv`); and a pass that is past `ensureRetain`
finds the volume retained (`StepInv`). That the volume is given back needs that the policy to give back is
in force or annotated on the volume at every step (`Whole`, `Marked`), also when
a provisioner puts `Delete` back after the rename; that the recorded claim leads to the
data needs what each phase of the record implies about the two names
(`RecordInv`).

*Pod migration.* A pass that dies leaves the record, the tools and the workload
at any stage, so nothing may be said of the place of a pass alone: the invariant
speaks of the phase to resume from (`ResumePhase`), of the label the pass is at
or returns to after a detour over the shared mounts (`Dest`), and of which labels
occur in which phases (`Control`). Under that: tools belong to the one attempt
that the record counts (`ToolsInv`), a finished final copy is equal to its source
until the swap is over (`CopyInv`), claims are swapped only between `Activating`
and `RolledBack` (`SwapInv`), the workload rests from `Paused` to `Activated` and
during a rollback that has begun (`RestInv`), and is given back before a phase is
terminal (`GivenBackInv`), which an abort decides from the last two entries of
the history. The lemmas about single kinds of effect (a write of the record only,
of the tools only, of the workload only) reduce the actions to a few forms.

*Names.* A copy with the UID and the version of a stored object is that object
(`CopyInv`). An object claims the name from the moment its reconcile has seen no
object of the other kind until the plan it may save is gone or refused, and the
other kind had to be absent for that (`PlanInv`). Whoever relies on the state of
the session record holds the Lease beside it, and so does an object whose Lease
is there (`LockInv`), which is why they never act together. UIDs come from one
counter, so a UID ends with the spec it was created with (`ReportInv`).

*Controller.* A pass decides on a copy and writes later. Its copy is current
(`fresh`), and then what the decision read still holds of the object, or it is
stale: then its write is refused, unless it finalizes, and a finalizing pass can
only meet its own object, which is being deleted and stays so, or one with
another UID (`PassOK`). What the decision relies on must be kept by every write
of others, so `RecordOK` says what holds of the object between any two writes:
a deletion timestamp needs the finalizer, a plan has a phase to resume from. The
steps under the session Lease are those of one worker (`PassOK`), UIDs are never
given out twice (`UidsGiven`), and work that was begun belongs to an object that
is protected (`NothingUnfinalized` itself).

*Orphan cleanup.* A pass follows a plan made from a snapshot while the cluster
changes. For every volume that no operator touched the invariant gives its place
in the dismantling: which volume its claim serves, what labels and remembered
policies say, how the destination claim goes with its volume (`VolumeOK`); for
the pass, what is still to be taken down at the step where it stands (`JobOK`,
`PlanOK`), which controllers, operators and a dead pass leave true. That the
plan guesses the owner of an unclaimed volume rightly is a counting argument: a
session with one source volume left has no other it could belong to
(`OnlySource`).

The assumptions are the named `ASSUME`s on the constants: claims and volumes of
the plan are distinct, bounds are natural numbers, durations are positive, a Pod
migration has at least one volume, an orphaned session finitely many.

Only model-checked:

- all liveness properties (`MigrationFinishes`, `Finishes`, `Recovers`, `Settles`,
  `DeletionFinishes`, `Answered`, ...): fairness and `ENABLED` are outside the
  prover's reach;
- the safety properties of `MigrationCleanup`, the workload adapters, reservation
  and copy, backup and restore and the cross-cluster copy. Nothing in principle is in the way of a
  proof: these modules are the ones with the most actions over one shared state,
  and their inductive invariants have not been worked out;
- two action properties: `LeaderSpared` and `DeliveredKept`, of the same modules.

## 5. Not modelled, and why

- The namespaced offline migration repeats the cluster-scoped one over another
  kind: the same calls in the same order, with `ActiveClaim = SourceClaim`.
- The cleanup of a Pod migration and the convergence of its deletion run the
  functions of `MigrationCleanup` over several volumes after the workload was
  resumed; composing them with `PodMigration` exceeds what TLC explores.
- Several volumes of a reservation, a copy or a cross-cluster session in
  parallel: they share the record and nothing else, and are reserved and
  transferred one by one.
- The fitting of nodes, capacities, quotas and topologies (`planner/`): predicates
  over resource lists without state of their own; of this planner only the
  conditions of a rename and the choice of the adapter are here.
- Transfer, checksums and probes inside the tool Pods, their manifests, network
  policies and scheduling (`copyengine/`, `kube/tool_*.go`): a tool is an object
  that starts, writes, ends or is left behind.
- Listing and printing, flags and prompts, generated API code, credentials.

What would come next: the inductive invariants of the cleanups in
`MigrationCleanup`, with the storage lemmas of `VolumeCutoverProofs`, and of the
cross-cluster session; a composition of `WorkflowController` with the executors
of one kind in place of its single execution step.
