# A TLA+ model of VolSync

VolSync is a Kubernetes operator that copies the contents of persistent volumes.
A `ReplicationSource` describes what to copy and when, a `ReplicationDestination`
where a copy arrives; a *data mover* (restic, rclone, rsync, rsync-tls, syncthing,
kopia) does the copying in a Job. This directory holds TLA+ models of the
operator's control logic, of its movers and of the repository that the restic mover
writes to, TLC configurations that check them on small instances,
and TLAPS proofs. `PROJECT.json` maps every definition to the lines it models and
lists runs, mutants, hazards, findings and theorems.

Line references below are relative to `src/internal/controller/` unless they begin
with another directory.

## 1. The system

### Components

| Component | State it keeps | Operations | Module |
|---|---|---|---|
| Synchronization state machine (`statemachine/`) | `lastSyncTime`, `lastSyncStartTime`, `nextSyncTime`, `lastManualSync`, conditions in the resource's status | `Run`: derive the state, call the mover, move to the next state, compute the requeue | `ReplicationMachine` |
| ReplicationSource and ReplicationDestination controllers | nothing between reconciles; a copy of the resource during one | read from the cache, run the machine, update the status | `ReplicationMachine`, `SnapshotImages` |
| Snapshot images (`volumehandler/`, `utils/cleanup.go`) | VolumeSnapshots with owners and labels, an annotation of the destination PVC | create, publish, mark, relinquish, delete | `SnapshotImages` |
| Volume populator (`volumepopulator_controller.go`) | PVC prime, labels and owner references on snapshots | label, populate, rebind, clean up | `SnapshotImages` |
| Copy triggers (`volumehandler.go`, `utils/copy_trigger_annotations.go`) | four annotations of the source PVC | wait, take the copy, report, time out | `CopyTrigger` |
| KopiaMaintenance controller (`kopiamaintenance_controller.go`) | failure counter and last tag in the status, a finalizer, a CronJob, Jobs | manual and scheduled maintenance, blocking after failures, deletion | `KopiaMaintenance` |
| Restic, Kopia, rclone, rsync, rsync-tls movers (`mover/`) | a Job, the data volume and its snapshot; `lastPruned`, `lastUnlocked`, cache limits in the status | `Synchronize`, `Cleanup`; the Job is created, updated, rebuilt, deleted | `MoverJob` |
| Create-or-recreate helper (`utils/reconcile.go`) | none | update an object, or delete it where a field is immutable | `MoverJob` |
| Syncthing mover (`mover/syncthing/`) | the configuration of a daemon | fetch, compare, publish, report | `Syncthing` |
| restic's repository lock (`src/mover-restic/restic/`) | lock files, two goroutines per process | lock, refresh, monitor, unlock, remove stale locks | `RepositoryLock`, `ResticLock` |
| restic's repository (`src/mover-restic/restic/`) | packs, index files, snapshots | backup, restore, forget, prune | `ResticRepository` |
| Legacy kopia maintenance manager, service accounts, pod logs, affinity, custom CA, metrics, platform detection | none or derived | look-ups and idempotent creation | not modelled |
| `kubectl volsync` | a local relationship file | client commands | not modelled |
| Entry scripts, diskrsync-tcp | data | transfers inside a pod | a pod that ends; restic's commands in `ResticRepository` |

### How they interact

The parts share no memory; they meet in objects of the API server. A reconcile
reads the resource **from an informer cache that may be behind**, decides, creates
or deletes other objects, and writes the resource back. An `Update` carries the
`resourceVersion` read and is refused if the resource has changed since; a merge
patch (KopiaMaintenance) carries none. What wakes a reconcile is a watch event, a
returned error, a requested delay, or the informer's resync every ten hours. The
user edits the same objects. The machine calls its mover through `Synchronize` and
`Cleanup` (`mover/mover.go`), and the movers call the volume handler, which may
wait for a copy trigger. The ReplicationDestination publishes a snapshot that the
volume populator consumes, concurrently with the cleanup that retires it. The pods
of restic movers, in several namespaces or clusters, share one repository; they
meet only in its files, lock files among them. The Syncthing mover shares the
daemon's device list with the daemon itself.

### What is hard

- **Stale reads.** A reconcile may repeat a whole phase on an old copy, with
  effects on Jobs and snapshots, before its status write is refused.
- **Lost writes and restarts** between the effect (a Job, a snapshot, a PVC
  annotation) and the status that records it.
- **Edits in flight**: the trigger, the schedule, a label or an annotation changes
  between the decision and the write.
- **Wake-ups**: a reconcile that returns neither an error nor a delay is only
  called again by an event.
- **Several owners of one snapshot**, deletion through garbage collection, and
  list-then-act loops.
- **A Job stands for a whole synchronization**: it is built from the spec and the
  status of one reconcile and judged by those of another.
- **Files without transactions**: restic creates and deletes files one at a time,
  any process may stop or fall asleep after each, and a lock is a file too.
- **Handshakes with a person** through annotations (copy triggers, manual tags,
  reset-failures).

The properties each component needs follow in section 2; `PROJECT.json` lists the
hazards at their lines with the properties that would catch them.

## 2. The modules

Each module is parameterised by `CONSTANTS` with named assumptions; its `MC`
module gives the small instances. Operators whose comment begins with "Mutant:"
are plausible mistakes, used only to confirm that each property can fail. The
definitions below a comment "Why they hold" are the parts of the inductive invariants
of section 5; `XProofs` holds the proofs about module `X`.

### `SyncCycle`, the abstract specification

What a watcher of the status may rely on: synchronizing and cleaning up alternate;
a synchronization is reported as over only after a transfer succeeded during it;
a manual tag is acknowledged only at that moment; the next one starts only after
the leftovers of the last one are gone. Both `ReplicationMachine` and
`SnapshotImages` are shown to implement it, so the second may abstract the
triggers of the first to a free choice.

### `ReplicationMachine`

`api` is the resource in the API server, `cached` the informer's copy, `local` the
reconcile's. `cachedCurrent` and `localCurrent` say that a copy carries the current
`resourceVersion`; comparing the values would not do, since a status can return to
an earlier value. `pc` walks through the reconcile: `Get` (idle to run), one action per branch
of `Run` (`doInitialState`, the `Synchronize...` actions, `CleanupThenSync`,
`CleanupThenIdle`, the error paths), `timeToNextSync` (requeue), `UpdateStatus` or
`UpdateStatusFails` (write). The clock is a natural number; a valid cronspec is
"every p ticks" and `Next_` is `cron.Schedule.Next`. `BadCron` stands for the
cronspecs the CRD's pattern accepts and the parser refuses. The mover is kept to
its contract as the Job-based movers implement it.

Three auxiliary variables record history: `runCovers` and `covered` (the sync
began after the last edit of the tag) and `credited` (this Job's success is
already in `lastSyncTime`).

### `SnapshotImages`

Three parties act on VolumeSnapshots: the reconcile of a ReplicationDestination,
the populator's reconcile of each PVC, and the user's do-not-delete label. Every
Get and List of snapshots is answered by the operator's informer cache, `shown`,
which each snapshot reaches in a step of its own (`SnapshotCacheSync`); where the
code lists snapshots and acts later, the listed copies are kept in `seen`. An update
or a delete carries the version that was read and is refused if the snapshot has
changed since (`Accepted`, `Rejected`). So the cleanup may not find a snapshot that
was marked a moment ago, and `NoSnapshotLeaked` says that such a one stays marked for
the next cleanup.
Kubernetes' garbage collector, PV controller and snapshot controller are external
actions.

Assumptions: the PVCs and PVC prime (not the snapshots) are read up to date; the PV
controller binds the PVC before it reports PVC prime as lost.

### `CopyTrigger`

The annotations `copy-trigger`, `latest-copy-trigger`, `waiting-since` and
`latest-copy-status` of one source PVC, the copy (a snapshot, or a clone that is
handed to the Job unbound), the Job and the phase. Each reconcile passes through
waiting, creating, checking and recording, as in `ensureSnapshot` and
`ensureClone`. `UserSetsAt` says at which statuses the user sets a new value.

Assumption: the mover's Job outlasts the lag of the PVC cache.

### `KopiaMaintenance`

The resource (`km`, `cached`, `local`), the finalizer, the manual Jobs by tag
(`jobs`) and as the cache shows them (`shown`), the CronJob (`cron`, `shownCron`),
and what the CronJob's history shows. Everything the CronJob is brought in
line with is one value, its *shape*. `Update`s need the current version (`local =
km`: every write changes the value); the status goes out as the difference between
the wanted status and the **cached** one (`Patched`), so a newer status can be set
back. The clean-ups before a Job or the CronJob is started delete what the cache
shows; what they pass over, not being shown it (`Hidden`) or because a deletion fails
and is only logged, goes into the auxiliary variable `overlooked`, and
`OneMaintenance` says that nothing else can overlap.

Assumptions: each tag is used once; a succeeded Job is seen before its TTL of an hour.
`OneMaintenance` speaks of Jobs, not pods.

### `MoverJob`

The Job of the five Job-based movers under a reconcile that reads it from a cache.
`setup` chooses mover, role and copy method, so that one model asks the same
questions of all of them; what differs is in `Template` (what the spec and the
status put into the pod), `HasFailed` (the backoff limit, or the Job's condition for
Kopia), `RecordedStatus` (unlock, prune, cache limits) and `KopiaPaused`. A template
that differs from the Job's means deletion and creation in a later reconcile
(`RecreateJob`). Pods, snapshots and the user are the environment: a pod fails or
succeeds, an image is cut while the volume is being written or not (`dirty`), a pod
of a deleted Job may linger (`orphan`). `moved`, `pruned` and `unlockedFor` are
history.

Three assumptions are switches, so that their effect can be looked at: `HastyUser =
FALSE` (the user waits for `lastUnlocked` before changing `unlock` again, and edits
the rest at any time of a sync except while its snapshot is being made or while the
cache still shows a Job that has been deleted), `CacheMissesCleanup = FALSE` (the
deletion of a Job reaches the cache before the next sync starts), `OrphansLinger =
FALSE` (the pod of a deleted Job is gone before the next one starts).

### `RepositoryLock`, `ResticLock`

`RepositoryLock` is the promise: shared or exclusive, never both. `ResticLock`
is how restic keeps it with files: list, create, wait, list again
(`NewLock`, `LoadLocks`, `CreateLock`), a refresher that replaces the file
(`RefreshTick` to `Refreshed`), a monitor that forces a refresh or cancels
(`MonitorExpires`, `CheckExistence` to `CommitLock`), the unbuffered channels between
the two, and the removal of stale files by `restic unlock`. Times are ages in ticks.
In standby the wall clock goes on and the monotonic one does not. The mapping says
that a process has the lock while its file exists, or the replacement it has checked.
The names of files are hashes; a new file gets a name that nobody remembers
(`FreshIds`), and `Ids` bounds how many there are.

Assumptions: a step of an awake process takes less than a tick; a storage that has
listed a file shows it to every later listing (object storage with read-after-write
consistency). Two more are switches, since nothing in the code ensures them.
`TickAtDeadline = FALSE`: the refresher handles no tick between the moment the
monitor's deadline has passed and its forced refresh. The monitor polls once a second,
so a tick in that second, or one pending when a standby began, may be handled first;
`TRUE` lets it, with the two results of section 6. `SleepAt`: the control points at
which a standby may begin.

### `ResticRepository`

Packs, index files and snapshots as sets, and each process's memory of them, under
`RepositoryLock`. A backup loads the index, saves the blobs it misses, flushes packs
and index, writes the snapshot. Prune plans (`decidePackAction`, `keepBlobs`,
`PlanPrune`), removes unindexed packs, repacks, writes the new index, deletes the old
index files and then the packs. Every write and every deletion is a step, after which
the process may crash or its storage fail. Sizes are free choices.

### `Syncthing`

One `Synchronize` is fetch, compare, publish, report; the daemon may add an
introducer's devices between any two of them. The user lists strings: several may
stand for one device, some for none (`DeviceIDFromString`, a constant function). As in
the code they are compared unparsed with the ids the daemon prints
(`syncthingNeedsReconfigure`, the check for the own id, `validatePeerList`) and parsed
where the configuration is changed, which fails on a string that is no id
(`ListIsWrong`). Assumption: the introduced devices are not listed as well (see
section 6).

## 3. The runs

| Run | Configuration | Checks | Distinct states |
|---|---|---|---|
| `machine_safety` | 1 tag, cronspecs every 2, every 3, unparsable or none; clock to 4, 1 edit, 2 faults | `TypeOK`, `PhaseInv`, `ImplementsSyncCycle`, `NoEarlyScheduledStart` | 1.0 M |
| `machine_live` | 2 tags, valid cronspecs, a user who waits for the acknowledgement; clock to 3, 2 edits, 1 fault, fairness | `ManualSyncIsFresh`, `OneCreditPerJob`, `ManualTriggerCompletes`, `ScheduledSyncStarts` | 196 k |
| `images_safety` | 3 snapshots (3 syncs), 1 PVC, 1 label, 1 fault | `TypeOK`, `LatestImageAvailable`, `NoSnapshotLeaked`, `ProtectedNotDeleted`, `ImplementsSyncCycle` | 2.9 M |
| `images_in_use` | 2 snapshots, 1 PVC | `InUseNotDeleted` **violated** | |
| `copy_protocol` | 2 values, 3 syncs, a user who answers when asked, 2 faults, fairness | `TypeOK`, `TriggerServed`, `TimeoutIsDue`, `CopyNeedsNewTrigger`, `TriggerAnswered` | 21 k |
| `maint_runs` | 2 tags, 2 shapes, every edit; 2 events (edits, runs of the CronJob, failing calls, restarts), fairness | `TypeOK`, `OneMaintenance`, `RunningJobKept`, `TriggerProcessed`, `CronJobFollowsSpec`, `DeletionCompletes` | 274 k |
| `mover_jobs` | all movers and roles, except Kopia restoring into a snapshot; 2 unlock values, 2 configurations, clock to 3, 2 edits, 3 faults, fairness | `TypeOK`, `UnlockAcknowledged`, `ImageConsistent`, `CreditIsEarned`, `SyncEnds` | 977 k |
| `kopia_restore` | Kopia restoring into a snapshot | `ImageConsistent` **violated** | |
| `restic_locks` | 2 processes, stale after 6 ticks, refresh every 2, 1 fault (crash, standby or storage) | `TypeOK`, `WorkerHoldsFreshLock`, `ImplementsRepositoryLock`, `ForcedRefreshIsHonest` | 497 k |
| `restic_lock_deadlock` | 1 process, the ticker may fire at the deadline | `WorkerHoldsFreshLock` **violated** | |
| `restic_repository` | 2 processes, 2 blobs, 3 packs, 3 index files, a crash anywhere | `TypeOK`, `SnapshotsComplete`, `RestoreFindsBlobs`, `IndexedPacksExist`, `PruneReclaims` | 3.5 M |
| `syncthing` | 4 devices (self, an introducer, a peer, an introduced one), 6 strings to list (the first three, another spelling of self and of the peer, one that is no id), lists of at most 2, 2 addresses, 1 edit, 2 faults, fairness | `TypeOK`, `SettlesDown` | 248 k |

Eleven more configurations are kept beside the runs. They ask a question that a run
above asks with other bounds, or reproduce a divergence of section 6:

| Configuration | Module | Result |
|---|---|---|
| `ImagesSharing.cfg` | `MCSnapshotImages` | two PVCs populated from one snapshot: `ProtectedNotDeleted` holds (2 snapshots, no label, no fault: 531 k states) |
| `MachineBadCron.cfg` | `MCReplicationMachine` | `OneCreditPerJob` is violated once a cronspec does not parse |
| `ImagesKept.cfg` | `MCSnapshotImages` | `KeptSnapshotsSurvive` is violated |
| `ImagesLeftBehind.cfg` | `MCSnapshotImages` | `CleanupLeavesNothing` is violated without a fault: the cleanup's list does not show the mark |
| `CopyEager.cfg` | `MCCopyTrigger` | `TriggerServed` is violated by a user who does not wait to be asked |
| `MaintenanceReset.cfg` | `MCKopiaMaintenance` | `ResetClearsFailures` is violated |
| `MaintenanceOverlap.cfg` | `MCKopiaMaintenance` | `ExclusiveMaintenance` is violated by two edits, without a fault: the clean-up's list does not show the Job just created |
| `MoverHasty.cfg` | `MCMoverJob` | `ImageConsistent` is violated by an edit of the spec while the snapshot is made |
| `ResticStandby.cfg` | `MCResticLock` | `LostForGood` is violated: after a standby the pending tick is handled before the monitor's poll |
| `SyncthingSpelling.cfg` | `MCSyncthing` | `SettlesInAnySpelling` is violated by an id in another spelling |
| `ResticPruneMissing.cfg` | `MCResticRepository` | `NoStepLosesData` is violated after a pack was lost |

**Why these bounds are enough for the cases of interest.** Two faults allow a failure
of the retry of a failed step, which is what the error paths are about; one is enough
where most of what goes wrong, a cache that is behind and the conflicts it causes, is
not counted as a fault (`images_safety`, `maint_runs`). The clock reaches 4 with
periods 2 and 3, so a schedule falls due, is missed and falls due again while a sync
runs. Three snapshots are one published, one marked and one being made. Three syncs of
copy triggers with two values reuse a value, so a left-over annotation shows.
`maxConsecutiveFailures = 1` reaches blocking with one failure; two events reach
"manual, then schedule", "new tag while the old one runs" and an edit followed by a
failing call. With `backoffLimit = 1` three faults reach the limit and lose a status
write besides; two configurations let an edit rebuild the Job in the middle of a sync.
The lock's ticks keep the ratio the code fixes between refresh interval, refresh
timeout and staleness (`TimeAssumption`), so that a lock can be refreshed, miss
refreshes, be forced, and become stale; two processes are what a conflict takes. Two
blobs and three packs allow a pack that is partly used, its repacked copy, and a
concurrent backup's pack; three index files allow an index to be rewritten while two
exist. The fourth Syncthing device is introduced by the second while the user replaces
one list by any other; one edit does, because Init has every list already. Every
action fires in some passing run. Deadlock is checked except in `KopiaMaintenance`,
whose resource may be removed for good. Symmetry is used for the processes of
`restic_locks` and for processes and blobs of `restic_repository`, where no liveness
is checked.

## 4. Fairness

controller-runtime serves its queue, retries errors, fires delays and delivers
watch events for as long as the operator runs: weak fairness of the reconcile's
steps, `CacheSync` and `TimerFires`. Jobs end and copies become ready: weak
fairness of the external actions. Beyond that:

- `ReplicationMachine`: strong fairness of `SynchronizeStartsJob`, since a mover may
  wait for volumes but not for ever. A pending delay fires although the bounded
  clock stops; faults are finitely many.
- The informer's **resync is not part of the fairness**. `ManualTriggerCompletes`
  and `DeletionCompletes` do without it. `ScheduledSyncStarts` names it as a
  hypothesis, because `timeToNextSync` reads the clock after `shouldSync` did: if
  the deadline passes in between, the delay is not positive, no requeue is asked
  for, and the next resync (10 hours) is what starts the sync. `TriggerProcessed`
  and `CronJobFollowsSpec` of `KopiaMaintenance` need it for the errors that are
  logged without a requeue.
- `KopiaMaintenance`: again and again all caches are up to date between two
  reconciles (`[]<>CaughtUp`). They may be behind when one begins, but the requeues of
  minutes do not find them behind every time. `CronJobFollowsSpec` supposes moreover
  that from some time on they are up to date whenever a reconcile begins: if one of
  them were behind each time, the patch that follows the refused update of an old
  CronJob could set the failure counter back each time.
- `MoverJob`: weak fairness of the reconcile as a whole, of the cache, of pods
  starting and ending and of the storage cutting snapshots. Nothing is assumed of
  the clock and of edits; a pod that ends may end in failure as long as faults
  last.
- `Syncthing`: weak fairness of the mover, which asks to be called again every 20
  seconds, and of each introduction, which a connected introducer repeats.
- `ResticLock` and `ResticRepository` state safety only.

## 5. What is proved

Every safety property of a passing run, invariant, action property or refinement, is
a theorem: TLC checks it on the instance of section 3, TLAPS for every value of the
constants that satisfies the named assumptions of the modules. Where a theorem needs
more, it says so with an `ASSUME` of its own; the third column names the configuration
or the switch that shows what happens without it.

| Module | Theorems (property) | Hypothesis beyond the module's assumptions |
|---|---|---|
| `ReplicationMachineProofs` | `TypeCorrect` (`TypeOK`), `PhaseCorrect` (`PhaseInv`), `RefinesSyncCycle` (`ImplementsSyncCycle`), `ScheduleRespected` (`NoEarlyScheduledStart`), `ManualSyncCorrect` (`ManualSyncIsFresh`) | none |
| | `CreditedOnce` (`OneCreditPerJob`) | every cronspec parses (`MachineBadCron.cfg`) |
| `SnapshotImagesProofs` | `TypeCorrect`, `ProtectionHolds` (`ProtectedNotDeleted`), `LatestImageStays` (`LatestImageAvailable`), `NothingLeaked` (`NoSnapshotLeaked`), `RefinesSyncCycle` (`ImplementsSyncCycle`) | none (what `NothingLeaked` does not say: `ImagesLeftBehind.cfg`) |
| `CopyTriggerProofs` | `TypeCorrect` | none |
| | `CompletedMeansServed` (`TriggerServed`), `CopiesNeedTriggers` (`CopyNeedsNewTrigger`), `TimeoutsAreDue` (`TimeoutIsDue`) | the user sets `copy-trigger` while VolSync waits for it (`CopyEager.cfg`) |
| `KopiaMaintenanceProofs` | `TypeCorrect`, `NeverTwoMaintenances` (`OneMaintenance`), `RunningJobsSurvive` (`RunningJobKept`) | none (what `OneMaintenance` excepts: `MaintenanceOverlap.cfg`) |
| `MoverJobProofs` | `TypeCorrect` | none |
| | `SyncsAreEarned` (`CreditIsEarned`) | `~CacheMissesCleanup` |
| | `UnlocksHappen` (`UnlockAcknowledged`) | also `~HastyUser` |
| | `ImagesAreConsistent` (`ImageConsistent`) | also `~OrphansLinger`; `~HastyUser` here means no edit while the snapshot is made or the cache shows a deleted Job (`MoverHasty.cfg`); no Kopia restore into a snapshot (`KopiaRestore.cfg`) |
| `ResticLockProofs` | `TypeCorrect`, `ForcedRefreshesAreHonest` (`ForcedRefreshIsHonest`) | none |
| | `WorkersAreLocked` (`WorkerHoldsFreshLock`), `RefinesRepositoryLock` (`ImplementsRepositoryLock`) | `Undisturbed`: a standby begins between two refreshes or before a forced one, and no tick is handled past the monitor's deadline (`ResticLockDeadlock.cfg`, `ResticStandby.cfg`) |
| `ResticRepositoryProofs` | `TypeCorrect`, `RepositoryInvariant`, `SnapshotsStayComplete` (`SnapshotsComplete`), `IndexStaysSound` (`IndexedPacksExist`), `RestoreNeverFails` (`RestoreFindsBlobs`), `PruneReclaimsAll` (`PruneReclaims`) | none |
| `SyncthingProofs` | `TypeCorrect`, `WritesWhatIsListed` (`WritesTheList`, in no run) | none |

Beyond types, hardly any of the properties is inductive as it stands. What makes them so:

- **`ReplicationMachine`.** A reconcile working on an old copy deletes or creates Jobs
  while the status says something else. `PhaseInv` is the strengthening:
  `VersionsInv` says what a current version implies; `JobInv` relates the Job to the
  recorded phase; `LagIsHarmless` says that a copy which disagrees with the API
  server about the phase is exactly one transition behind, and that the Job is then
  in the one state in which acting on the old phase changes nothing: not yet started
  if the API server is synchronizing, finished and waiting for cleanup if it is
  cleaning up. `Outcome` says what a reconcile that may still write is about to do.
  On top of it, `ScheduleInv` and `FreshInv` say that a start about to be written was
  decided on the schedule and the tag that are still in force (otherwise the write is
  refused), and `CreditInv` that a Job's success is in `lastSyncTime` only from the
  write that ends the sync.
- **`SnapshotImages`.** `ViewInv`: every status write rests on the current version, so
  the cache and the reconcile show this version or the one before, and in the latter
  case nobody has acted on the current one (`Shows`). `StatusInv` then says what each
  phase guarantees of the published image (`Held`: neither garbage nor deletable;
  `Unmarked`: not in the next list of the cleanup), `OwnerInv` that all other owned
  snapshots are marked, `StepInv` what the reconcile has established so far. All of
  this is decided from the snapshots as the cache shows them: `CacheInv` says what an
  old copy still tells of the snapshot (`Tells`: labels and an ownership it shows were
  not lost without a trace, one it shows as gone is gone), and `AnnotatedInv` why
  the snapshot in the making is not created twice nor touched by a populator.
- **`CopyTrigger`.** `Behind` orders the versions of the PVC within one sync and says
  which of them a copy can still show; `EndInv` that the end of the Job shows that the
  cache has caught up; `WaitInv` that no visible `waiting-since` is older than this
  sync's wait.
- **`KopiaMaintenance`.** `SwitchInv`: between the clean-up and the creation in one
  reconcile the other kind of maintenance stays absent, but for what the clean-up has
  overlooked, since nobody else creates it.
  `TagInv`: a tag is used once, so once the Job of the tag in force exists neither the
  cache nor the reconcile can still hold an earlier tag.
- **`MoverJob`.** `EarnedInv` and `UnlockInv` speak of the Job in the API server and
  of the one in the cache: a finished Job of this sync has moved data, pruned or
  unlocked if its template says so, and the value it unlocks for has not been changed.
  For images, `VersionInv` says that a Job in the cache, while there is one in the API
  server, is built like it; `ImagingInv` that from the snapshot's creation on, the
  template that spec and status ask for is the finished Job's, so that none is rebuilt
  under a snapshot; `QuietInv` and `SnapInv` that a snapshot is only asked for when
  nothing writes and nothing will.
- **`ResticLock`.** `ClockInv`: while the monitor's clock has not run out, the lock
  file is at most as old as that clock shows, and a refresh creates its file before
  it removes the old one (`HeldInv`); steps other than the wait between refreshes take
  no time (`PromptInv`). Since `refreshabilityTimeout < StaleLockTimeout`
  (`TimeAssumption`), nobody may remove the file of a process that works. That a
  process which has lost its file finds out at the forced refresh
  (`ForcedRefreshesAreHonest`) needs none of this: the file is looked for before and
  after it is replaced. `PairInv` is the
  argument for exclusion: of two processes that have created their files and listed
  the others, the later one has seen the earlier one's file; if it is there the flags
  are compared, and if it is gone the check is made again (`Unclear`). So each step
  maps to `Acquire` (`StartGoroutines`), to `Release` or to a stutter.
- **`ResticRepository`.** `LockInv` takes the exclusion from `RepositoryLock`:
  deleting steps run alone, and steps beside others only add files. `BackupInv` says
  that every blob of a backup is indexed, written or still to be written; `PruneInv`
  that the packs prune leaves (`Surviving`, the same set before and after the index is
  rewritten) hold every used blob; `ReclaimInv` that they hold nothing else;
  `RestoreInv` that nothing a restore has loaded goes away.
- **`Syncthing`.** `PreparedInv`: what is about to be written was made from a list all
  of whose strings parse, or equals it already.

The refinements compose by hand: `ResticRepository` runs over the abstract lock that
`RefinesRepositoryLock` shows `ResticLock` to implement, and `ReplicationMachine` and
`SnapshotImages` implement the same `SyncCycle`.

Only model-checked: the liveness properties (`ManualTriggerCompletes`,
`ScheduledSyncStarts`, `TriggerAnswered`, `TriggerProcessed`, `CronJobFollowsSpec`,
`DeletionCompletes`, `SyncEnds`, `SettlesDown`), which need fairness and `ENABLED`
and are outside the prover's reach. No module declares a recursive operator, and no
result rests on an induction over data.

## 6. Findings

With a run each:

1. **`images_in_use`** The cleanup looks for the populator's prefix in the label
   values; the populator puts it in the key (`utils/cleanup.go:252`). A snapshot
   labelled but not yet owned by PVC prime can be deleted.
2. **`kopia_restore`** The cache limits are recorded as soon as the restore Job has
   completed (`mover/kopia/mover.go:1587`), while its snapshot is still being taken.
   The next reconcile therefore builds another pod template, deletes the finished
   Job as immutable and restores a second time into the volume under the snapshot.
3. **`restic_lock_deadlock`** The refresher waits to tell the monitor of a refresh
   while the monitor waits to ask for one (`repository/lock.go:176` and `:230` under
   `src/mover-restic/restic/internal/`): the lock becomes stale and nothing cancels
   the work.

Reproduced by the further configurations of section 3:

4. **`MachineBadCron.cfg`** `lastSyncTime` is set before the cronspec is parsed
   (`statemachine/machine.go:199`); after a parse error the sync stays open and
   the same Job is recorded again once the cronspec is repaired. The API says
   "lastSyncTime is the time of the most recent successful synchronization"
   (`src/api/v1alpha1/replicationsource_types.go:451`).
5. **`ImagesKept.cfg`** A do-not-delete label set between the two halves of the
   populator's cleanup does not save a snapshot that the ReplicationDestination
   has already relinquished (`volumepopulator_controller.go:712`, against
   `src/CHANGELOG.md:303`).
6. **`CopyEager.cfg`** A copy trigger set while the Job of the previous sync runs is
   recorded as served without a copy (`volumehandler/volumehandler.go:594`, against
   `src/docs/usage/pvccopytriggers.rst:201`).
7. **`MaintenanceReset.cfg`** The reset-failures annotation is removed and the
   counter is not reset (`kopiamaintenance_controller.go:509`): `Update` ignores the
   status. The event at `:685` promises the reset.
8. **`ResticPruneMissing.cfg`** In a repository that has lost a pack, a prune that
   repacks takes a blob as kept because a pack that no longer exists still lists it
   in the index (`repository/prune.go:131-137`), does not copy it, and deletes the
   other copy. Prune refuses to run where a used blob is only in missing packs, not
   where a missing pack and an existing one both list it.

9. **`ImagesLeftBehind.cfg`** The cleanup lists the marked snapshots from the cache
   (`utils/cleanup.go:89`), moments after the previous image was marked. If the mark
   is not there yet the sync ends with that snapshot still owned and marked; the
   cleanup of the next sync takes it, so one snapshot more than intended is kept for as
   long as the schedule's interval.
10. **`MaintenanceOverlap.cfg`** `cleanupOldManualJobs` lists Jobs from the cache
   (`kopiamaintenance_controller.go:1791`). If the tag is changed right after the Job
   of the previous one was created, that Job is not listed and runs beside the new one;
   likewise beside the CronJob after a change to a schedule. Its comment (`:1787`)
   says that it "removes old manual jobs when trigger changes".
11. **`ResticStandby.cfg`** After a standby, the tick that was pending may be handled
   before the monitor's next poll (`repository/lock.go:161-177`). The refresher's own
   check uses the monotonic clock, which stood still, and `Refresh` does not look for
   the old file: a lock that others have removed as stale is made anew, and the work
   goes on although the lock was free in between. A comment there says "the refresh
   timeout _must_ expire if the host was too long in standby".
12. **`SyncthingSpelling.cfg`** The strings of the peer list are compared unparsed with
   the ids the daemon prints (`mover/syncthing/syncthing.go:82-118`). A valid id in
   another spelling (lower case, without dashes) always counts as different: the
   devices are written anew in every call, every 20 seconds, and what an introducer
   has added since the read is undone each time. For the same reason the own id in
   another spelling passes the check at `mover/syncthing/mover.go:735`, and one
   device in two spellings passes the check for duplicates (`:706`).
13. **`MoverHasty.cfg`** An edit of the spec that changes the pod template, made while
   the snapshot of a finished transfer is being taken, deletes the finished Job and
   runs it again under the snapshot (`utils/reconcile.go:60`), for every mover. An edit
   and its reversal while the cache still shows a deleted Job do the same.

Seen while modelling, neither a contradiction of a written statement nor in reach of
a passing run:

- A paused Kopia mover reports its synchronization as complete at once
  (`mover/kopia/mover.go:170`); the others hold the Job at parallelism 0.
  `CreditIsEarned` therefore speaks of owners that are not paused.
- `status.failed >= backoffLimit` is reached one attempt before Kubernetes gives a
  Job up (`mover/restic/mover.go:607` and its counterparts): the last attempt is not
  waited for. The sync still ends (`SyncEnds`).
- A prune that becomes due between the two readings of the clock in one reconcile
  is recorded as done without having run (`mover/restic/mover.go:638`); it is made
  up for one interval later. `CreditIsEarned` speaks of prunes due when the
  reconcile began.
- With `HastyUser = TRUE`, `UnlockAcknowledged` fails: the pod template says that an
  unlock is due and not for which value. With `CacheMissesCleanup = TRUE`,
  `CreditIsEarned` fails: the Job of the last sync is taken for this one's. With
  `OrphansLinger = TRUE`, `ImageConsistent` fails: a pod of a deleted Job still writes.
- `SleepAt` extended to the inside of an ordinary refresh (`create`, `remove`, `notify`),
  to a pending tick (`ticking`) or to `NewLock` breaks `WorkerHoldsFreshLock` or
  `LostForGood`: `lock.Time` was taken before the standby, and neither `Refresh` nor the
  start of the goroutines looks at the old file or the clock again
  (`repository/lock.go:160-176`). That is why two of the theorems assume a standby to
  begin elsewhere (`Undisturbed`); `ForcedRefreshesAreHonest` does not.
- Syncthing: a listed peer that an introducer also introduces may be kept by the
  daemon as introduced, after which the mover writes its configuration again in every
  call; a changed address of a listed peer is not pushed, since only ids are
  compared (`mover/syncthing/syncthing.go`); and `ensureNecessaryResources` returns
  neither objects nor an error while it waits for a PVC (`mover/syncthing/mover.go:171`),
  although its comment (`:167`) announces an error.

Some hazards of `PROJECT.json` are met by a passing run only in part. An unparsable
cronspec, a user who changes the copy trigger or the unlock value without waiting, a
Job in the cache after its cleanup, a pod that outlives its Job, an invalid spec under
deletion and a tick past the monitor's deadline are excluded there by a constant, a
guard or a hypothesis, because with them the property fails; the note of each hazard
names the switch or the configuration that shows it. A cached copy of the PVC that
still says `InProgress` from the sync before (`volumehandler/volumehandler.go:570`) is
excluded by the assumption on the length of the mover's Job.

## 7. What is not modelled

Metrics, events, logging and conditions no decision reads; the contents of pod
templates beyond what is compared or recorded, storage classes, affinity, service
accounts and names; keys, Services and addresses of the rsync movers, which are
created idempotently before the Job; Kopia's identities and policies; the transfer
of data by rclone, rsync, Kopia and Syncthing; `kubectl volsync`; the legacy kopia
maintenance manager, which `isMaintenanceEnabled` disables; several
ReplicationSources that share one PVC with copy triggers, which the code itself calls
unsupported. Of the KopiaMaintenance controller: conditions, the cache PVC, and pods
that outlive a deleted Job. Of restic: formats, encryption, chunking, compression,
the local cache, the commands the mover never runs (`check`, `repair`, `copy`,
`mount`, ...), and same-host detection of dead processes.

The repository carries restic and a copy of the minio client under
`src/mover-restic/`, about two thirds of its Go code. Of that code only the parts on
which the safety of the mover's repository rests are modelled: back ends, file system
walks, key management and output are sequential code without a protocol of their
own.

## 8. Plan

Done: `SyncCycle`, `ReplicationMachine`, `SnapshotImages`, `CopyTrigger`,
`KopiaMaintenance`, `MoverJob`, `RepositoryLock`, `ResticLock`, `ResticRepository`,
`Syncthing`, and proofs of the safety properties of all of them. Left:

1. `MoverJob`: that its credited synchronizations are steps of `SyncCycle`.
2. `KopiaMaintenance`: an invariant on the failure counter (what is patched back is
   never below the failures seen since the last success).
3. `SnapshotImages`: `LatestImageAvailable` also for images that the user has labelled
   do-not-delete and the populator has not yet used.
4. `ResticLock`: how long two processes can both hold the lock after a standby with a
   pending tick (section 6).
