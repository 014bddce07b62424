------------------------------ MODULE MoverJob ------------------------------
(***************************************************************************)
(* The Job of a Job-based data mover (restic, rclone, rsync, rsync-tls and *)
(* Kopia), from the moment the state machine asks the mover to synchronize *)
(* to the moment it has cleaned up.  Each Synchronize builds the Job again *)
(* from the spec and the status; a pod template that came out different    *)
(* cannot be updated, so the Job is deleted and the next reconcile creates *)
(* another (utils/reconcile.go).  The Job is read from the informer cache. *)
(*                                                                         *)
(* The Job controller, the pods, the CSI driver and the clock are external *)
(* and act between any two steps of the operator.  A reconcile is one step *)
(* here: what it reads besides the Job comes from one copy of the owner,   *)
(* whose resourceVersion guards the status it saves at the end, so an edit *)
(* in between makes that save fail (`saved` = FALSE below).                *)
(*                                                                         *)
(* Left out: volumes, Services, Secrets and service accounts that are not  *)
(* ready yet (the reconcile then ends without effect), logs and metrics.   *)
(***************************************************************************)
EXTENDS Naturals, FiniteSets

CONSTANTS
  Setups,         \* the movers that are looked at: [kind, role, copy]
  Unlocks,        \* values of spec.restic.unlock
  NoUnlock,       \* the empty string
  Confs,          \* values of the spec that end up in the pod template
  NoConf,         \* for Kopia: no cache capacity is set
  NoJob,
  Limit,          \* backoffLimit: 8 for restic and Kopia, 2 for the others
  PruneInterval,  \* pruneIntervalDays
  MaxTime, MaxEdits, MaxFaults,
  HastyUser,      \* edits while a snapshot is made, or unlock not waited for
  CacheMissesCleanup,  \* the cache may show a Job that Cleanup has deleted
  OrphansLinger   \* pods of a deleted Job may overlap with those of the next

Kinds == {"restic", "rclone", "rsync", "rsynctls", "kopia"}

ASSUME SetupAssumption ==
  Setups \subseteq [kind : Kinds, role : {"source", "destination"},
                    copy : {"Direct", "Snapshot"}]
ASSUME BoundAssumption ==
  /\ Limit \in Nat \ {0} /\ PruneInterval \in Nat
  /\ MaxTime \in Nat /\ MaxEdits \in Nat /\ MaxFaults \in Nat
ASSUME NullAssumption == NoUnlock \notin Unlocks /\ NoConf \notin Confs
ASSUME SwitchAssumption ==
  /\ HastyUser \in BOOLEAN
  /\ CacheMissesCleanup \in BOOLEAN
  /\ OrphansLinger \in BOOLEAN

VARIABLES
  setup,    \* the mover under consideration
  spec,     \* the owner's spec: paused, unlock, conf
  status,   \* the owner's status: unlocked, pruned, limit
  phase,    \* the state machine: "synchronizing" or "cleaningup"
  job,      \* the Job in the API server
  cache,    \* the Job in the informer cache
  orphan,   \* a pod of a Job that has been deleted is still running
  dirty,    \* the last write to the data volume was not a whole transfer
  snap,     \* the VolumeSnapshot named by the data PVC's annotation
  image,    \* what status.latestImage holds
  now, edits, faults,
  moved,    \* history: a pod of this synchronization has succeeded
  pruned,   \* history: one that pruned has
  unlockedFor  \* history: values of unlock under which `restic unlock` ran

ownerVars == <<spec, status, phase>>
jobVars   == <<job, cache, orphan>>
dataVars  == <<dirty, snap, image>>
history   == <<moved, pruned, unlockedFor>>
bounds    == <<now, edits, faults>>
vars == <<setup, ownerVars, jobVars, dataVars, history, bounds>>

Templates == [conf : Confs \cup {NoConf}, unlock : BOOLEAN,
              prune : BOOLEAN, skip : BOOLEAN]
Jobs == [template : Templates, parallelism : {0, 1}, failed : 0 .. Limit + 1,
         active : BOOLEAN, condition : {"None", "Complete", "Failed"}]
ASSUME NoJobAssumption == NoJob \notin Jobs

\* "torn": cut while the volume was being written; "stale": the volume has
\* received another transfer since it was cut
Cuts == {"clean", "torn", "stale"}

FlagsOK ==
  /\ orphan \in BOOLEAN /\ dirty \in BOOLEAN
  /\ moved \in BOOLEAN /\ pruned \in BOOLEAN

ValuesOK ==
  /\ setup \in Setups
  /\ spec \in [paused : BOOLEAN, unlock : Unlocks \cup {NoUnlock},
               conf : Confs \cup {NoConf}]
  /\ status \in [unlocked : Unlocks \cup {NoUnlock}, pruned : 0 .. MaxTime,
                 limit : Confs \cup {NoConf}]
  /\ phase \in {"synchronizing", "cleaningup"}
  /\ job \in Jobs \cup {NoJob}
  /\ cache \in Jobs \cup {NoJob}
  /\ snap \in {"none", "created"} \cup Cuts
  /\ image \in {"none"} \cup Cuts
  /\ now \in 0 .. MaxTime /\ edits \in 0 .. MaxEdits
  /\ faults \in 0 .. MaxFaults
  /\ unlockedFor \subseteq Unlocks

(* The type invariant. *)
TypeOK == FlagsOK /\ ValuesOK

-----------------------------------------------------------------------------
(* Building the Job. *)

IsSource == setup.role = "source"

shouldUnlock == spec.unlock # NoUnlock /\ status.unlocked # spec.unlock

\* status.pruned is the time of creation, 0, until the first prune
shouldPrune(current) == current > status.pruned + PruneInterval

shouldSkipCacheConfig == status.limit # NoConf /\ status.limit = spec.conf

PlainTemplate ==
  [conf |-> spec.conf, unlock |-> FALSE, prune |-> FALSE, skip |-> FALSE]

\* Mutant: unlock is asked for only as long as none has been done.
ResticTemplateUnlockOnce(current) ==
  [PlainTemplate EXCEPT !.unlock = /\ IsSource /\ spec.unlock # NoUnlock
                                   /\ status.unlocked = NoUnlock,
                        !.prune = IsSource /\ shouldPrune(current)]

ResticTemplate(current) ==
  [PlainTemplate EXCEPT !.unlock = IsSource /\ shouldUnlock,
                        !.prune = IsSource /\ shouldPrune(current)]

KopiaTemplate == [PlainTemplate EXCEPT !.skip = shouldSkipCacheConfig]

RcloneTemplate == PlainTemplate
RsyncTemplate == PlainTemplate
RsyncTLSTemplate == PlainTemplate

Template(current) ==
  CASE setup.kind = "restic"   -> ResticTemplate(current)
    [] setup.kind = "kopia"    -> KopiaTemplate
    [] setup.kind = "rclone"   -> RcloneTemplate
    [] setup.kind = "rsync"    -> RsyncTemplate
    [] setup.kind = "rsynctls" -> RsyncTLSTemplate

Parallelism == IF spec.paused THEN 0 ELSE 1

\* Mutant: an attempt too many is waited for.
BackoffLimitPassed(j) == j.failed > Limit + 1

\* the test for a failed Job; Kopia goes by the Job's condition
BackoffLimitReached(j) == j.failed >= Limit
jobTerminalFailure(j) == j.condition = "Failed"
HasFailed(j) == IF setup.kind = "kopia" THEN jobTerminalFailure(j)
                                        ELSE BackoffLimitReached(j)

HasSucceeded(j) == j.condition = "Complete"

-----------------------------------------------------------------------------
(* One reconcile of a synchronizing owner: the mover's Synchronize and the *)
(* state machine's transition.  The branches exclude one another.          *)

\* the pods of a Job deleted in the background outlive it
DeleteJob ==
  /\ job' = NoJob
  /\ orphan' = (orphan \/ (job # NoJob /\ job.active))

\* the cached Job has the template wanted, or there is none in the cache
TemplateIs(j, current) == j.template = Template(current)

Reconciling == phase = "synchronizing"

Credit == phase' = "cleaningup"

KopiaPaused ==
  /\ Reconciling
  /\ setup.kind = "kopia" /\ spec.paused
  /\ Credit
  /\ UNCHANGED <<setup, spec, status, jobVars, dataVars, history, bounds>>

MoverRuns == Reconciling /\ ~(setup.kind = "kopia" /\ spec.paused)

\* with a Job that the cache does not show yet, Create fails: no effect
CreateJob ==
  /\ MoverRuns
  /\ cache = NoJob /\ job = NoJob
  /\ job' = [template |-> Template(now), parallelism |-> Parallelism,
             failed |-> 0, active |-> FALSE, condition |-> "None"]
  /\ UNCHANGED <<setup, ownerVars, cache, orphan, dataVars, history, bounds>>

\* deleted by name, whatever became of the Update before
DeleteFailedJob ==
  /\ MoverRuns
  /\ cache # NoJob /\ job # NoJob
  /\ HasFailed(cache)
  /\ DeleteJob
  /\ UNCHANGED <<setup, ownerVars, cache, dataVars, history, bounds>>

\* the API server rejects the Update as a conflict unless the cache is
\* current, and as "field is immutable" if the template is another one
RecreateJob ==
  /\ MoverRuns
  /\ cache # NoJob /\ cache = job
  /\ ~HasFailed(cache)
  /\ ~TemplateIs(cache, now)
  /\ DeleteJob
  /\ UNCHANGED <<setup, ownerVars, cache, dataVars, history, bounds>>

\* the Update that pauses or resumes the Job succeeds
JobUpdated ==
  /\ cache # NoJob
  /\ ~HasFailed(cache)
  /\ TemplateIs(cache, now)
  /\ \/ cache.parallelism = Parallelism /\ job' = job
     \/ /\ cache.parallelism # Parallelism /\ cache = job
        /\ job' = [job EXCEPT !.parallelism = Parallelism]

UpdateJob ==
  /\ MoverRuns
  /\ JobUpdated
  /\ ~HasSucceeded(cache)
  /\ job' # job
  /\ UNCHANGED <<setup, ownerVars, cache, orphan, dataVars, history, bounds>>

\* Mutant: the time of the next prune is recorded instead of this one's.
ResticStatusNextPrune(current) ==
  [status EXCEPT
     !.unlocked = IF shouldUnlock THEN spec.unlock
                  ELSE IF spec.unlock = NoUnlock THEN NoUnlock ELSE @,
     !.pruned = IF shouldPrune(current) THEN current + PruneInterval ELSE @]

\* what the movers put in the status once their Job has succeeded; the
\* clock is read again and may have moved since the template was built
ResticStatus(current) ==
  [status EXCEPT
     !.unlocked = IF shouldUnlock THEN spec.unlock
                  ELSE IF spec.unlock = NoUnlock THEN NoUnlock ELSE @,
     !.pruned = IF shouldPrune(current) THEN current ELSE @]

KopiaStatus == [status EXCEPT !.limit = spec.conf]

RecordedStatus(current) ==
  IF setup.kind = "restic" /\ IsSource THEN ResticStatus(current)
  ELSE IF setup.kind = "kopia" THEN KopiaStatus
  ELSE status

\* EnsureImage: nothing to do on a source; the PVC itself for Direct; else a
\* snapshot, which counts once it is bound
ImageReady == IsSource \/ setup.copy = "Direct" \/ snap \in Cuts

EnsureImage ==
  /\ snap' = IF ~ImageReady /\ snap = "none" THEN "created" ELSE snap
  /\ UNCHANGED dirty

SaveStatus(saved, current) ==
  IF saved
  THEN /\ status' = RecordedStatus(current)
       /\ IF ImageReady
          THEN /\ Credit
               /\ image' = IF snap \in Cuts THEN snap ELSE image
          ELSE UNCHANGED <<phase, image>>
       /\ UNCHANGED faults
  ELSE /\ faults < MaxFaults /\ faults' = faults + 1
       /\ UNCHANGED <<status, phase, image>>

JobCompleted(saved, current) ==
  /\ MoverRuns
  /\ JobUpdated
  /\ HasSucceeded(cache)
  /\ EnsureImage
  /\ SaveStatus(saved, current)
  /\ now' = current
  /\ UNCHANGED <<setup, spec, cache, orphan, history, edits>>

Synchronize ==
  \/ KopiaPaused \/ CreateJob \/ DeleteFailedJob \/ RecreateJob \/ UpdateJob
  \/ \E saved \in BOOLEAN, current \in {now, now + 1} :
       current <= MaxTime /\ JobCompleted(saved, current)

\* Mutant: the annotation that names the snapshot is not taken away.
CleanupKeepsAnnotation ==
  /\ phase = "cleaningup"
  /\ DeleteJob
  /\ cache' \in IF CacheMissesCleanup THEN {cache, NoJob} ELSE {NoJob}
  /\ snap' = snap
  /\ moved' = FALSE /\ pruned' = FALSE
  /\ phase' \in {"synchronizing", "cleaningup"}
  /\ UNCHANGED <<setup, spec, status, dirty, image, unlockedFor, bounds>>

\* Mutant: the Job is not among the objects that are deleted.
CleanupKeepsJob ==
  /\ phase = "cleaningup"
  /\ snap' = "none"
  /\ moved' = FALSE /\ pruned' = FALSE
  /\ phase' \in {"synchronizing", "cleaningup"}
  /\ UNCHANGED <<setup, spec, status, jobVars, dirty, image, unlockedFor,
                 bounds>>

\* one reconcile of an owner that cleans up: the mover's Cleanup, then, if a
\* trigger asks for it, the transition to the next synchronization
Cleanup ==
  /\ phase = "cleaningup"
  /\ DeleteJob
  /\ cache' \in IF CacheMissesCleanup THEN {cache, NoJob} ELSE {NoJob}
  /\ snap' = "none"
  /\ moved' = FALSE /\ pruned' = FALSE
  /\ phase' \in {"synchronizing", "cleaningup"}
  /\ UNCHANGED <<setup, spec, status, dirty, image, unlockedFor, bounds>>

-----------------------------------------------------------------------------
(* Kubernetes, the pods, the storage and the users. *)

CacheSync ==
  /\ cache # job
  /\ cache' = job
  /\ UNCHANGED <<setup, ownerVars, job, orphan, dataVars, history, bounds>>

\* the entry script runs unlock first
PodStarts ==
  /\ job # NoJob
  /\ job.condition = "None" /\ ~job.active /\ job.parallelism = 1
  /\ orphan => OrphansLinger
  /\ job' = [job EXCEPT !.active = TRUE]
  /\ dirty' = TRUE
  /\ unlockedFor' = unlockedFor \cup
       (IF job.template.unlock THEN {spec.unlock} \ {NoUnlock} ELSE {})
  /\ UNCHANGED <<setup, ownerVars, cache, orphan, snap, image, moved, pruned,
                 bounds>>

PodSucceeds ==
  /\ job # NoJob /\ job.active
  /\ job' = [job EXCEPT !.active = FALSE, !.condition = "Complete"]
  /\ dirty' = FALSE
  /\ snap' = IF snap = "clean" THEN "stale" ELSE snap
  /\ moved' = TRUE
  /\ pruned' = (pruned \/ job.template.prune)
  /\ UNCHANGED <<setup, ownerVars, cache, orphan, image, unlockedFor, bounds>>

\* Kubernetes gives a Job up when more than backoffLimit pods have failed
PodFails ==
  /\ faults < MaxFaults /\ faults' = faults + 1
  /\ job # NoJob /\ job.active
  /\ job' = [job EXCEPT !.active = FALSE, !.failed = @ + 1,
                        !.condition = IF job.failed + 1 > Limit
                                      THEN "Failed" ELSE "None"]
  /\ UNCHANGED <<setup, ownerVars, cache, orphan, dataVars, history, now,
                 edits>>

\* the Job controller removes the pod of a Job with parallelism 0
PodStopped ==
  /\ job # NoJob /\ job.active /\ job.parallelism = 0
  /\ job' = [job EXCEPT !.active = FALSE]
  /\ UNCHANGED <<setup, ownerVars, cache, orphan, dataVars, history, bounds>>

OrphanEnds ==
  /\ orphan
  /\ orphan' = FALSE
  /\ dirty' = TRUE
  /\ UNCHANGED <<setup, ownerVars, job, cache, snap, image, history, bounds>>

\* the storage cuts a snapshot before it is bound
CutSnapshot ==
  /\ snap = "created"
  /\ snap' = IF dirty \/ orphan \/ (job # NoJob /\ job.active)
             THEN "torn" ELSE "clean"
  /\ UNCHANGED <<setup, ownerVars, jobVars, dirty, image, history, bounds>>

Tick ==
  /\ now < MaxTime
  /\ now' = now + 1
  /\ UNCHANGED <<setup, ownerVars, jobVars, dataVars, history, edits, faults>>

\* a user who follows the documentation waits for lastUnlocked before the
\* next change of unlock.  The rest is changed at any time, except, without
\* HastyUser, while a snapshot is being made of the volume, and while the
\* cache still shows a Job that has been deleted.
Edit(newSpec) ==
  /\ edits < MaxEdits /\ edits' = edits + 1
  /\ newSpec # spec
  /\ spec' = newSpec
  /\ UNCHANGED <<setup, status, phase, jobVars, dataVars, history, now,
                 faults>>

Outlived == cache # NoJob /\ job = NoJob

SetUnlock(value) ==
  /\ HastyUser \/ status.unlocked = spec.unlock
  /\ Edit([spec EXCEPT !.unlock = value])

SetConf(value) ==
  /\ HastyUser \/ (snap = "none" /\ ~Outlived)
  /\ Edit([spec EXCEPT !.conf = value])

Pause == Edit([spec EXCEPT !.paused = TRUE])

\* whoever paused can always resume
Resume ==
  /\ spec.paused
  /\ spec' = [spec EXCEPT !.paused = FALSE]
  /\ UNCHANGED <<setup, status, phase, jobVars, dataVars, history, bounds>>

User ==
  \/ \E value \in Unlocks \cup {NoUnlock} :
       setup.kind = "restic" /\ IsSource /\ SetUnlock(value)
  \/ \E value \in Confs : SetConf(value)
  \/ Pause \/ Resume

-----------------------------------------------------------------------------
Init ==
  /\ setup \in Setups
  /\ spec \in [paused : {FALSE}, unlock : {NoUnlock},
               conf : Confs \cup {NoConf}]
  /\ status = [unlocked |-> NoUnlock, pruned |-> 0, limit |-> NoConf]
  /\ phase = "synchronizing"
  /\ job = NoJob /\ cache = NoJob /\ orphan = FALSE
  /\ dirty = FALSE /\ snap = "none" /\ image = "none"
  /\ now = 0 /\ edits = 0 /\ faults = 0
  /\ moved = FALSE /\ pruned = FALSE /\ unlockedFor = {}

PodEnds == PodSucceeds \/ PodFails

Next ==
  \/ Synchronize \/ Cleanup
  \/ CacheSync \/ PodStarts \/ PodEnds \/ PodStopped \/ OrphanEnds
  \/ CutSnapshot \/ Tick \/ User

Spec == Init /\ [][Next]_vars

\* every watch event and every result queues another reconcile; pods end,
\* snapshots are cut and the cache catches up.  Edits and the clock owe
\* nothing.
Fairness ==
  /\ WF_vars(Synchronize)
  /\ WF_vars(Cleanup /\ phase' = "synchronizing")
  /\ WF_vars(CacheSync) /\ WF_vars(PodStarts) /\ WF_vars(PodEnds)
  /\ WF_vars(PodStopped) /\ WF_vars(OrphanEnds) /\ WF_vars(CutSnapshot)

FairSpec == Spec /\ Fairness
-----------------------------------------------------------------------------
Credited == phase = "synchronizing" /\ phase' = "cleaningup"

(* A synchronization that is reported as over while the owner is not       *)
(* paused has moved data: a pod has succeeded since the last cleanup,      *)
(* whatever was read from the cache (restic/mover.go:623, kopia/mover.go:  *)
(* 1471).  If a prune was due when its final reconcile started, one such   *)
(* pod has pruned: a Job built before the prune was due is built again     *)
(* (restic/mover.go:378 with utils/reconcile.go:52).                       *)
CreditIsEarned ==
  [][Credited /\ ~spec.paused =>
       /\ moved
       /\ setup.kind = "restic" /\ IsSource /\ shouldPrune(now)
            => pruned]_vars

(* If lastUnlocked names a value, `restic unlock` has run while the spec   *)
(* held that value (replicationsource_types.go:206).                       *)
UnlockAcknowledged == status.unlocked \in unlockedFor \cup {NoUnlock}

(* latestImage is "the most recent consistent replicated image": it was    *)
(* not cut while a mover was writing or after one had stopped half-way,    *)
(* and is not left over from before the last transfer: each cleanup takes  *)
(* the annotation that names the snapshot away (restic/mover.go:172).      *)
(* It takes a user who leaves the spec alone while the snapshot is made.   *)
ImageConsistent == image \notin {"torn", "stale"}

(* A synchronization ends, or is paused: a failed Job is replaced, a       *)
(* changed one built again, a paused one resumed, a lost status write      *)
(* repeated, and the snapshot waited for.                                  *)
SyncEnds == phase = "synchronizing" ~> (phase = "cleaningup" \/ spec.paused)

-----------------------------------------------------------------------------
(* Why they hold. *)

\* A Job with a running pod is not over, and one that is not given up has a
\* failure left.
CountInv ==
  job # NoJob => /\ job.active => job.condition = "None"
                 /\ job.condition # "Failed" => job.failed <= Limit

\* The Jobs of this synchronization, in the API server and in the cache.
Theirs == {j \in {job, cache} : Reconciling /\ j # NoJob}

\* A Job that is done has moved data, and pruned if it was to.
EarnedInv ==
  \A j \in Theirs : HasSucceeded(j) => moved /\ (j.template.prune => pruned)

\* As long as a Job that unlocks exists, the value it was built for is still
\* to be acknowledged; so the user has not changed it.
UnlockInv ==
  \A j \in Theirs : j.template.unlock =>
    /\ setup.kind = "restic" /\ IsSource /\ shouldUnlock
    /\ j.active \/ HasSucceeded(j) => spec.unlock \in unlockedFor

\* The cache shows an earlier version of the Job.
VersionInv ==
  cache # NoJob /\ job # NoJob =>
    /\ job.template = cache.template
    /\ cache.condition # "None" =>
         job.condition = cache.condition /\ job.failed = cache.failed

\* Nothing writes to the volume once the Job is done.
QuietInv ==
  job # NoJob => /\ job.active \/ HasSucceeded(job) => ~orphan
                 /\ HasSucceeded(job) => ~dirty

Imaging == setup.role = "destination" /\ setup.kind # "kopia"

\* While a snapshot is made the Job is the one the spec asks for; one that
\* only the cache shows was deleted for having failed or being another.
ImagingInv ==
  Imaging /\ Reconciling =>
    /\ snap # "none" => \A j \in Theirs : j.template = PlainTemplate
    /\ Outlived => HasFailed(cache) \/ cache.template # PlainTemplate

\* A snapshot is asked for only when the Job is done, and the Job then stays.
SnapInv ==
  snap # "none" =>
    /\ Imaging /\ snap \in {"created", "clean"}
    /\ job # NoJob /\ HasSucceeded(job)
    /\ cache # NoJob /\ HasSucceeded(cache) /\ ~HasFailed(cache)

ImageInv ==
  VersionInv /\ QuietInv /\ ImagingInv /\ SnapInv /\ ImageConsistent
=============================================================================
