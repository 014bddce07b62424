--------------------------- MODULE SnapshotImages ---------------------------
(***************************************************************************)
(* The life of the VolumeSnapshots that hold a ReplicationDestination's    *)
(* images (copyMethod Snapshot).  Three parties act on them:               *)
(*                                                                         *)
(*  - the ReplicationDestination reconciler, which takes a snapshot at the *)
(*    end of each sync, publishes it as status.latestImage, marks the      *)
(*    previous one for cleanup and deletes what is marked                  *)
(*    (volumehandler.go, cleanup.go, replicationdestination_controller.go);*)
(*  - the volume populator, which fills a user's PVC from latestImage by   *)
(*    way of a temporary PVC, "PVC prime" (volumepopulator_controller.go); *)
(*  - the user, who may label a snapshot do-not-delete.                    *)
(*                                                                         *)
(* The ReplicationDestination goes through the phases of SyncCycle, which  *)
(* ReplicationMachine is shown to implement; its triggers are abstracted   *)
(* to a free choice of when the next sync starts.  Every Get and List of   *)
(* snapshots is answered by the operator's informer cache, `shown`, which  *)
(* may be behind; updates and deletes carry the resourceVersion that was   *)
(* read, and succeed only if the snapshot is still as it was read.  Where  *)
(* a list is acted upon in several steps, its copies are kept in `seen`.   *)
(*                                                                         *)
(* Left out: the created-by label, events, storage class checks, deletion  *)
(* of the ReplicationDestination or of the user's PVC.  The PVC whose      *)
(* annotation names the next snapshot, the user's PVC and PVC prime are    *)
(* read up to date.                                                        *)
(***************************************************************************)
EXTENDS Naturals

CONSTANTS
  Snaps,      \* names of VolumeSnapshots; a timestamp makes each one new
  NoSnap,     \* no name
  PVCs,       \* the PVCs whose dataSourceRef is this ReplicationDestination
  RD,         \* the ReplicationDestination, as an owner
  MaxKeeps,   \* bound on the snapshots the user labels do-not-delete
  MaxFaults   \* bound on failing API calls and restarts

ASSUME NameAssumption == NoSnap \notin Snaps /\ RD \notin PVCs
ASSUME CountAssumption == MaxKeeps \in Nat /\ MaxFaults \in Nat

VARIABLES
  snap,       \* the VolumeSnapshots in the API server
  shown,      \* the same in the operator's informer cache
  rd,         \* the ReplicationDestination's status there: phase and image
  cached,     \* the same in the operator's informer cache
  job,        \* the mover's Job
  ann,        \* the snapshot named in the destination PVC's annotation
  pc,         \* position of the ReplicationDestination's reconcile
  local,      \* its copy of the status
  localCurrent,  \* the copy carries the current resourceVersion
  seen,       \* its copies of the snapshots it has listed
  failed,     \* a relinquish failed: the reconcile ends with an error
  ppc,        \* position of each PVC's populator reconcile
  source,     \* the snapshot that reconcile, or PVC prime, is populated from
  prime,      \* each PVC's PVC prime
  bound,      \* the PVCs bound to a volume
  keeps, faults

snapVars == <<snap, shown, keeps>>
rdVars   == <<rd, cached, job, ann>>
recVars  == <<pc, local, localCurrent, seen, failed>>
popVars  == <<ppc, source, prime, bound>>
vars == <<snapVars, rdVars, recVars, popVars, faults>>

Snapshots ==
  [st : {"new", "live", "gone"}, ready : BOOLEAN,
   owners : SUBSET (PVCs \cup {RD}), cleanup : BOOLEAN, keep : BOOLEAN,
   inUse : SUBSET PVCs]
Absent == [st |-> "gone", ready |-> FALSE, owners |-> {}, cleanup |-> FALSE,
           keep |-> FALSE, inUse |-> {}]
Statuses == [phase : {"initial", "synchronizing", "cleaningup"},
             image : Snaps \cup {NoSnap}]

Live(s) == snap[s].st = "live"

Init ==
  /\ snap = [s \in Snaps |-> [Absent EXCEPT !.st = "new"]]
  /\ shown = snap
  /\ rd = [phase |-> "initial", image |-> NoSnap]
  /\ cached = rd /\ local = rd /\ localCurrent = FALSE
  /\ job = "none" /\ ann = NoSnap
  /\ pc = "idle" /\ seen = [s \in Snaps |-> Absent] /\ failed = FALSE
  /\ ppc = [p \in PVCs |-> "idle"]
  /\ source = [p \in PVCs |-> NoSnap]
  /\ prime = [p \in PVCs |-> "none"]
  /\ bound = {}
  /\ keeps = 0 /\ faults = 0

Fault ==
  /\ faults < MaxFaults
  /\ faults' = faults + 1

-----------------------------------------------------------------------------
(* Operations on one snapshot (cleanup.go). *)

UnMarkForCleanupAndRemoveOwnership(x) ==
  [x EXCEPT !.cleanup = FALSE, !.owners = @ \ {RD}]

RemoveOwnerReference(x, owner) == [x EXCEPT !.owners = @ \ {owner}]

Deleted(x) == [x EXCEPT !.st = "gone"]

hasOtherOwnerRef(x) == x.owners \ {RD} # {}

\* The loop compares the populator's prefix with the label values; the
\* populator puts it in the label key, and the PVC's name in the value.
snapInUseByVolumePopulatorPVC(x) == FALSE

snapInUseByOther(x) == hasOtherOwnerRef(x) \/ snapInUseByVolumePopulatorPVC(x)

\* The result of CleanupSnapshotsWithLabelCheck for one marked snapshot.
Disposed(x) ==
  IF snapInUseByOther(x) THEN RemoveOwnerReference(x, RD) ELSE Deleted(x)

\* The copies a List of the snapshots satisfying Sel returns.
Listed(Sel(_)) ==
  [s \in Snaps |-> IF shown[s].st = "live" /\ Sel(shown[s])
                   THEN shown[s] ELSE Absent]
InList(s) == seen[s].st = "live"
Forget(s) == seen' = [seen EXCEPT ![s] = Absent]

Write(s, x) == snap' = [snap EXCEPT ![s] = x]

\* A snapshot read as y is to become x, if that is a change.  The call carries
\* the resourceVersion of y, and is rejected if that is not current; a Create
\* (y is no snapshot) is rejected if there is one.
Current(s, y) == snap[s] = y \/ (~Live(s) /\ y.st # "live")
Accepted(s, y, x) ==
  \/ x = y /\ UNCHANGED snap
  \/ x # y /\ Current(s, y) /\ Write(s, x)
Rejected(s, y, x) == x # y /\ ~Current(s, y)

-----------------------------------------------------------------------------
(* Reconcile of the ReplicationDestination. *)

Finish ==
  /\ pc' = "idle"
  /\ local' = [phase |-> "initial", image |-> NoSnap] /\ localCurrent' = FALSE
  /\ seen' = [s \in Snaps |-> Absent] /\ failed' = FALSE

\* Reads the resource, lists the snapshots labelled do-not-delete.
Get ==
  /\ pc = "idle"
  /\ pc' = "relinquish"
  /\ local' = cached /\ localCurrent' = (cached = rd)
  /\ seen' = LET Kept(x) == x.keep IN Listed(Kept)
  /\ UNCHANGED <<snapVars, rdVars, failed, popVars, faults>>

\* relinquishSnapshotsWithDoNotDeleteLabel, one snapshot: a conflict is
\* remembered and the loop goes on.
RelinquishSnap(s) ==
  /\ pc \in {"relinquish", "cleanup"}
  /\ InList(s) /\ seen[s].keep
  /\ LET x == UnMarkForCleanupAndRemoveOwnership(seen[s]) IN
       \/ Accepted(s, seen[s], x) /\ UNCHANGED failed
       \/ Rejected(s, seen[s], x) /\ failed' = TRUE /\ UNCHANGED snap
  /\ Forget(s)
  /\ UNCHANGED <<shown, keeps, rdVars, pc, local, localCurrent, popVars,
                 faults>>

Relinquished == \A s \in Snaps : ~(InList(s) /\ seen[s].keep)

RelinquishFails ==
  /\ pc = "relinquish" /\ Relinquished /\ failed
  /\ Finish
  /\ UNCHANGED <<snapVars, rdVars, popVars, faults>>

\* statemachine.Run dispatches on the phase.
Run(phase) ==
  /\ pc = "relinquish" /\ Relinquished /\ ~failed
  /\ local.phase = phase

doInitialState ==
  /\ Run("initial")
  /\ local' = [local EXCEPT !.phase = "synchronizing"]
  /\ pc' = "write"
  /\ UNCHANGED <<snapVars, rdVars, localCurrent, seen, failed, popVars,
                 faults>>

\* The mover starts its Job, or waits for it.
SynchronizeInProgress ==
  /\ Run("synchronizing")
  /\ job # "done"
  /\ job' = "running"
  /\ Finish
  /\ UNCHANGED <<snapVars, rd, cached, ann, popVars, faults>>

\* ensureImageSnapshot records the name it will use, then creates it.
AnnotatePVC(s) ==
  /\ Run("synchronizing")
  /\ job = "done" /\ ann = NoSnap
  /\ snap[s].st = "new"
  /\ ann' = s
  /\ UNCHANGED <<snapVars, rd, cached, job, recVars, popVars, faults>>

\* What CreateOrUpdate makes of the copy y.
Ensured(y) ==
  IF y.st # "live" THEN [Absent EXCEPT !.st = "live", !.owners = {RD}]
  ELSE IF y.keep THEN UnMarkForCleanupAndRemoveOwnership(y)
  ELSE [y EXCEPT !.owners = @ \cup {RD}]

EnsureImageSnapshot ==
  /\ Run("synchronizing")
  /\ job = "done" /\ ann # NoSnap
  /\ LET y == shown[ann]  x == Ensured(y) IN
       \/ /\ Accepted(ann, y, x)
          /\ IF x.ready
             THEN /\ pc' = "mark"
                  /\ UNCHANGED <<local, localCurrent, seen, failed>>
             ELSE Finish
       \/ Rejected(ann, y, x) /\ UNCHANGED snap /\ Finish
  /\ UNCHANGED <<shown, keeps, rdVars, popVars, faults>>

\* The new image goes into the copy of the status, and the machine moves on.
Publish ==
  /\ local' = [phase |-> "cleaningup", image |-> ann]
  /\ pc' = "write"
  /\ UNCHANGED <<localCurrent, seen, failed>>

\* The previous image, read as y, is to be marked.
IsOld(s) == s # NoSnap /\ s # ann /\ shown[s].st = "live" /\ ~shown[s].keep
Marked(y) == [y EXCEPT !.cleanup = TRUE]

\* Mutant: the old image is deleted before the new one is published.
DeleteOldSnapshot ==
  /\ pc = "mark"
  /\ LET old == local.image IN
       IF IsOld(old) THEN Write(old, Deleted(snap[old])) ELSE UNCHANGED snap
  /\ Publish
  /\ UNCHANGED <<shown, keeps, rdVars, popVars, faults>>

\* Mutant: an image somebody else owns as well is not marked.
MarkOldSnapshotUnlessShared ==
  /\ pc = "mark"
  /\ LET old == local.image  y == shown[old] IN
       \/ IsOld(old) /\ Live(old) /\ Current(old, y) /\ ~snapInUseByOther(y)
          /\ Write(old, Marked(y)) /\ Publish
       \/ IsOld(old) /\ Live(old) /\ Current(old, y) /\ snapInUseByOther(y)
          /\ UNCHANGED snap /\ Publish
       \/ ~(IsOld(old) /\ Live(old)) /\ UNCHANGED snap /\ Publish
  /\ UNCHANGED <<shown, keeps, rdVars, popVars, faults>>

\* rdMachine.Synchronize: MarkOldSnapshotForCleanup, which takes an image it
\* does not find for one that is gone; a conflict ends the reconcile.
MarkOldSnapshotForCleanup ==
  /\ pc = "mark"
  /\ LET old == local.image  y == shown[old] IN
       \/ /\ IsOld(old) /\ Live(old) /\ Current(old, y)
          /\ Write(old, Marked(y)) /\ Publish
       \/ /\ IsOld(old) /\ Live(old) /\ ~Current(old, y)
          /\ UNCHANGED snap /\ Finish
       \/ ~(IsOld(old) /\ Live(old)) /\ UNCHANGED snap /\ Publish
  /\ UNCHANGED <<shown, keeps, rdVars, popVars, faults>>

\* mover.Cleanup: the annotation goes first, then what is marked is listed.
RemoveSnapshotAnnotation ==
  /\ Run("cleaningup")
  /\ ann' = NoSnap
  /\ seen' = LET ForCleanup(x) == x.cleanup IN Listed(ForCleanup)
  /\ pc' = "cleanup"
  /\ UNCHANGED <<snapVars, rd, cached, job, local, localCurrent, failed,
                 popVars, faults>>

\* Mutant: the delete carries no precondition.
CleanupAnyVersion(s) ==
  /\ pc = "cleanup" /\ Relinquished /\ ~failed
  /\ InList(s)
  /\ IF snapInUseByOther(seen[s]) THEN Accepted(s, seen[s], Disposed(seen[s]))
     ELSE Write(s, Deleted(snap[s]))
  /\ Forget(s)
  /\ UNCHANGED <<shown, keeps, rdVars, pc, local, localCurrent, failed,
                 popVars, faults>>

\* CleanupSnapshotsWithLabelCheck, one of the remaining snapshots.
CleanupSnap(s) ==
  /\ pc = "cleanup" /\ Relinquished /\ ~failed
  /\ InList(s)
  /\ Accepted(s, seen[s], Disposed(seen[s]))
  /\ Forget(s)
  /\ UNCHANGED <<shown, keeps, rdVars, pc, local, localCurrent, failed,
                 popVars, faults>>

\* A conflict ends the cleanup: the Job stays, and the phase with it.
CleanupFails ==
  /\ pc = "cleanup" /\ Relinquished
  /\ \/ failed
     \/ \E s \in Snaps : InList(s) /\ Rejected(s, seen[s], Disposed(seen[s]))
  /\ Finish
  /\ UNCHANGED <<snapVars, rdVars, popVars, faults>>

\* Mutant: the Job is left behind.
CleanupKeepsJob ==
  /\ pc = "cleanup" /\ ~failed
  /\ \A s \in Snaps : ~InList(s)
  /\ pc' = "write"
  /\ \/ (\E s \in Snaps : snap[s].st = "new")
        /\ local' = [local EXCEPT !.phase = "synchronizing"]
     \/ UNCHANGED local
  /\ UNCHANGED <<snapVars, rdVars, localCurrent, seen, failed, popVars,
                 faults>>

\* Mutant: a phase Run does not know.
CleanupToIdle ==
  /\ pc = "cleanup" /\ ~failed
  /\ \A s \in Snaps : ~InList(s)
  /\ job' = "none"
  /\ pc' = "write"
  /\ local' = [local EXCEPT !.phase = "idle"]
  /\ UNCHANGED <<snapVars, rd, cached, ann, localCurrent, seen, failed,
                 popVars, faults>>

\* All snapshots done: the Job is deleted, and the next sync may begin (while
\* there are names left: Snaps bounds the number of syncs).
CleanupCompletes ==
  /\ pc = "cleanup" /\ ~failed
  /\ \A s \in Snaps : ~InList(s)
  /\ job' = "none"
  /\ pc' = "write"
  /\ \/ (\E s \in Snaps : snap[s].st = "new")
        /\ local' = [local EXCEPT !.phase = "synchronizing"]
     \/ UNCHANGED local
  /\ UNCHANGED <<snapVars, rd, cached, ann, localCurrent, seen, failed,
                 popVars, faults>>

UpdateStatus ==
  /\ pc = "write" /\ localCurrent
  /\ rd' = local
  /\ Finish
  /\ UNCHANGED <<snapVars, cached, job, ann, popVars, faults>>

UpdateStatusFails ==
  /\ pc = "write"
  /\ \/ ~localCurrent /\ UNCHANGED faults
     \/ localCurrent /\ Fault
  /\ Finish
  /\ UNCHANGED <<snapVars, rdVars, popVars>>

\* Any other call may fail as well; nothing was changed by that call.
ReconcileFails ==
  /\ pc \in {"relinquish", "mark", "cleanup"}
  /\ Fault
  /\ Finish
  /\ UNCHANGED <<snapVars, rdVars, popVars>>

-----------------------------------------------------------------------------
(* Reconcile of a PVC by the volume populator. *)

Goto(p, where) == ppc' = [ppc EXCEPT ![p] = where]

\* validateSnapshotAndLabel: latestImage comes from the cached resource.  (If
\* the snapshot is not found, or the update rejected, nothing has been done.)
LabelSnapshot(p) ==
  /\ ppc[p] = "idle" /\ p \notin bound /\ prime[p] = "none"
  /\ cached.image # NoSnap
  /\ LET y == shown[cached.image] IN
       /\ y.st = "live"
       /\ Accepted(cached.image, y, [y EXCEPT !.inUse = @ \cup {p}])
  /\ source' = [source EXCEPT ![p] = cached.image]
  /\ Goto(p, "create")
  /\ UNCHANGED <<shown, keeps, rdVars, recVars, prime, bound, faults>>

CreatePrime(p) ==
  /\ ppc[p] = "create"
  /\ prime' = [prime EXCEPT ![p] = "pending"]
  /\ Goto(p, "own")
  /\ UNCHANGED <<snapVars, rdVars, recVars, source, bound, faults>>

\* A later reconcile finds PVC prime already there.
FindPrime(p) ==
  /\ ppc[p] = "idle" /\ p \notin bound
  /\ prime[p] \notin {"none", "deleted"}
  /\ Goto(p, "own")
  /\ UNCHANGED <<snapVars, rdVars, recVars, source, prime, bound, faults>>

InUseBy(p) == {s \in Snaps : shown[s].st = "live" /\ p \in shown[s].inUse}
Unowned(p) ==
  {s \in InUseBy(p) : ~shown[s].keep /\ p \notin shown[s].owners}

\* A loop over the snapshots in `list`, each to become New(_): it goes on
\* to `next`, or ends the reconcile at the first update that is rejected or
\* fails; `done` has been updated then.
UpdateEach(p, list, New(_), next) ==
  \E done \in SUBSET list :
    /\ \A s \in done : Current(s, shown[s])
    /\ snap' = [s \in Snaps |-> IF s \in done THEN New(shown[s]) ELSE snap[s]]
    /\ \/ done = list /\ Goto(p, next) /\ UNCHANGED faults
       \/ /\ \E s \in list \ done : ~Current(s, shown[s])
          /\ Goto(p, "idle") /\ UNCHANGED faults
       \/ done # list /\ Goto(p, "idle") /\ Fault

ensureOwnerReferenceOnSnapshots(p) ==
  /\ ppc[p] = "own"
  /\ LET Owned(y) == [y EXCEPT !.owners = @ \cup {p}]
     IN UpdateEach(p, Unowned(p), Owned, "rebind")
  /\ UNCHANGED <<shown, keeps, rdVars, recVars, source, prime, bound>>

\* rebindPVClaim: once PVC prime has a volume, hand the volume to the PVC.
RebindPVClaim(p) ==
  /\ ppc[p] = "rebind"
  /\ prime[p] \in {"pending", "provisioned"}
  /\ prime' = [prime EXCEPT ![p] = IF @ = "provisioned" THEN "rebound" ELSE @]
  /\ Goto(p, "idle")
  /\ UNCHANGED <<snapVars, rdVars, recVars, source, bound, faults>>

\* The volume is handed over; this reconcile read PVC prime before it was
\* seen to have lost it.
WaitForRebind(p) ==
  /\ ppc[p] = "rebind"
  /\ prime[p] \in {"rebound", "lost"}
  /\ Goto(p, "idle")
  /\ UNCHANGED <<snapVars, rdVars, recVars, source, prime, bound, faults>>

\* The PVC is bound and PVC prime has lost the volume, or is gone: clean up.
PopulatorFinished(p) ==
  /\ ppc[p] = "idle" /\ p \in bound /\ prime[p] \in {"lost", "deleted"}
  /\ Goto(p, "cleanup")
  /\ UNCHANGED <<snapVars, rdVars, recVars, source, prime, bound, faults>>

\* cleanup: removes its label from each snapshot found to have it...
UnlabelSnapshots(p) ==
  /\ ppc[p] = "cleanup"
  /\ LET Unlabelled(y) ==
           LET x == [y EXCEPT !.inUse = @ \ {p}]
           IN IF x.keep /\ prime[p] # "deleted"
              THEN RemoveOwnerReference(x, p) ELSE x
     IN UpdateEach(p, InUseBy(p), Unlabelled, "delete")
  /\ UNCHANGED <<shown, keeps, rdVars, recVars, source, prime, bound>>

\* ...and then deletes PVC prime.
DeletePrime(p) ==
  /\ ppc[p] = "delete"
  /\ prime' = [prime EXCEPT ![p] = "deleted"]
  /\ Goto(p, "idle")
  /\ UNCHANGED <<snapVars, rdVars, recVars, source, bound, faults>>

PopulatorFails(p) ==
  /\ ppc[p] # "idle"
  /\ Fault
  /\ Goto(p, "idle")
  /\ UNCHANGED <<snapVars, rdVars, recVars, source, prime, bound>>

-----------------------------------------------------------------------------
(* The cluster, and the user. *)

CacheSync ==
  /\ cached # rd
  /\ cached' = rd
  /\ UNCHANGED <<snapVars, rd, job, ann, recVars, popVars, faults>>

SnapshotCacheSync(s) ==
  /\ shown[s] # snap[s]
  /\ shown' = [shown EXCEPT ![s] = snap[s]]
  /\ UNCHANGED <<snap, keeps, rdVars, recVars, popVars, faults>>

JobSucceeds ==
  /\ job = "running"
  /\ job' = "done"
  /\ UNCHANGED <<snapVars, rd, cached, ann, recVars, popVars, faults>>

SnapshotBinds(s) ==
  /\ Live(s) /\ ~snap[s].ready
  /\ Write(s, [snap[s] EXCEPT !.ready = TRUE])
  /\ UNCHANGED <<shown, keeps, rdVars, recVars, popVars, faults>>

\* The CSI driver fills PVC prime from the snapshot it names.
Provision(p) ==
  /\ prime[p] = "pending"
  /\ Live(source[p])
  /\ prime' = [prime EXCEPT ![p] = "provisioned"]
  /\ UNCHANGED <<snapVars, rdVars, recVars, ppc, source, bound, faults>>

\* The bind controller acknowledges the switch: the PVC is bound to the
\* volume, and then PVC prime is found to have lost it.
PVCBinds(p) ==
  /\ prime[p] = "rebound" /\ p \notin bound
  /\ bound' = bound \cup {p}
  /\ UNCHANGED <<snapVars, rdVars, recVars, ppc, source, prime, faults>>

PrimeLosesVolume(p) ==
  /\ prime[p] = "rebound" /\ p \in bound
  /\ prime' = [prime EXCEPT ![p] = "lost"]
  /\ UNCHANGED <<snapVars, rdVars, recVars, ppc, source, bound, faults>>

\* The garbage collector removes an object all of whose owners are gone.
Garbage(s) ==
  /\ Live(s)
  /\ snap[s].owners # {}
  /\ \A o \in snap[s].owners : o \in PVCs /\ prime[o] = "deleted"
GarbageCollect(s) ==
  /\ Garbage(s)
  /\ Write(s, Deleted(snap[s]))
  /\ UNCHANGED <<shown, keeps, rdVars, recVars, popVars, faults>>

LabelDoNotDelete(s) ==
  /\ keeps < MaxKeeps
  /\ Live(s) /\ ~snap[s].keep
  /\ Write(s, [snap[s] EXCEPT !.keep = TRUE])
  /\ keeps' = keeps + 1
  /\ UNCHANGED <<shown, rdVars, recVars, popVars, faults>>

Crash ==
  /\ Fault
  /\ Finish
  /\ ppc' = [p \in PVCs |-> "idle"]
  /\ cached' = rd /\ shown' = snap
  /\ UNCHANGED <<snap, keeps, rd, job, ann, source, prime, bound>>

-----------------------------------------------------------------------------
Reconcile ==
  \/ Get \/ RelinquishFails \/ doInitialState
  \/ SynchronizeInProgress \/ EnsureImageSnapshot \/ MarkOldSnapshotForCleanup
  \/ RemoveSnapshotAnnotation \/ CleanupFails \/ CleanupCompletes
  \/ UpdateStatus \/ UpdateStatusFails \/ ReconcileFails
  \/ \E s \in Snaps : RelinquishSnap(s) \/ AnnotatePVC(s) \/ CleanupSnap(s)

Populate(p) ==
  \/ LabelSnapshot(p) \/ CreatePrime(p) \/ FindPrime(p)
  \/ ensureOwnerReferenceOnSnapshots(p) \/ RebindPVClaim(p)
  \/ PopulatorFinished(p) \/ WaitForRebind(p) \/ UnlabelSnapshots(p)
  \/ DeletePrime(p) \/ PopulatorFails(p)

Environment ==
  \/ CacheSync \/ JobSucceeds \/ Crash
  \/ \E s \in Snaps :
       \/ SnapshotBinds(s) \/ GarbageCollect(s) \/ LabelDoNotDelete(s)
       \/ SnapshotCacheSync(s)
  \/ \E p \in PVCs : Provision(p) \/ PVCBinds(p) \/ PrimeLosesVolume(p)

Next == Reconcile \/ Environment \/ \E p \in PVCs : Populate(p)

Spec == Init /\ [][Next]_vars

-----------------------------------------------------------------------------
(* Properties. *)

FlagsOK == localCurrent \in BOOLEAN /\ failed \in BOOLEAN

ValuesOK ==
  /\ snap \in [Snaps -> Snapshots] /\ shown \in [Snaps -> Snapshots]
  /\ seen \in [Snaps -> Snapshots]
  /\ rd \in Statuses /\ cached \in Statuses /\ local \in Statuses
  /\ job \in {"none", "running", "done"}
  /\ ann \in Snaps \cup {NoSnap}
  /\ pc \in {"idle", "relinquish", "mark", "cleanup", "write"}
  /\ ppc \in [PVCs -> {"idle", "create", "own", "rebind", "cleanup", "delete"}]
  /\ source \in [PVCs -> Snaps \cup {NoSnap}]
  /\ prime \in [PVCs -> {"none", "pending", "provisioned", "rebound", "lost",
                         "deleted"}]
  /\ bound \in SUBSET PVCs
  /\ keeps \in Nat /\ faults \in Nat

(* Type invariant. *)
TypeOK == FlagsOK /\ ValuesOK

(* status.latestImage names a snapshot that is there.  The previous image  *)
(* is marked before the new one is published                               *)
(* (replicationdestination_controller.go:271-280) and the write that       *)
(* publishes it may be lost, but nothing marked is deleted until it has    *)
(* succeeded.  (For a snapshot the user has labelled do-not-delete, see    *)
(* KeptSnapshotsSurvive.)                                                  *)
LatestImageAvailable ==
  rd.image # NoSnap => Live(rd.image) \/ snap[rd.image].keep

(* Of the snapshots the ReplicationDestination owns, every one but the     *)
(* latest image and the one in the making is marked for cleanup, whatever  *)
(* failed, was retried or was read from a cache that was behind: none is   *)
(* forgotten, and one that a cleanup does not find in its list is there    *)
(* for the next (cleanup.go:97-133, 269-318).                              *)
NoSnapshotLeaked ==
  \A s \in Snaps :
    /\ Live(s) /\ RD \in snap[s].owners /\ ~snap[s].keep
    /\ s # rd.image /\ s # ann
    => snap[s].cleanup

(* Once a sync has been cleaned up, the ReplicationDestination owns no     *)
(* snapshot but its latest image.  (This need not be so: the cleanup lists *)
(* from the cache, which may not show a mark just made, cleanup.go:89.)    *)
CleanupLeavesNothing ==
  rd.phase = "cleaningup" /\ job = "none" =>
    \A s \in Snaps :
      Live(s) /\ RD \in snap[s].owners /\ ~snap[s].keep => s = rd.image

(* A snapshot is never deleted while a PVC prime that owns it exists, and  *)
(* one labelled do-not-delete is never deleted by the cleanup: reference   *)
(* and label protect it even if they came after the cleanup had listed it  *)
(* (cleanup.go:107-128, volumepopulator_controller.go:755-778).            *)
ProtectedNotDeleted ==
  [][ \A s \in Snaps : Live(s) /\ ~Live(s)' =>
        /\ \A p \in PVCs \cap snap[s].owners : prime[p] = "deleted"
        /\ snap[s].keep => Garbage(s) ]_vars

(* CHANGELOG.md:303-306: a snapshot labelled do-not-delete is not deleted  *)
(* by VolSync, neither directly nor through the objects it owns.           *)
KeptSnapshotsSurvive == \A s \in Snaps : snap[s].keep => Live(s)

(* cleanup.go:110-111 and 249-251: a snapshot that carries the populator's *)
(* in-use label is not deleted by the ReplicationDestination's cleanup.    *)
InUseNotDeleted ==
  [][ \A s \in Snaps : Live(s) /\ ~Live(s)' => snap[s].inUse = {} ]_vars

(* The ReplicationDestination as seen here runs the cycle that             *)
(* ReplicationMachine implements; acknowledgements play no part.           *)
Cycle == INSTANCE SyncCycle
           WITH Acks  <- {NoSnap},
                phase <- rd.phase,
                moved <- job = "done",
                ack   <- NoSnap
ImplementsSyncCycle == Cycle!Spec

-----------------------------------------------------------------------------
(* Why they hold. *)

\* Neither the cleanup nor the garbage collector may take it, now or later.
Held(s) == snap[s].keep \/ (Live(s) /\ RD \in snap[s].owners)
Unmarked(s) == snap[s].keep \/ ~snap[s].cleanup
Safe(s) == s # NoSnap => Held(s) /\ Unmarked(s)

\* The ReplicationDestination has to see to it.
Loose(s) == Live(s) /\ RD \in snap[s].owners /\ ~snap[s].keep

\* Nothing of the next sync has been done.
Unstarted == job = "none" /\ ann = NoSnap /\ Safe(rd.image)

(* Every write of the status rests on the current version, so what the     *)
(* cache shows, and what a reconcile has read from it, is this version or  *)
(* the one before; and in the latter case nobody has acted on this one.    *)
Shows(v) ==
  \/ v = rd
  \/ /\ rd.phase = "synchronizing" /\ Unstarted
     /\ v.phase # "synchronizing" /\ v.image = rd.image
  \/ /\ rd.phase = "cleaningup" /\ job = "done" /\ ann = rd.image
     /\ v.phase = "synchronizing" /\ v.image # rd.image

ViewInv ==
  /\ Shows(cached)
  /\ pc \in {"relinquish", "mark", "cleanup"} =>
       /\ Shows(local) /\ (local = rd => cached = rd)
       /\ localCurrent => local = rd
  /\ pc = "write" /\ localCurrent => cached = rd

\* What the current version of the status promises.
StatusInv ==
  /\ rd.phase = "initial" => rd.image = NoSnap /\ Unstarted
  /\ rd.phase = "cleaningup" =>
       /\ rd.image # NoSnap /\ Safe(rd.image) /\ ann \in {NoSnap, rd.image}
       /\ job \in {"none", "done"} /\ (job = "none" => ann = NoSnap)
  /\ rd.phase = "synchronizing" => ann = NoSnap \/ ann # rd.image
  /\ rd.image # NoSnap => Held(rd.image)
  /\ ann # NoSnap => Unmarked(ann) /\ job = "done"

\* The snapshot of a sync that is not over is the only one not marked.
OwnerInv ==
  /\ \A s \in Snaps : snap[s].st = "new" => ~snap[s].cleanup /\ ~snap[s].keep
  /\ NoSnapshotLeaked

\* Where the reconcile is.
StepInv ==
  /\ pc = "mark" =>
       /\ local.phase = "synchronizing" /\ job = "done"
       /\ ann # NoSnap /\ Held(ann)
  /\ pc = "cleanup" =>
       /\ local.phase = "cleaningup" /\ ann = NoSnap
       /\ \A s \in Snaps : InList(s) => seen[s].cleanup
  /\ pc = "write" /\ localCurrent =>
       \/ /\ local.phase = "synchronizing" /\ local.image = rd.image
          /\ rd.phase # "synchronizing" /\ Unstarted
       \/ local = rd
       \/ /\ local.phase = "cleaningup" /\ local.image = ann /\ job = "done"
          /\ ann # NoSnap /\ Held(ann) /\ rd.phase = "synchronizing"
          /\ \A s \in Snaps : Loose(s) /\ s # ann => snap[s].cleanup

ImagesInv == ViewInv /\ StatusInv /\ OwnerInv /\ StepInv

\* What a copy y of a snapshot that is x still tells.
Tells(y, x) ==
  /\ y.st = "gone" => x.st = "gone"
  /\ x.st = "new" => y.st = "new"
  /\ y.keep => x.keep
  /\ y.st = "live" /\ RD \in y.owners =>
       x.keep \/ x.cleanup \/ (x.st = "live" /\ RD \in x.owners)

\* No populator has come across it.
Untouched(x) == x.owners \subseteq {RD} /\ x.inUse = {}

(* The annotated snapshot is not created a second time: as long as the     *)
(* cache does not show it as the latest image no populator knows of it;    *)
(* and a reconcile that read the status before that is the only one that   *)
(* could still take the ownership away.                                    *)
AnnotatedInv ==
  /\ ann # NoSnap /\ cached.image # ann =>
       /\ snap[ann].st = "new" \/ (Live(ann) /\ Held(ann))
       /\ Untouched(snap[ann])
       /\ Untouched(shown[ann]) /\ Untouched(seen[ann])
  /\ pc = "relinquish" /\ local.phase = "synchronizing" /\ ann # NoSnap =>
       /\ \/ snap[ann].st = "new"
          \/ snap[ann].st = "live" /\ RD \in snap[ann].owners
          \/ /\ snap[ann].st = "live" /\ snap[ann].keep
             /\ snap[ann].owners \subseteq {RD}
       /\ seen[ann].owners \subseteq {RD}

(* The cache, which every decision is taken from.                          *)
CacheInv ==
  /\ \A s \in Snaps : Tells(shown[s], snap[s])
  /\ \A s \in Snaps : snap[s].st = "new" =>
       Untouched(snap[s]) /\ Untouched(shown[s]) /\ Untouched(seen[s])
  /\ rd.image # NoSnap => shown[rd.image].st # "new"
  /\ pc = "mark" => shown[ann].st # "new"
  /\ pc = "write" /\ localCurrent /\ local.image # NoSnap =>
       shown[local.image].st # "new"
  /\ AnnotatedInv
=============================================================================
