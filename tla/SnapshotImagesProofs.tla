------------------------ MODULE SnapshotImagesProofs ------------------------
(***************************************************************************)
(* Proofs about SnapshotImages, for any number of snapshots, PVCs, syncs   *)
(* and failures.                                                           *)
(***************************************************************************)
EXTENDS SnapshotImages, TLAPS

-----------------------------------------------------------------------------
(* What the operations make of one snapshot. *)

LEMMA AbsentType ==
  /\ Absent \in Snapshots /\ Absent.st = "gone" /\ Absent.cleanup = FALSE
  /\ Absent.keep = FALSE /\ Absent.owners = {}
BY DEF Absent, Snapshots

\* A snapshot that has just been created.
Created == [Absent EXCEPT !.st = "live", !.owners = {RD}]

LEMMA CreatedType ==
  /\ Created \in Snapshots /\ Created.st = "live" /\ ~Created.cleanup
  /\ Created.owners = {RD} /\ Created.inUse = {} /\ ~Created.ready
BY DEF Created, Absent, Snapshots

(* The cleanup's operations (cleanup.go).                                  *)
LEMMA UnMarkType ==
  ASSUME NEW x \in Snapshots
  PROVE  LET y == UnMarkForCleanupAndRemoveOwnership(x)
         IN /\ y \in Snapshots /\ ~y.cleanup /\ y.owners = x.owners \ {RD}
            /\ y.st = x.st /\ y.keep = x.keep /\ y.inUse = x.inUse
BY DEF UnMarkForCleanupAndRemoveOwnership, Snapshots

LEMMA RemoveOwnerType ==
  ASSUME NEW x \in Snapshots, NEW owner
  PROVE  LET y == RemoveOwnerReference(x, owner)
         IN /\ y \in Snapshots /\ y.owners = x.owners \ {owner}
            /\ y.st = x.st /\ y.keep = x.keep /\ y.cleanup = x.cleanup
BY DEF RemoveOwnerReference, Snapshots

LEMMA DeletedType ==
  ASSUME NEW x \in Snapshots
  PROVE  /\ Deleted(x) \in Snapshots /\ Deleted(x).st = "gone"
         /\ Deleted(x).keep = x.keep /\ Deleted(x).cleanup = x.cleanup
         /\ Deleted(x).owners = x.owners
BY DEF Deleted, Snapshots

LEMMA DisposedType ==
  ASSUME NEW x \in Snapshots
  PROVE  /\ Disposed(x) \in Snapshots
         /\ Disposed(x).st = "gone" \/ RD \notin Disposed(x).owners
         /\ Disposed(x).keep = x.keep /\ Disposed(x).cleanup = x.cleanup
         /\ Disposed(x).st # "new" \/ x.st = "new"
         /\ x.st = "live" /\ Disposed(x).st # "live" => x.owners \subseteq {RD}
<1>1. CASE snapInUseByOther(x)
  BY <1>1, RemoveOwnerType DEF Disposed
<1>2. CASE ~snapInUseByOther(x)
  BY <1>2, DeletedType DEF Disposed, snapInUseByOther, hasOtherOwnerRef
<1>3. QED
  BY <1>1, <1>2

(* The other changes leave the life cycle alone.                           *)
LEMMA MarkType ==
  ASSUME NEW x \in Snapshots
  PROVE  LET y == [x EXCEPT !.cleanup = TRUE]
         IN /\ y \in Snapshots /\ y.cleanup
            /\ y.st = x.st /\ y.keep = x.keep /\ y.owners = x.owners
BY DEF Snapshots

LEMMA KeepType ==
  ASSUME NEW x \in Snapshots
  PROVE  LET y == [x EXCEPT !.keep = TRUE]
         IN /\ y \in Snapshots /\ y.keep /\ y.inUse = x.inUse
            /\ y.st = x.st /\ y.cleanup = x.cleanup /\ y.owners = x.owners
BY DEF Snapshots

LEMMA ReadyType ==
  ASSUME NEW x \in Snapshots
  PROVE  LET y == [x EXCEPT !.ready = TRUE]
         IN /\ y \in Snapshots /\ y.keep = x.keep
            /\ y.st = x.st /\ y.cleanup = x.cleanup /\ y.owners = x.owners
BY DEF Snapshots

LEMMA OwnType ==
  ASSUME NEW x \in Snapshots, NEW o \in PVCs \cup {RD}
  PROVE  LET y == [x EXCEPT !.owners = @ \cup {o}]
         IN /\ y \in Snapshots /\ y.keep = x.keep
            /\ y.st = x.st /\ y.cleanup = x.cleanup
            /\ y.owners = x.owners \cup {o} /\ y.inUse = x.inUse
BY DEF Snapshots

LEMMA InUseType ==
  ASSUME NEW x \in Snapshots, NEW p \in PVCs
  PROVE  /\ LET y == [x EXCEPT !.inUse = @ \cup {p}]
            IN /\ y \in Snapshots /\ y.keep = x.keep
               /\ y.st = x.st /\ y.cleanup = x.cleanup /\ y.owners = x.owners
         /\ LET y == [x EXCEPT !.inUse = @ \ {p}]
            IN /\ y \in Snapshots /\ y.keep = x.keep
               /\ y.st = x.st /\ y.cleanup = x.cleanup /\ y.owners = x.owners
BY DEF Snapshots

LEMMA StatusType ==
  ASSUME NEW r \in Statuses, NEW s \in Snaps \cup {NoSnap}
  PROVE  /\ [r EXCEPT !.phase = "synchronizing"] \in Statuses
         /\ [r EXCEPT !.phase = "synchronizing"].phase = "synchronizing"
         /\ [r EXCEPT !.phase = "synchronizing"].image = r.image
         /\ [phase |-> "cleaningup", image |-> s] \in Statuses
         /\ [phase |-> "initial", image |-> NoSnap] \in Statuses
BY DEF Statuses

(* What EnsureImageSnapshot makes of a copy.                               *)
LEMMA EnsuredType ==
  ASSUME NEW y \in Snapshots
  PROVE  /\ Ensured(y) \in Snapshots /\ Ensured(y).st = "live"
         /\ Ensured(y).keep \/ RD \in Ensured(y).owners
         /\ Untouched(y) => Untouched(Ensured(y))
         /\ y.st = "live" =>
              /\ Ensured(y).keep = y.keep
              /\ y.keep \/ Ensured(y).cleanup = y.cleanup
         /\ y.st # "live" =>
              /\ ~Ensured(y).cleanup /\ ~Ensured(y).ready
              /\ Untouched(Ensured(y))
<1>1. CASE y.st # "live"
  <2>1. Ensured(y) = Created
    BY <1>1 DEF Ensured, Created
  <2>2. QED
    BY <1>1, <2>1, CreatedType DEF Untouched
<1>2. CASE y.st = "live" /\ y.keep
  <2>1. Ensured(y) = UnMarkForCleanupAndRemoveOwnership(y)
    BY <1>2 DEF Ensured
  <2>2. QED
    BY <1>2, <2>1, UnMarkType DEF Untouched
<1>3. CASE y.st = "live" /\ ~y.keep
  <2>1. Ensured(y) = [y EXCEPT !.owners = @ \cup {RD}]
    BY <1>3 DEF Ensured
  <2>2. QED
    BY <1>3, <2>1, OwnType DEF Untouched
<1>4. QED
  BY <1>1, <1>2, <1>3

LEMMA EnsureEffect ==
  ASSUME EnsureImageSnapshot
  PROVE  /\ Run("synchronizing") /\ job = "done" /\ ann # NoSnap
         /\ UNCHANGED <<shown, keeps, rdVars, popVars, faults>>
         /\ \/ Accepted(ann, shown[ann], Ensured(shown[ann]))
            \/ snap' = snap /\ Finish
         /\ \/ /\ pc' = "mark" /\ UNCHANGED <<local, localCurrent, seen, failed>>
               /\ Ensured(shown[ann]).ready
               /\ Accepted(ann, shown[ann], Ensured(shown[ann]))
            \/ Finish
BY DEF EnsureImageSnapshot

(* A copy that is live is current only if the snapshot still is as read.   *)
LEMMA CurrentCopy ==
  ASSUME NEW s \in Snaps, NEW y, y.st = "live", Current(s, y)
  PROVE  snap[s] = y
BY DEF Current

(* The populator's two loops.                                              *)
LEMMA OwnEffect ==
  ASSUME NEW p \in PVCs, ensureOwnerReferenceOnSnapshots(p)
  PROVE  \E done \in SUBSET Unowned(p) :
           /\ \A s \in done : Current(s, shown[s])
           /\ snap' = [s \in Snaps |->
                         IF s \in done THEN [shown[s] EXCEPT !.owners = @ \cup {p}]
                         ELSE snap[s]]
           /\ ppc' \in {[ppc EXCEPT ![p] = "rebind"], [ppc EXCEPT ![p] = "idle"]}
           /\ UNCHANGED faults \/ Fault
BY DEF ensureOwnerReferenceOnSnapshots, UpdateEach, Goto

\* What UnlabelSnapshots makes of a copy.
Unlabelled(p, y) ==
  LET x == [y EXCEPT !.inUse = @ \ {p}]
  IN IF x.keep /\ prime[p] # "deleted" THEN RemoveOwnerReference(x, p) ELSE x

LEMMA UnlabelEffect ==
  ASSUME NEW p \in PVCs, UnlabelSnapshots(p)
  PROVE  \E done \in SUBSET InUseBy(p) :
           /\ \A s \in done : Current(s, shown[s])
           /\ snap' = [s \in Snaps |->
                         IF s \in done THEN Unlabelled(p, shown[s]) ELSE snap[s]]
           /\ ppc' \in {[ppc EXCEPT ![p] = "delete"], [ppc EXCEPT ![p] = "idle"]}
           /\ UNCHANGED faults \/ Fault
BY DEF UnlabelSnapshots, UpdateEach, Goto, Unlabelled

LEMMA UnlabelledType ==
  ASSUME NEW y \in Snapshots, NEW p \in PVCs
  PROVE  /\ Unlabelled(p, y) \in Snapshots
         /\ Unlabelled(p, y).st = y.st /\ Unlabelled(p, y).keep = y.keep
         /\ Unlabelled(p, y).cleanup = y.cleanup
         /\ Unlabelled(p, y).owners \in {y.owners, y.owners \ {p}}
<1> DEFINE x == [y EXCEPT !.inUse = @ \ {p}]
<1>1. /\ x \in Snapshots /\ x.st = y.st /\ x.keep = y.keep
      /\ x.cleanup = y.cleanup /\ x.owners = y.owners
  BY InUseType
<1>2. Unlabelled(p, y) \in {x, RemoveOwnerReference(x, p)}
  BY DEF Unlabelled
<1> HIDE DEF x
<1>3. QED
  BY <1>1, <1>2, RemoveOwnerType

-----------------------------------------------------------------------------
(* Type correctness. *)

LEMMA FinishType ==
  ASSUME Finish
  PROVE  /\ pc' = "idle" /\ local' \in Statuses
         /\ seen' \in [Snaps -> Snapshots]
BY AbsentType DEF Finish, Statuses

LEMMA AcceptedType ==
  ASSUME ValuesOK, NEW s \in Snaps, NEW y, NEW x \in Snapshots,
         Accepted(s, y, x)
  PROVE  snap' \in [Snaps -> Snapshots]
BY DEF Accepted, Write, ValuesOK

LEMMA TypeInit == Init => TypeOK
<1>1. Init => ValuesOK
  <2> SUFFICES ASSUME Init PROVE ValuesOK
    OBVIOUS
  <2>1. [Absent EXCEPT !.st = "new"] \in Snapshots
    BY DEF Absent, Snapshots
  <2>2. [phase |-> "initial", image |-> NoSnap] \in Statuses
    BY DEF Statuses
  <2>3. /\ snap = [s \in Snaps |-> [Absent EXCEPT !.st = "new"]]
        /\ shown = snap
        /\ rd = [phase |-> "initial", image |-> NoSnap]
        /\ cached = rd /\ local = rd
        /\ job = "none" /\ ann = NoSnap
        /\ pc = "idle" /\ seen = [s \in Snaps |-> Absent]
        /\ ppc = [p \in PVCs |-> "idle"]
        /\ source = [p \in PVCs |-> NoSnap]
        /\ prime = [p \in PVCs |-> "none"]
        /\ bound = {}
        /\ keeps = 0 /\ faults = 0
    BY Zenon DEF Init
  <2>4. QED
    BY <2>1, <2>2, <2>3, AbsentType DEF ValuesOK
<1>2. Init => FlagsOK
  BY Zenon DEF Init, FlagsOK
<1>3. QED
  BY <1>1, <1>2 DEF TypeOK

LEMMA ValuesStep == ValuesOK /\ [Next]_vars => ValuesOK'
<1> SUFFICES ASSUME ValuesOK, [Next]_vars PROVE ValuesOK'
  OBVIOUS
<1> USE DEF snapVars, rdVars, recVars, popVars
<1>k. \A s \in Snaps : shown[s] \in Snapshots /\ Absent \in Snapshots
  BY AbsentType DEF ValuesOK
<1>m. \A s \in Snaps : Marked(shown[s]) \in Snapshots
  BY MarkType DEF ValuesOK, Marked
<1>t. /\ [local EXCEPT !.phase = "synchronizing"] \in Statuses
      /\ [phase |-> "cleaningup", image |-> ann] \in Statuses
      /\ local.image \in Snaps \cup {NoSnap}
  BY StatusType DEF ValuesOK, Statuses
<1>1. CASE Get
  BY <1>1, <1>k DEF Get, Listed, ValuesOK
<1>2. CASE RelinquishFails
  BY <1>2, FinishType DEF RelinquishFails, ValuesOK
<1>3. CASE doInitialState
  BY <1>3, StatusType DEF doInitialState, ValuesOK
<1>4. CASE SynchronizeInProgress
  BY <1>4, FinishType DEF SynchronizeInProgress, ValuesOK
<1>5. CASE EnsureImageSnapshot
  <2>1. ann \in Snaps /\ Ensured(shown[ann]) \in Snapshots
    BY <1>5, EnsureEffect, EnsuredType DEF ValuesOK
  <2>2. snap' \in [Snaps -> Snapshots]
    BY <1>5, <2>1, EnsureEffect, AcceptedType DEF ValuesOK
  <2>3. QED
    BY <1>5, <2>2, EnsureEffect, FinishType DEF ValuesOK
<1>6. CASE MarkOldSnapshotForCleanup
  BY <1>6, <1>m, <1>t, FinishType
     DEF MarkOldSnapshotForCleanup, IsOld, Publish, Write, ValuesOK
<1>7. CASE RemoveSnapshotAnnotation
  BY <1>7, <1>k DEF RemoveSnapshotAnnotation, Listed, ValuesOK
<1>8. CASE CleanupFails
  BY <1>8, FinishType DEF CleanupFails, ValuesOK
<1>9. CASE CleanupCompletes
  BY <1>9, <1>t DEF CleanupCompletes, ValuesOK
<1>10. CASE UpdateStatus
  BY <1>10, FinishType DEF UpdateStatus, ValuesOK
<1>11. CASE UpdateStatusFails
  BY <1>11, FinishType DEF UpdateStatusFails, Fault, ValuesOK
<1>12. CASE ReconcileFails
  BY <1>12, FinishType DEF ReconcileFails, Fault, ValuesOK
<1>13. CASE \E s \in Snaps : RelinquishSnap(s)
  <2>1. PICK s \in Snaps : RelinquishSnap(s)
    BY <1>13
  <2>2. UnMarkForCleanupAndRemoveOwnership(seen[s]) \in Snapshots
    BY UnMarkType DEF ValuesOK
  <2>3. snap' \in [Snaps -> Snapshots]
    BY <2>1, <2>2, AcceptedType DEF RelinquishSnap, ValuesOK
  <2>4. QED
    BY <2>1, <2>3, AbsentType DEF RelinquishSnap, Forget, ValuesOK
<1>14. CASE \E s \in Snaps : AnnotatePVC(s)
  BY <1>14 DEF AnnotatePVC, ValuesOK
<1>15. CASE \E s \in Snaps : CleanupSnap(s)
  <2>1. PICK s \in Snaps : CleanupSnap(s)
    BY <1>15
  <2>2. Disposed(seen[s]) \in Snapshots
    BY DisposedType DEF ValuesOK
  <2>3. snap' \in [Snaps -> Snapshots]
    BY <2>1, <2>2, AcceptedType DEF CleanupSnap
  <2>4. QED
    BY <2>1, <2>3, AbsentType DEF CleanupSnap, Forget, ValuesOK
<1>16. CASE CacheSync
  BY <1>16 DEF CacheSync, ValuesOK
<1>17. CASE JobSucceeds
  BY <1>17 DEF JobSucceeds, ValuesOK
<1>18. CASE Crash
  BY <1>18, FinishType DEF Crash, Fault, ValuesOK
<1>19. CASE \E s \in Snaps : SnapshotBinds(s)
  BY <1>19, ReadyType DEF SnapshotBinds, Write, ValuesOK
<1>20. CASE \E s \in Snaps : GarbageCollect(s)
  BY <1>20, DeletedType DEF GarbageCollect, Write, ValuesOK
<1>21. CASE \E s \in Snaps : LabelDoNotDelete(s)
  BY <1>21, KeepType DEF LabelDoNotDelete, Write, ValuesOK
<1>22. CASE \E p \in PVCs : Provision(p)
  BY <1>22 DEF Provision, ValuesOK
<1>23. CASE \E p \in PVCs : PVCBinds(p)
  BY <1>23 DEF PVCBinds, ValuesOK
<1>24. CASE \E p \in PVCs : PrimeLosesVolume(p)
  BY <1>24 DEF PrimeLosesVolume, ValuesOK
<1>25. CASE \E p \in PVCs : LabelSnapshot(p)
  <2>1. PICK p \in PVCs : LabelSnapshot(p)
    BY <1>25
  <2>2. cached.image \in Snaps
    BY <2>1 DEF LabelSnapshot, ValuesOK, Statuses
  <2>3. [shown[cached.image] EXCEPT !.inUse = @ \cup {p}] \in Snapshots
    BY <2>2, InUseType DEF ValuesOK
  <2>4. snap' \in [Snaps -> Snapshots]
    BY <2>1, <2>2, <2>3, AcceptedType DEF LabelSnapshot
  <2>5. QED
    BY <2>1, <2>2, <2>4 DEF LabelSnapshot, Goto, ValuesOK
<1>26. CASE \E p \in PVCs : CreatePrime(p)
  BY <1>26 DEF CreatePrime, Goto, ValuesOK
<1>27. CASE \E p \in PVCs : FindPrime(p)
  BY <1>27 DEF FindPrime, Goto, ValuesOK
<1>28. CASE \E p \in PVCs : ensureOwnerReferenceOnSnapshots(p)
  <2>1. PICK p \in PVCs : ensureOwnerReferenceOnSnapshots(p)
    BY <1>28
  <2>2. \A s \in Snaps : [shown[s] EXCEPT !.owners = @ \cup {p}] \in Snapshots
    BY OwnType DEF ValuesOK
  <2>3. /\ snap' \in [Snaps -> Snapshots]
        /\ ppc' \in {[ppc EXCEPT ![p] = "rebind"], [ppc EXCEPT ![p] = "idle"]}
        /\ UNCHANGED faults \/ Fault
    BY <2>1, <2>2, OwnEffect DEF ValuesOK
  <2>4. QED
    BY <2>1, <2>3 DEF ensureOwnerReferenceOnSnapshots, Fault, ValuesOK
<1>29. CASE \E p \in PVCs : RebindPVClaim(p)
  BY <1>29 DEF RebindPVClaim, Goto, ValuesOK
<1>30. CASE \E p \in PVCs : PopulatorFinished(p)
  BY <1>30 DEF PopulatorFinished, Goto, ValuesOK
<1>31. CASE \E p \in PVCs : WaitForRebind(p)
  BY <1>31 DEF WaitForRebind, Goto, ValuesOK
<1>32. CASE \E p \in PVCs : UnlabelSnapshots(p)
  <2>1. PICK p \in PVCs : UnlabelSnapshots(p)
    BY <1>32
  <2>2. \A s \in Snaps : Unlabelled(p, shown[s]) \in Snapshots
    BY UnlabelledType DEF ValuesOK
  <2>3. /\ snap' \in [Snaps -> Snapshots]
        /\ ppc' \in {[ppc EXCEPT ![p] = "delete"], [ppc EXCEPT ![p] = "idle"]}
        /\ UNCHANGED faults \/ Fault
    BY <2>1, <2>2, UnlabelEffect DEF ValuesOK
  <2>4. QED
    BY <2>1, <2>3 DEF UnlabelSnapshots, Fault, ValuesOK
<1>33. CASE \E p \in PVCs : DeletePrime(p)
  BY <1>33 DEF DeletePrime, Goto, ValuesOK
<1>34. CASE \E p \in PVCs : PopulatorFails(p)
  BY <1>34 DEF PopulatorFails, Goto, Fault, ValuesOK
<1>35. CASE UNCHANGED vars
  BY <1>35 DEF vars, ValuesOK
<1>sync. CASE \E s \in Snaps : SnapshotCacheSync(s)
  BY <1>sync DEF SnapshotCacheSync, ValuesOK
<1>36. QED
  BY <1>1, <1>2, <1>3, <1>4, <1>5, <1>6, <1>7, <1>8, <1>9, <1>10, <1>11,
     <1>12, <1>13, <1>14, <1>15, <1>16, <1>17, <1>18, <1>19, <1>20, <1>21,
     <1>22, <1>23, <1>24, <1>25, <1>26, <1>27, <1>28, <1>29, <1>30, <1>31,
     <1>32, <1>33, <1>34, <1>35, <1>sync DEF Next, Reconcile, Populate,
     Environment

LEMMA FlagsStep == FlagsOK /\ [Next]_vars => FlagsOK'
<1> SUFFICES ASSUME FlagsOK, [Next]_vars PROVE FlagsOK'
  OBVIOUS
<1> USE DEF snapVars, rdVars, recVars, popVars, Finish, FlagsOK
<1>1. CASE Get
  BY Zenon, <1>1 DEF Get
<1>2. CASE RelinquishFails
  BY Zenon, <1>2 DEF RelinquishFails
<1>3. CASE doInitialState
  BY Zenon, <1>3 DEF doInitialState
<1>4. CASE SynchronizeInProgress
  BY Zenon, <1>4 DEF SynchronizeInProgress
<1>5. CASE EnsureImageSnapshot
  BY EnsureEffect, Zenon, <1>5 DEF EnsureImageSnapshot
<1>6. CASE MarkOldSnapshotForCleanup
  BY Zenon, <1>6 DEF MarkOldSnapshotForCleanup, Publish
<1>7. CASE RemoveSnapshotAnnotation
  BY Zenon, <1>7 DEF RemoveSnapshotAnnotation
<1>8. CASE CleanupFails
  BY Zenon, <1>8 DEF CleanupFails
<1>9. CASE CleanupCompletes
  BY Zenon, <1>9 DEF CleanupCompletes
<1>10. CASE UpdateStatus
  BY Zenon, <1>10 DEF UpdateStatus
<1>11. CASE UpdateStatusFails
  BY Zenon, <1>11 DEF UpdateStatusFails
<1>12. CASE ReconcileFails
  BY Zenon, <1>12 DEF ReconcileFails
<1>13. CASE \E s \in Snaps : RelinquishSnap(s)
  BY Zenon, <1>13 DEF RelinquishSnap
<1>14. CASE \E s \in Snaps : AnnotatePVC(s)
  BY Zenon, <1>14 DEF AnnotatePVC
<1>15. CASE \E s \in Snaps : CleanupSnap(s)
  BY Zenon, <1>15 DEF CleanupSnap
<1>16. CASE CacheSync
  BY Zenon, <1>16 DEF CacheSync
<1>17. CASE JobSucceeds
  BY Zenon, <1>17 DEF JobSucceeds
<1>18. CASE Crash
  BY Zenon, <1>18 DEF Crash
<1>19. CASE \E s \in Snaps : SnapshotBinds(s)
  BY Zenon, <1>19 DEF SnapshotBinds
<1>20. CASE \E s \in Snaps : GarbageCollect(s)
  BY Zenon, <1>20 DEF GarbageCollect
<1>21. CASE \E s \in Snaps : LabelDoNotDelete(s)
  BY Zenon, <1>21 DEF LabelDoNotDelete
<1>22. CASE \E p \in PVCs : Provision(p)
  BY Zenon, <1>22 DEF Provision
<1>23. CASE \E p \in PVCs : PVCBinds(p)
  BY Zenon, <1>23 DEF PVCBinds
<1>24. CASE \E p \in PVCs : PrimeLosesVolume(p)
  BY Zenon, <1>24 DEF PrimeLosesVolume
<1>25. CASE \E p \in PVCs : LabelSnapshot(p)
  BY Zenon, <1>25 DEF LabelSnapshot
<1>26. CASE \E p \in PVCs : CreatePrime(p)
  BY Zenon, <1>26 DEF CreatePrime
<1>27. CASE \E p \in PVCs : FindPrime(p)
  BY Zenon, <1>27 DEF FindPrime
<1>28. CASE \E p \in PVCs : ensureOwnerReferenceOnSnapshots(p)
  BY Zenon, <1>28 DEF ensureOwnerReferenceOnSnapshots
<1>29. CASE \E p \in PVCs : RebindPVClaim(p)
  BY Zenon, <1>29 DEF RebindPVClaim
<1>30. CASE \E p \in PVCs : PopulatorFinished(p)
  BY Zenon, <1>30 DEF PopulatorFinished
<1>31. CASE \E p \in PVCs : WaitForRebind(p)
  BY Zenon, <1>31 DEF WaitForRebind
<1>32. CASE \E p \in PVCs : UnlabelSnapshots(p)
  BY Zenon, <1>32 DEF UnlabelSnapshots
<1>33. CASE \E p \in PVCs : DeletePrime(p)
  BY Zenon, <1>33 DEF DeletePrime
<1>34. CASE \E p \in PVCs : PopulatorFails(p)
  BY Zenon, <1>34 DEF PopulatorFails
<1>35. CASE UNCHANGED vars
  BY Zenon, <1>35 DEF vars
<1>sync. CASE \E s \in Snaps : SnapshotCacheSync(s)
  BY Zenon, <1>sync DEF SnapshotCacheSync
<1>36. QED
  BY <1>1, <1>2, <1>3, <1>4, <1>5, <1>6, <1>7, <1>8, <1>9, <1>10, <1>11,
     <1>12, <1>13, <1>14, <1>15, <1>16, <1>17, <1>18, <1>19, <1>20, <1>21,
     <1>22, <1>23, <1>24, <1>25, <1>26, <1>27, <1>28, <1>29, <1>30, <1>31,
     <1>32, <1>33, <1>34, <1>35, <1>sync DEF Next, Reconcile, Populate,
     Environment

(* Type correctness of SnapshotImages.                                     *)
THEOREM TypeCorrect == Spec => []TypeOK
<1>1. TypeOK /\ [Next]_vars => TypeOK'
  BY ValuesStep, FlagsStep DEF TypeOK
<1>2. QED
  BY TypeInit, <1>1, PTL DEF Spec

-----------------------------------------------------------------------------
(* What the steps of the others do to the ReplicationDestination's view. *)

\* A snapshot keeps what the ReplicationDestination's rules depend on.
Alike(x, y) ==
  /\ y.st = x.st /\ y.keep = x.keep /\ y.cleanup = x.cleanup
  /\ RD \in y.owners <=> RD \in x.owners
  /\ x.keep => y.owners \subseteq x.owners

\* A snapshot the populators have not come across remains so.
Unnoticed(s) ==
  s # cached.image /\ Untouched(snap[s]) /\ Untouched(shown[s]) =>
    Untouched(snap'[s])

Calm ==
  /\ \A s \in Snaps : Alike(snap[s], snap'[s]) /\ Unnoticed(s)
  /\ \A s \in Snaps : snap'[s].st = "new" => snap'[s] = snap[s]
  /\ UNCHANGED <<shown, rdVars, recVars>>

LEMMA AlikeSame == \A s \in Snaps : Alike(snap[s], snap[s])
BY DEF Alike

(* The populator, the CSI driver and the bind controller add and remove    *)
(* references and labels of their own.                                     *)
LEMMA PopulateIsCalm ==
  ASSUME ValuesOK, NEW p \in PVCs, Populate(p)
  PROVE  Calm
<1> USE DEF snapVars
<1>1. CASE LabelSnapshot(p)
  <2> DEFINE u == cached.image
             x == [shown[u] EXCEPT !.inUse = @ \cup {p}]
  <2>1. u \in Snaps /\ shown[u].st = "live" /\ Accepted(u, shown[u], x)
    BY <1>1 DEF LabelSnapshot, ValuesOK, Statuses
  <2>2. /\ x.st = shown[u].st /\ x.keep = shown[u].keep
        /\ x.cleanup = shown[u].cleanup /\ x.owners = shown[u].owners
    BY <2>1, InUseType DEF ValuesOK
  <2> HIDE DEF x
  <2>3. \/ snap' = snap
        \/ snap[u] = shown[u] /\ snap' = [snap EXCEPT ![u] = x]
    BY <2>1, CurrentCopy DEF Accepted, Write
  <2>4. \A s \in Snaps : Alike(snap[s], snap'[s])
    BY <2>1, <2>2, <2>3 DEF Alike, ValuesOK
  <2>5. \A s \in Snaps \ {u} : snap'[s] = snap[s]
    BY <2>3 DEF ValuesOK
  <2>6. snap'[u].st = "live" \/ snap' = snap
    BY <2>1, <2>2, <2>3 DEF ValuesOK
  <2>7. QED
    BY <1>1, <2>4, <2>5, <2>6 DEF LabelSnapshot, Calm, Unnoticed
<1>2. CASE ensureOwnerReferenceOnSnapshots(p)
  <2>1. PICK done \in SUBSET Unowned(p) :
          /\ \A s \in done : Current(s, shown[s])
          /\ snap' = [s \in Snaps |->
                        IF s \in done THEN [shown[s] EXCEPT !.owners = @ \cup {p}]
                        ELSE snap[s]]
    BY <1>2, OwnEffect
  <2>2. \A s \in done : /\ s \in Snaps /\ shown[s].st = "live"
                        /\ ~shown[s].keep /\ p \in shown[s].inUse
    BY DEF Unowned, InUseBy
  <2>3. \A s \in done : snap[s] = shown[s]
    BY <2>1, <2>2, CurrentCopy
  <2>4. ASSUME NEW s \in done
        PROVE  /\ Alike(snap[s], [shown[s] EXCEPT !.owners = @ \cup {p}])
               /\ [shown[s] EXCEPT !.owners = @ \cup {p}].st = "live"
    BY <2>2, <2>3, OwnType, NameAssumption DEF ValuesOK, Alike
  <2>5. \A s \in Snaps : \/ s \notin done /\ snap'[s] = snap[s]
                         \/ /\ s \in done /\ Alike(snap[s], snap'[s])
                            /\ snap'[s].st = "live"
    BY <2>1, <2>4
  <2>6. QED
    BY <1>2, <2>2, <2>5, AlikeSame
       DEF ensureOwnerReferenceOnSnapshots, Calm, Unnoticed, Untouched
<1>3. CASE UnlabelSnapshots(p)
  <2>1. PICK done \in SUBSET InUseBy(p) :
          /\ \A s \in done : Current(s, shown[s])
          /\ snap' = [s \in Snaps |->
                        IF s \in done THEN Unlabelled(p, shown[s]) ELSE snap[s]]
    BY <1>3, UnlabelEffect
  <2>2. \A s \in done : /\ s \in Snaps /\ shown[s].st = "live"
                        /\ p \in shown[s].inUse
    BY DEF InUseBy
  <2>3. \A s \in done : snap[s] = shown[s]
    BY <2>1, <2>2, CurrentCopy
  <2>4. ASSUME NEW s \in done
        PROVE  /\ Alike(snap[s], Unlabelled(p, shown[s]))
               /\ Unlabelled(p, shown[s]).st = "live"
    <3>1. shown[s] \in Snapshots /\ snap[s] = shown[s] /\ RD # p
      BY <2>2, <2>3, NameAssumption DEF ValuesOK
    <3>2. /\ Unlabelled(p, shown[s]).st = shown[s].st
          /\ Unlabelled(p, shown[s]).keep = shown[s].keep
          /\ Unlabelled(p, shown[s]).cleanup = shown[s].cleanup
          /\ Unlabelled(p, shown[s]).owners
               \in {shown[s].owners, shown[s].owners \ {p}}
      BY <3>1, UnlabelledType
    <3>3. QED
      BY <2>2, <3>1, <3>2 DEF Alike
  <2>5. \A s \in Snaps : \/ s \notin done /\ snap'[s] = snap[s]
                         \/ /\ s \in done /\ Alike(snap[s], snap'[s])
                            /\ snap'[s].st = "live"
    BY <2>1, <2>4
  <2>6. QED
    BY <1>3, <2>2, <2>5, AlikeSame
       DEF UnlabelSnapshots, Calm, Unnoticed, Untouched
<1>4. CASE \/ CreatePrime(p) \/ FindPrime(p) \/ RebindPVClaim(p)
           \/ PopulatorFinished(p) \/ WaitForRebind(p) \/ DeletePrime(p)
           \/ PopulatorFails(p)
  <2>1. snap' = snap /\ UNCHANGED <<shown, rdVars, recVars>>
    BY <1>4 DEF CreatePrime, FindPrime, RebindPVClaim, PopulatorFinished,
       WaitForRebind, DeletePrime, PopulatorFails
  <2>2. QED
    BY <2>1, AlikeSame DEF Calm, Unnoticed
<1>5. QED
  BY <1>1, <1>2, <1>3, <1>4 DEF Populate

LEMMA CalmActions ==
  ASSUME ValuesOK, [Next]_vars
  PROVE  \/ Calm \/ Reconcile \/ CacheSync \/ JobSucceeds \/ Crash
         \/ \E s \in Snaps : \/ GarbageCollect(s) \/ LabelDoNotDelete(s)
                             \/ SnapshotCacheSync(s)
<1> USE DEF snapVars
<1>1. CASE \E s \in Snaps : SnapshotBinds(s)
  <2>1. PICK s \in Snaps : SnapshotBinds(s)
    BY <1>1
  <2> DEFINE x == [snap[s] EXCEPT !.ready = TRUE]
  <2>2. /\ Alike(snap[s], x) /\ x.st = "live"
        /\ Untouched(snap[s]) => Untouched(x)
    BY <2>1, ReadyType DEF ValuesOK, Alike, SnapshotBinds, Live, Untouched,
       Snapshots
  <2>3. snap'[s] = x /\ \A u \in Snaps \ {s} : snap'[u] = snap[u]
    BY <2>1 DEF SnapshotBinds, Write, ValuesOK
  <2> HIDE DEF x
  <2>4. QED
    BY <2>1, <2>2, <2>3, AlikeSame DEF SnapshotBinds, Calm, Unnoticed
<1>2. CASE \/ \E p \in PVCs : Provision(p) \/ PVCBinds(p) \/ PrimeLosesVolume(p)
           \/ UNCHANGED vars
  <2>1. snap' = snap /\ UNCHANGED <<shown, rdVars, recVars>>
    BY <1>2 DEF Provision, PVCBinds, PrimeLosesVolume, vars
  <2>2. QED
    BY <2>1, AlikeSame DEF Calm, Unnoticed
<1>3. QED
  BY <1>1, <1>2, PopulateIsCalm DEF Next, Environment

-----------------------------------------------------------------------------
(* What is protected is not deleted. *)

(* Of the reconcile's steps only CleanupSnap deletes, and only a snapshot  *)
(* that is still as it was listed.                                         *)
LEMMA OnlyCleanupDeletes ==
  ASSUME ValuesOK, Reconcile, NEW s \in Snaps, Live(s), ~Live(s)'
  PROVE  /\ CleanupSnap(s) /\ snap[s] = seen[s]
         /\ snap'[s] = Disposed(snap[s])
<1> USE DEF snapVars, Live
<1>1. snap' # snap
  OBVIOUS
<1>2. ~EnsureImageSnapshot
  <2>1. SUFFICES ASSUME EnsureImageSnapshot PROVE FALSE
    OBVIOUS
  <2>2. Accepted(ann, shown[ann], Ensured(shown[ann])) /\ ann \in Snaps
    BY <1>1, <2>1, EnsureEffect DEF ValuesOK
  <2>3. Ensured(shown[ann]).st = "live"
    BY <2>2, EnsuredType DEF ValuesOK
  <2>4. QED
    BY <1>1, <2>2, <2>3 DEF Accepted, Write, ValuesOK
<1>3. ~MarkOldSnapshotForCleanup
  <2>1. SUFFICES ASSUME MarkOldSnapshotForCleanup PROVE FALSE
    OBVIOUS
  <2>2. /\ IsOld(local.image) /\ Write(local.image, Marked(shown[local.image]))
    BY <1>1, <2>1 DEF MarkOldSnapshotForCleanup
  <2>3. local.image \in Snaps /\ shown[local.image].st = "live"
    BY <2>2 DEF IsOld, ValuesOK, Statuses
  <2>4. Marked(shown[local.image]).st = "live"
    BY <2>3, MarkType DEF ValuesOK, Marked
  <2>5. QED
    BY <2>2, <2>3, <2>4 DEF Write, ValuesOK
<1>4. ASSUME NEW u \in Snaps, RelinquishSnap(u) PROVE FALSE
  <2>1. UnMarkForCleanupAndRemoveOwnership(seen[u]).st = seen[u].st
    BY UnMarkType DEF ValuesOK
  <2>2. QED
    BY <1>1, <1>4, <2>1 DEF RelinquishSnap, Accepted, Current, Write,
       ValuesOK, InList
<1>5. ASSUME NEW u \in Snaps, AnnotatePVC(u) PROVE FALSE
  BY <1>1, <1>5 DEF AnnotatePVC
<1>6. PICK u \in Snaps : CleanupSnap(u)
  BY <1>1, <1>2, <1>3, <1>4, <1>5 DEF Reconcile, Get, RelinquishFails,
     doInitialState, SynchronizeInProgress, RemoveSnapshotAnnotation,
     CleanupFails, CleanupCompletes, UpdateStatus, UpdateStatusFails,
     ReconcileFails
<1>7. snap[u] = seen[u] /\ Write(u, Disposed(seen[u]))
  BY <1>1, <1>6, CurrentCopy DEF CleanupSnap, Accepted, InList
<1>8. u = s
  BY <1>7 DEF Write, ValuesOK
<1>9. QED
  BY <1>6, <1>7, <1>8 DEF Write, ValuesOK

LEMMA DeletionStep ==
  ASSUME ValuesOK, [Next]_vars, NEW s \in Snaps, Live(s), ~Live(s)'
  PROVE  /\ \A p \in PVCs \cap snap[s].owners : prime[p] = "deleted"
         /\ snap[s].keep => Garbage(s)
<1>1. CASE Calm
  BY <1>1 DEF Calm, Alike, Live
<1>2. CASE Reconcile
  <2>1. /\ CleanupSnap(s) /\ snap[s] = seen[s]
        /\ snap'[s] = Disposed(snap[s])
    BY <1>2, OnlyCleanupDeletes
  <2>2. snap[s].owners \subseteq {RD}
    BY <2>1, DisposedType DEF Live, ValuesOK
  <2>3. ~snap[s].keep
    BY <2>1 DEF CleanupSnap, Relinquished
  <2>4. QED
    BY <2>2, <2>3, NameAssumption
<1>3. CASE CacheSync \/ JobSucceeds \/ Crash \/ \E u \in Snaps : SnapshotCacheSync(u)
  BY <1>3 DEF CacheSync, JobSucceeds, Crash, SnapshotCacheSync, snapVars, Live
<1>4. CASE \E u \in Snaps : GarbageCollect(u)
  <2>1. PICK u \in Snaps : GarbageCollect(u)
    BY <1>4
  <2>2. u = s
    BY <2>1 DEF GarbageCollect, Write, ValuesOK, Live
  <2>3. QED
    BY <2>1, <2>2 DEF GarbageCollect, Garbage
<1>5. CASE \E u \in Snaps : LabelDoNotDelete(u)
  <2>1. PICK u \in Snaps : LabelDoNotDelete(u)
    BY <1>5
  <2>2. [snap[u] EXCEPT !.keep = TRUE].st = snap[u].st
    BY KeepType DEF ValuesOK
  <2>3. QED
    BY <2>1, <2>2 DEF LabelDoNotDelete, Write, ValuesOK, Live
<1>6. QED
  BY <1>1, <1>2, <1>3, <1>4, <1>5, CalmActions

(* A snapshot owned by a PVC prime that exists is never deleted, and one   *)
(* labelled do-not-delete is never deleted by the cleanup, even if owner   *)
(* reference or label came after the cleanup had listed it                 *)
(* (cleanup.go:107-128, volumepopulator_controller.go:755-778).            *)
THEOREM ProtectionHolds == Spec => ProtectedNotDeleted
<1> DEFINE Protected ==
      \A s \in Snaps : Live(s) /\ ~Live(s)' =>
        /\ \A p \in PVCs \cap snap[s].owners : prime[p] = "deleted"
        /\ snap[s].keep => Garbage(s)
<1>1. Spec => []ValuesOK
  BY TypeCorrect, PTL DEF TypeOK
<1>2. ValuesOK /\ [Next]_vars => [Protected]_vars
  BY DeletionStep
<1>3. Spec => [][Protected]_vars
  BY <1>1, <1>2, PTL DEF Spec
<1>4. QED
  BY <1>3 DEF ProtectedNotDeleted

-----------------------------------------------------------------------------
(* The latest image, and the ones before it. *)

(* No snapshot that matters to the status is endangered, and none becomes  *)
(* the ReplicationDestination's to clean up.                               *)
Mild ==
  /\ \A s \in Snaps \cap {rd.image, ann} :
       (Held(s) => Held(s)') /\ (Unmarked(s) => Unmarked(s)')
  /\ \A s \in Snaps :
       /\ Loose(s)' => Loose(s) /\ (snap[s].cleanup => snap'[s].cleanup)
       /\ snap'[s].st = "new" =>
            /\ snap[s].st = "new" /\ snap'[s].keep = snap[s].keep
            /\ snap'[s].cleanup = snap[s].cleanup

LEMMA MildFrame ==
  ASSUME ValuesOK, ImagesInv, Mild, rd' = rd, job' = job, ann' = ann
  PROVE  /\ StatusInv' /\ OwnerInv'
         /\ Unstarted => Unstarted'
         /\ \A v : Shows(v) => Shows(v)'
<1>1. rd.image \in Snaps \cup {NoSnap} /\ ann \in Snaps \cup {NoSnap}
  BY DEF ValuesOK, Statuses
<1>2. Safe(rd.image) => Safe(rd.image)'
  BY <1>1 DEF Safe, Mild
<1>3. Unstarted => Unstarted'
  BY <1>2 DEF Unstarted
<1>4. StatusInv'
  BY <1>1, <1>2, <1>3 DEF ImagesInv, StatusInv, Mild
<1>5. OwnerInv'
  <2>1. \A s \in Snaps :
          snap'[s].st = "new" => ~snap'[s].cleanup /\ ~snap'[s].keep
    BY DEF ImagesInv, OwnerInv, Mild
  <2>2. \A s \in Snaps :
          Loose(s)' /\ s # rd'.image /\ s # ann' => snap'[s].cleanup
    BY DEF ImagesInv, OwnerInv, NoSnapshotLeaked, Mild, Loose
  <2>3. QED
    BY <2>1, <2>2 DEF OwnerInv, NoSnapshotLeaked, Loose
<1>6. \A v : Shows(v) => Shows(v)'
  BY <1>3 DEF Shows
<1>7. QED
  BY <1>3, <1>4, <1>5, <1>6

LEMMA SameIsMild == snap' = snap => Mild
BY DEF Mild, Held, Unmarked, Loose, Live

(* The reconcile is over: only the status and the cache matter.            *)
LEMMA IdleFrame ==
  ASSUME StatusInv', OwnerInv', Shows(cached)', pc' = "idle"
  PROVE  ImagesInv'
BY DEF ImagesInv, ViewInv, StepInv

LEMMA QuietEnd ==
  ASSUME ValuesOK, ImagesInv, pc' = "idle", UNCHANGED <<snap, rd, job, ann>>,
         cached' \in {cached, rd}
  PROVE  ImagesInv'
<1>1. /\ StatusInv' /\ OwnerInv' /\ \A v : Shows(v) => Shows(v)'
  BY SameIsMild, MildFrame
<1>2. Shows(cached) /\ Shows(rd)
  BY DEF ImagesInv, ViewInv, Shows
<1>3. Shows(cached)'
  BY <1>1, <1>2
<1>4. QED
  BY <1>1, <1>3, IdleFrame

(* The reconcile stays where it is, with the list it has.                  *)
LEMMA StayFrame ==
  ASSUME ValuesOK, ImagesInv, Mild, UNCHANGED <<rd, cached, job, ann>>,
         UNCHANGED recVars
  PROVE  ImagesInv'
<1>1. /\ StatusInv' /\ OwnerInv'
      /\ Unstarted => Unstarted'
      /\ \A v : Shows(v) => Shows(v)'
  BY MildFrame
<1>2. /\ pc' = pc /\ local' = local /\ seen' = seen
      /\ localCurrent' = localCurrent /\ failed' = failed
  BY DEF recVars
<1>3. ViewInv'
  BY <1>1, <1>2 DEF ImagesInv, ViewInv
<1>4. ann \in Snaps \cup {NoSnap}
  BY DEF ValuesOK
<1>5. StepInv'
  BY <1>1, <1>2, <1>4 DEF ImagesInv, StepInv, Mild, InList
<1>6. QED
  BY <1>1, <1>3, <1>5 DEF ImagesInv

LEMMA CalmStep == ValuesOK /\ ImagesInv /\ Calm => ImagesInv'
<1> SUFFICES ASSUME ValuesOK, ImagesInv, Calm PROVE ImagesInv'
  OBVIOUS
<1>1. Mild
  BY DEF Calm, Alike, Mild, Held, Unmarked, Loose, Live
<1>2. UNCHANGED <<rd, cached, job, ann>> /\ UNCHANGED recVars
  BY DEF Calm, rdVars
<1>3. QED
  BY <1>1, <1>2, StayFrame

LEMMA ImagesInit == Init => ImagesInv
<1> SUFFICES ASSUME Init PROVE ImagesInv
  OBVIOUS
<1>1. /\ snap = [s \in Snaps |-> [Absent EXCEPT !.st = "new"]]
      /\ rd = [phase |-> "initial", image |-> NoSnap]
      /\ cached = rd /\ job = "none" /\ ann = NoSnap /\ pc = "idle"
  BY Zenon DEF Init
<1>2. \A s \in Snaps :
        /\ snap[s].st = "new" /\ ~snap[s].cleanup /\ ~snap[s].keep
        /\ snap[s].owners = {}
  BY <1>1 DEF Absent
<1>3. OwnerInv
  BY <1>1, <1>2 DEF OwnerInv, NoSnapshotLeaked, Loose
<1>4. Unstarted
  BY <1>1 DEF Unstarted, Safe
<1>5. StatusInv /\ Shows(cached)
  BY <1>1, <1>4 DEF StatusInv, Shows
<1>6. QED
  BY <1>1, <1>3, <1>5 DEF ImagesInv, ViewInv, StepInv

(* The user and the garbage collector.                                     *)
LEMMA LabelStep ==
  ASSUME ValuesOK, ImagesInv, NEW s \in Snaps, LabelDoNotDelete(s)
  PROVE  ImagesInv'
<1> DEFINE x == [snap[s] EXCEPT !.keep = TRUE]
<1>1. /\ x.keep /\ x.st = "live" /\ x.cleanup = snap[s].cleanup
      /\ x.owners = snap[s].owners
  BY KeepType DEF ValuesOK, LabelDoNotDelete, Live
<1>2. Write(s, x) /\ UNCHANGED <<rd, cached, job, ann>> /\ UNCHANGED recVars
  BY DEF LabelDoNotDelete, rdVars
<1> HIDE DEF x
<1>3. snap'[s] = x /\ \A u \in Snaps \ {s} : snap'[u] = snap[u]
  BY <1>2 DEF Write, ValuesOK
<1>4. Mild
  BY <1>1, <1>3 DEF Mild, Held, Unmarked, Loose, Live
<1>5. QED
  BY <1>2, <1>4, StayFrame

LEMMA GarbageStep ==
  ASSUME ValuesOK, ImagesInv, NEW s \in Snaps, GarbageCollect(s)
  PROVE  ImagesInv'
<1>1. /\ Deleted(snap[s]).st = "gone"
      /\ Deleted(snap[s]).keep = snap[s].keep
      /\ Deleted(snap[s]).cleanup = snap[s].cleanup
  BY DeletedType DEF ValuesOK
<1>2. /\ Write(s, Deleted(snap[s])) /\ RD \notin snap[s].owners
      /\ UNCHANGED <<rd, cached, job, ann>> /\ UNCHANGED recVars
  BY NameAssumption DEF GarbageCollect, Garbage, rdVars
<1>3. snap'[s] = Deleted(snap[s]) /\ \A u \in Snaps \ {s} : snap'[u] = snap[u]
  BY <1>2 DEF Write, ValuesOK
<1>4. Mild
  BY <1>1, <1>2, <1>3 DEF Mild, Held, Unmarked, Loose, Live
<1>5. QED
  BY <1>2, <1>4, StayFrame

(* The cluster's other steps.                                              *)
LEMMA CacheSyncStep ==
  ASSUME ValuesOK, ImagesInv, CacheSync
  PROVE  ImagesInv'
<1>1. /\ snap' = snap /\ rd' = rd /\ job' = job /\ ann' = ann /\ cached' = rd
      /\ pc' = pc /\ local' = local /\ seen' = seen
      /\ localCurrent' = localCurrent /\ failed' = failed
  BY DEF CacheSync, snapVars, recVars
<1>2. /\ StatusInv' /\ OwnerInv' /\ (Unstarted => Unstarted')
      /\ \A v : Shows(v) => Shows(v)'
  BY <1>1, SameIsMild, MildFrame
<1>3. Shows(rd)
  BY DEF Shows
<1>4. ViewInv'
  BY <1>1, <1>2, <1>3 DEF ImagesInv, ViewInv
<1>5. StepInv'
  BY <1>1, <1>2 DEF ImagesInv, StepInv, InList, Held, Loose, Live
<1>6. QED
  BY <1>2, <1>4, <1>5 DEF ImagesInv

LEMMA JobSucceedsStep ==
  ASSUME ValuesOK, ImagesInv, JobSucceeds
  PROVE  ImagesInv'
<1>1. /\ job = "running" /\ job' = "done"
      /\ snap' = snap /\ rd' = rd /\ ann' = ann /\ cached' = cached
      /\ pc' = pc /\ local' = local /\ seen' = seen
      /\ localCurrent' = localCurrent /\ failed' = failed
  BY DEF JobSucceeds, snapVars, recVars
<1>2. rd.phase = "synchronizing" /\ ann = NoSnap
  BY <1>1 DEF ImagesInv, StatusInv, Unstarted, ValuesOK, Statuses
<1>3. \A v : Shows(v) => v = rd
  BY <1>1, <1>2 DEF Shows, Unstarted
<1>4. cached = rd /\ pc # "mark" /\ pc # "cleanup"
  BY <1>1, <1>2, <1>3 DEF ImagesInv, ViewInv, StepInv
<1>5. StatusInv'
  BY <1>1, <1>2 DEF ImagesInv, StatusInv, Held, Live
<1>6. OwnerInv'
  BY <1>1 DEF ImagesInv, OwnerInv, NoSnapshotLeaked, Loose, Live
<1>7. ViewInv'
  BY <1>1, <1>3, <1>4 DEF ImagesInv, ViewInv, Shows
<1>8. StepInv'
  BY <1>1, <1>4 DEF ImagesInv, StepInv, Unstarted
<1>9. QED
  BY <1>5, <1>6, <1>7, <1>8 DEF ImagesInv

LEMMA CrashStep ==
  ASSUME ValuesOK, ImagesInv, Crash
  PROVE  ImagesInv'
BY QuietEnd DEF Crash, Finish, snapVars

LEMMA SnapshotSyncStep ==
  ASSUME ValuesOK, ImagesInv, NEW s \in Snaps, SnapshotCacheSync(s)
  PROVE  ImagesInv'
<1>1. snap' = snap /\ UNCHANGED <<rd, cached, job, ann>> /\ UNCHANGED recVars
  BY DEF SnapshotCacheSync, rdVars
<1>2. QED
  BY <1>1, SameIsMild, StayFrame

(* The reconcile's own steps: the ones that only end it,                   *)
LEMMA EndStep ==
  ASSUME ValuesOK, ImagesInv,
         \/ RelinquishFails \/ CleanupFails \/ UpdateStatusFails
         \/ ReconcileFails
  PROVE  ImagesInv'
<1>1. pc' = "idle" /\ UNCHANGED <<snap, rd, job, ann, cached>>
  BY DEF RelinquishFails, CleanupFails, UpdateStatusFails, ReconcileFails,
     Finish, snapVars, rdVars
<1>2. QED
  BY <1>1, QuietEnd

(* those that begin it or a synchronization,                               *)
LEMMA GetStep ==
  ASSUME ValuesOK, ImagesInv, Get
  PROVE  ImagesInv'
<1>1. /\ snap' = snap /\ rd' = rd /\ job' = job /\ ann' = ann
      /\ cached' = cached /\ pc' = "relinquish" /\ local' = cached
  BY DEF Get, snapVars, rdVars
<1>2. localCurrent' => cached = rd
  BY Zenon DEF Get
<1>3. /\ StatusInv' /\ OwnerInv' /\ \A v : Shows(v) => Shows(v)'
  BY <1>1, SameIsMild, MildFrame
<1>4. ViewInv'
  BY <1>1, <1>2, <1>3 DEF ImagesInv, ViewInv
<1>5. StepInv'
  BY <1>1 DEF StepInv
<1>6. QED
  BY <1>3, <1>4, <1>5 DEF ImagesInv

LEMMA InitialStep ==
  ASSUME ValuesOK, ImagesInv, doInitialState
  PROVE  ImagesInv'
<1>1. /\ snap' = snap /\ rd' = rd /\ job' = job /\ ann' = ann
      /\ cached' = cached /\ pc = "relinquish" /\ pc' = "write"
      /\ localCurrent' = localCurrent /\ local.phase = "initial"
      /\ local' = [local EXCEPT !.phase = "synchronizing"]
  BY DEF doInitialState, Run, snapVars, rdVars
<1>2. local'.phase = "synchronizing" /\ local'.image = local.image
  BY <1>1 DEF ValuesOK, Statuses
<1>3. /\ StatusInv' /\ OwnerInv' /\ (Unstarted => Unstarted')
      /\ \A v : Shows(v) => Shows(v)'
  BY <1>1, SameIsMild, MildFrame
<1>4. localCurrent => local = rd /\ cached = rd
  BY <1>1 DEF ImagesInv, ViewInv
<1>5. ViewInv'
  BY <1>1, <1>3, <1>4 DEF ImagesInv, ViewInv
<1>6. localCurrent => Unstarted
  BY <1>1, <1>4 DEF ImagesInv, StatusInv
<1>7. StepInv'
  BY <1>1, <1>2, <1>3, <1>4, <1>6 DEF StepInv
<1>8. QED
  BY <1>3, <1>5, <1>7 DEF ImagesInv

LEMMA InProgressStep ==
  ASSUME ValuesOK, ImagesInv, SynchronizeInProgress
  PROVE  ImagesInv'
<1>1. /\ pc = "relinquish" /\ local.phase = "synchronizing" /\ job # "done"
      /\ job' = "running" /\ pc' = "idle"
      /\ snap' = snap /\ rd' = rd /\ ann' = ann /\ cached' = cached
  BY DEF SynchronizeInProgress, Run, Finish, snapVars
<1>2. local = rd /\ cached = rd
  BY <1>1 DEF ImagesInv, ViewInv, Shows
<1>3. StatusInv'
  BY <1>1, <1>2 DEF ImagesInv, StatusInv, Held, Live
<1>4. OwnerInv'
  BY <1>1 DEF ImagesInv, OwnerInv, NoSnapshotLeaked, Loose, Live
<1>5. Shows(cached)'
  BY <1>1, <1>2 DEF Shows
<1>6. QED
  BY <1>1, <1>3, <1>4, <1>5, IdleFrame

LEMMA AnnotateStep ==
  ASSUME ValuesOK, ImagesInv, NEW s \in Snaps, AnnotatePVC(s)
  PROVE  ImagesInv'
<1>1. /\ pc = "relinquish" /\ local.phase = "synchronizing" /\ job = "done"
      /\ ann = NoSnap /\ snap[s].st = "new" /\ ann' = s
      /\ snap' = snap /\ rd' = rd /\ job' = job /\ cached' = cached
      /\ pc' = pc /\ local' = local
  BY DEF AnnotatePVC, Run, snapVars, recVars
<1>2. local = rd /\ cached = rd
  BY <1>1 DEF ImagesInv, ViewInv, StatusInv, Shows
<1>3. ~snap[s].keep /\ Unmarked(s) /\ s # rd.image /\ s # NoSnap
  BY <1>1, NameAssumption DEF ImagesInv, OwnerInv, StatusInv, Unmarked, Held, Live
<1>4. StatusInv'
  BY <1>1, <1>2, <1>3 DEF ImagesInv, StatusInv, Held, Unmarked, Live
<1>5. OwnerInv'
  BY <1>1, NameAssumption
     DEF ImagesInv, OwnerInv, NoSnapshotLeaked, Loose, Live
<1>6. ViewInv'
  BY <1>1, <1>2 DEF ViewInv, Shows
<1>7. StepInv'
  BY <1>1 DEF StepInv
<1>8. QED
  BY <1>4, <1>5, <1>6, <1>7 DEF ImagesInv

(* The copy EnsureImageSnapshot goes by may be old, but it is good enough. *)
LEMMA EnsuredHeld ==
  ASSUME ValuesOK, ImagesInv, CacheInv, EnsureImageSnapshot,
         Accepted(ann, shown[ann], Ensured(shown[ann]))
  PROVE  /\ ann \in Snaps /\ \A s \in Snaps \ {ann} : snap'[s] = snap[s]
         /\ Held(ann)' /\ Unmarked(ann)'
         /\ snap'[ann].st = "new" => snap' = snap
         /\ Unmarked(ann)
<1> DEFINE y == shown[ann]
           x == Ensured(y)
<1>1. /\ ann \in Snaps /\ y \in Snapshots /\ Tells(y, snap[ann])
      /\ Unmarked(ann) /\ ann' = ann
  BY EnsureEffect DEF ImagesInv, StatusInv, CacheInv, ValuesOK, rdVars
<1>2. /\ x.st = "live"
      /\ x.keep \/ RD \in x.owners
      /\ y.st = "live" => /\ x.keep = y.keep
                          /\ y.keep \/ x.cleanup = y.cleanup
      /\ y.st # "live" => ~x.cleanup
  BY <1>1, EnsuredType
<1>3. \/ x = y /\ snap' = snap
      \/ Current(ann, y) /\ snap' = [snap EXCEPT ![ann] = x]
  BY DEF Accepted, Write
<1> HIDE DEF x, y
<1>4. CASE x = y /\ snap' = snap
  BY <1>1, <1>2, <1>4 DEF Tells, Held, Unmarked, Live
<1>5. CASE Current(ann, y) /\ snap' = [snap EXCEPT ![ann] = x]
  <2>1. snap'[ann] = x /\ \A s \in Snaps \ {ann} : snap'[s] = snap[s]
    BY <1>1, <1>5 DEF ValuesOK
  <2>2. y.st = "live" => snap[ann] = y
    BY <1>1, <1>5, CurrentCopy
  <2>3. QED
    BY <1>1, <1>2, <2>1, <2>2 DEF Held, Unmarked, Live
<1>6. QED
  BY <1>3, <1>4, <1>5

LEMMA EnsureStep ==
  ASSUME ValuesOK, ImagesInv, CacheInv, EnsureImageSnapshot
  PROVE  ImagesInv'
<1>1. /\ pc = "relinquish" /\ local.phase = "synchronizing" /\ job = "done"
      /\ ann # NoSnap
      /\ rd' = rd /\ job' = job /\ ann' = ann /\ cached' = cached
  BY EnsureEffect DEF Run, rdVars
<1>2. \/ /\ pc' = "mark" /\ local' = local /\ localCurrent' = localCurrent
      \/ pc' = "idle"
  BY EnsureEffect DEF Finish
<1>a. CASE snap' = snap /\ pc' = "idle"
  BY <1>1, <1>a, QuietEnd
<1>b. CASE Accepted(ann, shown[ann], Ensured(shown[ann]))
  <2>3. /\ ann \in Snaps /\ \A s \in Snaps \ {ann} : snap'[s] = snap[s]
        /\ Held(ann)' /\ Unmarked(ann)'
        /\ snap'[ann].st = "new" => snap' = snap
    BY <1>b, EnsuredHeld
  <2>5. \A s \in Snaps \ {ann} :
          /\ Held(s)' = Held(s) /\ Unmarked(s)' = Unmarked(s)
          /\ Loose(s)' = Loose(s)
    BY <1>1, <2>3 DEF Held, Unmarked, Loose, Live
  <2>6. \/ rd.phase = "synchronizing"
        \/ rd.phase = "cleaningup" /\ ann = rd.image
    BY <1>1 DEF ImagesInv, StatusInv, Unstarted, ValuesOK, Statuses
  <2>7. rd.image \in Snaps \cup {NoSnap}
    BY DEF ValuesOK, Statuses
  <2>8. StatusInv'
    BY <1>1, <2>3, <2>5, <2>6, <2>7 DEF ImagesInv, StatusInv, Safe
  <2>9. OwnerInv'
    BY <1>1, <2>3, <2>5 DEF ImagesInv, OwnerInv, NoSnapshotLeaked, Live
  <2>10. \A v : Shows(v) => Shows(v)'
    BY <1>1 DEF Shows, Unstarted
  <2>11. ViewInv'
    BY <1>1, <1>2, <2>10 DEF ImagesInv, ViewInv
  <2>12. StepInv'
    BY <1>1, <1>2, <2>3 DEF StepInv
  <2>13. QED
    BY <2>8, <2>9, <2>11, <2>12 DEF ImagesInv
<1>3. QED
  BY <1>1, <1>a, <1>b, EnsureEffect DEF Finish

LEMMA MarkStep ==
  ASSUME ValuesOK, ImagesInv, CacheInv, MarkOldSnapshotForCleanup
  PROVE  ImagesInv'
<1> DEFINE old == local.image
           y == shown[old]
<1>1. /\ pc = "mark" /\ UNCHANGED shown
      /\ rd' = rd /\ job' = job /\ ann' = ann /\ cached' = cached
  BY DEF MarkOldSnapshotForCleanup, rdVars
<1>2. /\ local.phase = "synchronizing" /\ job = "done" /\ ann # NoSnap
      /\ Held(ann) /\ Unmarked(ann) /\ ann \in Snaps
      /\ old \in Snaps \cup {NoSnap} /\ rd.image \in Snaps \cup {NoSnap}
  BY <1>1 DEF ImagesInv, StepInv, StatusInv, ValuesOK, Statuses
<1>6. \/ local = rd /\ cached = rd
      \/ /\ rd.phase = "cleaningup" /\ ann = rd.image /\ old # ann
         /\ local # rd /\ ~localCurrent
  BY <1>1, <1>2 DEF ImagesInv, ViewInv, Shows
<1>a. CASE snap' = snap /\ Finish
  BY <1>1, <1>a, QuietEnd DEF Finish
<1>b. CASE \/ IsOld(old) /\ Current(old, y) /\ Write(old, Marked(y)) /\ Publish
           \/ ~(IsOld(old) /\ Live(old)) /\ snap' = snap /\ Publish
  <2>1. /\ pc' = "write" /\ localCurrent' = localCurrent
        /\ local' = [phase |-> "cleaningup", image |-> ann]
    BY <1>b DEF Publish
  <2>2. \/ /\ IsOld(old) /\ snap[old] = y /\ old \in Snaps /\ old # ann
           /\ snap' = [snap EXCEPT ![old] = Marked(y)]
        \/ ~(IsOld(old) /\ Live(old)) /\ snap' = snap
    BY <1>2, <1>b, CurrentCopy DEF IsOld, Write
  <2>3. old \in Snaps =>
          /\ Marked(y).cleanup /\ Marked(y).st = y.st /\ Marked(y).keep = y.keep
          /\ Marked(y).owners = y.owners
    BY MarkType DEF ValuesOK, Marked
  <2>4. localCurrent /\ old # NoSnap => Tells(y, snap[old]) /\ y.st # "new"
    BY <1>2, <1>6 DEF CacheInv
  <2>5. /\ y.st \in {"new", "live", "gone"} \/ old = NoSnap
    BY <1>2 DEF ValuesOK, Snapshots
  <2>6. localCurrent /\ old # ann /\ ~IsOld(old) /\ old # NoSnap => ~Loose(old)
    BY <2>4, <2>5 DEF IsOld, Tells, Loose, Live
  <2> HIDE DEF old, y
  <2>7. \A s \in Snaps :
          /\ snap'[s].st = snap[s].st /\ snap'[s].keep = snap[s].keep
          /\ snap'[s].owners = snap[s].owners
          /\ snap[s].cleanup => snap'[s].cleanup
          /\ s # old \/ s = ann => snap'[s] = snap[s]
          /\ snap'[s].st = "new" => snap'[s] = snap[s]
    <3>1. CASE /\ IsOld(old) /\ snap[old] = y /\ old \in Snaps /\ old # ann
               /\ snap' = [snap EXCEPT ![old] = Marked(y)]
      <4>1. /\ snap'[old] = Marked(y)
            /\ \A s \in Snaps \ {old} : snap'[s] = snap[s]
        BY <3>1 DEF ValuesOK
      <4>2. y.st = "live"
        BY <3>1 DEF IsOld, y
      <4>3. QED
        BY <2>3, <3>1, <4>1, <4>2
    <3>2. QED
      BY <2>2, <3>1
  <2>8. localCurrent /\ old # ann /\ old # NoSnap /\ Loose(old) =>
          snap'[old].cleanup
    <3>1. SUFFICES ASSUME localCurrent, old # ann, old # NoSnap, Loose(old)
                   PROVE  snap'[old].cleanup
      OBVIOUS
    <3>2. IsOld(old) /\ Live(old)
      BY <2>6, <3>1 DEF Loose
    <3>3. old \in Snaps /\ snap' = [snap EXCEPT ![old] = Marked(y)]
      BY <2>2, <3>2
    <3>4. QED
      BY <2>3, <3>3 DEF ValuesOK
  <2>9. \A s \in Snaps :
          /\ Held(s)' = Held(s) /\ Loose(s)' = Loose(s)
          /\ s # old \/ s = ann => Unmarked(s)' = Unmarked(s)
    BY <2>7 DEF Held, Loose, Unmarked, Live
  <2>10. OwnerInv'
    <3>1. \A s \in Snaps :
            Loose(s)' /\ s # rd'.image /\ s # ann' => snap'[s].cleanup
      BY <1>1, <2>7, <2>9 DEF ImagesInv, OwnerInv, NoSnapshotLeaked, Loose
    <3>2. QED
      BY <2>7, <3>1 DEF ImagesInv, OwnerInv, NoSnapshotLeaked, Loose
  <2>11. StatusInv'
    BY <1>1, <1>2, <1>6, <2>9 DEF ImagesInv, StatusInv, Safe, old
  <2>12. Shows(cached)'
    BY <1>1, <1>2, <1>6 DEF ImagesInv, ViewInv, Shows, Unstarted
  <2>13. ViewInv'
    BY <1>1, <1>6, <2>1, <2>12 DEF ImagesInv, ViewInv
  <2>14. localCurrent =>
           /\ rd.phase = "synchronizing"
           /\ \A s \in Snaps : Loose(s)' /\ s # ann => snap'[s].cleanup
    <3>1. SUFFICES ASSUME localCurrent, NEW s \in Snaps, Loose(s)', s # ann
                   PROVE  rd.phase = "synchronizing" /\ snap'[s].cleanup
      BY <1>2, <1>6
    <3>2. local = rd /\ Loose(s)
      BY <1>6, <2>9, <3>1
    <3>3. CASE s = old
      BY <1>2, <2>8, <3>1, <3>2, <3>3, NameAssumption
    <3>4. CASE s # old
      BY <1>2, <2>7, <3>1, <3>2, <3>4
         DEF ImagesInv, OwnerInv, NoSnapshotLeaked, Loose, old
    <3>5. QED
      BY <3>3, <3>4
  <2>15. StepInv'
    BY <1>1, <1>2, <2>1, <2>9, <2>14 DEF StepInv
  <2>16. QED
    BY <2>10, <2>11, <2>13, <2>15 DEF ImagesInv
<1>7. QED
  BY <1>a, <1>b DEF MarkOldSnapshotForCleanup

(* and those that clean up.                                                *)
LEMMA RemoveAnnotationStep ==
  ASSUME ValuesOK, ImagesInv, RemoveSnapshotAnnotation
  PROVE  ImagesInv'
<1>1. /\ pc = "relinquish" /\ pc' = "cleanup" /\ local.phase = "cleaningup"
      /\ ann' = NoSnap /\ localCurrent' = localCurrent /\ local' = local
      /\ snap' = snap /\ rd' = rd /\ job' = job /\ cached' = cached
  BY DEF RemoveSnapshotAnnotation, Run, snapVars
<1>2. \A s \in Snaps : seen'[s] = IF shown[s].st = "live" /\ shown[s].cleanup
                                  THEN shown[s] ELSE Absent
  BY DEF RemoveSnapshotAnnotation, Listed
<1>3. \/ local = rd /\ cached = rd
      \/ rd.phase = "synchronizing" /\ Unstarted
  BY <1>1 DEF ImagesInv, ViewInv, Shows
<1>4. ann \in {NoSnap, rd.image}
  BY <1>1, <1>3 DEF ImagesInv, StatusInv, Unstarted
<1>5. \A s \in Snaps : Loose(s) /\ s # rd.image => snap[s].cleanup
  BY <1>4, NameAssumption DEF ImagesInv, OwnerInv, NoSnapshotLeaked, Loose
<1>6. Unstarted => Unstarted'
  BY <1>1 DEF Unstarted, Safe, Held, Unmarked, Live
<1>7. StatusInv'
  BY <1>1, <1>6
     DEF ImagesInv, StatusInv, Safe, Held, Unmarked, Live
<1>8. OwnerInv'
  BY <1>1, <1>5 DEF ImagesInv, OwnerInv, NoSnapshotLeaked, Loose, Live
<1>9. ViewInv'
  BY <1>1, <1>3, <1>6 DEF ImagesInv, ViewInv, Shows
<1>10. StepInv'
  BY <1>1, <1>2, <1>5, AbsentType DEF StepInv, InList, Loose, Live
<1>11. QED
  BY <1>7, <1>8, <1>9, <1>10 DEF ImagesInv

(* One listed snapshot has been dealt with.                                *)
LEMMA ListFrame ==
  ASSUME ValuesOK, ImagesInv, Mild, NEW s \in Snaps, Forget(s),
         pc \in {"relinquish", "cleanup"}, UNCHANGED <<pc, local, localCurrent>>,
         UNCHANGED <<rd, cached, job, ann>>
  PROVE  ImagesInv'
<1>1. /\ StatusInv' /\ OwnerInv' /\ \A v : Shows(v) => Shows(v)'
  BY MildFrame
<1>2. ViewInv'
  BY <1>1 DEF ImagesInv, ViewInv
<1>3. /\ \A u \in Snaps \ {s} : seen'[u] = seen[u]
      /\ seen'[s].st = "gone"
  BY AbsentType DEF Forget, ValuesOK
<1>4. StepInv'
  BY <1>3 DEF ImagesInv, StepInv, InList, Mild
<1>5. QED
  BY <1>1, <1>2, <1>4 DEF ImagesInv

LEMMA RelinquishEffect ==
  ASSUME ValuesOK, NEW s \in Snaps, RelinquishSnap(s)
  PROVE  LET x == UnMarkForCleanupAndRemoveOwnership(seen[s]) IN
         /\ seen[s].st = "live" /\ seen[s].keep
         /\ \/ snap' = snap
            \/ /\ snap[s] = seen[s] /\ snap'[s] = x
               /\ \A u \in Snaps \ {s} : snap'[u] = snap[u]
<1> DEFINE x == UnMarkForCleanupAndRemoveOwnership(seen[s])
<1>1. InList(s) /\ seen[s].keep
  BY DEF RelinquishSnap
<1>2. Accepted(s, seen[s], x) \/ snap' = snap
  BY Zenon DEF RelinquishSnap
<1> HIDE DEF x
<1>3. \/ snap' = snap
      \/ snap[s] = seen[s] /\ snap' = [snap EXCEPT ![s] = x]
  BY <1>1, <1>2, CurrentCopy DEF Accepted, Write, InList
<1>4. QED
  BY <1>1, <1>3 DEF ValuesOK, InList, x

LEMMA RelinquishStep ==
  ASSUME ValuesOK, ImagesInv, NEW s \in Snaps, RelinquishSnap(s)
  PROVE  ImagesInv'
<1> DEFINE x == UnMarkForCleanupAndRemoveOwnership(seen[s])
<1>1. x.st = seen[s].st /\ x.keep = seen[s].keep /\ ~x.cleanup
  BY UnMarkType DEF ValuesOK
<1>2. /\ pc \in {"relinquish", "cleanup"}
      /\ Forget(s) /\ UNCHANGED <<pc, local, localCurrent>>
      /\ UNCHANGED <<rd, cached, job, ann>>
  BY DEF RelinquishSnap, rdVars
<1>3. /\ seen[s].st = "live" /\ seen[s].keep
      /\ \/ snap' = snap
         \/ /\ snap[s] = seen[s] /\ snap'[s] = x
            /\ \A u \in Snaps \ {s} : snap'[u] = snap[u]
  BY RelinquishEffect
<1> HIDE DEF x
<1>4. Mild
  <2>1. CASE snap' = snap
    BY <2>1, SameIsMild
  <2>2. CASE /\ snap[s] = seen[s] /\ snap'[s] = x
             /\ \A u \in Snaps \ {s} : snap'[u] = snap[u]
    BY <1>1, <1>3, <2>2 DEF Mild, Held, Unmarked, Loose, Live
  <2>3. QED
    BY <1>3, <2>1, <2>2
<1>5. QED
  BY <1>2, <1>4, ListFrame

LEMMA CleanupEffect ==
  ASSUME ValuesOK, NEW s \in Snaps, CleanupSnap(s)
  PROVE  /\ pc = "cleanup" /\ InList(s) /\ ~seen[s].keep
         /\ \/ snap' = snap
            \/ /\ snap[s] = seen[s] /\ snap'[s] = Disposed(seen[s])
               /\ \A u \in Snaps \ {s} : snap'[u] = snap[u]
<1> DEFINE x == Disposed(seen[s])
<1>1. pc = "cleanup" /\ InList(s) /\ ~seen[s].keep /\ Accepted(s, seen[s], x)
  BY DEF CleanupSnap, Relinquished
<1> HIDE DEF x
<1>2. \/ snap' = snap
      \/ snap[s] = seen[s] /\ snap' = [snap EXCEPT ![s] = x]
  BY <1>1, CurrentCopy DEF Accepted, Write, InList
<1>3. QED
  BY <1>1, <1>2 DEF ValuesOK, x

LEMMA CleanupStep ==
  ASSUME ValuesOK, ImagesInv, NEW s \in Snaps, CleanupSnap(s)
  PROVE  ImagesInv'
<1> DEFINE x == Disposed(seen[s])
<1>1. /\ x.st = "gone" \/ RD \notin x.owners
      /\ x.keep = seen[s].keep /\ x.cleanup = seen[s].cleanup
      /\ x.st # "new" \/ seen[s].st = "new"
  BY DisposedType DEF ValuesOK
<1>2. /\ Forget(s) /\ UNCHANGED <<pc, local, localCurrent>>
      /\ UNCHANGED <<rd, cached, job, ann>>
  BY DEF CleanupSnap, rdVars
<1>3. /\ pc = "cleanup" /\ InList(s) /\ ~seen[s].keep
      /\ \/ snap' = snap
         \/ /\ snap[s] = seen[s] /\ snap'[s] = x
            /\ \A u \in Snaps \ {s} : snap'[u] = snap[u]
  BY CleanupEffect
<1> HIDE DEF x
<1>4. seen[s].cleanup /\ ann = NoSnap /\ Safe(rd.image)
  BY <1>3 DEF ImagesInv, StepInv, ViewInv, Shows, StatusInv, Unstarted
<1>5. CASE snap' = snap
  BY <1>2, <1>3, <1>5, SameIsMild, ListFrame
<1>6. CASE /\ snap[s] = seen[s] /\ snap'[s] = x
           /\ \A u \in Snaps \ {s} : snap'[u] = snap[u]
  <2>1. s # rd.image /\ s # NoSnap
    BY <1>3, <1>4, <1>6, NameAssumption DEF Safe, Unmarked
  <2>2. ~Loose(s)'
    BY <1>1, <1>6 DEF Loose, Live
  <2>3. Mild
    BY <1>1, <1>3, <1>4, <1>6, <2>1, <2>2
       DEF Mild, Held, Unmarked, Loose, Live, InList
  <2>4. QED
    BY <1>2, <1>3, <2>3, ListFrame
<1>7. QED
  BY <1>3, <1>5, <1>6

LEMMA CompletesStep ==
  ASSUME ValuesOK, ImagesInv, CleanupCompletes
  PROVE  ImagesInv'
<1>1. /\ pc = "cleanup" /\ pc' = "write" /\ job' = "none" /\ ~failed
      /\ snap' = snap /\ rd' = rd /\ cached' = cached /\ ann' = ann
      /\ localCurrent' = localCurrent
      /\ local' \in {local, [local EXCEPT !.phase = "synchronizing"]}
      /\ \A s \in Snaps : ~InList(s)
  BY DEF CleanupCompletes, snapVars
<1>2. /\ local' = local \/ local'.phase = "synchronizing"
      /\ local'.image = local.image
  BY <1>1, StatusType DEF ValuesOK
<1>3. local.phase = "cleaningup" /\ ann = NoSnap
  BY <1>1 DEF ImagesInv, StepInv
<1>4. \/ local = rd /\ cached = rd
      \/ rd.phase = "synchronizing" /\ Unstarted /\ ~localCurrent
  BY <1>1, <1>3 DEF ImagesInv, ViewInv, Shows
<1>5. Safe(rd.image)
  BY <1>3, <1>4 DEF ImagesInv, StatusInv, Unstarted
<1>6. Unstarted'
  BY <1>1, <1>3, <1>5 DEF Unstarted, Safe, Held, Unmarked, Live
<1>7. StatusInv'
  BY <1>1, <1>3, <1>6 DEF ImagesInv, StatusInv, Unstarted, Held, Live
<1>8. OwnerInv'
  BY <1>1, <1>3 DEF ImagesInv, OwnerInv, NoSnapshotLeaked, Loose, Live
<1>9. ViewInv'
  BY <1>1, <1>4, <1>6 DEF ImagesInv, ViewInv, Shows
<1>10. StepInv'
  BY <1>1, <1>2, <1>3, <1>4, <1>6 DEF ImagesInv, ViewInv, StepInv
<1>11. QED
  BY <1>7, <1>8, <1>9, <1>10 DEF ImagesInv

(* The new version of the status: the start of a sync, no change, or the   *)
(* new image.                                                              *)
LEMMA UpdateStep ==
  ASSUME ValuesOK, ImagesInv, UpdateStatus
  PROVE  ImagesInv'
<1>1. /\ pc = "write" /\ localCurrent /\ rd' = local /\ pc' = "idle"
      /\ snap' = snap /\ cached' = cached /\ job' = job /\ ann' = ann
  BY DEF UpdateStatus, Finish, snapVars
<1>2. cached = rd
  BY <1>1 DEF ImagesInv, ViewInv
<1>3. CASE /\ local.phase = "synchronizing" /\ local.image = rd.image
           /\ rd.phase # "synchronizing" /\ Unstarted
  <2>1. Unstarted' /\ rd'.image = rd.image /\ rd'.phase = "synchronizing"
    BY <1>1, <1>3 DEF Unstarted, Safe, Held, Unmarked, Live
  <2>2. StatusInv'
    BY <1>1, <2>1 DEF StatusInv, Unstarted, Safe
  <2>3. OwnerInv'
    BY <1>1, <2>1 DEF ImagesInv, OwnerInv, NoSnapshotLeaked, Loose, Live
  <2>4. Shows(cached)'
    BY <1>1, <1>2, <1>3, <2>1 DEF Shows
  <2>5. QED
    BY <1>1, <2>2, <2>3, <2>4, IdleFrame
<1>4. CASE local = rd
  BY <1>1, <1>4, QuietEnd
<1>5. CASE /\ local.phase = "cleaningup" /\ local.image = ann /\ job = "done"
           /\ ann # NoSnap /\ Held(ann) /\ rd.phase = "synchronizing"
           /\ \A s \in Snaps : Loose(s) /\ s # ann => snap[s].cleanup
  <2>1. /\ rd'.phase = "cleaningup" /\ rd'.image = ann /\ rd.image # ann
        /\ Safe(rd.image)'
    BY <1>1, <1>5
       DEF ImagesInv, StatusInv, Safe, Held, Unmarked, Live
  <2>2. StatusInv'
    BY <1>1, <1>5, <2>1
       DEF ImagesInv, StatusInv, Safe, Held, Unmarked, Live
  <2>3. OwnerInv'
    BY <1>1, <1>5, <2>1 DEF ImagesInv, OwnerInv, NoSnapshotLeaked, Loose, Live
  <2>4. Shows(cached)'
    BY <1>1, <1>2, <1>5, <2>1 DEF Shows
  <2>5. QED
    BY <1>1, <2>2, <2>3, <2>4, IdleFrame
<1>6. QED
  BY <1>1, <1>3, <1>4, <1>5 DEF ImagesInv, StepInv

LEMMA ImagesStep ==
  ValuesOK /\ ImagesInv /\ CacheInv /\ [Next]_vars => ImagesInv'
<1> SUFFICES ASSUME ValuesOK, ImagesInv, CacheInv, [Next]_vars
             PROVE  ImagesInv'
  OBVIOUS
<1>1. CASE Reconcile
  BY <1>1, GetStep, EndStep, InitialStep, InProgressStep, EnsureStep,
     MarkStep, RemoveAnnotationStep, CompletesStep, UpdateStep,
     RelinquishStep, AnnotateStep, CleanupStep DEF Reconcile
<1>2. QED
  BY <1>1, CalmActions, CalmStep, CacheSyncStep, JobSucceedsStep, CrashStep,
     GarbageStep, LabelStep, SnapshotSyncStep

-----------------------------------------------------------------------------
(* The cache. *)

\* What no step takes back.
Grows(x, y) ==
  /\ x.st = "gone" => y.st = "gone"
  /\ y.st = "new" => x.st = "new"
  /\ x.keep => y.keep
  /\ x.cleanup => y.cleanup \/ y.keep
  /\ x.st = "live" /\ RD \in x.owners =>
       y.keep \/ y.cleanup \/ (y.st = "live" /\ RD \in y.owners)

LEMMA TellsGrows ==
  ASSUME NEW y, NEW x, NEW z, Tells(y, x), Grows(x, z)
  PROVE  Tells(y, z)
BY DEF Tells, Grows

\* The steps as the cache's invariant sees them: the snapshots only grow, the
\* cache and the list get copies, and the names in the status change little.
Traced ==
  /\ \A s \in Snaps : Grows(snap[s], snap'[s])
  /\ \A s \in Snaps : snap'[s].st = "new" => snap'[s] = snap[s]
  /\ \/ shown' = shown
     \/ snap' = snap /\ \A s \in Snaps : shown'[s] \in {shown[s], snap[s]}
  /\ \A s \in Snaps : seen'[s] \in {seen[s], shown[s], Absent}

LEMMA TracedCopies ==
  ASSUME ValuesOK, CacheInv, Traced
  PROVE  /\ \A s \in Snaps : Tells(shown'[s], snap'[s])
         /\ \A s \in Snaps : snap'[s].st = "new" =>
              Untouched(snap'[s]) /\ Untouched(shown'[s]) /\ Untouched(seen'[s])
         /\ \A s \in Snaps : shown[s].st # "new" => shown'[s].st # "new"
<1>1. \A s \in Snaps : Tells(snap[s], snap[s])
  BY DEF Tells
<1>2. \A s \in Snaps : Tells(shown'[s], snap'[s])
  <2>1. CASE shown' = shown
    BY <2>1, TellsGrows DEF CacheInv, Traced
  <2>2. CASE snap' = snap /\ \A s \in Snaps : shown'[s] \in {shown[s], snap[s]}
    BY <1>1, <2>2 DEF CacheInv
  <2>3. QED
    BY <2>1, <2>2 DEF Traced
<1>3. Untouched(Absent)
  BY DEF Untouched, Absent
<1>4. \A s \in Snaps : shown'[s] \in {shown[s], snap[s]}
  BY DEF Traced
<1>5. \A s \in Snaps : shown[s].st # "new" => shown'[s].st # "new"
  BY <1>4 DEF CacheInv, Tells
<1>6. QED
  BY <1>2, <1>3, <1>4, <1>5 DEF CacheInv, Traced

(* One snapshot is written, the copies stay.                               *)
LEMMA TracedWrite ==
  ASSUME ValuesOK, NEW s \in Snaps, NEW x, Grows(snap[s], x), x.st # "new",
         snap' = [snap EXCEPT ![s] = x], shown' = shown,
         \A u \in Snaps : seen'[u] \in {seen[u], shown[u], Absent}
  PROVE  Traced
<1>1. snap'[s] = x /\ \A u \in Snaps \ {s} : snap'[u] = snap[u]
  BY DEF ValuesOK
<1>2. \A u \in Snaps : Grows(snap[u], snap[u])
  BY DEF Grows
<1>3. QED
  BY <1>1, <1>2 DEF Traced

LEMMA TracedSame ==
  ASSUME ValuesOK, snap' = snap,
         \A s \in Snaps : shown'[s] \in {shown[s], snap[s]},
         \A s \in Snaps : seen'[s] \in {seen[s], shown[s], Absent}
  PROVE  Traced
BY DEF Traced, Grows

LEMMA FinishSeen ==
  ASSUME Finish
  PROVE  pc' = "idle" /\ \A s \in Snaps : seen'[s] = Absent
BY DEF Finish

(* The annotated snapshot is created only once: EnsureImageSnapshot does   *)
(* not find one that has gone.                                             *)
LEMMA EnsureTraced ==
  ASSUME ValuesOK, ImagesInv, CacheInv, EnsureImageSnapshot
  PROVE  Traced
<1> DEFINE y == shown[ann]
           x == Ensured(y)
<1>1. /\ pc = "relinquish" /\ local.phase = "synchronizing" /\ ann # NoSnap
      /\ shown' = shown /\ ann \in Snaps /\ y \in Snapshots
      /\ \A s \in Snaps : seen'[s] \in {seen[s], shown[s], Absent}
      /\ snap' = snap \/ (Current(ann, y) /\ snap' = [snap EXCEPT ![ann] = x])
  BY EnsureEffect, FinishSeen DEF Run, Accepted, Write, ValuesOK
<1>2. /\ x.st = "live"
      /\ x.keep \/ RD \in x.owners
      /\ y.st = "live" => /\ x.keep = y.keep
                          /\ y.keep \/ x.cleanup = y.cleanup
  BY <1>1, EnsuredType
<1> HIDE DEF x, y
<1>3. CASE snap' = snap
  BY <1>1, <1>3, TracedSame
<1>4. CASE Current(ann, y) /\ snap' = [snap EXCEPT ![ann] = x]
  <2>1. snap[ann].st # "gone" /\ (snap[ann].st = "new" =>
                                    ~snap[ann].keep /\ ~snap[ann].cleanup)
    BY <1>1 DEF CacheInv, AnnotatedInv, ImagesInv, OwnerInv
  <2>2. snap[ann] = y \/ snap[ann].st = "new"
    BY <1>1, <1>4, <2>1 DEF Current, Live, ValuesOK, Snapshots
  <2>3. Grows(snap[ann], x)
    <3>1. CASE snap[ann].st = "new"
      BY <1>2, <2>1, <3>1 DEF Grows
    <3>2. CASE snap[ann] = y /\ y.st = "live"
      BY <1>2, <3>2 DEF Grows
    <3>3. QED
      BY <1>1, <2>1, <2>2, <3>1, <3>2 DEF Snapshots
  <2>4. QED
    BY <1>1, <1>2, <1>4, <2>3, TracedWrite
<1>5. QED
  BY <1>1, <1>3, <1>4

LEMMA ReconcileTraced ==
  ASSUME ValuesOK, ImagesInv, CacheInv, Reconcile
  PROVE  Traced
<1> USE DEF snapVars, recVars
<1>1. CASE Get
  <2>1. \A s \in Snaps : seen'[s] \in {shown[s], Absent}
    BY <1>1 DEF Get, Listed
  <2>2. QED
    BY <1>1, <2>1, TracedSame DEF Get
<1>2. CASE RemoveSnapshotAnnotation
  <2>1. \A s \in Snaps : seen'[s] \in {shown[s], Absent}
    BY <1>2 DEF RemoveSnapshotAnnotation, Listed
  <2>2. QED
    BY <1>2, <2>1, TracedSame DEF RemoveSnapshotAnnotation
<1>3. CASE \/ RelinquishFails \/ SynchronizeInProgress \/ CleanupFails
           \/ UpdateStatus \/ UpdateStatusFails \/ ReconcileFails
  BY <1>3, FinishSeen, TracedSame DEF RelinquishFails, SynchronizeInProgress,
     CleanupFails, UpdateStatus, UpdateStatusFails, ReconcileFails
<1>4. CASE doInitialState \/ CleanupCompletes \/ \E s \in Snaps : AnnotatePVC(s)
  BY <1>4, TracedSame DEF doInitialState, CleanupCompletes, AnnotatePVC
<1>5. CASE EnsureImageSnapshot
  BY <1>5, EnsureTraced
<1>6. CASE MarkOldSnapshotForCleanup
  <2> DEFINE old == local.image
             y == shown[old]
  <2>1. /\ \/ snap' = snap
           \/ IsOld(old) /\ Current(old, y) /\ snap' = [snap EXCEPT ![old] = Marked(y)]
        /\ shown' = shown
        /\ \A s \in Snaps : seen'[s] \in {seen[s], shown[s], Absent}
    BY <1>6, FinishSeen DEF MarkOldSnapshotForCleanup, Write, Publish
  <2>2. CASE snap' = snap
    BY <2>1, <2>2, TracedSame
  <2>3. CASE IsOld(old) /\ Current(old, y) /\ snap' = [snap EXCEPT ![old] = Marked(y)]
    <3>1. old \in Snaps /\ y.st = "live" /\ snap[old] = y /\ y \in Snapshots
      BY <2>3, CurrentCopy DEF IsOld, ValuesOK, Statuses
    <3>2. Grows(y, Marked(y)) /\ Marked(y).st # "new"
      BY <3>1, MarkType DEF Grows, Marked
    <3> HIDE DEF old, y
    <3>3. QED
      BY <2>1, <2>3, <3>1, <3>2, TracedWrite
  <2>4. QED
    BY <2>1, <2>2, <2>3
<1>7. CASE \E s \in Snaps : RelinquishSnap(s)
  <2>1. PICK s \in Snaps : RelinquishSnap(s)
    BY <1>7
  <2> DEFINE x == UnMarkForCleanupAndRemoveOwnership(seen[s])
  <2>2. /\ x.st = seen[s].st /\ x.keep = seen[s].keep
        /\ shown' = shown
        /\ \A u \in Snaps : seen'[u] \in {seen[u], shown[u], Absent}
    BY <2>1, UnMarkType DEF ValuesOK, RelinquishSnap, Forget
  <2>3. /\ seen[s].st = "live" /\ seen[s].keep
        /\ \/ snap' = snap
           \/ /\ snap[s] = seen[s] /\ snap'[s] = x
              /\ \A u \in Snaps \ {s} : snap'[u] = snap[u]
    BY <2>1, RelinquishEffect
  <2> HIDE DEF x
  <2>4. CASE snap' = snap
    BY <2>2, <2>4, TracedSame
  <2>5. CASE /\ snap[s] = seen[s] /\ snap'[s] = x
             /\ \A u \in Snaps \ {s} : snap'[u] = snap[u]
    BY <2>2, <2>3, <2>5 DEF Traced, Grows
  <2>6. QED
    BY <2>3, <2>4, <2>5
<1>8. CASE \E s \in Snaps : CleanupSnap(s)
  <2>1. PICK s \in Snaps : CleanupSnap(s)
    BY <1>8
  <2> DEFINE x == Disposed(seen[s])
  <2>2. /\ x.keep = seen[s].keep /\ x.cleanup = seen[s].cleanup
        /\ x.st # "new" \/ seen[s].st = "new"
    BY DisposedType DEF ValuesOK
  <2>3. /\ pc = "cleanup" /\ seen[s].st = "live"
        /\ \/ snap' = snap
           \/ /\ snap[s] = seen[s] /\ snap'[s] = x
              /\ \A u \in Snaps \ {s} : snap'[u] = snap[u]
    BY <2>1, CleanupEffect DEF InList
  <2>4. /\ seen[s].cleanup /\ shown' = shown
        /\ \A u \in Snaps : seen'[u] \in {seen[u], shown[u], Absent}
    BY <2>1, <2>3 DEF ImagesInv, StepInv, InList, CleanupSnap, Forget, ValuesOK
  <2> HIDE DEF x
  <2>5. CASE snap' = snap
    BY <2>4, <2>5, TracedSame
  <2>6. CASE /\ snap[s] = seen[s] /\ snap'[s] = x
             /\ \A u \in Snaps \ {s} : snap'[u] = snap[u]
    BY <2>2, <2>3, <2>4, <2>6 DEF Traced, Grows
  <2>7. QED
    BY <2>3, <2>5, <2>6
<1>9. QED
  BY <1>1, <1>2, <1>3, <1>4, <1>5, <1>6, <1>7, <1>8 DEF Reconcile

LEMMA StepTraced ==
  ASSUME ValuesOK, ImagesInv, CacheInv, [Next]_vars
  PROVE  Traced
<1> USE DEF snapVars, recVars
<1>1. CASE Calm
  BY <1>1 DEF Calm, Traced, Alike, Grows
<1>2. CASE Reconcile
  BY <1>2, ReconcileTraced
<1>3. CASE CacheSync \/ JobSucceeds
  BY <1>3, TracedSame DEF CacheSync, JobSucceeds
<1>4. CASE Crash
  BY <1>4, FinishSeen, TracedSame DEF Crash
<1>5. CASE \E s \in Snaps : SnapshotCacheSync(s)
  <2>1. /\ snap' = snap /\ seen' = seen
        /\ \A s \in Snaps : shown'[s] \in {shown[s], snap[s]}
    BY <1>5 DEF SnapshotCacheSync, ValuesOK
  <2>2. QED
    BY <2>1, TracedSame
<1>6. CASE \E s \in Snaps : GarbageCollect(s)
  <2>1. PICK s \in Snaps : GarbageCollect(s)
    BY <1>6
  <2>2. Grows(snap[s], Deleted(snap[s])) /\ Deleted(snap[s]).st # "new"
    BY <2>1, DeletedType, NameAssumption
       DEF ValuesOK, GarbageCollect, Garbage, Live, Grows
  <2>3. /\ snap' = [snap EXCEPT ![s] = Deleted(snap[s])] /\ shown' = shown
        /\ seen' = seen
    BY <2>1 DEF GarbageCollect, Write
  <2>4. QED
    BY <2>2, <2>3, TracedWrite
<1>7. CASE \E s \in Snaps : LabelDoNotDelete(s)
  <2>1. PICK s \in Snaps : LabelDoNotDelete(s)
    BY <1>7
  <2> DEFINE x == [snap[s] EXCEPT !.keep = TRUE]
  <2>2. Grows(snap[s], x) /\ x.st # "new"
    BY <2>1, KeepType DEF ValuesOK, LabelDoNotDelete, Live, Grows
  <2>3. snap' = [snap EXCEPT ![s] = x] /\ shown' = shown /\ seen' = seen
    BY <2>1 DEF LabelDoNotDelete, Write
  <2> HIDE DEF x
  <2>4. QED
    BY <2>2, <2>3, TracedWrite
<1>8. QED
  BY <1>1, <1>2, <1>3, <1>4, <1>5, <1>6, <1>7, CalmActions

(* The cache has shown the latest image, and the one about to be it.       *)
LEMMA ShownNames ==
  ASSUME ValuesOK, ImagesInv, CacheInv, [Next]_vars
  PROVE  /\ rd'.image # NoSnap => shown'[rd'.image].st # "new"
         /\ pc' = "mark" => shown'[ann'].st # "new"
         /\ pc' = "write" /\ localCurrent' /\ local'.image # NoSnap =>
              shown'[local'.image].st # "new"
<1> USE DEF snapVars, rdVars, recVars
<1>s. \A s \in Snaps : shown[s].st # "new" => shown'[s].st # "new"
  BY StepTraced, TracedCopies
<1>n. /\ rd.image \in Snaps \cup {NoSnap} /\ ann \in Snaps \cup {NoSnap}
      /\ local.image \in Snaps \cup {NoSnap}
  BY DEF ValuesOK, Statuses
<1>r. /\ rd.image # NoSnap => shown[rd.image].st # "new"
      /\ pc = "mark" => shown[ann].st # "new" /\ ann # NoSnap
      /\ pc = "write" /\ localCurrent /\ local.image # NoSnap =>
           shown[local.image].st # "new"
  BY DEF CacheInv, ImagesInv, StepInv
<1>1. CASE UNCHANGED <<rd, pc, ann, local, localCurrent>>
  BY <1>1, <1>s, <1>n, <1>r
<1>2. CASE rd' = rd /\ pc' \notin {"mark", "write"}
  BY <1>2, <1>s, <1>n, <1>r
<1>3. CASE UpdateStatus
  <2>1. pc = "write" /\ localCurrent /\ rd' = local /\ pc' = "idle"
    BY <1>3 DEF UpdateStatus, Finish
  <2>2. QED
    BY <2>1, <1>s, <1>n, <1>r
<1>4. CASE doInitialState \/ CleanupCompletes
  <2>1. /\ pc' = "write" /\ localCurrent' = localCurrent /\ rd' = rd
        /\ pc \in {"relinquish", "cleanup"}
        /\ local' \in {local, [local EXCEPT !.phase = "synchronizing"]}
    BY <1>4 DEF doInitialState, CleanupCompletes, Run
  <2>2. local'.image = local.image
    BY <2>1, StatusType DEF ValuesOK
  <2>3. localCurrent => local = rd
    BY <2>1 DEF ImagesInv, ViewInv
  <2>4. QED
    BY <2>1, <2>2, <2>3, <1>s, <1>n, <1>r
<1>5. CASE EnsureImageSnapshot
  <2>1. rd' = rd /\ ann' = ann /\ ann # NoSnap
    BY <1>5, EnsureEffect
  <2>2. CASE pc' = "idle"
    BY <1>2, <2>1, <2>2
  <2>3. CASE pc' = "mark"
    <3>1. Ensured(shown[ann]).ready
      BY <1>5, <2>3, EnsureEffect DEF Finish
    <3>2. shown[ann].st = "live"
      BY <2>1, <3>1, <1>n, EnsuredType DEF ValuesOK
    <3>3. QED
      BY <2>1, <2>3, <3>2, <1>s, <1>n, <1>r
  <2>4. QED
    BY <1>5, <2>2, <2>3, EnsureEffect DEF Finish
<1>6. CASE MarkOldSnapshotForCleanup
  <2>1. rd' = rd /\ pc = "mark" /\ (Publish \/ Finish)
    BY <1>6 DEF MarkOldSnapshotForCleanup
  <2>2. CASE Finish
    BY <1>2, <2>1, <2>2 DEF Finish
  <2>3. CASE Publish
    BY <2>1, <2>3, <1>s, <1>n, <1>r DEF Publish
  <2>4. QED
    BY <2>1, <2>2, <2>3
<1>7. CASE \/ Get \/ RelinquishFails \/ SynchronizeInProgress
           \/ RemoveSnapshotAnnotation \/ CleanupFails \/ UpdateStatusFails
           \/ ReconcileFails \/ Crash
           \/ \E s \in Snaps : \/ RelinquishSnap(s) \/ AnnotatePVC(s)
                               \/ CleanupSnap(s)
  BY <1>2, <1>7 DEF Get, RelinquishFails, SynchronizeInProgress,
     RemoveSnapshotAnnotation, CleanupFails, UpdateStatusFails, ReconcileFails,
     Crash, RelinquishSnap, AnnotatePVC, CleanupSnap, Run, Finish
<1>8. CASE \/ Calm \/ CacheSync \/ JobSucceeds
           \/ \E s \in Snaps : \/ GarbageCollect(s) \/ LabelDoNotDelete(s)
                               \/ SnapshotCacheSync(s)
  BY <1>1, <1>8 DEF Calm, CacheSync, JobSucceeds, GarbageCollect,
     LabelDoNotDelete, SnapshotCacheSync
<1>9. QED
  BY <1>3, <1>4, <1>5, <1>6, <1>7, <1>8, CalmActions DEF Reconcile

(* What becomes of the annotated snapshot while no populator knows of it.  *)
LEMMA UnknownSnapshot ==
  ASSUME ValuesOK, ImagesInv, CacheInv, [Next]_vars,
         ann # NoSnap, ann' = ann, cached.image # ann
  PROVE  /\ Untouched(snap'[ann])
         /\ \/ snap'[ann].st = snap[ann].st
            \/ snap'[ann].st = "live" /\ Held(ann)'
<1> USE DEF snapVars
<1>a. /\ ann \in Snaps /\ Untouched(snap[ann]) /\ Untouched(shown[ann])
      /\ snap[ann] \in Snapshots /\ pc # "cleanup"
  BY DEF CacheInv, AnnotatedInv, ValuesOK, ImagesInv, StepInv
<1>1. CASE snap'[ann] = snap[ann]
  BY <1>1, <1>a
<1>2. CASE Calm
  BY <1>2, <1>a DEF Calm, Alike, Unnoticed
<1>3. CASE EnsureImageSnapshot
  <2>1. CASE snap' = snap
    BY <1>1, <2>1
  <2>2. CASE snap' # snap
    <3> DEFINE x == Ensured(shown[ann])
    <3>1. Accepted(ann, shown[ann], x)
      BY <1>3, <2>2, EnsureEffect
    <3>2. Untouched(x) /\ x.st = "live"
      BY <1>a, EnsuredType DEF ValuesOK
    <3>3. Held(ann)'
      BY <1>3, <3>1, EnsuredHeld
    <3> HIDE DEF x
    <3>4. snap'[ann] = x
      BY <2>2, <3>1, <1>a DEF Accepted, Write, ValuesOK
    <3>5. QED
      BY <3>2, <3>3, <3>4
  <2>3. QED
    BY <2>1, <2>2
<1>4. CASE MarkOldSnapshotForCleanup
  <2>1. \/ snap' = snap
        \/ local.image # ann /\ snap' = [snap EXCEPT ![local.image] =
                                           Marked(shown[local.image])]
    BY <1>4 DEF MarkOldSnapshotForCleanup, IsOld, Write
  <2>2. QED
    BY <1>1, <1>a, <2>1 DEF ValuesOK
<1>5. CASE \E s \in Snaps : RelinquishSnap(s)
  <2>1. PICK s \in Snaps : RelinquishSnap(s)
    BY <1>5
  <2> DEFINE x == UnMarkForCleanupAndRemoveOwnership(seen[s])
  <2>2. /\ x.st = seen[s].st /\ x.owners = seen[s].owners \ {RD}
        /\ x.inUse = seen[s].inUse
    BY UnMarkType DEF ValuesOK
  <2>3. \/ snap' = snap
        \/ /\ snap[s] = seen[s] /\ snap'[s] = x
           /\ \A u \in Snaps \ {s} : snap'[u] = snap[u]
    BY <2>1, RelinquishEffect
  <2> HIDE DEF x
  <2>4. QED
    BY <1>1, <1>a, <2>2, <2>3 DEF Untouched
<1>6. CASE \E s \in Snaps : GarbageCollect(s)
  <2>1. PICK s \in Snaps : GarbageCollect(s)
    BY <1>6
  <2>2. s # ann
    BY <1>a, <2>1, NameAssumption DEF GarbageCollect, Garbage, Untouched
  <2>3. QED
    BY <1>1, <1>a, <2>1, <2>2 DEF GarbageCollect, Write, ValuesOK
<1>7. CASE \E s \in Snaps : LabelDoNotDelete(s)
  <2>1. PICK s \in Snaps : LabelDoNotDelete(s)
    BY <1>7
  <2> DEFINE x == [snap[s] EXCEPT !.keep = TRUE]
  <2>2. x.st = snap[s].st /\ x.owners = snap[s].owners /\ x.inUse = snap[s].inUse
    BY KeepType DEF ValuesOK
  <2>3. snap'[s] = x /\ \A u \in Snaps \ {s} : snap'[u] = snap[u]
    BY <2>1 DEF LabelDoNotDelete, Write, ValuesOK
  <2> HIDE DEF x
  <2>4. QED
    BY <1>1, <1>a, <2>2, <2>3 DEF Untouched
<1>8. CASE \/ Get \/ RelinquishFails \/ doInitialState \/ SynchronizeInProgress
           \/ RemoveSnapshotAnnotation \/ CleanupFails \/ CleanupCompletes
           \/ UpdateStatus \/ UpdateStatusFails \/ ReconcileFails
           \/ CacheSync \/ JobSucceeds \/ Crash
           \/ \E s \in Snaps : AnnotatePVC(s) \/ SnapshotCacheSync(s)
  BY <1>1, <1>8 DEF Get, RelinquishFails, doInitialState,
     SynchronizeInProgress, RemoveSnapshotAnnotation, CleanupFails,
     CleanupCompletes, UpdateStatus, UpdateStatusFails, ReconcileFails,
     CacheSync, JobSucceeds, Crash, AnnotatePVC, SnapshotCacheSync
<1>9. CASE \E s \in Snaps : CleanupSnap(s)
  BY <1>9, <1>a DEF CleanupSnap
<1>10. QED
  BY <1>2, <1>3, <1>4, <1>5, <1>6, <1>7, <1>8, <1>9, CalmActions DEF Reconcile

LEMMA UnknownStep ==
  ASSUME ValuesOK, ImagesInv, ImagesInv', CacheInv, [Next]_vars,
         ann' # NoSnap, cached'.image # ann'
  PROVE  /\ snap'[ann'].st = "new" \/ (Live(ann)' /\ Held(ann)')
         /\ Untouched(snap'[ann']) /\ Untouched(shown'[ann'])
         /\ Untouched(seen'[ann'])
<1> USE DEF snapVars, rdVars, recVars
<1>t. Traced
  BY StepTraced
<1>1. CASE ann' = ann
  <2>1. cached' \in {cached, rd}
    BY EnsureEffect, CalmActions DEF Reconcile, Get, RelinquishFails,
       doInitialState, SynchronizeInProgress, MarkOldSnapshotForCleanup,
       RemoveSnapshotAnnotation, CleanupFails, CleanupCompletes, UpdateStatus,
       UpdateStatusFails, ReconcileFails, RelinquishSnap, AnnotatePVC,
       CleanupSnap, Calm, CacheSync, JobSucceeds, Crash, GarbageCollect,
       LabelDoNotDelete, SnapshotCacheSync
  <2>2. cached.image # ann
    BY <1>1, <2>1 DEF ImagesInv, ViewInv, Shows
  <2>3. /\ ann \in Snaps
        /\ snap[ann].st = "new" \/ (Live(ann) /\ Held(ann))
        /\ Untouched(snap[ann]) /\ Untouched(shown[ann]) /\ Untouched(seen[ann])
    BY <1>1, <2>2 DEF CacheInv, AnnotatedInv, ValuesOK
  <2>4. /\ Untouched(snap'[ann])
        /\ \/ snap'[ann].st = snap[ann].st
           \/ snap'[ann].st = "live" /\ Held(ann)'
    BY <1>1, <2>2, UnknownSnapshot
  <2>5. Untouched(Absent)
    BY DEF Untouched, Absent
  <2>6. Untouched(shown'[ann]) /\ Untouched(seen'[ann])
    BY <1>t, <2>3, <2>5 DEF Traced
  <2>7. Unmarked(ann)'
    BY DEF ImagesInv, StatusInv
  <2>8. snap'[ann].st = "new" \/ (Live(ann)' /\ Held(ann)')
    BY <1>1, <1>t, <2>3, <2>4, <2>7 DEF Traced, Grows, Held, Unmarked, Live
  <2>9. QED
    BY <1>1, <2>4, <2>6, <2>8
<1>2. CASE \E s \in Snaps : AnnotatePVC(s)
  <2>1. PICK s \in Snaps : AnnotatePVC(s)
    BY <1>2
  <2>2. /\ snap[s].st = "new" /\ ann' = s /\ snap' = snap /\ shown' = shown
        /\ seen' = seen
    BY <2>1 DEF AnnotatePVC
  <2>3. QED
    BY <2>2 DEF CacheInv
<1>3. CASE RemoveSnapshotAnnotation
  BY <1>3 DEF RemoveSnapshotAnnotation
<1>4. ann' = ann \/ RemoveSnapshotAnnotation \/ \E s \in Snaps : AnnotatePVC(s)
  BY EnsureEffect, CalmActions DEF Reconcile, Get, RelinquishFails,
     doInitialState, SynchronizeInProgress, MarkOldSnapshotForCleanup,
     CleanupFails, CleanupCompletes, UpdateStatus, UpdateStatusFails,
     ReconcileFails, RelinquishSnap, CleanupSnap, Calm, CacheSync,
     JobSucceeds, Crash, GarbageCollect, LabelDoNotDelete, SnapshotCacheSync
<1>5. QED
  BY <1>1, <1>2, <1>3, <1>4

(* What becomes of it while a reconcile still takes the sync for unfinished. *)
LEMMA UnfinishedStep ==
  ASSUME ValuesOK, ImagesInv, ImagesInv', CacheInv, [Next]_vars,
         pc' = "relinquish", local'.phase = "synchronizing", ann' # NoSnap
  PROVE  /\ \/ snap'[ann'].st = "new"
            \/ snap'[ann'].st = "live" /\ RD \in snap'[ann'].owners
            \/ /\ snap'[ann'].st = "live" /\ snap'[ann'].keep
               /\ snap'[ann'].owners \subseteq {RD}
         /\ seen'[ann'].owners \subseteq {RD}
<1> USE DEF snapVars, rdVars, recVars
<1>1. CASE Get
  <2>1. /\ local' = cached /\ cached' = cached /\ ann' = ann /\ rd' = rd
        /\ snap' = snap
    BY <1>1 DEF Get
  <2>2. cached.image # ann
    BY <2>1 DEF ImagesInv, ViewInv, Shows, StatusInv
  <2>3. /\ snap'[ann'].st = "new" \/ (Live(ann)' /\ Held(ann)')
        /\ Untouched(snap'[ann']) /\ Untouched(seen'[ann'])
    BY <2>1, <2>2, UnknownStep
  <2>4. QED
    BY <2>1, <2>3 DEF Untouched, Live, Held
<1>2. CASE \E s \in Snaps : AnnotatePVC(s)
  <2>1. PICK s \in Snaps : AnnotatePVC(s)
    BY <1>2
  <2>2. snap[s].st = "new" /\ ann' = s /\ snap' = snap /\ seen' = seen
    BY <2>1 DEF AnnotatePVC
  <2>3. QED
    BY <2>2 DEF CacheInv, Untouched
<1> DEFINE Kept(x) ==
      \/ x.st = "new"
      \/ x.st = "live" /\ RD \in x.owners
      \/ x.st = "live" /\ x.keep /\ x.owners \subseteq {RD}
<1>3. CASE UNCHANGED <<pc, local, ann>>
  <2>1. /\ ann \in Snaps /\ Kept(snap[ann]) /\ seen[ann].owners \subseteq {RD}
        /\ pc = "relinquish"
    BY <1>3 DEF CacheInv, AnnotatedInv, ValuesOK
  <2>2. CASE Calm
    <3>1. seen' = seen /\ Alike(snap[ann], snap'[ann])
      BY <2>1, <2>2 DEF Calm
    <3>2. QED
      BY <1>3, <2>1, <3>1 DEF Alike
  <2>3. CASE \E s \in Snaps : RelinquishSnap(s)
    <3>1. PICK s \in Snaps : RelinquishSnap(s)
      BY <2>3
    <3> DEFINE x == UnMarkForCleanupAndRemoveOwnership(seen[s])
    <3>2. /\ x.st = seen[s].st /\ x.owners = seen[s].owners \ {RD}
          /\ x.keep = seen[s].keep
      BY UnMarkType DEF ValuesOK
    <3>3. /\ seen[s].st = "live" /\ seen[s].keep
          /\ \/ snap' = snap
             \/ /\ snap[s] = seen[s] /\ snap'[s] = x
                /\ \A u \in Snaps \ {s} : snap'[u] = snap[u]
      BY <3>1, RelinquishEffect
    <3>4. seen'[ann] \in {seen[ann], Absent}
      BY <2>1, <3>1 DEF RelinquishSnap, Forget, ValuesOK
    <3> HIDE DEF x
    <3>5. Kept(snap'[ann])
      BY <2>1, <3>2, <3>3
    <3>6. QED
      BY <1>3, <2>1, <3>4, <3>5, AbsentType
  <2>4. CASE \E s \in Snaps : GarbageCollect(s)
    <3>1. PICK s \in Snaps : GarbageCollect(s)
      BY <2>4
    <3>2. s # ann
      BY <2>1, <3>1, NameAssumption DEF GarbageCollect, Garbage, Live
    <3>3. snap'[ann] = snap[ann] /\ seen' = seen
      BY <2>1, <3>1, <3>2 DEF GarbageCollect, Write, ValuesOK
    <3>4. QED
      BY <1>3, <2>1, <3>3
  <2>5. CASE \E s \in Snaps : LabelDoNotDelete(s)
    <3>1. PICK s \in Snaps : LabelDoNotDelete(s)
      BY <2>5
    <3> DEFINE x == [snap[s] EXCEPT !.keep = TRUE]
    <3>2. x.st = snap[s].st /\ x.owners = snap[s].owners /\ x.keep
      BY KeepType DEF ValuesOK
    <3>3. /\ snap'[s] = x /\ \A u \in Snaps \ {s} : snap'[u] = snap[u]
          /\ seen' = seen
      BY <3>1 DEF LabelDoNotDelete, Write, ValuesOK
    <3> HIDE DEF x
    <3>4. Kept(snap'[ann])
      BY <2>1, <3>2, <3>3
    <3>5. QED
      BY <1>3, <2>1, <3>3, <3>4
  <2>6. CASE snap' = snap /\ seen' = seen
    BY <1>3, <2>1, <2>6
  <2>7. QED
    BY <2>1, <2>2, <2>3, <2>4, <2>5, <2>6, <1>1, <1>2, EnsureEffect,
       CalmActions
       DEF Reconcile, RelinquishFails, doInitialState, SynchronizeInProgress,
       MarkOldSnapshotForCleanup, Publish, RemoveSnapshotAnnotation,
       CleanupFails, CleanupCompletes, UpdateStatus, UpdateStatusFails,
       ReconcileFails, CleanupSnap, CacheSync, JobSucceeds, Crash,
       SnapshotCacheSync, Finish
<1>4. Get \/ (\E s \in Snaps : AnnotatePVC(s)) \/ UNCHANGED <<pc, local, ann>>
  BY EnsureEffect, CalmActions
     DEF Reconcile, RelinquishFails, doInitialState, SynchronizeInProgress,
     MarkOldSnapshotForCleanup, Publish, RemoveSnapshotAnnotation,
     CleanupFails, CleanupCompletes, UpdateStatus, UpdateStatusFails,
     ReconcileFails, RelinquishSnap, CleanupSnap, Calm, CacheSync, JobSucceeds,
     Crash, GarbageCollect, LabelDoNotDelete, SnapshotCacheSync, Finish
<1>5. QED
  BY <1>1, <1>2, <1>3, <1>4

LEMMA CacheStep ==
  ValuesOK /\ ImagesInv /\ ImagesInv' /\ CacheInv /\ [Next]_vars => CacheInv'
<1> SUFFICES ASSUME ValuesOK, ImagesInv, ImagesInv', CacheInv, [Next]_vars
             PROVE  CacheInv'
  OBVIOUS
<1>1. AnnotatedInv'
  BY UnknownStep, UnfinishedStep DEF AnnotatedInv
<1>2. /\ \A s \in Snaps : Tells(shown'[s], snap'[s])
      /\ \A s \in Snaps : snap'[s].st = "new" =>
           Untouched(snap'[s]) /\ Untouched(shown'[s]) /\ Untouched(seen'[s])
  BY StepTraced, TracedCopies
<1>3. QED
  BY <1>1, <1>2, ShownNames DEF CacheInv

LEMMA CacheInit == Init => CacheInv
<1> SUFFICES ASSUME Init PROVE CacheInv
  OBVIOUS
<1>1. /\ snap = [s \in Snaps |-> [Absent EXCEPT !.st = "new"]]
      /\ shown = snap /\ seen = [s \in Snaps |-> Absent]
      /\ rd = [phase |-> "initial", image |-> NoSnap]
      /\ ann = NoSnap /\ pc = "idle"
  BY Zenon DEF Init
<1>2. Untouched(Absent) /\ Untouched([Absent EXCEPT !.st = "new"])
  BY DEF Untouched, Absent
<1>3. QED
  BY <1>1, <1>2 DEF CacheInv, AnnotatedInv, Tells

LEMMA ImagesInvariant == Spec => [](ValuesOK /\ ImagesInv)
<1>1. Spec => []ValuesOK
  BY TypeCorrect, PTL DEF TypeOK
<1>2. ValuesOK /\ ImagesInv /\ CacheInv /\ [Next]_vars => (ImagesInv /\ CacheInv)'
  BY ImagesStep, CacheStep
<1>3. QED
  BY <1>1, <1>2, ImagesInit, CacheInit, PTL DEF Spec

(* status.latestImage names a snapshot that is there: the previous image   *)
(* is marked before the new one is published, and the write that publishes *)
(* it may fail or rest on a stale copy, but nothing marked is deleted      *)
(* until it has succeeded (replicationdestination_controller.go:271-280).  *)
THEOREM LatestImageStays == Spec => []LatestImageAvailable
<1>1. ImagesInv => LatestImageAvailable
  BY DEF ImagesInv, StatusInv, Held, LatestImageAvailable
<1>2. QED
  BY <1>1, ImagesInvariant, PTL

(* No snapshot is forgotten: of those the ReplicationDestination owns, all *)
(* but the latest image and the one in the making are marked for cleanup,  *)
(* whatever failed, was retried or was read from a cache that was behind   *)
(* (cleanup.go:97-133, 269-318).                                           *)
THEOREM NothingLeaked == Spec => []NoSnapshotLeaked
<1>1. ImagesInv => NoSnapshotLeaked
  BY DEF ImagesInv, OwnerInv
<1>2. QED
  BY <1>1, ImagesInvariant, PTL

-----------------------------------------------------------------------------
(* The cycle of ReplicationMachine. *)

(* Only three steps change what the cycle shows.                           *)
LEMMA CycleFrame ==
  ASSUME ValuesOK, [Next]_vars
  PROVE  \/ UpdateStatus \/ JobSucceeds \/ CleanupCompletes
         \/ rd' = rd /\ (job' = "done" <=> job = "done")
<1>1. CASE SynchronizeInProgress
  BY <1>1 DEF SynchronizeInProgress
<1>2. CASE EnsureImageSnapshot
  BY <1>2, EnsureEffect DEF rdVars
<1>3. CASE Reconcile /\ ~SynchronizeInProgress /\ ~EnsureImageSnapshot
  BY <1>3 DEF Reconcile, Get, RelinquishFails, doInitialState,
     MarkOldSnapshotForCleanup, RemoveSnapshotAnnotation, CleanupFails,
     UpdateStatusFails, ReconcileFails, RelinquishSnap, AnnotatePVC,
     CleanupSnap, rdVars
<1>4. CASE Calm \/ CacheSync \/ Crash
  BY <1>4 DEF Calm, CacheSync, Crash, rdVars
<1>5. CASE \E s \in Snaps : \/ GarbageCollect(s) \/ LabelDoNotDelete(s)
                           \/ SnapshotCacheSync(s)
  BY <1>5 DEF GarbageCollect, LabelDoNotDelete, SnapshotCacheSync, rdVars
<1>6. QED
  BY <1>1, <1>2, <1>3, <1>4, <1>5, CalmActions

LEMMA CycleInit == Init => Cycle!Init
<1> SUFFICES ASSUME Init PROVE Cycle!Init
  OBVIOUS
<1>1. rd = [phase |-> "initial", image |-> NoSnap] /\ job = "none"
  BY Zenon DEF Init
<1>2. QED
  BY <1>1 DEF Cycle!Init

LEMMA CycleStep ==
  ValuesOK /\ ImagesInv /\ [Next]_vars => [Cycle!Next]_(Cycle!vars)
<1> SUFFICES ASSUME ValuesOK, ImagesInv, [Next]_vars
             PROVE  [Cycle!Next]_(Cycle!vars)
  OBVIOUS
<1> USE DEF Cycle!vars
<1>1. CASE rd' = rd /\ (job' = "done" <=> job = "done")
  BY <1>1
<1>2. CASE JobSucceeds
  <2>1. rd' = rd /\ job = "running" /\ job' = "done"
    BY <1>2 DEF JobSucceeds
  <2>2. rd.phase = "synchronizing"
    BY <2>1 DEF ImagesInv, StatusInv, Unstarted, ValuesOK, Statuses
  <2>3. Cycle!Transfer
    BY <2>1, <2>2 DEF Cycle!Transfer
  <2>4. QED
    BY <2>3 DEF Cycle!Next
<1>3. CASE CleanupCompletes
  <2>1. pc = "cleanup" /\ rd' = rd /\ job' = "none"
    BY <1>3 DEF CleanupCompletes
  <2>2. \/ rd.phase = "cleaningup"
        \/ rd.phase = "synchronizing" /\ job = "none"
    BY <2>1 DEF ImagesInv, StepInv, ViewInv, Shows, Unstarted
  <2>3. job = "done" => Cycle!CleanUp
    BY <2>1, <2>2 DEF Cycle!CleanUp
  <2>4. QED
    BY <2>1, <2>3 DEF Cycle!Next
<1>4. CASE UpdateStatus
  <2>1. pc = "write" /\ localCurrent /\ rd' = local /\ job' = job
    BY <1>4 DEF UpdateStatus
  <2>2. CASE /\ local.phase = "synchronizing" /\ rd.phase # "synchronizing"
             /\ Unstarted
    <3>1. Cycle!Start
      BY <2>1, <2>2 DEF Cycle!Start, Unstarted, ValuesOK, Statuses
    <3>2. QED
      BY <3>1 DEF Cycle!Next
  <2>3. CASE local = rd
    BY <2>1, <2>3
  <2>4. CASE /\ local.phase = "cleaningup" /\ job = "done"
             /\ rd.phase = "synchronizing"
    <3>1. Cycle!Complete
      BY <2>1, <2>4 DEF Cycle!Complete
    <3>2. QED
      BY <3>1 DEF Cycle!Next
  <2>5. QED
    BY <2>1, <2>2, <2>3, <2>4 DEF ImagesInv, StepInv
<1>5. QED
  BY <1>1, <1>2, <1>3, <1>4, CycleFrame

(* The ReplicationDestination, with its snapshots, its populators and what *)
(* fails on the way, runs the same abstract cycle as the state machine: a  *)
(* sync begins only when the Job of the last one is gone, and is over only *)
(* once its own Job has succeeded.                                         *)
THEOREM RefinesSyncCycle == Spec => ImplementsSyncCycle
BY ImagesInvariant, CycleInit, CycleStep, PTL
   DEF Spec, ImplementsSyncCycle, Cycle!Spec
=============================================================================
