---------------------------- MODULE CopyTrigger ----------------------------
(***************************************************************************)
(* Copy triggers: a user who wants to quiesce an application before its    *)
(* volume is copied, and VolSync, agree on the moment through annotations  *)
(* of the source PVC (volumehandler.go, copy_trigger_annotations.go).      *)
(*                                                                         *)
(* One ReplicationSource repeats its cycle: in each sync a snapshot or a   *)
(* clone of the PVC is taken, the mover's Job runs on it, and the cleanup  *)
(* deletes it.  Every reconcile of a sync passes through all of these      *)
(* steps, from a copy of the PVC read from the informer cache; its updates *)
(* of the PVC carry the resourceVersion read.  A snapshot must be ready    *)
(* before the Job is created, a clone is handed to the Job unbound.        *)
(*                                                                         *)
(* The phases are those of SyncCycle.  Left out: events, sizes and classes *)
(* of the copy, PVCs that do not use copy triggers, and the repair of a    *)
(* waiting-since annotation that somebody else has damaged.                *)
(***************************************************************************)
EXTENDS Naturals

CONSTANTS
  Tags,         \* values the user gives to copy-trigger
  NoTag,        \* the annotation is absent or empty
  UserSetsAt,   \* values of latest-copy-status at which the user sets it
  Timeout,      \* CopyTriggerWaitTimeout
  MaxTime,      \* bound on the clock
  MaxSyncs,     \* bound on the number of syncs
  MaxFaults     \* bound on restarts and failing calls

Statuses == {"", "WaitingForTrigger", "InProgress", "Completed"}
Unset == 0      \* no waiting-since annotation; the clock starts at 1

ASSUME TagAssumption == NoTag \notin Tags
ASSUME BoundAssumption ==
  /\ Timeout \in Nat /\ MaxTime \in Nat /\ MaxSyncs \in Nat
  /\ MaxFaults \in Nat
ASSUME UserAssumption == UserSetsAt \subseteq Statuses

VARIABLES
  method,    \* spec.copyMethod
  now,
  pvc,       \* the annotations in the API server
  cached,    \* the same in the informer cache
  pc,        \* position of the reconcile
  local,     \* its copy of the annotations
  current,   \* the copy carries the current resourceVersion
  copy,      \* the snapshot or clone
  job,       \* the mover's Job
  phase,     \* of the ReplicationSource
  timedOut,  \* the last reconcile ended with CopyTriggerTimeoutError
  syncs, faults,
  takenFor,  \* auxiliary: copy-trigger when the copy was created
  waitSince  \* auxiliary: when this sync first found no trigger

pvcVars == <<pvc, cached>>
recVars == <<pc, local, current>>
bounds  == <<syncs, faults>>
aux     == <<takenFor, waitSince>>
vars ==
  <<method, now, pvcVars, recVars, copy, job, phase, timedOut, bounds, aux>>

Annotations ==
  [trigger : Tags \cup {NoTag}, latest : Tags \cup {NoTag}, since : Nat,
   status : Statuses]

Bare == [trigger |-> NoTag, latest |-> NoTag, since |-> Unset, status |-> ""]

Init ==
  /\ method \in {"Snapshot", "Clone"}
  /\ now = 1
  /\ pvc = Bare /\ cached = Bare /\ local = Bare /\ current = FALSE
  /\ pc = "idle" /\ copy = "none" /\ job = "none" /\ phase = "synchronizing"
  /\ timedOut = FALSE
  /\ syncs = 1 /\ faults = 0
  /\ takenFor = NoTag /\ waitSince = Unset

-----------------------------------------------------------------------------
(* The annotations (copy_trigger_annotations.go). *)

SetLatestCopyStatusWaitingForTrigger(x) ==
  [x EXCEPT !.status = "WaitingForTrigger",
            !.since = IF x.status # "WaitingForTrigger" \/ x.since = Unset
                      THEN now ELSE x.since]

\* Mutant: the status keeps saying WaitingForTrigger.
SetLatestCopyStatusUnchanged(x) == [x EXCEPT !.since = Unset]

SetLatestCopyStatusInProgress(x) ==
  [x EXCEPT !.status = "InProgress", !.since = Unset]

\* Mutant: a value the API does not define.
SetLatestCopyStatusDone(x) == [x EXCEPT !.status = "Done", !.since = Unset]

SetLatestCopyStatusCompleted(x) ==
  [x EXCEPT !.status = "Completed", !.since = Unset]

\* Mutant: the value served is not recorded.
SetNoLatestCopyTriggerValue(x) == x

SetLatestCopyTriggerValue(x) == [x EXCEPT !.latest = x.trigger]

\* Mutant: only the absence of a trigger makes VolSync wait.
MustWaitForFirst(x) == x.trigger = NoTag

MustWait(x) == x.trigger \in {NoTag, x.latest}

\* Mutant: off by one.
TimedOutEarly(x) == x.since + Timeout <= now

TimedOut(x) == x.since + Timeout < now

-----------------------------------------------------------------------------
Fault ==
  /\ faults < MaxFaults
  /\ faults' = faults + 1

Finish == pc' = "idle" /\ local' = Bare /\ current' = FALSE

\* The PVC becomes x, if that changes the reconcile's copy of it.
Update(x) ==
  /\ \/ x = local /\ UNCHANGED pvc
     \/ x # local /\ current /\ pvc' = x
  /\ UNCHANGED cached

\* The reconcile goes on, with the version it has just written.
Continue(where, x) == pc' = where /\ local' = x /\ UNCHANGED current

Get ==
  /\ pc = "idle" /\ phase = "synchronizing"
  /\ pc' = "ensure"
  /\ local' = cached /\ current' = (cached = pvc)
  /\ timedOut' = FALSE
  /\ UNCHANGED <<method, now, pvcVars, copy, job, phase, bounds, aux>>

\* What ensureSnapshot or ensureClone makes of its copy of the PVC.
Wanted ==
  IF copy = "ready"
  THEN SetLatestCopyTriggerValue(SetLatestCopyStatusCompleted(local))
  ELSE IF MustWait(local) THEN SetLatestCopyStatusWaitingForTrigger(local)
  ELSE SetLatestCopyStatusInProgress(local)

\* waitForCopyTriggerBeforeCloneOrSnap, when the user has not answered.
WaitForCopyTrigger ==
  /\ pc = "ensure" /\ copy = "none" /\ MustWait(local)
  /\ Update(Wanted)
  /\ Finish
  /\ timedOut' = TimedOut(Wanted)
  /\ waitSince' = IF waitSince = Unset THEN now ELSE waitSince
  /\ UNCHANGED <<method, now, copy, job, phase, bounds, takenFor>>

\* The same when the user has: go on to create the copy.
CopyTriggerReceived ==
  /\ pc = "ensure" /\ copy = "none" /\ ~MustWait(local)
  /\ Update(Wanted)
  /\ Continue("create", Wanted)
  /\ UNCHANGED <<method, now, copy, job, phase, timedOut, bounds, aux>>

\* A snapshot that is not ready ends the reconcile, a clone does not.
ProceedUnready ==
  IF method = "Clone" THEN Continue("job", local) ELSE Finish

CreateCopy ==
  /\ pc = "create"
  /\ copy' = "pending" /\ takenFor' = pvc.trigger
  /\ ProceedUnready
  /\ UNCHANGED <<method, now, pvcVars, job, phase, timedOut, bounds,
                 waitSince>>

CopyNotReady ==
  /\ pc = "ensure" /\ copy = "pending"
  /\ ProceedUnready
  /\ UNCHANGED <<method, now, pvcVars, copy, job, phase, timedOut, bounds,
                 aux>>

\* updateCopyTriggerAfterCloneOrSnap, in every reconcile that finds the copy
\* ready; the mover then goes on to its Job.
UpdateCopyTrigger ==
  /\ pc = "ensure" /\ copy = "ready"
  /\ Update(Wanted)
  /\ Continue("job", Wanted)
  /\ UNCHANGED <<method, now, copy, job, phase, timedOut, bounds, aux>>

EnsureJob ==
  /\ pc = "job"
  /\ Finish
  /\ IF job = "done" THEN phase' = "cleaningup" /\ UNCHANGED job
                     ELSE job' = "running" /\ UNCHANGED phase
  /\ UNCHANGED <<method, now, pvcVars, copy, timedOut, bounds, aux>>

\* The version read is not current, or any call fails: retried.
UpdateConflicts ==
  /\ pc = "ensure" /\ copy # "pending"
  /\ ~current /\ Wanted # local
  /\ Finish
  /\ UNCHANGED <<method, now, pvcVars, copy, job, phase, timedOut, bounds,
                 aux>>

ReconcileFails ==
  /\ pc # "idle"
  /\ Fault
  /\ Finish
  /\ UNCHANGED <<method, now, pvcVars, copy, job, phase, timedOut, syncs,
                 aux>>

\* mover.Cleanup deletes the copy and the Job; the next sync begins.
Cleanup ==
  /\ pc = "idle" /\ phase = "cleaningup"
  /\ copy' = "none" /\ job' = "none"
  /\ IF syncs < MaxSyncs
     THEN phase' = "synchronizing" /\ syncs' = syncs + 1
     ELSE UNCHANGED <<phase, syncs>>
  /\ waitSince' = Unset
  /\ UNCHANGED <<method, now, pvcVars, recVars, timedOut, faults, takenFor>>

-----------------------------------------------------------------------------
(* The cluster, and the user. *)

CacheSync ==
  /\ cached # pvc
  /\ cached' = pvc
  /\ UNCHANGED <<method, now, pvc, recVars, copy, job, phase, timedOut,
                 bounds, aux>>

CopyReady ==
  /\ copy = "pending"
  /\ copy' = "ready"
  /\ UNCHANGED <<method, now, pvcVars, recVars, job, phase, timedOut, bounds,
                 aux>>

\* A Job takes longer than the cache lags behind the completion of the copy.
JobDone ==
  /\ job = "running" /\ copy = "ready"
  /\ cached.status = "Completed"
  /\ job' = "done"
  /\ UNCHANGED <<method, now, pvcVars, recVars, copy, phase, timedOut, bounds,
                 aux>>

SetCopyTrigger(t) ==
  /\ t # pvc.trigger /\ pvc.status \in UserSetsAt /\ t # pvc.latest
  /\ pvc' = [pvc EXCEPT !.trigger = t]
  /\ current' = FALSE
  /\ UNCHANGED <<method, now, cached, pc, local, copy, job, phase, timedOut,
                 bounds, aux>>

Tick ==
  /\ now < MaxTime
  /\ now' = now + 1
  /\ UNCHANGED <<method, pvcVars, recVars, copy, job, phase, timedOut, bounds,
                 aux>>

Crash ==
  /\ Fault
  /\ cached' = pvc
  /\ Finish
  /\ UNCHANGED <<method, now, pvc, copy, job, phase, timedOut, syncs, aux>>

Reconcile ==
  \/ Get \/ WaitForCopyTrigger \/ CopyTriggerReceived \/ CreateCopy
  \/ CopyNotReady \/ UpdateCopyTrigger \/ EnsureJob \/ Cleanup
  \/ UpdateConflicts \/ ReconcileFails

Next ==
  \/ Reconcile
  \/ CacheSync \/ CopyReady \/ JobDone \/ Tick \/ Crash
  \/ \E t \in Tags : SetCopyTrigger(t)

Spec == Init /\ [][Next]_vars

(* InProgress results and errors are always followed by another reconcile, *)
(* watches deliver, copies become ready and Jobs end.                      *)
FairSpec ==
  /\ Spec
  /\ WF_vars(Get) /\ WF_vars(WaitForCopyTrigger) /\ WF_vars(Cleanup)
  /\ WF_vars(CopyTriggerReceived) /\ WF_vars(CreateCopy)
  /\ WF_vars(CopyNotReady) /\ WF_vars(UpdateCopyTrigger)
  /\ WF_vars(EnsureJob) /\ WF_vars(UpdateConflicts)
  /\ WF_vars(CacheSync) /\ WF_vars(CopyReady) /\ WF_vars(JobDone)

-----------------------------------------------------------------------------
(* Properties. *)

FlagsOK == current \in BOOLEAN /\ timedOut \in BOOLEAN

ValuesOK ==
  /\ method \in {"Snapshot", "Clone"} /\ now \in Nat \ {Unset}
  /\ pvc \in Annotations /\ cached \in Annotations /\ local \in Annotations
  /\ pc \in {"idle", "ensure", "create", "job"}
  /\ copy \in {"none", "pending", "ready"}
  /\ job \in {"none", "running", "done"}
  /\ phase \in {"synchronizing", "cleaningup"}
  /\ syncs \in Nat /\ faults \in Nat
  /\ takenFor \in Tags \cup {NoTag} /\ waitSince \in Nat

(* Type invariant. *)
TypeOK == FlagsOK /\ ValuesOK

(* pvccopytriggers.rst: when VolSync says Completed, the copy was created  *)
(* while copy-trigger had the value latest-copy-trigger now shows, so what *)
(* the user did before setting that value (a quiesce) is in the copy.  The *)
(* value is read anew in every reconcile that finds the copy ready         *)
(* (volumehandler.go:593-594).                                             *)
TriggerServed == pvc.status = "Completed" => takenFor = pvc.latest

(* No copy is taken on a trigger that an earlier copy has used up, although*)
(* the decision is made on a cached PVC and may lead to no update that     *)
(* would expose its age (volumehandler.go:525-527, 569-571).               *)
CopyNeedsNewTrigger ==
  [][ copy = "none" /\ copy' = "pending"
        => pvc.trigger \notin {NoTag, pvc.latest} ]_vars

(* CopyTriggerTimeoutError is only reported once this sync has waited for  *)
(* longer than CopyTriggerWaitTimeout (volumehandler.go:553).              *)
TimeoutIsDue == timedOut => waitSince # Unset /\ waitSince + Timeout < now

(* A trigger set while VolSync waits for it is answered.                   *)
TriggerAnswered ==
  \A t \in Tags :
    (/\ pvc.status = "WaitingForTrigger"
     /\ pvc.trigger = t /\ t # pvc.latest)
      ~> (pvc.latest = t \/ pvc.trigger # t)
-----------------------------------------------------------------------------
(* Why they hold, if the user sets copy-trigger only while VolSync waits.  *)

(* A sync takes the PVC through four versions: idle (served, or never      *)
(* used), waiting, in progress, completed.  x is the current one or lags:  *)
(* a waiting PVC may still look idle; the update to in progress is only    *)
(* accepted over the waiting version, so that from then on until the       *)
(* clean-up nothing older than the wait can be seen.                       *)
Behind(x) ==
  \/ x = pvc
  \/ /\ pvc.status = "WaitingForTrigger"
     /\ \/ x.status = "WaitingForTrigger"
        \/ x.status \in {"", "Completed"} /\ x.trigger = x.latest
  \/ pvc.status = "InProgress" /\ x.status = "WaitingForTrigger"
  \/ /\ pvc.status = "Completed" /\ copy # "none"
     /\ x.status \in {"WaitingForTrigger", "InProgress"}

\* What the API server holds.
PvcInv ==
  /\ pvc.status \in {"", "Completed"} => pvc.trigger = pvc.latest
  /\ pvc.status = "InProgress" => ~MustWait(pvc)
  /\ pvc.status \in {"InProgress", "Completed"} => pvc.since = Unset
  /\ TriggerServed
  /\ copy # "none" =>
       pvc.status \in {"InProgress", "Completed"} /\ takenFor = pvc.trigger

\* What the cache and the reconcile know of it.
CopyInv ==
  /\ current => local = pvc
  /\ pc = "ensure" /\ current => cached = pvc
  /\ Behind(cached)
  /\ pc # "idle" => Behind(local)
  /\ pc = "create" => copy = "none" /\ pvc.status = "InProgress"

\* The Job's end shows that the cache has caught up.
EndInv ==
  /\ job = "done" => copy = "ready"
  /\ job = "done" \/ phase = "cleaningup"
       => pvc.status = "Completed" /\ cached = pvc
  /\ phase = "cleaningup" => pc = "idle"

TriggerInv == PvcInv /\ CopyInv /\ EndInv

(* waiting-since is not older than this sync's wait, in any version of the *)
(* PVC that a reconcile of this sync can see.                              *)
Waited(x) ==
  x.status = "WaitingForTrigger" => waitSince # Unset /\ waitSince <= x.since

WaitInv ==
  /\ Waited(pvc) /\ Waited(cached) /\ (pc # "idle" => Waited(local))
  /\ pc # "idle" \/ phase = "cleaningup" => ~timedOut
  /\ waitSince <= now
=============================================================================
