------------------------- MODULE CopyTriggerProofs -------------------------
(***************************************************************************)
(* Proofs about CopyTrigger, for every set of tags, every timeout and      *)
(* every bound.                                                            *)
(***************************************************************************)
EXTENDS CopyTrigger, TLAPS

-----------------------------------------------------------------------------
(* What ensureSnapshot and ensureClone make of the PVC. *)

LEMMA BareType == Bare \in Annotations
BY DEF Bare, Annotations, Statuses, Unset

LEMMA WantedCompleted ==
  ASSUME local \in Annotations, copy = "ready"
  PROVE  /\ Wanted \in Annotations
         /\ Wanted.status = "Completed"
         /\ Wanted.trigger = local.trigger /\ Wanted.latest = local.trigger
         /\ Wanted.since = Unset
         /\ /\ local.status = "Completed" /\ local.since = Unset
            /\ local.latest = local.trigger
            => Wanted = local
BY DEF Wanted, SetLatestCopyTriggerValue, SetLatestCopyStatusCompleted,
   Annotations, Statuses, Unset

LEMMA WantedWaiting ==
  ASSUME local \in Annotations, now \in Nat, copy # "ready", MustWait(local)
  PROVE  /\ Wanted \in Annotations
         /\ Wanted.status = "WaitingForTrigger"
         /\ Wanted.trigger = local.trigger /\ Wanted.latest = local.latest
         /\ \/ Wanted.since = now
            \/ /\ local.status = "WaitingForTrigger"
               /\ Wanted.since = local.since
BY DEF Wanted, SetLatestCopyStatusWaitingForTrigger, Annotations, Statuses

LEMMA WantedInProgress ==
  ASSUME local \in Annotations, copy # "ready", ~MustWait(local)
  PROVE  /\ Wanted \in Annotations
         /\ Wanted.status = "InProgress"
         /\ Wanted.trigger = local.trigger /\ Wanted.latest = local.latest
         /\ Wanted.since = Unset
         /\ local.status = "InProgress" /\ local.since = Unset
              => Wanted = local
BY DEF Wanted, SetLatestCopyStatusInProgress, Annotations, Statuses, Unset

LEMMA WantedType ==
  ASSUME local \in Annotations, now \in Nat
  PROVE  Wanted \in Annotations
BY WantedCompleted, WantedWaiting, WantedInProgress

-----------------------------------------------------------------------------
(* Type correctness. *)

LEMMA TypeInit == Init => TypeOK
<1>1. Init => ValuesOK
  BY BareType DEF Init, ValuesOK, Unset
<1>2. Init => FlagsOK
  BY Zenon DEF Init, FlagsOK
<1>3. QED
  BY <1>1, <1>2 DEF TypeOK

LEMMA ValuesStep == ValuesOK /\ [Next]_vars => ValuesOK'
<1> SUFFICES ASSUME ValuesOK, [Next]_vars PROVE ValuesOK'
  OBVIOUS
<1> USE DEF pvcVars, recVars, bounds, aux
<1>w. Wanted \in Annotations
  BY WantedType DEF ValuesOK
<1>1. CASE Get
  BY <1>1 DEF Get, ValuesOK
<1>2. CASE WaitForCopyTrigger
  BY <1>2, <1>w, BareType DEF WaitForCopyTrigger, Update, Finish, ValuesOK
<1>3. CASE CopyTriggerReceived
  BY <1>3, <1>w DEF CopyTriggerReceived, Update, Continue, ValuesOK
<1>4. CASE CreateCopy
  BY <1>4, BareType DEF CreateCopy, ProceedUnready, Continue, Finish,
     ValuesOK, Annotations
<1>5. CASE CopyNotReady
  BY <1>5, BareType DEF CopyNotReady, ProceedUnready, Continue, Finish,
     ValuesOK
<1>6. CASE UpdateCopyTrigger
  BY <1>6, <1>w DEF UpdateCopyTrigger, Update, Continue, ValuesOK
<1>7. CASE EnsureJob
  BY <1>7, BareType DEF EnsureJob, Finish, ValuesOK
<1>8. CASE Cleanup
  BY <1>8 DEF Cleanup, ValuesOK, Unset
<1>9. CASE UpdateConflicts
  BY <1>9, BareType DEF UpdateConflicts, Finish, ValuesOK
<1>10. CASE ReconcileFails
  BY <1>10, BareType DEF ReconcileFails, Fault, Finish, ValuesOK
<1>11. CASE CacheSync
  BY <1>11 DEF CacheSync, ValuesOK
<1>12. CASE CopyReady
  BY <1>12 DEF CopyReady, ValuesOK
<1>13. CASE JobDone
  BY <1>13 DEF JobDone, ValuesOK
<1>14. CASE Tick
  BY <1>14 DEF Tick, ValuesOK, Unset
<1>15. CASE Crash
  BY <1>15, BareType DEF Crash, Fault, Finish, ValuesOK
<1>16. CASE \E t \in Tags : SetCopyTrigger(t)
  BY <1>16 DEF SetCopyTrigger, ValuesOK, Annotations
<1>17. CASE UNCHANGED vars
  BY <1>17 DEF vars, ValuesOK
<1>18. QED
  BY <1>1, <1>2, <1>3, <1>4, <1>5, <1>6, <1>7, <1>8, <1>9, <1>10, <1>11,
     <1>12, <1>13, <1>14, <1>15, <1>16, <1>17 DEF Next, Reconcile

LEMMA FlagsStep == FlagsOK /\ [Next]_vars => FlagsOK'
<1> SUFFICES ASSUME FlagsOK, [Next]_vars PROVE FlagsOK'
  OBVIOUS
<1> USE DEF pvcVars, recVars, bounds, aux, FlagsOK, Finish, Continue
<1>1. CASE Get
  BY <1>1, Zenon DEF Get
<1>2. CASE WaitForCopyTrigger
  <2>1. TimedOut(Wanted) \in BOOLEAN
    BY DEF TimedOut
  <2>2. QED
    BY <1>2, <2>1, Zenon DEF WaitForCopyTrigger
<1>3. CASE CopyTriggerReceived
  BY <1>3, Zenon DEF CopyTriggerReceived
<1>4. CASE CreateCopy
  BY <1>4, Zenon DEF CreateCopy, ProceedUnready
<1>5. CASE CopyNotReady
  BY <1>5, Zenon DEF CopyNotReady, ProceedUnready
<1>6. CASE UpdateCopyTrigger
  BY <1>6, Zenon DEF UpdateCopyTrigger
<1>7. CASE EnsureJob
  BY <1>7, Zenon DEF EnsureJob
<1>8. CASE Cleanup
  BY <1>8, Zenon DEF Cleanup
<1>9. CASE UpdateConflicts
  BY <1>9, Zenon DEF UpdateConflicts
<1>10. CASE ReconcileFails
  BY <1>10, Zenon DEF ReconcileFails
<1>11. CASE CacheSync
  BY <1>11, Zenon DEF CacheSync
<1>12. CASE CopyReady
  BY <1>12, Zenon DEF CopyReady
<1>13. CASE JobDone
  BY <1>13, Zenon DEF JobDone
<1>14. CASE Tick
  BY <1>14, Zenon DEF Tick
<1>15. CASE Crash
  BY <1>15, Zenon DEF Crash
<1>16. CASE \E t \in Tags : SetCopyTrigger(t)
  BY <1>16, Zenon DEF SetCopyTrigger
<1>17. CASE UNCHANGED vars
  BY <1>17, Zenon DEF vars
<1>18. QED
  BY <1>1, <1>2, <1>3, <1>4, <1>5, <1>6, <1>7, <1>8, <1>9, <1>10, <1>11,
     <1>12, <1>13, <1>14, <1>15, <1>16, <1>17 DEF Next, Reconcile

(* Type correctness of CopyTrigger.                                        *)
THEOREM TypeCorrect == Spec => []TypeOK
<1>1. TypeOK /\ [Next]_vars => TypeOK'
  BY ValuesStep, FlagsStep DEF TypeOK
<1>2. QED
  BY TypeInit, <1>1, PTL DEF Spec

-----------------------------------------------------------------------------
(* The trigger that is served. *)

\* The reconcile ends, or goes on, and nothing else happens.
Ends ==
  /\ pc' = "idle" /\ ~current'
  /\ UNCHANGED <<pvc, cached, copy, job, phase, takenFor>>

GoesOn ==
  /\ pc' \in {pc, "job"} /\ (pc' = "job" => pc # "idle")
  /\ current' = current
  /\ UNCHANGED <<pvc, cached, local, copy, job, phase, takenFor>>

LEMMA EndsFrame == TriggerInv /\ Ends => TriggerInv'
<1> SUFFICES ASSUME TriggerInv, Ends PROVE TriggerInv'
  OBVIOUS
<1>1. PvcInv'
  BY DEF TriggerInv, PvcInv, TriggerServed, MustWait, Ends
<1>2. CopyInv'
  BY DEF TriggerInv, CopyInv, Behind, Ends
<1>3. EndInv'
  BY DEF TriggerInv, EndInv, Ends
<1>4. QED
  BY <1>1, <1>2, <1>3 DEF TriggerInv

LEMMA GoesOnFrame == TriggerInv /\ GoesOn => TriggerInv'
<1> SUFFICES ASSUME TriggerInv, GoesOn PROVE TriggerInv'
  OBVIOUS
<1>c. current' => current
  BY Zenon DEF GoesOn
<1>1. PvcInv'
  BY DEF TriggerInv, PvcInv, TriggerServed, MustWait, GoesOn
<1>2. CopyInv'
  BY <1>c DEF TriggerInv, CopyInv, Behind, GoesOn
<1>3. EndInv'
  BY DEF TriggerInv, EndInv, GoesOn
<1>4. QED
  BY <1>1, <1>2, <1>3 DEF TriggerInv

LEMMA TriggerInit == Init => TriggerInv
<1> SUFFICES ASSUME Init PROVE TriggerInv
  OBVIOUS
<1>1. ~current
  BY Zenon DEF Init
<1>2. QED
  BY <1>1 DEF Init, TriggerInv, PvcInv, CopyInv, EndInv, Behind,
     TriggerServed, Bare

(* The steps that write the PVC or create and delete the copy.             *)
LEMMA WaitStep ==
  ASSUME ValuesOK, TriggerInv, WaitForCopyTrigger
  PROVE  TriggerInv'
<1>1. /\ pc = "ensure" /\ copy = "none" /\ MustWait(local)
      /\ pc' = "idle" /\ ~current' /\ cached' = cached
      /\ copy' = copy /\ job' = job /\ phase' = phase /\ takenFor' = takenFor
  BY Zenon DEF WaitForCopyTrigger, Update, Finish
<1>2. CASE pvc' = pvc
  BY <1>1, <1>2, EndsFrame DEF Ends
<1>3. CASE current /\ pvc' = Wanted
  <2>1. local = pvc /\ cached = pvc
    BY <1>1, <1>3 DEF TriggerInv, CopyInv
  <2>2. /\ pvc'.status = "WaitingForTrigger"
        /\ pvc'.trigger = pvc.trigger /\ pvc'.latest = pvc.latest
    BY <1>1, <1>3, <2>1, WantedWaiting DEF ValuesOK
  <2>3. pvc.status # "InProgress"
    BY <1>1, <2>1 DEF TriggerInv, PvcInv
  <2>4. pvc.status \in Statuses
    BY DEF ValuesOK, Annotations
  <2>5. PvcInv'
    BY <1>1, <2>2 DEF PvcInv, TriggerServed
  <2>6. CopyInv'
    BY <1>1, <2>1, <2>2, <2>3, <2>4 DEF TriggerInv, PvcInv, CopyInv, Behind,
       Statuses
  <2>7. EndInv'
    BY <1>1 DEF TriggerInv, EndInv
  <2>8. QED
    BY <2>5, <2>6, <2>7 DEF TriggerInv
<1>4. QED
  BY <1>2, <1>3 DEF WaitForCopyTrigger, Update

LEMMA ReceivedStep ==
  ASSUME ValuesOK, TriggerInv, CopyTriggerReceived
  PROVE  TriggerInv'
<1>1. /\ pc = "ensure" /\ copy = "none" /\ ~MustWait(local)
      /\ pc' = "create" /\ local' = Wanted /\ cached' = cached
      /\ copy' = copy /\ job' = job /\ phase' = phase /\ takenFor' = takenFor
  BY DEF CopyTriggerReceived, Update, Continue, aux
<1>2. /\ Wanted.status = "InProgress" /\ Wanted.since = Unset
      /\ Wanted.trigger = local.trigger /\ Wanted.latest = local.latest
  BY <1>1, WantedInProgress DEF ValuesOK
<1>3. \/ Wanted = local /\ pvc' = pvc
      \/ current /\ pvc' = Wanted
  BY DEF CopyTriggerReceived, Update
<1>4. local = pvc /\ (pvc' = pvc \/ cached = pvc)
  <2>1. CASE Wanted = local /\ pvc' = pvc
    <3>1. local.status = "InProgress" /\ Behind(local)
      BY <1>1, <1>2, <2>1 DEF TriggerInv, CopyInv
    <3>2. QED
      BY <1>1, <2>1, <3>1 DEF Behind
  <2>2. CASE current
    BY <1>1, <2>2 DEF TriggerInv, CopyInv
  <2>3. QED
    BY <1>3, <2>1, <2>2
<1>5. pvc' = Wanted
  BY <1>3, <1>4
<1>6. PvcInv'
  BY <1>1, <1>2, <1>5 DEF PvcInv, TriggerServed, MustWait
<1>7. pvc.status \notin {"", "Completed"}
  BY <1>1, <1>4 DEF TriggerInv, PvcInv, MustWait
<1>8. Behind(cached)'
  <2>1. Behind(cached) /\ pvc.status \in Statuses
    BY DEF TriggerInv, CopyInv, ValuesOK, Annotations
  <2>2. CASE pvc' = pvc
    BY <1>1, <2>1, <2>2 DEF Behind
  <2>3. CASE cached = pvc
    <3>1. CASE pvc.status = "InProgress"
      <4>1. pvc.since = Unset
        BY <3>1 DEF TriggerInv, PvcInv
      <4>2. Wanted = pvc
        BY <1>1, <1>4, <3>1, <4>1, WantedInProgress DEF ValuesOK
      <4>3. QED
        BY <1>1, <1>5, <2>3, <4>2 DEF Behind
    <3>2. CASE pvc.status = "WaitingForTrigger"
      BY <1>1, <1>2, <1>5, <2>3, <3>2 DEF Behind
    <3>3. QED
      BY <1>7, <2>1, <3>1, <3>2 DEF Statuses
  <2>4. QED
    BY <1>4, <2>2, <2>3
<1>9. CopyInv'
  BY <1>1, <1>2, <1>5, <1>8 DEF CopyInv, Behind
<1>10. EndInv'
  BY <1>1, <1>7 DEF TriggerInv, EndInv
<1>11. QED
  BY <1>6, <1>9, <1>10 DEF TriggerInv

LEMMA CreateStep ==
  ASSUME ValuesOK, TriggerInv, CreateCopy
  PROVE  TriggerInv'
<1>1. /\ pc = "create" /\ copy = "none" /\ pvc.status = "InProgress"
      /\ copy' = "pending" /\ takenFor' = pvc.trigger
      /\ pvc' = pvc /\ cached' = cached /\ job' = job /\ phase' = phase
  BY DEF CreateCopy, TriggerInv, CopyInv, pvcVars
<1>2. \/ pc' = "idle" /\ ~current'
      \/ pc' = "job" /\ local' = local /\ current' = current
  BY Zenon DEF CreateCopy, ProceedUnready, Continue, Finish
<1>3. /\ pc' \in {"idle", "job"} /\ (pc' # "idle" => local' = local)
      /\ (current' => current /\ local' = local)
  BY <1>2
<1>4. PvcInv'
  BY <1>1 DEF TriggerInv, PvcInv, TriggerServed, MustWait
<1>5. CopyInv'
  BY <1>1, <1>3 DEF TriggerInv, CopyInv, Behind
<1>6. EndInv'
  BY <1>1 DEF TriggerInv, EndInv
<1>7. QED
  BY <1>4, <1>5, <1>6 DEF TriggerInv

LEMMA CompletedStep ==
  ASSUME ValuesOK, TriggerInv, UpdateCopyTrigger
  PROVE  TriggerInv'
<1>1. /\ pc = "ensure" /\ copy = "ready"
      /\ pc' = "job" /\ local' = Wanted /\ cached' = cached
      /\ copy' = copy /\ job' = job /\ phase' = phase /\ takenFor' = takenFor
  BY DEF UpdateCopyTrigger, Update, Continue, aux
<1>2. /\ Wanted.status = "Completed" /\ Wanted.since = Unset
      /\ Wanted.trigger = local.trigger /\ Wanted.latest = local.trigger
  BY <1>1, WantedCompleted DEF ValuesOK
<1>3. \/ Wanted = local /\ pvc' = pvc
      \/ current /\ pvc' = Wanted
  BY DEF UpdateCopyTrigger, Update
<1>4. local = pvc /\ (pvc' = pvc \/ cached = pvc)
  <2>1. CASE Wanted = local /\ pvc' = pvc
    <3>1. local.status = "Completed" /\ Behind(local)
      BY <1>1, <1>2, <2>1 DEF TriggerInv, CopyInv
    <3>2. pvc.status # "WaitingForTrigger"
      BY <1>1 DEF TriggerInv, PvcInv
    <3>3. QED
      BY <1>1, <2>1, <3>1, <3>2 DEF Behind
  <2>2. CASE current
    BY <1>1, <2>2 DEF TriggerInv, CopyInv
  <2>3. QED
    BY <1>3, <2>1, <2>2
<1>5. pvc' = Wanted
  BY <1>3, <1>4
<1>s. pvc.status = "Completed" => Wanted = pvc
  <2>1. SUFFICES ASSUME pvc.status = "Completed" PROVE Wanted = pvc
    OBVIOUS
  <2>2. pvc.trigger = pvc.latest /\ pvc.since = Unset
    BY <2>1 DEF TriggerInv, PvcInv
  <2>3. QED
    BY <1>1, <1>4, <2>1, <2>2, WantedCompleted DEF ValuesOK
<1>6. PvcInv'
  BY <1>1, <1>2, <1>4, <1>5 DEF TriggerInv, PvcInv, TriggerServed
<1>7. Behind(cached)'
  <2>1. Behind(cached) /\ pvc.status \in {"InProgress", "Completed"}
    BY <1>1 DEF TriggerInv, CopyInv, PvcInv
  <2>2. CASE pvc' = pvc
    BY <1>1, <2>1, <2>2 DEF Behind
  <2>3. CASE cached = pvc /\ pvc.status = "InProgress"
    BY <1>1, <1>2, <1>5, <2>3 DEF Behind
  <2>4. CASE cached = pvc /\ pvc.status = "Completed"
    BY <1>1, <1>5, <1>s, <2>4 DEF Behind
  <2>5. QED
    BY <1>4, <2>1, <2>2, <2>3, <2>4
<1>8. CopyInv'
  BY <1>1, <1>5, <1>7 DEF CopyInv, Behind
<1>9. EndInv'
  <2>1. phase = "synchronizing"
    BY <1>1 DEF TriggerInv, EndInv, ValuesOK
  <2>2. job = "done" => pvc' = pvc
    BY <1>5, <1>s DEF TriggerInv, EndInv
  <2>3. QED
    BY <1>1, <2>1, <2>2 DEF TriggerInv, EndInv
<1>10. QED
  BY <1>6, <1>8, <1>9 DEF TriggerInv

(* The user answers only while VolSync waits, so that no copy exists yet.  *)
LEMMA AnswerStep ==
  ASSUME UserSetsAt \subseteq {"WaitingForTrigger"},
         ValuesOK, TriggerInv, NEW t \in Tags, SetCopyTrigger(t)
  PROVE  TriggerInv'
<1>1. /\ pvc.status = "WaitingForTrigger"
      /\ pvc' = [pvc EXCEPT !.trigger = t] /\ pvc' \in Annotations
      /\ cached' = cached /\ pc' = pc /\ local' = local
      /\ copy' = copy /\ job' = job /\ phase' = phase /\ takenFor' = takenFor
  BY DEF SetCopyTrigger, aux, ValuesOK, Annotations
<1>2. ~current'
  BY Zenon DEF SetCopyTrigger
<1>3. pvc'.status = "WaitingForTrigger"
  BY <1>1 DEF ValuesOK, Annotations
<1>4. PvcInv'
  BY <1>1, <1>3 DEF TriggerInv, PvcInv, TriggerServed
<1>5. ASSUME NEW x, Behind(x)
      PROVE  \/ x.status = "WaitingForTrigger"
             \/ x.status \in {"", "Completed"} /\ x.trigger = x.latest
  BY <1>1, <1>5 DEF Behind
<1>6. CopyInv'
  BY <1>1, <1>2, <1>3, <1>5 DEF TriggerInv, CopyInv, Behind
<1>7. EndInv'
  BY <1>1 DEF TriggerInv, EndInv
<1>8. QED
  BY <1>4, <1>6, <1>7 DEF TriggerInv

LEMMA TriggerStep ==
  ASSUME UserSetsAt \subseteq {"WaitingForTrigger"}
  PROVE  ValuesOK /\ TriggerInv /\ [Next]_vars => TriggerInv'
<1> SUFFICES ASSUME ValuesOK, TriggerInv, [Next]_vars PROVE TriggerInv'
  OBVIOUS
<1> USE DEF pvcVars, recVars, aux
<1>1. CASE Get
  <2>1. current' => cached = pvc
    BY <1>1, Zenon DEF Get
  <2>2. /\ local' = cached /\ pc' = "ensure" /\ phase = "synchronizing"
        /\ pvc' = pvc /\ cached' = cached /\ copy' = copy /\ job' = job
        /\ phase' = phase /\ takenFor' = takenFor
    BY <1>1 DEF Get
  <2>3. PvcInv'
    BY <2>2 DEF TriggerInv, PvcInv, TriggerServed, MustWait
  <2>4. CopyInv'
    BY <2>1, <2>2 DEF TriggerInv, CopyInv, Behind
  <2>5. EndInv'
    BY <2>2 DEF TriggerInv, EndInv
  <2>6. QED
    BY <2>3, <2>4, <2>5 DEF TriggerInv
<1>2. CASE CopyNotReady
  <2>1. Ends \/ GoesOn
    BY <1>2, Zenon DEF CopyNotReady, ProceedUnready, Continue, Finish, Ends,
       GoesOn
  <2>2. QED
    BY <2>1, EndsFrame, GoesOnFrame
<1>3. CASE EnsureJob
  <2>1. /\ pc = "job" /\ pc' = "idle" /\ pvc' = pvc /\ cached' = cached
        /\ copy' = copy /\ takenFor' = takenFor
        /\ \/ job = "done" /\ job' = job /\ phase' = "cleaningup"
           \/ job' = "running" /\ phase' = phase
    BY <1>3 DEF EnsureJob, Finish
  <2>2. ~current'
    BY <1>3, Zenon DEF EnsureJob, Finish
  <2>3. PvcInv'
    BY <2>1 DEF TriggerInv, PvcInv, TriggerServed, MustWait
  <2>4. CopyInv'
    BY <2>1, <2>2 DEF TriggerInv, CopyInv, Behind
  <2>5. EndInv'
    BY <2>1 DEF TriggerInv, EndInv
  <2>6. QED
    BY <2>3, <2>4, <2>5 DEF TriggerInv
<1>4. CASE Cleanup
  <2>1. /\ pc = "idle" /\ pc' = "idle" /\ phase = "cleaningup"
        /\ pvc' = pvc /\ cached' = cached /\ local' = local
        /\ takenFor' = takenFor /\ copy' = "none" /\ job' = "none"
    BY <1>4 DEF Cleanup
  <2>2. current' => current
    BY <1>4, Zenon DEF Cleanup
  <2>3. pvc.status = "Completed" /\ cached = pvc
    BY <2>1 DEF TriggerInv, EndInv
  <2>4. PvcInv'
    BY <2>1 DEF TriggerInv, PvcInv, TriggerServed, MustWait
  <2>5. CopyInv'
    BY <2>1, <2>2, <2>3 DEF TriggerInv, CopyInv, Behind
  <2>6. EndInv'
    BY <2>1, <2>3 DEF EndInv
  <2>7. QED
    BY <2>4, <2>5, <2>6 DEF TriggerInv
<1>5. CASE UpdateConflicts
  <2>1. Ends
    BY <1>5, Zenon DEF UpdateConflicts, Finish, Ends
  <2>2. QED
    BY <2>1, EndsFrame
<1>6. CASE ReconcileFails
  <2>1. Ends
    BY <1>6, Zenon DEF ReconcileFails, Finish, Ends
  <2>2. QED
    BY <2>1, EndsFrame
<1>7. CASE CacheSync \/ Crash
  <2>1. /\ pvc' = pvc /\ cached' = pvc /\ copy' = copy /\ job' = job
        /\ phase' = phase /\ takenFor' = takenFor
    BY <1>7 DEF CacheSync, Crash
  <2>2. \/ pc' = "idle" /\ ~current'
        \/ pc' = pc /\ local' = local /\ current' = current
    BY <1>7, Zenon DEF CacheSync, Crash, Finish
  <2>3. /\ pc' \in {"idle", pc} /\ (pc' # "idle" => local' = local)
        /\ (current' => current /\ local' = local)
    BY <2>2
  <2>4. PvcInv'
    BY <2>1 DEF TriggerInv, PvcInv, TriggerServed, MustWait
  <2>5. CopyInv'
    BY <2>1, <2>3 DEF TriggerInv, CopyInv, Behind
  <2>6. EndInv'
    BY <2>1, <2>3 DEF TriggerInv, EndInv
  <2>7. QED
    BY <2>4, <2>5, <2>6 DEF TriggerInv
<1>8. CASE CopyReady
  <2>1. /\ pvc' = pvc /\ cached' = cached /\ local' = local /\ pc' = pc
        /\ copy = "pending" /\ copy' = "ready" /\ job' = job
        /\ phase' = phase /\ takenFor' = takenFor
    BY <1>8 DEF CopyReady
  <2>2. current' => current
    BY <1>8, Zenon DEF CopyReady
  <2>3. PvcInv'
    BY <2>1 DEF TriggerInv, PvcInv, TriggerServed, MustWait
  <2>4. CopyInv'
    BY <2>1, <2>2 DEF TriggerInv, CopyInv, Behind
  <2>5. EndInv'
    BY <2>1 DEF TriggerInv, EndInv
  <2>6. QED
    BY <2>3, <2>4, <2>5 DEF TriggerInv
<1>9. CASE JobDone
  <2>1. /\ pvc' = pvc /\ cached' = cached /\ local' = local /\ pc' = pc
        /\ copy = "ready" /\ copy' = copy /\ phase' = phase
        /\ takenFor' = takenFor /\ cached.status = "Completed"
    BY <1>9 DEF JobDone
  <2>2. current' => current
    BY <1>9, Zenon DEF JobDone
  <2>3. cached = pvc
    BY <2>1 DEF TriggerInv, CopyInv, PvcInv, Behind
  <2>4. PvcInv'
    BY <2>1 DEF TriggerInv, PvcInv, TriggerServed, MustWait
  <2>5. CopyInv'
    BY <2>1, <2>2 DEF TriggerInv, CopyInv, Behind
  <2>6. EndInv'
    BY <2>1, <2>3 DEF TriggerInv, EndInv
  <2>7. QED
    BY <2>4, <2>5, <2>6 DEF TriggerInv
<1>10. CASE Tick \/ UNCHANGED vars
  <2>1. /\ pc' = pc /\ current' = current /\ pvc' = pvc /\ cached' = cached
        /\ local' = local /\ copy' = copy /\ job' = job /\ phase' = phase
        /\ takenFor' = takenFor
    BY <1>10, Zenon DEF Tick, vars
  <2>2. pc' = "job" => pc # "idle"
    BY <2>1
  <2>3. GoesOn
    BY <2>1, <2>2, Zenon DEF GoesOn
  <2>4. QED
    BY <2>3, GoesOnFrame
<1>11. QED
  BY <1>1, <1>2, <1>3, <1>4, <1>5, <1>6, <1>7, <1>8, <1>9, <1>10, WaitStep,
     ReceivedStep, CreateStep, CompletedStep, AnswerStep DEF Next, Reconcile

(* If the user sets copy-trigger only when asked, the invariant holds.     *)
LEMMA TriggerInvariant ==
  ASSUME UserSetsAt \subseteq {"WaitingForTrigger"}
  PROVE  Spec => []TriggerInv
<1>1. Spec => []ValuesOK
  BY TypeCorrect, PTL DEF TypeOK
<1>2. QED
  BY <1>1, TriggerInit, TriggerStep, PTL DEF Spec

(* VolSync says Completed only of a copy taken while copy-trigger had the  *)
(* value it now reports as latest-copy-trigger, for a user who answers     *)
(* when asked (volumehandler.go:593-594).                                  *)
THEOREM CompletedMeansServed ==
  ASSUME UserSetsAt \subseteq {"WaitingForTrigger"}
  PROVE  Spec => []TriggerServed
<1>1. TriggerInv => TriggerServed
  BY DEF TriggerInv, PvcInv
<1>2. QED
  BY <1>1, TriggerInvariant, PTL

(* No copy is taken on a trigger that an earlier copy has used up, though  *)
(* the decision rests on a cached PVC (volumehandler.go:525-527, 569-571). *)
THEOREM CopiesNeedTriggers ==
  ASSUME UserSetsAt \subseteq {"WaitingForTrigger"}
  PROVE  Spec => CopyNeedsNewTrigger
<1> DEFINE Needs == copy = "none" /\ copy' = "pending"
                      => pvc.trigger \notin {NoTag, pvc.latest}
<1>1. TriggerInv /\ [Next]_vars => [Needs]_vars
  <2> SUFFICES ASSUME TriggerInv, Next, copy = "none", copy' = "pending"
               PROVE  pvc.trigger \notin {NoTag, pvc.latest}
    OBVIOUS
  <2>1. CreateCopy
    BY DEF Next, Reconcile, Get, WaitForCopyTrigger, CopyTriggerReceived,
       CopyNotReady, UpdateCopyTrigger, EnsureJob, Cleanup, UpdateConflicts,
       ReconcileFails, CacheSync, CopyReady, JobDone, Tick, Crash,
       SetCopyTrigger
  <2>2. pvc.status = "InProgress"
    BY <2>1 DEF CreateCopy, TriggerInv, CopyInv
  <2>3. QED
    BY <2>2 DEF TriggerInv, PvcInv, MustWait
<1>2. Spec => [][Needs]_vars
  BY <1>1, TriggerInvariant, PTL DEF Spec
<1>3. QED
  BY <1>2 DEF CopyNeedsNewTrigger

-----------------------------------------------------------------------------
(* The timeout. *)

TimeoutInv == WaitInv /\ TimeoutIsDue

LEMMA TimeoutInit == Init => TimeoutInv
<1> SUFFICES ASSUME Init PROVE TimeoutInv
  OBVIOUS
<1>1. ~timedOut
  BY Zenon DEF Init
<1>2. /\ pvc = Bare /\ cached = Bare /\ pc = "idle" /\ now = 1
      /\ phase = "synchronizing" /\ waitSince = Unset
  BY Zenon DEF Init
<1>3. Bare.status # "WaitingForTrigger"
  BY DEF Bare
<1>4. waitSince <= now
  BY <1>2 DEF Unset
<1>5. WaitInv
  BY <1>1, <1>2, <1>3, <1>4, Zenon DEF WaitInv, Waited
<1>6. TimeoutIsDue
  BY <1>1, Zenon DEF TimeoutIsDue
<1>7. QED
  BY <1>5, <1>6 DEF TimeoutInv

(* The wait of this sync goes on, and the versions that can be seen after  *)
(* the step are as young as it.                                            *)
WaitGoesOn ==
  /\ waitSince' = waitSince /\ now' >= now
  /\ Waited(pvc') /\ Waited(cached') /\ (pc' # "idle" => Waited(local'))

\* The timeout stays as it is reported, or is cleared.
ReportGoesOn ==
  /\ timedOut' => timedOut
  /\ pc' # "idle" \/ phase' = "cleaningup" => ~timedOut'

LEMMA WaitFrame ==
  ASSUME ValuesOK, ValuesOK', TimeoutInv, WaitGoesOn, ReportGoesOn
  PROVE  TimeoutInv'
<1>1. WaitInv'
  BY DEF TimeoutInv, WaitInv, Waited, WaitGoesOn, ReportGoesOn, ValuesOK
<1>2. TimeoutIsDue'
  BY BoundAssumption DEF TimeoutInv, TimeoutIsDue, WaitGoesOn, ReportGoesOn,
     ValuesOK
<1>3. QED
  BY <1>1, <1>2 DEF TimeoutInv

LEMMA TimeoutStep ==
  ASSUME ValuesOK, ValuesOK', TriggerInv, TimeoutInv, [Next]_vars
  PROVE  TimeoutInv'
<1> USE DEF pvcVars, recVars, bounds, aux
<1>w. /\ Waited(pvc) /\ Waited(cached) /\ (pc # "idle" => Waited(local))
      /\ (pc # "idle" \/ phase = "cleaningup" => ~timedOut)
      /\ now \in Nat /\ now >= now
  BY DEF TimeoutInv, WaitInv, ValuesOK
<1>1. CASE Get
  <2>1. WaitGoesOn
    BY <1>1, <1>w DEF Get, WaitGoesOn
  <2>2. ReportGoesOn
    BY <1>1, Zenon DEF Get, ReportGoesOn
  <2>3. QED
    BY <2>1, <2>2, WaitFrame
<1>2. CASE WaitForCopyTrigger
  <2>1. /\ pc = "ensure" /\ copy = "none" /\ MustWait(local)
        /\ pvc' = pvc \/ pvc' = Wanted
        /\ cached' = cached /\ pc' = "idle" /\ phase' = phase /\ now' = now
        /\ waitSince' = IF waitSince = Unset THEN now ELSE waitSince
    BY <1>2 DEF WaitForCopyTrigger, Update, Finish
  <2>2. phase = "synchronizing"
    BY <2>1 DEF TriggerInv, EndInv, ValuesOK
  <2>3. /\ Wanted \in Annotations
        /\ \/ Wanted.since = now
           \/ /\ local.status = "WaitingForTrigger"
              /\ Wanted.since = local.since
    BY <2>1, WantedWaiting DEF ValuesOK
  <2>4. waitSince' # Unset /\ waitSince' <= now /\ waitSince' <= Wanted.since
    BY <2>1, <2>3, <1>w DEF TimeoutInv, WaitInv, Waited, ValuesOK
  <2>5. timedOut' => Wanted.since + Timeout < now
    BY <1>2, Zenon DEF WaitForCopyTrigger, TimedOut
  <2>6. TimeoutIsDue'
    <3>1. Wanted.since \in Nat
      BY <2>3 DEF Annotations
    <3>2. QED
      BY <2>1, <2>4, <2>5, <3>1, BoundAssumption DEF TimeoutIsDue, ValuesOK
  <2>7. Waited(pvc)' /\ Waited(cached)'
    BY <1>w, <2>1, <2>4 DEF Waited
  <2>8. WaitInv'
    BY <2>1, <2>2, <2>4, <2>7 DEF WaitInv
  <2>9. QED
    BY <2>6, <2>8 DEF TimeoutInv
<1>3. CASE CopyTriggerReceived \/ UpdateCopyTrigger
  <2>1. Wanted.status # "WaitingForTrigger"
    BY <1>3, WantedInProgress, WantedCompleted
       DEF CopyTriggerReceived, UpdateCopyTrigger, ValuesOK
  <2>2. WaitGoesOn
    BY <1>3, <1>w, <2>1 DEF CopyTriggerReceived, UpdateCopyTrigger, Update,
       Continue, WaitGoesOn, Waited
  <2>3. pc # "idle" /\ timedOut' = timedOut
    BY <1>3, Zenon DEF CopyTriggerReceived, UpdateCopyTrigger
  <2>4. ReportGoesOn
    BY <1>w, <2>3, Zenon DEF ReportGoesOn
  <2>5. QED
    BY <2>2, <2>4, WaitFrame
<1>4. CASE CreateCopy \/ CopyNotReady
  <2>1. WaitGoesOn
    BY <1>4, <1>w DEF CreateCopy, CopyNotReady, ProceedUnready, Continue,
       Finish, WaitGoesOn
  <2>2. pc # "idle" /\ timedOut' = timedOut
    BY <1>4, Zenon DEF CreateCopy, CopyNotReady
  <2>3. ReportGoesOn
    BY <1>w, <2>2, Zenon DEF ReportGoesOn
  <2>4. QED
    BY <2>1, <2>3, WaitFrame
<1>5. CASE EnsureJob \/ UpdateConflicts \/ ReconcileFails
  <2>1. WaitGoesOn
    BY <1>5, <1>w DEF EnsureJob, UpdateConflicts, ReconcileFails, Finish,
       WaitGoesOn
  <2>2. pc # "idle" /\ timedOut' = timedOut
    BY <1>5, Zenon DEF EnsureJob, UpdateConflicts, ReconcileFails
  <2>3. ReportGoesOn
    BY <1>w, <2>2, Zenon DEF ReportGoesOn
  <2>4. QED
    BY <2>1, <2>3, WaitFrame
<1>6. CASE Cleanup
  <2>1. /\ pc = "idle" /\ phase = "cleaningup" /\ pvc' = pvc
        /\ cached' = cached /\ pc' = pc /\ waitSince' = Unset /\ now' = now
    BY <1>6 DEF Cleanup
  <2>2. timedOut' = timedOut
    BY <1>6, Zenon DEF Cleanup
  <2>3. ~timedOut'
    BY <1>w, <2>1, <2>2, Zenon
  <2>4. pvc.status = "Completed" /\ cached = pvc
    BY <2>1 DEF TriggerInv, EndInv
  <2>5. QED
    BY <1>w, <2>1, <2>3, <2>4 DEF TimeoutInv, WaitInv, Waited, TimeoutIsDue,
       Unset
<1>7. CASE CacheSync \/ CopyReady \/ JobDone \/ Tick
  <2>1. WaitGoesOn
    BY <1>7, <1>w DEF CacheSync, CopyReady, JobDone, Tick, WaitGoesOn
  <2>2. pc' = pc /\ phase' = phase /\ timedOut' = timedOut
    BY <1>7, Zenon DEF CacheSync, CopyReady, JobDone, Tick
  <2>3. ReportGoesOn
    BY <1>w, <2>2, Zenon DEF ReportGoesOn
  <2>4. QED
    BY <2>1, <2>3, WaitFrame
<1>8. CASE Crash
  <2>1. WaitGoesOn
    BY <1>8, <1>w DEF Crash, Finish, WaitGoesOn
  <2>2. pc' = "idle" /\ phase' = phase /\ timedOut' = timedOut
    BY <1>8, Zenon DEF Crash, Finish
  <2>3. ReportGoesOn
    BY <1>w, <2>2, Zenon DEF ReportGoesOn
  <2>4. QED
    BY <2>1, <2>3, WaitFrame
<1>9. CASE \E t \in Tags : SetCopyTrigger(t)
  <2>1. pvc'.status = pvc.status /\ pvc'.since = pvc.since
    BY <1>9 DEF SetCopyTrigger, ValuesOK, Annotations
  <2>2. WaitGoesOn
    BY <1>9, <1>w, <2>1 DEF SetCopyTrigger, WaitGoesOn, Waited
  <2>3. pc' = pc /\ phase' = phase /\ timedOut' = timedOut
    BY <1>9, Zenon DEF SetCopyTrigger
  <2>4. ReportGoesOn
    BY <1>w, <2>3, Zenon DEF ReportGoesOn
  <2>5. QED
    BY <2>2, <2>4, WaitFrame
<1>10. CASE UNCHANGED vars
  <2>1. WaitGoesOn
    BY <1>10, <1>w DEF vars, WaitGoesOn
  <2>2. pc' = pc /\ phase' = phase /\ timedOut' = timedOut
    BY <1>10, Zenon DEF vars
  <2>3. ReportGoesOn
    BY <1>w, <2>2, Zenon DEF ReportGoesOn
  <2>4. QED
    BY <2>1, <2>3, WaitFrame
<1>11. QED
  BY <1>1, <1>2, <1>3, <1>4, <1>5, <1>6, <1>7, <1>8, <1>9, <1>10
     DEF Next, Reconcile

(* CopyTriggerTimeoutError is never reported before this sync has waited   *)
(* for longer than CopyTriggerWaitTimeout, however old the copy of the PVC *)
(* whose waiting-since is compared (volumehandler.go:553).                 *)
THEOREM TimeoutsAreDue ==
  ASSUME UserSetsAt \subseteq {"WaitingForTrigger"}
  PROVE  Spec => []TimeoutIsDue
<1>1. Spec => []ValuesOK
  BY TypeCorrect, PTL DEF TypeOK
<1>2. Spec => []TimeoutInv
  BY <1>1, TriggerInvariant, TimeoutInit, TimeoutStep, PTL DEF Spec
<1>3. TimeoutInv => TimeoutIsDue
  BY DEF TimeoutInv
<1>4. QED
  BY <1>2, <1>3, PTL
=============================================================================
