----------------------- MODULE KopiaMaintenanceProofs -----------------------
(***************************************************************************)
(* Proofs about KopiaMaintenance, for every set of tags, every limit on    *)
(* failures and every bound.                                               *)
(***************************************************************************)
EXTENDS KopiaMaintenance, TLAPS

-----------------------------------------------------------------------------
(* What the operators return. *)

LEMMA NewResourceType == NewResource \in Resources /\ NewResource.manual = NoTag
BY ShapeAssumption DEF NewResource, Resources

(* A patch of the status leaves the spec alone.                            *)
LEMMA PatchedType ==
  ASSUME km \in Resources, NEW want \in Resources
  PROVE  Patched(want) \in Resources /\ Patched(want).manual = km.manual
BY DEF Patched, Resources, StatusFields

(* The counter a patch carries is a number, whatever the history shows.    *)
LEMMA CountType ==
  ASSUME history \in [failed : Nat, success : {"never", "old", "recent"}],
         NEW n \in Nat
  PROVE  countFailures(n) \in Nat
BY DEF countFailures

(* The ways a reconcile changes its copy before it patches.                *)
LEMMA WantType ==
  ASSUME NEW r \in Resources, NEW n \in Nat, NEW t \in Tags \cup {NoTag}
  PROVE  /\ [r EXCEPT !.last = t] \in Resources
         /\ [r EXCEPT !.failures = n] \in Resources
         /\ [r EXCEPT !.last = t, !.failures = n] \in Resources
         /\ [r EXCEPT !.manual = t] \in Resources
         /\ [r EXCEPT !.failures = n].manual = r.manual
         /\ [r EXCEPT !.manual = t].manual = t
BY DEF Resources

LEMMA EditType ==
  ASSUME NEW r \in Resources, NEW s \in Shapes
  PROVE  /\ [r EXCEPT !.enabled = ~r.enabled] \in Resources
         /\ [r EXCEPT !.enabled = ~r.enabled].manual = r.manual
         /\ [r EXCEPT !.suspend = ~r.suspend] \in Resources
         /\ [r EXCEPT !.suspend = ~r.suspend].manual = r.manual
         /\ [r EXCEPT !.valid = ~r.valid] \in Resources
         /\ [r EXCEPT !.valid = ~r.valid].manual = r.manual
         /\ [r EXCEPT !.shape = s] \in Resources
         /\ [r EXCEPT !.shape = s].manual = r.manual
         /\ [r EXCEPT !.reset = TRUE] \in Resources
         /\ [r EXCEPT !.reset = TRUE].manual = r.manual
         /\ [r EXCEPT !.deleting = TRUE] \in Resources
         /\ [r EXCEPT !.deleting = TRUE].manual = r.manual
         /\ [r EXCEPT !.reset = FALSE] \in Resources
         /\ [r EXCEPT !.reset = FALSE].manual = r.manual
         /\ [r EXCEPT !.finalizer = TRUE] \in Resources
         /\ [r EXCEPT !.finalizer = TRUE].manual = r.manual
BY DEF Resources

\* The resource becomes r, without a change of the trigger.
Edited(r) ==
  /\ r.manual = km.manual
  /\ km' = r /\ Event
  /\ UNCHANGED <<exists, cached, recVars, wakeVars, jobs, cron, history, used,
                 views, overlooked>>

LEMMA EditResourceEffect ==
  ASSUME km \in Resources, EditResource
  PROVE  \E r \in Resources : Edited(r)
<1> DEFINE E(r) ==
      (\E field : Edit(field, r)) /\ used' = used
<1>1. ASSUME NEW r \in Resources, r.manual = km.manual, E(r)
      PROVE  \E q \in Resources : Edited(q)
  BY <1>1, Zenon DEF Edit, Edited
<1>2. \/ E([km EXCEPT !.enabled = ~km.enabled])
      \/ E([km EXCEPT !.suspend = ~km.suspend])
      \/ E([km EXCEPT !.valid = ~km.valid])
      \/ \E s \in Shapes : E([km EXCEPT !.shape = s])
      \/ E([km EXCEPT !.reset = TRUE])
      \/ E([km EXCEPT !.deleting = TRUE])
  BY Zenon DEF EditResource
<1> HIDE DEF E
<1>3. CASE E([km EXCEPT !.enabled = ~km.enabled])
  BY <1>1, <1>3, EditType, ShapeAssumption, Zenon
<1>4. CASE E([km EXCEPT !.suspend = ~km.suspend])
  BY <1>1, <1>4, EditType, ShapeAssumption, Zenon
<1>5. CASE E([km EXCEPT !.valid = ~km.valid])
  BY <1>1, <1>5, EditType, ShapeAssumption, Zenon
<1>6. CASE \E s \in Shapes : E([km EXCEPT !.shape = s])
  BY <1>1, <1>6, EditType, Zenon
<1>7. CASE E([km EXCEPT !.reset = TRUE])
  BY <1>1, <1>7, EditType, ShapeAssumption, Zenon
<1>8. CASE E([km EXCEPT !.deleting = TRUE])
  BY <1>1, <1>8, EditType, ShapeAssumption, Zenon
<1>9. QED
  BY <1>2, <1>3, <1>4, <1>5, <1>6, <1>7, <1>8, Zenon

(* The end of a reconcile that patches the status.                         *)
LEMMA ReturnStatusType ==
  ASSUME ValuesOK, NEW want \in Resources, NEW how, NEW otherwise,
         ReturnStatus(want, how, otherwise)
  PROVE  /\ km' \in Resources /\ km'.manual = km.manual
         /\ local' \in Resources /\ local'.manual = NoTag
         /\ pc' = "idle" /\ events' \in Nat
<1>1. km' \in Resources /\ km'.manual = km.manual
  BY PatchedType DEF ReturnStatus, ValuesOK
<1>2. local' = NewResource /\ pc' = "idle"
  BY DEF ReturnStatus, Return
<1>3. events' \in Nat
  BY DEF ReturnStatus, Event, ValuesOK
<1>4. QED
  BY <1>1, <1>2, <1>3, NewResourceType

-----------------------------------------------------------------------------
(* Type correctness. *)

LEMMA TypeInit == Init => TypeOK
<1>1. Init => ValuesOK
  BY NewResourceType DEF Init, ValuesOK, NoHistory
<1>2. Init => FlagsOK
  BY Zenon DEF Init, FlagsOK
<1>3. QED
  BY <1>1, <1>2 DEF TypeOK

(* A step leaves well-formed values behind.                                *)
LEMMA ValuesStep == ValuesOK /\ [Next]_vars => ValuesOK'
<1> SUFFICES ASSUME ValuesOK, [Next]_vars PROVE ValuesOK'
  OBVIOUS
<1> USE BoundAssumption
<1>c. /\ local.manual \in Tags \cup {NoTag} /\ local.failures \in Nat
      /\ local.failures + 1 \in Nat
  BY DEF ValuesOK, Resources
<1>1. CASE Get
  BY <1>1 DEF Get, ValuesOK, recVars, wakeVars, views
<1>2. CASE ResetFailures
  <2>1. km' = [km EXCEPT !.reset = FALSE] /\ local' = km'
    BY <1>2 DEF ResetFailures
  <2>2. [km EXCEPT !.reset = FALSE] \in Resources
    BY EditType, ShapeAssumption DEF ValuesOK
  <2>3. QED
    BY <1>2, <2>1, <2>2 DEF ResetFailures, ValuesOK, recVars, wakeVars,
       views
<1>3. CASE ValidationFails
  BY <1>3, ReturnStatusType DEF ValidationFails, ValuesOK, recVars,
     wakeVars, views
<1>4. CASE HandleDeletion
  BY <1>4 DEF HandleDeletion, cleanupCronJob, NoHistory, ValuesOK, recVars,
     wakeVars, views
<1>5. CASE RemoveFinalizer
  BY <1>5, NewResourceType DEF RemoveFinalizer, Return, ValuesOK, recVars,
     wakeVars, views
<1>6. CASE AddFinalizer
  <2>1. km' = [km EXCEPT !.finalizer = TRUE] /\ pc' = "idle"
        /\ local' = NewResource
    BY <1>6 DEF AddFinalizer, Return
  <2>2. [km EXCEPT !.finalizer = TRUE] \in Resources
    BY EditType, ShapeAssumption DEF ValuesOK
  <2>3. QED
    BY <1>6, <2>1, <2>2, NewResourceType DEF AddFinalizer, ValuesOK, recVars,
       wakeVars, views
<1>7. CASE UpdateConflicts
  BY <1>7, NewResourceType DEF UpdateConflicts, Return, ValuesOK, recVars,
     wakeVars, views
<1>8. CASE CallFails
  BY <1>8, NewResourceType DEF CallFails, Return, Event, ValuesOK, recVars,
     wakeVars, views
<1>9. CASE Disabled
  BY <1>9, ReturnStatusType DEF Disabled, cleanupCronJob, NoHistory,
     ValuesOK, recVars, wakeVars, views
<1>10. CASE CleanupForManual
  <2>1. /\ \E kept \in SUBSET Old : cleanupOldManualJobs(kept)
        /\ overlooked' \in SUBSET (Tags \cup {NoTag})
        /\ events' \in Nat
        /\ cron' \in {cron, NoCronJob} /\ history' \in {history, NoHistory}
    BY <1>10 DEF CleanupForManual, cleanupCronJob, Event, Hidden, Old,
       ValuesOK
  <2>2. jobs' \in [Tags -> {"none", "running", "failing", "done"}]
    BY <2>1 DEF cleanupOldManualJobs, ValuesOK
  <2>3. QED
    BY <1>10, <2>1, <2>2 DEF CleanupForManual, NoHistory, ValuesOK, wakeVars,
       views
<1>11. CASE AlreadyProcessed
  BY <1>11, NewResourceType DEF AlreadyProcessed, Return, ValuesOK, recVars,
     wakeVars, views
<1>12. CASE Blocked
  BY <1>12, ReturnStatusType, <1>c, WantType DEF Blocked, ValuesOK, recVars,
     wakeVars, views
<1>13. CASE ensureMaintenanceJob
  BY <1>13, NewResourceType, ZenonT(60) DEF ensureMaintenanceJob, Return, ValuesOK,
     recVars, wakeVars, views
<1>14. CASE ensureMaintenanceJobFails
  BY <1>14, NewResourceType, PatchedType DEF ensureMaintenanceJobFails,
     Return, Event, ValuesOK, recVars, wakeVars, views
<1>15. CASE JobStillRunning
  BY <1>15, NewResourceType DEF JobStillRunning, Return, ValuesOK, recVars,
     wakeVars, views
<1>16. CASE JobSucceeded
  BY <1>16, ReturnStatusType, <1>c, WantType DEF JobSucceeded, ValuesOK,
     recVars, wakeVars, views
<1>17. CASE JobFailed
  <2> DEFINE want == [local EXCEPT !.failures = local.failures + 1]
  <2>1. want \in Resources
    BY <1>c, WantType DEF ValuesOK
  <2>2. Patched(want) \in Resources
    BY <2>1, PatchedType DEF ValuesOK
  <2>3. /\ km' = Patched(want) \/ km' = km
        /\ local' = [km' EXCEPT !.manual = local.manual] \/ local' = want
    BY <1>17 DEF JobFailed
  <2> HIDE DEF want
  <2>4. km' \in Resources
    BY <2>2, <2>3 DEF ValuesOK
  <2>5. local' \in Resources
    BY <1>c, <2>1, <2>3, <2>4, WantType
  <2>6. QED
    BY <1>17, <2>4, <2>5 DEF JobFailed, Event, ValuesOK, recVars, wakeVars,
       views
<1>18. CASE DeleteFailedJob
  <2> DEFINE want == [local EXCEPT !.last = local.manual]
  <2>1. want \in Resources
    BY <1>c, WantType DEF ValuesOK
  <2>2. CASE ReturnStatus(want, "error", "error")
    BY <1>18, <2>1, <2>2, ReturnStatusType DEF DeleteFailedJob, ValuesOK,
       recVars, wakeVars, views
  <2>3. CASE Event /\ km' = Patched(want) /\ Return("error") /\ jobs' = jobs
    <3>1. Patched(want) \in Resources
      BY <2>1, PatchedType DEF ValuesOK
    <3> HIDE DEF want
    <3>2. QED
      BY <1>18, <2>3, <3>1, NewResourceType DEF DeleteFailedJob, Return,
         Event, ValuesOK, recVars, wakeVars, views
  <2>4. QED
    BY <1>18, <2>2, <2>3 DEF DeleteFailedJob
<1>19. CASE CleanupForSchedule
  <2>1. /\ \E kept \in SUBSET Old : cleanupOldManualJobs(kept)
        /\ overlooked' \in SUBSET (Tags \cup {NoTag})
        /\ events' \in Nat
    BY <1>19 DEF CleanupForSchedule, Event, Hidden, Old, ValuesOK
  <2>2. jobs' \in [Tags -> {"none", "running", "failing", "done"}]
    BY <2>1 DEF cleanupOldManualJobs, ValuesOK
  <2>3. QED
    BY <1>19, <2>1, <2>2 DEF CleanupForSchedule, ValuesOK, wakeVars, views
<1>20. CASE ensureCronJob
  <2>1. WantedCronJob \in [suspend : BOOLEAN, shape : Shapes]
    BY DEF WantedCronJob, suspended, Resources, ValuesOK
  <2>2. QED
    BY <1>20, <2>1 DEF ensureCronJob, ValuesOK, recVars, wakeVars, views
<1>21. CASE ensureCronJobFails
  BY <1>21, NewResourceType, PatchedType DEF ensureCronJobFails, Return,
     Event, ValuesOK, recVars, wakeVars, views
<1>22. CASE ScheduleStatus
  BY <1>22, ReturnStatusType, WantType, CountType, <1>c DEF ScheduleStatus,
     ValuesOK, recVars, wakeVars, views
<1>23. CASE CacheSync
  BY <1>23 DEF CacheSync, ValuesOK, recVars, wakeVars, views
<1>24. CASE TimerFires
  BY <1>24 DEF TimerFires, ValuesOK, recVars, wakeVars, views
<1>25. CASE Resync
  BY <1>25 DEF Resync, ValuesOK, recVars, wakeVars, views
<1>26. CASE DayPasses
  BY <1>26 DEF DayPasses, ValuesOK, recVars, wakeVars, views
<1>27. CASE GarbageCollect
  BY <1>27 DEF GarbageCollect, cleanupCronJob, NoHistory, ValuesOK, recVars,
     wakeVars, views
<1>28. CASE Crash
  BY <1>28, NewResourceType DEF Crash, Event, ValuesOK, recVars, wakeVars,
     views
<1>29. CASE \E t \in Tags : JobExpires(t)
  BY <1>29 DEF JobExpires, ValuesOK, recVars, wakeVars, views
<1>30. CASE \E t \in Tags, o \in {"done", "failing"} : JobMoves(t, o)
  BY <1>30 DEF JobMoves, ValuesOK, recVars, wakeVars, views
<1>31. CASE \E o \in {"done", "failing"} : CronJobRuns(o)
  BY <1>31 DEF CronJobRuns, Event, ValuesOK, recVars, wakeVars, views
<1>32. CASE \E t \in Tags \cup {NoTag} : SetManual(t)
  <2>1. PICK t \in Tags \cup {NoTag} : SetManual(t)
    BY <1>32
  <2>2. km' = [km EXCEPT !.manual = t] /\ used' = used \cup ({t} \ {NoTag})
    BY <2>1 DEF SetManual, Edit
  <2>3. [km EXCEPT !.manual = t] \in Resources
    BY WantType DEF ValuesOK
  <2>4. events' \in Nat
    BY <2>1 DEF SetManual, Edit, Event, ValuesOK
  <2>5. QED
    BY <2>1, <2>2, <2>3, <2>4 DEF SetManual, Edit, Event, ValuesOK, recVars,
       wakeVars, views
<1>33. CASE EditResource
  <2>1. PICK r \in Resources : Edited(r)
    BY <1>33, EditResourceEffect DEF ValuesOK
  <2>2. QED
    BY <2>1 DEF Edited, Event, ValuesOK, recVars, wakeVars,
       views
<1>34. CASE UNCHANGED vars
  BY <1>34 DEF vars, ValuesOK, recVars, wakeVars, views
<1>35. CASE ReadBackFails
  BY <1>35, NewResourceType DEF ReadBackFails, Return, ValuesOK, recVars,
     wakeVars, views
<1>36. CASE JobCacheSync
  BY <1>36 DEF JobCacheSync, ValuesOK, recVars, wakeVars, views
<1>37. CASE CronJobCacheSync
  BY <1>37 DEF CronJobCacheSync, ValuesOK, recVars, wakeVars, views
<1>38. QED
  BY <1>1, <1>2, <1>3, <1>4, <1>5, <1>6, <1>7, <1>8, <1>9, <1>10, <1>11,
     <1>12, <1>13, <1>14, <1>15, <1>16, <1>17, <1>18, <1>19, <1>20, <1>21,
     <1>22, <1>23, <1>24, <1>25, <1>26, <1>27, <1>28, <1>29, <1>30, <1>31,
     <1>32, <1>33, <1>34, <1>35, <1>36, <1>37 DEF Next, Reconcile, Failures, Environment

LEMMA FlagsStep == FlagsOK /\ [Next]_vars => FlagsOK'
<1> SUFFICES ASSUME FlagsOK, [Next]_vars PROVE FlagsOK'
  OBVIOUS
<1>1. CASE Get
  BY Zenon, <1>1 DEF Get, FlagsOK, recVars, wakeVars, views
<1>2. CASE ResetFailures
  BY Zenon, <1>2 DEF ResetFailures, FlagsOK, recVars, wakeVars, views
<1>3. CASE ValidationFails
  BY Zenon, <1>3 DEF ValidationFails, ReturnStatus, Return, FlagsOK,
     recVars, wakeVars, views
<1>4. CASE HandleDeletion
  BY Zenon, <1>4 DEF HandleDeletion, FlagsOK, recVars, wakeVars, views
<1>5. CASE RemoveFinalizer
  BY Zenon, <1>5 DEF RemoveFinalizer, Return, FlagsOK, recVars, wakeVars,
     views
<1>6. CASE AddFinalizer
  BY Zenon, <1>6 DEF AddFinalizer, Return, FlagsOK, recVars, wakeVars,
     views
<1>7. CASE UpdateConflicts
  BY Zenon, <1>7 DEF UpdateConflicts, Return, FlagsOK, recVars, wakeVars,
     views
<1>8. CASE CallFails
  BY Zenon, <1>8 DEF CallFails, Return, Event, FlagsOK, recVars, wakeVars,
     views
<1>9. CASE Disabled
  BY Zenon, <1>9 DEF Disabled, ReturnStatus, Return, FlagsOK, recVars,
     wakeVars, views
<1>10. CASE CleanupForManual
  BY Zenon, <1>10 DEF CleanupForManual, Event, FlagsOK, recVars, wakeVars,
     views
<1>11. CASE AlreadyProcessed
  BY Zenon, <1>11 DEF AlreadyProcessed, Return, FlagsOK, recVars, wakeVars,
     views
<1>12. CASE Blocked
  BY Zenon, <1>12 DEF Blocked, ReturnStatus, Return, FlagsOK, recVars,
     wakeVars, views
<1>13. CASE ensureMaintenanceJob
  BY Zenon, <1>13 DEF ensureMaintenanceJob, Return, FlagsOK, recVars,
     wakeVars, views
<1>14. CASE ensureMaintenanceJobFails
  BY Zenon, <1>14 DEF ensureMaintenanceJobFails, Return, Event, FlagsOK,
     recVars, wakeVars, views
<1>15. CASE JobStillRunning
  BY Zenon, <1>15 DEF JobStillRunning, Return, FlagsOK, recVars, wakeVars,
     views
<1>16. CASE JobSucceeded
  BY Zenon, <1>16 DEF JobSucceeded, ReturnStatus, Return, FlagsOK, recVars,
     wakeVars, views
<1>17. CASE JobFailed
  BY Zenon, <1>17 DEF JobFailed, Event, FlagsOK, recVars, wakeVars, views
<1>18. CASE DeleteFailedJob
  BY Zenon, <1>18 DEF DeleteFailedJob, Return, Event, ReturnStatus, FlagsOK,
     recVars, wakeVars, views
<1>19. CASE CleanupForSchedule
  BY Zenon, <1>19 DEF CleanupForSchedule, Event, FlagsOK, recVars, wakeVars,
     views
<1>20. CASE ensureCronJob
  BY Zenon, <1>20 DEF ensureCronJob, FlagsOK, recVars, wakeVars, views
<1>21. CASE ensureCronJobFails
  BY Zenon, <1>21 DEF ensureCronJobFails, Return, Event, FlagsOK, recVars,
     wakeVars, views
<1>22. CASE ScheduleStatus
  BY Zenon, <1>22 DEF ScheduleStatus, ReturnStatus, Return, FlagsOK,
     recVars, wakeVars, views
<1>23. CASE CacheSync
  BY Zenon, <1>23 DEF CacheSync, FlagsOK, recVars, wakeVars, views
<1>24. CASE TimerFires
  BY Zenon, <1>24 DEF TimerFires, FlagsOK, recVars, wakeVars, views
<1>25. CASE Resync
  BY Zenon, <1>25 DEF Resync, FlagsOK, recVars, wakeVars, views
<1>26. CASE DayPasses
  BY Zenon, <1>26 DEF DayPasses, FlagsOK, recVars, wakeVars, views
<1>27. CASE GarbageCollect
  BY Zenon, <1>27 DEF GarbageCollect, FlagsOK, recVars, wakeVars, views
<1>28. CASE Crash
  BY Zenon, <1>28 DEF Crash, Event, FlagsOK, recVars, wakeVars, views
<1>29. CASE \E t \in Tags : JobExpires(t)
  BY Zenon, <1>29 DEF JobExpires, FlagsOK, recVars, wakeVars, views
<1>30. CASE \E t \in Tags, o \in {"done", "failing"} : JobMoves(t, o)
  BY Zenon, <1>30 DEF JobMoves, FlagsOK, recVars, wakeVars, views
<1>31. CASE \E o \in {"done", "failing"} : CronJobRuns(o)
  BY Zenon, <1>31 DEF CronJobRuns, FlagsOK, recVars, wakeVars, views
<1>32. CASE \E t \in Tags \cup {NoTag} : SetManual(t)
  BY Zenon, <1>32 DEF SetManual, Edit, FlagsOK, recVars, wakeVars, views
<1>33. CASE EditResource
  BY Zenon, <1>33 DEF EditResource, Edit, FlagsOK, recVars, wakeVars,
     views
<1>34. CASE UNCHANGED vars
  BY Zenon, <1>34 DEF vars, FlagsOK, recVars, wakeVars, views
<1>35. CASE ReadBackFails
  BY Zenon, <1>35 DEF ReadBackFails, Return, FlagsOK, recVars, wakeVars, views
<1>36. CASE JobCacheSync
  BY Zenon, <1>36 DEF JobCacheSync, FlagsOK, recVars, wakeVars, views
<1>37. CASE CronJobCacheSync
  BY Zenon, <1>37 DEF CronJobCacheSync, FlagsOK, recVars, wakeVars, views
<1>38. QED
  BY <1>1, <1>2, <1>3, <1>4, <1>5, <1>6, <1>7, <1>8, <1>9, <1>10, <1>11,
     <1>12, <1>13, <1>14, <1>15, <1>16, <1>17, <1>18, <1>19, <1>20, <1>21,
     <1>22, <1>23, <1>24, <1>25, <1>26, <1>27, <1>28, <1>29, <1>30, <1>31,
     <1>32, <1>33, <1>34, <1>35, <1>36, <1>37 DEF Next, Reconcile, Failures, Environment

(* Type correctness of KopiaMaintenance: whatever the caches show and the  *)
(* calls do, the controller's state is of its declared kind.               *)
THEOREM TypeCorrect == Spec => []TypeOK
<1>1. TypeOK /\ [Next]_vars => TypeOK'
  BY ValuesStep, FlagsStep DEF TypeOK
<1>2. QED
  BY TypeInit, <1>1, PTL DEF Spec

-----------------------------------------------------------------------------
(* One maintenance at a time. *)

(* A step that starts nothing, cleans up nothing and leaves the trigger    *)
(* alone: the reconcile ends, or stays with the tag it works for.          *)
Quiet ==
  /\ UNCHANGED <<overlooked, used>>
  /\ \A t \in Tags : jobs'[t] # "none" => jobs[t] # "none"
  /\ \A t \in Tags : jobs'[t] \in {"running", "failing"}
                   => jobs[t] \in {"running", "failing"}
  /\ \A t \in Tags : jobs'[t] = "running" => jobs[t] = "running"
  /\ exists => \A t \in Tags :
       jobs[t] = "running" /\ jobs'[t] = "none"
         => pc = "failed" /\ local.manual = t
  /\ pc' = "failed" => pc = "failed" \/ shown[local.manual] = "failing"
  /\ shown' = shown \/ (shown' = jobs /\ jobs' = jobs)
  /\ cron' \in {cron, NoCronJob}
  /\ km'.manual = km.manual
  /\ cached' \in {cached, km}
  /\ \/ pc' = "idle" /\ local'.manual = NoTag
     \/ /\ \/ pc' = pc
           \/ pc # "idle" /\ pc' \in {"finalize", "failed", "status"}
        /\ local'.manual = local.manual

(* All but six actions are quiet.                                          *)
LEMMA QuietActions ==
  ASSUME ValuesOK, [Next]_vars
  PROVE  \/ Quiet \/ Get \/ CleanupForManual \/ ensureMaintenanceJob
         \/ CleanupForSchedule \/ ensureCronJob
         \/ \E t \in Tags \cup {NoTag} : SetManual(t)
<1>c. /\ local.manual \in Tags \cup {NoTag} /\ local.failures \in Nat
      /\ local.failures + 1 \in Nat /\ 0 \in Nat
  BY DEF ValuesOK, Resources
<1>r. /\ [km EXCEPT !.reset = FALSE].manual = km.manual
      /\ [km EXCEPT !.finalizer = TRUE].manual = km.manual
  BY EditType, ShapeAssumption DEF ValuesOK
<1>1. CASE ResetFailures
  BY <1>1, <1>r DEF ResetFailures, Quiet, ValuesOK, recVars, wakeVars,
     views
<1>2. CASE ValidationFails
  BY <1>2, ReturnStatusType DEF ValidationFails, Quiet, ValuesOK,
     recVars, wakeVars, views
<1>3. CASE HandleDeletion
  BY <1>3 DEF HandleDeletion, Validated, cleanupCronJob, Quiet,
     ValuesOK, recVars, wakeVars, views
<1>4. CASE RemoveFinalizer
  BY <1>4, NewResourceType DEF RemoveFinalizer, Return, Quiet,
     ValuesOK, recVars, wakeVars, views
<1>5. CASE AddFinalizer
  BY <1>5, NewResourceType, <1>r DEF AddFinalizer, Return, Quiet,
     ValuesOK, recVars, wakeVars, views
<1>6. CASE UpdateConflicts
  BY <1>6, NewResourceType DEF UpdateConflicts, Return, Quiet,
     ValuesOK, recVars, wakeVars, views
<1>7. CASE CallFails
  BY <1>7, NewResourceType DEF CallFails, Return, Quiet, ValuesOK,
     recVars, wakeVars, views
<1>8. CASE Disabled
  BY <1>8, ReturnStatusType DEF Disabled, cleanupCronJob, Quiet,
     ValuesOK, recVars, wakeVars, views
<1>9. CASE AlreadyProcessed
  BY <1>9, NewResourceType DEF AlreadyProcessed, Return, Quiet,
     ValuesOK, recVars, wakeVars, views
<1>10. CASE Blocked
  BY <1>10, ReturnStatusType, <1>c, WantType DEF Blocked, Quiet,
     ValuesOK, recVars, wakeVars, views
<1>11. CASE ensureMaintenanceJobFails
  BY <1>11, NewResourceType, PatchedType DEF ensureMaintenanceJobFails,
     Return, Quiet, ValuesOK, recVars, wakeVars, views
<1>12. CASE JobStillRunning
  BY <1>12, NewResourceType DEF JobStillRunning, Return, Quiet,
     ValuesOK, recVars, wakeVars, views
<1>13. CASE JobSucceeded
  BY <1>13, ReturnStatusType, <1>c, WantType DEF JobSucceeded, Quiet,
     ValuesOK, recVars, wakeVars, views
<1>14. CASE JobFailed
  <2> DEFINE want == [local EXCEPT !.failures = local.failures + 1]
  <2>1. want \in Resources /\ want.manual = local.manual
    BY <1>c, WantType DEF ValuesOK
  <2>2. Patched(want) \in Resources /\ Patched(want).manual = km.manual
    BY <2>1, PatchedType DEF ValuesOK
  <2>3. /\ km' = Patched(want) \/ km' = km
        /\ local' = [km' EXCEPT !.manual = local.manual] \/ local' = want
    BY <1>14 DEF JobFailed
  <2> HIDE DEF want
  <2>4. km' \in Resources /\ km'.manual = km.manual
    BY <2>2, <2>3 DEF ValuesOK
  <2>5. local'.manual = local.manual
    BY <1>c, <2>1, <2>3, <2>4, WantType
  <2>6. QED
    BY <1>14, <2>4, <2>5 DEF JobFailed, Found, Pending, Quiet,
       ValuesOK, recVars, wakeVars, views
<1>15. CASE DeleteFailedJob
  <2> DEFINE want == [local EXCEPT !.last = local.manual]
  <2>1. want \in Resources
    BY <1>c, WantType DEF ValuesOK
  <2>2. Patched(want) \in Resources /\ Patched(want).manual = km.manual
    BY <2>1, PatchedType DEF ValuesOK
  <2>3. km'.manual = km.manual /\ pc' = "idle" /\ local' = NewResource
    BY <1>15, <2>2 DEF DeleteFailedJob, ReturnStatus, Return
  <2> HIDE DEF want
  <2>4. jobs' = [jobs EXCEPT ![local.manual] = "none"] \/ jobs' = jobs
    BY <1>15 DEF DeleteFailedJob
  <2>5. QED
    BY <1>15, <2>3, <2>4, NewResourceType DEF DeleteFailedJob, Quiet,
       ValuesOK, recVars, wakeVars, views
<1>16. CASE ensureCronJobFails
  BY <1>16, NewResourceType, PatchedType DEF ensureCronJobFails, Return,
     Quiet, ValuesOK, recVars, wakeVars, views
<1>17. CASE ScheduleStatus
  BY <1>17, ReturnStatusType, WantType, CountType, <1>c DEF ScheduleStatus,
     Quiet, ValuesOK, recVars, wakeVars, views
<1>18. CASE CacheSync
  BY <1>18 DEF CacheSync, Quiet, ValuesOK, recVars, wakeVars, views
<1>19. CASE TimerFires
  BY <1>19 DEF TimerFires, Quiet, ValuesOK, recVars, wakeVars,
     views
<1>20. CASE Resync
  BY <1>20 DEF Resync, Quiet, ValuesOK, recVars, wakeVars, views
<1>21. CASE DayPasses
  BY <1>21 DEF DayPasses, Quiet, ValuesOK, recVars, wakeVars, views
<1>22. CASE GarbageCollect
  BY <1>22 DEF GarbageCollect, cleanupCronJob, Quiet, ValuesOK,
     recVars, wakeVars, views
<1>23. CASE Crash
  BY <1>23, NewResourceType DEF Crash, Quiet, ValuesOK, recVars,
     wakeVars, views
<1>24. CASE \E t \in Tags : JobExpires(t)
  BY <1>24 DEF JobExpires, Quiet, ValuesOK, recVars, wakeVars,
     views
<1>25. CASE \E t \in Tags, o \in {"done", "failing"} : JobMoves(t, o)
  BY <1>25 DEF JobMoves, Quiet, ValuesOK, recVars, wakeVars, views
<1>26. CASE \E o \in {"done", "failing"} : CronJobRuns(o)
  BY <1>26 DEF CronJobRuns, Quiet, ValuesOK, recVars, wakeVars,
     views
<1>27. CASE EditResource
  BY <1>27, EditResourceEffect DEF Edited, Quiet, ValuesOK, recVars,
     wakeVars, views
<1>28. CASE UNCHANGED vars
  BY <1>28 DEF vars, Quiet, ValuesOK, recVars, wakeVars, views
<1>29. CASE ReadBackFails
  BY <1>29, NewResourceType DEF ReadBackFails, Return, Quiet, ValuesOK,
     recVars, wakeVars, views
<1>30. CASE JobCacheSync
  BY <1>30 DEF JobCacheSync, Quiet, ValuesOK, recVars, wakeVars, views
<1>31. CASE CronJobCacheSync
  BY <1>31 DEF CronJobCacheSync, Quiet, ValuesOK, recVars, wakeVars, views
<1>32. QED
  BY <1>1, <1>2, <1>3, <1>4, <1>5, <1>6, <1>7, <1>8, <1>9, <1>10, <1>11,
     <1>12, <1>13, <1>14, <1>15, <1>16, <1>17, <1>18, <1>19, <1>20, <1>21,
     <1>22, <1>23, <1>24, <1>25, <1>26, <1>27, <1>28, <1>29, <1>30, <1>31 DEF Next, Reconcile,
     Failures, Environment

(* What holds between the clean-up and the start, and what it is for.      *)
OneInv == OneMaintenance /\ SwitchInv

LEMMA OneInit == Init => OneInv
BY DEF Init, OneInv, OneMaintenance, SwitchInv, Maintains, Old

(* After a clean-up what it should have deleted is gone or overlooked.     *)
LEMMA CleanupEffect ==
  ASSUME ValuesOK, NEW kept \in SUBSET Old, cleanupOldManualJobs(kept),
         Hidden \cup kept \subseteq overlooked'
  PROVE  /\ \A t \in Tags : jobs'[t] # "none" => jobs[t] # "none"
         /\ \A t \in Old : jobs'[t] # "none" => t \in overlooked'
BY DEF cleanupOldManualJobs, Hidden, Old, ValuesOK

LEMMA OneStep == ValuesOK /\ OneInv /\ [Next]_vars => OneInv'
<1> SUFFICES ASSUME ValuesOK, OneInv, [Next]_vars
             PROVE  (OneMaintenance /\ SwitchInv)'
  BY DEF OneInv
<1> USE DEF OneMaintenance, SwitchInv, Maintains, Old
<1>1. CASE Quiet
  BY <1>1, TagAssumption DEF Quiet, OneInv
<1>2. CASE Get
  BY <1>2 DEF Get, OneInv
<1>3. CASE CleanupForManual
  <2>1. /\ \E kept \in SUBSET Old :
             cleanupOldManualJobs(kept) /\ Hidden \cup kept \subseteq overlooked'
        /\ cron' = NoCronJob \/ NoTag \in overlooked'
        /\ local' = local /\ pc' = "manual"
    BY <1>3 DEF CleanupForManual, cleanupCronJob
  <2>2. \A t \in Old : jobs'[t] # "none" => t \in overlooked'
    BY <2>1, CleanupEffect
  <2>3. QED
    BY <2>1, <2>2, TagAssumption
<1>4. CASE ensureMaintenanceJob
  <2>1. /\ pc = "manual" /\ pc' = "created" /\ cron' = cron /\ local' = local
        /\ jobs' = [jobs EXCEPT ![local.manual] = "running"]
        /\ overlooked' = overlooked
    BY <1>4 DEF ensureMaintenanceJob, NotShown, Pending
  <2>2. \A t \in Old : jobs'[t] # "none" => t \in overlooked
    BY <2>1 DEF OneInv, ValuesOK
  <2>3. cron # NoCronJob => NoTag \in overlooked
    BY <2>1 DEF OneInv
  <2>4. QED
    BY <2>1, <2>2, <2>3, TagAssumption
<1>5. CASE CleanupForSchedule
  <2>1. /\ \E kept \in SUBSET Old :
             cleanupOldManualJobs(kept) /\ Hidden \cup kept \subseteq overlooked'
        /\ local.manual = NoTag /\ pc' = "schedule"
    BY <1>5 DEF CleanupForSchedule
  <2>2. \A t \in Tags : jobs'[t] # "none" => t \in overlooked'
    BY <2>1, CleanupEffect, TagAssumption
  <2>3. QED
    BY <2>1, <2>2
<1>6. CASE ensureCronJob
  BY <1>6, TagAssumption DEF ensureCronJob, OneInv
<1>7. CASE \E t \in Tags \cup {NoTag} : SetManual(t)
  BY <1>7 DEF SetManual, Edit, recVars, OneInv
<1>8. QED
  BY <1>1, <1>2, <1>3, <1>4, <1>5, <1>6, <1>7, QuietActions

(* A manual Job runs beside the CronJob or beside another manual Job only  *)
(* if the last clean-up passed one of the two over, not shown it by the    *)
(* cache or failing to delete it, for any number of tags, edits, runs and  *)
(* restarts (kopiamaintenance_controller.go:588-595, 601-604, 1788-1822).  *)
THEOREM NeverTwoMaintenances == Spec => []OneMaintenance
<1>1. Spec => []ValuesOK
  BY TypeCorrect, PTL DEF TypeOK
<1>2. OneInv => OneMaintenance
  BY DEF OneInv
<1>3. QED
  BY <1>1, <1>2, OneInit, OneStep, PTL DEF Spec

-----------------------------------------------------------------------------
(* The Job of the tag in force. *)

LEMMA TagInit == Init => TagInv
BY NewResourceType DEF Init, TagInv

LEMMA TagStep == ValuesOK /\ TagInv /\ [Next]_vars => TagInv'
<1> SUFFICES ASSUME ValuesOK, TagInv, [Next]_vars PROVE TagInv'
  OBVIOUS
<1> USE DEF TagInv
<1>1. CASE Quiet
  BY <1>1 DEF Quiet, ValuesOK
<1>2. CASE Get
  BY <1>2 DEF Get
<1>3. CASE CleanupForManual
  <2>1. \A t \in Tags : jobs'[t] # "none" => jobs[t] # "none"
    BY <1>3 DEF CleanupForManual, cleanupOldManualJobs
  <2>2. /\ km' = km /\ cached' = cached /\ local' = local /\ used' = used
        /\ pc # "idle"
    BY <1>3 DEF CleanupForManual, Managed, Validated
  <2>3. QED
    BY <2>1, <2>2
<1>4. CASE ensureMaintenanceJob
  <2>1. /\ pc = "manual" /\ pc' = "created" /\ local' = local
        /\ jobs' = [jobs EXCEPT ![local.manual] = "running"]
        /\ km' = km /\ cached' = cached /\ used' = used
    BY <1>4 DEF ensureMaintenanceJob, NotShown, Pending
  <2>2. ASSUME NEW t \in Tags, jobs'[t] # "none"
        PROVE  t \in used /\ (km.manual = t => cached.manual = t)
    BY <2>1, <2>2, TagAssumption DEF ValuesOK
  <2>3. QED
    BY <2>1, <2>2 DEF ValuesOK
<1>5. CASE CleanupForSchedule
  <2>1. \A t \in Tags : jobs'[t] # "none" => jobs[t] # "none"
    BY <1>5 DEF CleanupForSchedule, cleanupOldManualJobs
  <2>2. /\ km' = km /\ cached' = cached /\ local' = local /\ used' = used
        /\ pc # "idle"
    BY <1>5 DEF CleanupForSchedule, Managed, Validated
  <2>3. QED
    BY <2>1, <2>2
<1>6. CASE ensureCronJob
  BY <1>6 DEF ensureCronJob
<1>7. CASE \E t \in Tags \cup {NoTag} : SetManual(t)
  <2>1. PICK t \in Tags \cup {NoTag} : SetManual(t)
    BY <1>7
  <2>2. /\ km'.manual = t /\ used' = used \cup ({t} \ {NoTag})
        /\ cached' = cached /\ local' = local /\ pc' = pc /\ jobs' = jobs
        /\ t \notin used
    BY <2>1, WantType DEF SetManual, Edit, recVars, ValuesOK
  <2>3. QED
    BY <2>2, TagAssumption DEF ValuesOK
<1>8. QED
  BY <1>1, <1>2, <1>3, <1>4, <1>5, <1>6, <1>7, QuietActions

LEMMA FailedStep == ValuesOK /\ FailedInv /\ [Next]_vars => FailedInv'
<1> SUFFICES ASSUME ValuesOK, FailedInv, [Next]_vars PROVE FailedInv'
  OBVIOUS
<1> USE DEF FailedInv
<1>1. CASE Quiet
  BY <1>1 DEF Quiet
<1>2. CASE Get
  BY <1>2 DEF Get, views
<1>3. CASE CleanupForManual
  <2>1. \A t \in Tags : jobs'[t] = "running" => jobs[t] = "running"
    BY <1>3 DEF CleanupForManual, cleanupOldManualJobs
  <2>2. QED
    BY <1>3, <2>1 DEF CleanupForManual, views
<1>4. CASE ensureMaintenanceJob
  BY <1>4 DEF ensureMaintenanceJob, NotShown, views, ValuesOK
<1>5. CASE CleanupForSchedule
  <2>1. \A t \in Tags : jobs'[t] = "running" => jobs[t] = "running"
    BY <1>5 DEF CleanupForSchedule, cleanupOldManualJobs
  <2>2. QED
    BY <1>5, <2>1 DEF CleanupForSchedule, views
<1>6. CASE ensureCronJob
  BY <1>6 DEF ensureCronJob, views
<1>7. CASE \E t \in Tags \cup {NoTag} : SetManual(t)
  BY <1>7 DEF SetManual, Edit, recVars, views
<1>8. QED
  BY <1>1, <1>2, <1>3, <1>4, <1>5, <1>6, <1>7, QuietActions

(* Besides the deletion of a failed Job only the clean-ups delete, and     *)
(* these go by the tag of the reconcile's copy.                            *)
LEMMA KeptStep ==
  ASSUME ValuesOK, TagInv, FailedInv, [Next]_vars, exists,
         NEW t \in Tags, jobs[t] = "running", jobs'[t] = "none"
  PROVE  km.manual # t
<1>1. CASE Quiet
  BY <1>1 DEF Quiet, FailedInv
<1>2. CASE Get
  BY <1>2 DEF Get
<1>3. CASE CleanupForManual
  <2>1. t # local.manual /\ pc # "idle"
    BY <1>3 DEF CleanupForManual, cleanupOldManualJobs, Old, Managed, Validated
  <2>2. QED
    BY <2>1 DEF TagInv
<1>4. CASE ensureMaintenanceJob
  BY <1>4 DEF ensureMaintenanceJob, ValuesOK
<1>5. CASE CleanupForSchedule
  <2>1. t # local.manual /\ pc # "idle"
    BY <1>5 DEF CleanupForSchedule, cleanupOldManualJobs, Old, Managed,
       Validated
  <2>2. QED
    BY <2>1 DEF TagInv
<1>6. CASE ensureCronJob
  BY <1>6 DEF ensureCronJob
<1>7. CASE \E u \in Tags \cup {NoTag} : SetManual(u)
  BY <1>7 DEF SetManual, Edit
<1>8. QED
  BY <1>1, <1>2, <1>3, <1>4, <1>5, <1>6, <1>7, QuietActions

(* A running manual Job whose tag is still asked for is never deleted,     *)
(* however old the copies are that the clean-ups go by                     *)
(* (kopiamaintenance_controller.go:1801-1815).                             *)
THEOREM RunningJobsSurvive == Spec => RunningJobKept
<1> DEFINE Kept ==
      \A t \in Tags :
        jobs[t] = "running" /\ jobs'[t] = "none" /\ exists => km.manual # t
<1>1. Spec => []ValuesOK
  BY TypeCorrect, PTL DEF TypeOK
<1>2. Spec => []TagInv
  BY <1>1, TagInit, TagStep, PTL DEF Spec
<1>3. Init => FailedInv
  BY DEF Init, FailedInv
<1>4. Spec => []FailedInv
  BY <1>1, <1>3, FailedStep, PTL DEF Spec
<1>5. ValuesOK /\ TagInv /\ FailedInv /\ [Next]_vars => [Kept]_vars
  BY KeptStep
<1>6. Spec => [][Kept]_vars
  BY <1>1, <1>2, <1>4, <1>5, PTL DEF Spec
<1>7. QED
  BY <1>6 DEF RunningJobKept
=============================================================================
