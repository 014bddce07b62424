-------------------------- MODULE KopiaMaintenance --------------------------
(***************************************************************************)
(* The controller of KopiaMaintenance resources                            *)
(* (kopiamaintenance_controller.go): one resource asks either for a        *)
(* CronJob or, through spec.trigger.manual, for single Jobs that maintain  *)
(* a Kopia repository.  Consecutive failures are counted in the status;    *)
(* from maxConsecutiveFailures on nothing is started any more.             *)
(*                                                                         *)
(* A reconcile reads the resource from the informer cache.  Its updates    *)
(* carry the version read, but its status goes out as a merge patch that   *)
(* holds what differs from the CACHED resource at the time of the patch.   *)
(*                                                                         *)
(* All that the CronJob is brought in line with (cronspec, history limits, *)
(* resources, security contexts, image, volumes, labels, placement) is one *)
(* value, the shape.  The resource, the manual Jobs and the CronJob are    *)
(* each read from an informer cache, which shows what was true earlier.    *)
(* The CRD gives spec.schedule a default, so a resource without a manual   *)
(* trigger always has a schedule.  Left out: events, metrics, conditions,  *)
(* times, the name of the CronJob in the status, the cache PVC, pods that  *)
(* outlive a Job, manual Jobs among the failures of the last day.          *)
(***************************************************************************)
EXTENDS Naturals

CONSTANTS
  Tags,                    \* values of spec.trigger.manual, each used once
  NoTag,                   \* no manual trigger
  Shapes,                  \* what a CronJob may have to look like
  NoCronJob,               \* the CronJob does not exist
  maxConsecutiveFailures,
  HistoryLimit,            \* spec.failedJobsHistoryLimit
  Editable,                \* the fields the user edits
  MaxEvents                \* bound on the user's edits, the CronJob's runs,
                           \* failing calls and restarts together

ASSUME TagAssumption == NoTag \notin Tags
ASSUME BoundAssumption ==
  /\ maxConsecutiveFailures \in Nat \ {0} /\ HistoryLimit \in Nat
  /\ MaxEvents \in Nat
ASSUME ShapeAssumption ==
  Shapes # {} /\ NoCronJob \notin [suspend : BOOLEAN, shape : Shapes]

VARIABLES
  km,       \* the resource in the API server
  exists,   \* it has not been removed
  cached,   \* the resource in the informer cache
  pc,       \* position of the reconcile
  local,    \* its copy of the resource
  queue,    \* the resource is in the work queue
  timer,    \* a delayed requeue is pending
  jobs,     \* the manual Jobs, by tag
  cron,     \* the CronJob
  shown,    \* the manual Jobs in the informer cache
  shownCron,  \* the CronJob there
  history,  \* what the CronJob's own Jobs show
  used,     \* tags the user has set so far
  events,   \* edits, runs, failing calls and restarts so far
  overlooked  \* auxiliary: what the last clean-up should have deleted and
              \* did not, not shown it or failing; NoTag: the CronJob

recVars  == <<pc, local>>
wakeVars == <<queue, timer>>
views    == <<shown, shownCron>>
vars == <<km, exists, cached, recVars, wakeVars, jobs, cron, history, used,
          events, views, overlooked>>

Resources ==
  [manual : Tags \cup {NoTag}, enabled : BOOLEAN, suspend : BOOLEAN,
   valid : BOOLEAN, shape : Shapes,
   reset : BOOLEAN, deleting : BOOLEAN, finalizer : BOOLEAN,
   failures : Nat, last : Tags \cup {NoTag}]

StatusFields == {"failures", "last"}

\* As created; also what `local` holds between reconciles.
NewResource ==
  [manual |-> NoTag, enabled |-> TRUE, suspend |-> FALSE, valid |-> TRUE,
   shape |-> CHOOSE s \in Shapes : TRUE,
   reset |-> FALSE, deleting |-> FALSE, finalizer |-> FALSE,
   failures |-> 0, last |-> NoTag]

NoHistory == [failed |-> 0, success |-> "never"]

Init ==
  /\ km = NewResource
  /\ exists = TRUE /\ cached = km
  /\ pc = "idle" /\ local = NewResource
  /\ queue = TRUE /\ timer = FALSE
  /\ jobs = [t \in Tags |-> "none"]
  /\ shown = jobs
  /\ cron = NoCronJob /\ shownCron = NoCronJob /\ history = NoHistory
  /\ used = {} /\ events = 0 /\ overlooked = {}

-----------------------------------------------------------------------------
Event == events < MaxEvents /\ events' = events + 1

\* The reconcile ends: with an error, asking to be called later, or neither.
Return(how) ==
  /\ pc' = "idle" /\ local' = NewResource
  /\ queue' = (queue \/ how = "error")
  /\ timer' = (timer \/ how = "later")

\* updateStatusWithError: a merge patch of what differs from the cache.
Patched(want) ==
  [f \in DOMAIN km |->
     IF f \in StatusFields /\ want[f] # cached[f] THEN want[f] ELSE km[f]]

\* The status is patched and the reconcile ends, whatever becomes of it.
ReturnStatus(want, how, otherwise) ==
  \/ /\ exists /\ km' = Patched(want)
     /\ Return(how) /\ UNCHANGED events
  \/ /\ Event
     /\ Return(otherwise) /\ UNCHANGED km

cleanupCronJob == cron' = NoCronJob /\ history' = NoHistory

\* Every manual Job but that of the tag in force, as far as the cache shows
\* it and its deletion does not fail.
Old == Tags \ {local.manual}
Hidden == {t \in Old : shown[t] = "none" /\ jobs[t] # "none"}

\* Mutant: the Job of the tag in force is not spared.
cleanupAllManualJobs(kept) ==
  jobs' = [t \in Tags |->
             IF shown[t] # "none" /\ t \notin kept THEN "none" ELSE jobs[t]]

cleanupOldManualJobs(kept) ==
  jobs' = [t \in Tags |-> IF t \in Old /\ shown[t] # "none" /\ t \notin kept
                          THEN "none" ELSE jobs[t]]

suspended(r) == r.suspend \/ r.failures >= maxConsecutiveFailures

-----------------------------------------------------------------------------
(* Reconcile, up to the choice of the trigger. *)

Get ==
  /\ pc = "idle" /\ queue /\ exists
  /\ pc' = "start" /\ local' = cached
  /\ queue' = FALSE
  /\ UNCHANGED <<km, exists, cached, timer, jobs, cron, history, used, events,
                 views, overlooked>>

\* The annotation is removed with Update, which neither sends the status nor
\* leaves the zeroed counter in the copy: the response replaces it.
ResetFailures ==
  /\ pc = "start" /\ local.reset /\ local = km /\ exists
  /\ km' = [km EXCEPT !.reset = FALSE]
  /\ local' = km'
  /\ UNCHANGED <<exists, cached, pc, wakeVars, jobs, cron, history, used,
                 events, views, overlooked>>

ValidationFails ==
  /\ pc = "start" /\ ~local.reset /\ ~local.valid
  /\ ReturnStatus(local, "error", "error")
  /\ UNCHANGED <<exists, cached, jobs, cron, history, used, views, overlooked>>

Validated == pc = "start" /\ ~local.reset /\ local.valid

\* Mutant: the finalizer is forgotten.
HandleDeletionKeepsFinalizer ==
  /\ Validated /\ local.deleting
  /\ cleanupCronJob
  /\ Return("stop")
  /\ UNCHANGED <<km, exists, cached, jobs, used, events, views, overlooked>>

HandleDeletion ==
  /\ Validated /\ local.deleting
  /\ cleanupCronJob
  /\ pc' = "finalize"
  /\ UNCHANGED <<km, exists, cached, local, wakeVars, jobs, used, events,
                 views, overlooked>>

RemoveFinalizer ==
  /\ pc = "finalize" /\ local = km /\ exists
  /\ exists' = FALSE
  /\ Return("stop")
  /\ UNCHANGED <<km, cached, jobs, cron, history, used, events, views,
                 overlooked>>

AddFinalizer ==
  /\ Validated /\ ~local.deleting /\ ~local.finalizer
  /\ local = km /\ exists
  /\ km' = [km EXCEPT !.finalizer = TRUE]
  /\ Return("error")
  /\ UNCHANGED <<exists, cached, jobs, cron, history, used, events, views,
                 overlooked>>

\* An update of a version that is no longer current.
UpdateConflicts ==
  /\ \/ pc = "start" /\ local.reset
     \/ Validated /\ ~local.deleting /\ ~local.finalizer
     \/ pc = "finalize"
  /\ local # km \/ ~exists
  /\ Return("error")
  /\ UNCHANGED <<km, exists, cached, jobs, cron, history, used, events, views,
                 overlooked>>

\* A read, an update or a clean-up whose error is returned.
CallFails ==
  /\ pc \in {"start", "finalize"}
  /\ Event
  /\ Return("error")
  /\ UNCHANGED <<km, exists, cached, jobs, cron, history, used, views,
                 overlooked>>

Managed == Validated /\ ~local.deleting /\ local.finalizer

Disabled ==
  /\ Managed /\ ~local.enabled
  /\ cleanupCronJob
  /\ ReturnStatus(local, "stop", "error")
  /\ UNCHANGED <<exists, cached, jobs, used, views, overlooked>>

-----------------------------------------------------------------------------
(* The manual trigger. *)

\* Mutant: switching from a schedule leaves the CronJob behind.
KeepCronJobForManual ==
  /\ Managed /\ local.enabled /\ local.manual # NoTag
  /\ pc' = "manual"
  /\ cleanupOldManualJobs({}) /\ overlooked' = Hidden
  /\ UNCHANGED <<km, exists, cached, local, wakeVars, cron, history, used,
                 events, views>>

\* Both clean-ups log their errors and go on.
CleanupForManual ==
  /\ Managed /\ local.enabled /\ local.manual # NoTag
  /\ pc' = "manual"
  /\ \/ /\ cleanupCronJob /\ cleanupOldManualJobs({})
        /\ overlooked' = Hidden /\ UNCHANGED events
     \/ /\ Event
        /\ \/ /\ cleanupOldManualJobs({}) /\ overlooked' = Hidden \cup {NoTag}
              /\ UNCHANGED <<cron, history>>
           \/ \E kept \in SUBSET Old :
                /\ cleanupOldManualJobs(kept) /\ overlooked' = Hidden \cup kept
                /\ cleanupCronJob
  /\ UNCHANGED <<km, exists, cached, local, wakeVars, used, views>>

AlreadyProcessed ==
  /\ pc = "manual" /\ local.last = local.manual
  /\ Return("stop")
  /\ UNCHANGED <<km, exists, cached, jobs, cron, history, used, events, views,
                 overlooked>>

Pending == pc = "manual" /\ local.last # local.manual

\* Marked as processed, with no Job; an error of the patch is only logged.
Blocked ==
  /\ Pending /\ local.failures >= maxConsecutiveFailures
  /\ ReturnStatus([local EXCEPT !.last = local.manual], "stop", "stop")
  /\ UNCHANGED <<exists, cached, jobs, cron, history, used, views, overlooked>>

NotShown ==
  /\ Pending /\ local.failures < maxConsecutiveFailures
  /\ shown[local.manual] = "none" /\ exists

ensureMaintenanceJob ==
  /\ NotShown /\ jobs[local.manual] = "none"
  /\ jobs' = [jobs EXCEPT ![local.manual] = "running"]
  /\ pc' = "created"
  /\ UNCHANGED <<km, exists, cached, local, wakeVars, cron, history, used,
                 events, views, overlooked>>

\* Also when the Job exists and the cache does not show it yet.
ensureMaintenanceJobFails ==
  /\ NotShown
  /\ Event \/ (jobs[local.manual] # "none" /\ UNCHANGED events)
  /\ km' = Patched(local)
  /\ Return("error")
  /\ UNCHANGED <<exists, cached, jobs, cron, history, used, views, overlooked>>

\* The new Job is read back from the cache.
ReadBackFails ==
  /\ pc = "created" /\ shown[local.manual] = "none"
  /\ Return("error")
  /\ UNCHANGED <<km, exists, cached, jobs, cron, history, used, events, views,
                 overlooked>>

\* The state in which the reconcile has found the Job.
Found(state) ==
  /\ pc = "created" \/ (Pending /\ local.failures < maxConsecutiveFailures)
  /\ shown[local.manual] = state

JobStillRunning ==
  /\ Found("running")
  /\ Return("later")
  /\ UNCHANGED <<km, exists, cached, jobs, cron, history, used, events, views,
                 overlooked>>

\* Mutant: the trigger is not acknowledged.
JobSucceededNoAck ==
  /\ Found("done")
  /\ ReturnStatus([local EXCEPT !.failures = 0], "stop", "error")
  /\ UNCHANGED <<exists, cached, jobs, cron, history, used, views, overlooked>>

JobSucceeded ==
  /\ Found("done")
  /\ ReturnStatus([local EXCEPT !.last = local.manual, !.failures = 0],
                  "stop", "error")
  /\ UNCHANGED <<exists, cached, jobs, cron, history, used, views, overlooked>>

\* A first failed pod counts as the failure of the Job.  The response of the
\* patch replaces the copy, all but the tag at hand.
JobFailed ==
  LET want == [local EXCEPT !.failures = local.failures + 1]
  IN /\ Found("failing")
     /\ pc' = "failed"
     /\ \/ /\ exists /\ km' = Patched(want) /\ UNCHANGED events
           /\ local' = [km' EXCEPT !.manual = local.manual]
        \/ Event /\ local' = want /\ UNCHANGED km
     /\ UNCHANGED <<exists, cached, wakeVars, jobs, cron, history, used, views,
                    overlooked>>

\* The tag counts as processed, whether or not the Job could be deleted.
DeleteFailedJob ==
  LET want == [local EXCEPT !.last = local.manual]
  IN /\ pc = "failed"
     /\ \/ /\ jobs' = [jobs EXCEPT ![local.manual] = "none"]
           /\ ReturnStatus(want, "error", "error")
        \/ /\ Event /\ exists /\ km' = Patched(want)
           /\ Return("error") /\ UNCHANGED jobs
     /\ UNCHANGED <<exists, cached, cron, history, used, views, overlooked>>

-----------------------------------------------------------------------------
(* The schedule. *)

CleanupForSchedule ==
  /\ Managed /\ local.enabled /\ local.manual = NoTag
  /\ pc' = "schedule"
  /\ \/ /\ cleanupOldManualJobs({}) /\ overlooked' = Hidden
        /\ UNCHANGED events
     \/ \E kept \in SUBSET Old :
          /\ Event
          /\ cleanupOldManualJobs(kept) /\ overlooked' = Hidden \cup kept
  /\ UNCHANGED <<km, exists, cached, local, wakeVars, cron, history, used,
                 views>>

\* Mutant: the CronJob's template is left empty.
ensureCronJobEmpty ==
  /\ pc = "schedule" /\ exists
  /\ cron' = [suspend |-> suspended(local)]
  /\ pc' = "status"
  /\ UNCHANGED <<km, exists, cached, local, wakeVars, jobs, history, used,
                 events, views, overlooked>>

\* Mutant: an existing CronJob is only ever suspended, never resumed.
ensureCronJobSuspendOnly ==
  /\ pc = "schedule" /\ exists
  /\ shownCron = cron
  /\ cron' = [suspend |-> \/ suspended(local)
                          \/ cron # NoCronJob /\ cron.suspend,
              shape |-> local.shape]
  /\ pc' = "status"
  /\ UNCHANGED <<km, exists, cached, local, wakeVars, jobs, history, used,
                 events, views, overlooked>>

WantedCronJob == [suspend |-> suspended(local), shape |-> local.shape]

\* Created, or updated where the cached one differs from what it should be.
ensureCronJob ==
  /\ pc = "schedule" /\ exists
  /\ \/ shownCron = cron /\ cron' = WantedCronJob
     \/ shownCron = WantedCronJob /\ UNCHANGED cron
  /\ pc' = "status"
  /\ UNCHANGED <<km, exists, cached, local, wakeVars, jobs, history, used,
                 events, views, overlooked>>

\* Also when the cached CronJob is not the current one.
ensureCronJobFails ==
  /\ pc = "schedule" /\ exists
  /\ Event \/ (shownCron \notin {cron, WantedCronJob} /\ UNCHANGED events)
  /\ km' = Patched(local)
  /\ Return("error")
  /\ UNCHANGED <<exists, cached, jobs, cron, history, used, views, overlooked>>

\* Any success on record clears the counter; failed Jobs of the last day set
\* it, unless a success falls into the same day.
countFailures(n) ==
  IF history.failed > 0 /\ history.success # "recent" THEN history.failed
  ELSE IF history.success # "never" THEN 0
  ELSE n

ScheduleStatus ==
  /\ pc = "status"
  /\ ReturnStatus([local EXCEPT !.failures = countFailures(local.failures)],
                  "later", "error")
  /\ UNCHANGED <<exists, cached, jobs, cron, history, used, views, overlooked>>

-----------------------------------------------------------------------------
(* The cluster, and the user. *)

CacheSync ==
  /\ cached # km
  /\ cached' = km /\ queue' = TRUE
  /\ UNCHANGED <<km, exists, recVars, timer, jobs, cron, history, used, events,
                 views, overlooked>>

JobCacheSync ==
  /\ shown # jobs
  /\ shown' = jobs /\ queue' = TRUE
  /\ UNCHANGED <<km, exists, cached, recVars, timer, jobs, cron, history, used,
                 events, shownCron, overlooked>>

CronJobCacheSync ==
  /\ shownCron # cron
  /\ shownCron' = cron /\ queue' = TRUE
  /\ UNCHANGED <<km, exists, cached, recVars, timer, jobs, cron, history, used,
                 events, shown, overlooked>>

TimerFires ==
  /\ timer
  /\ timer' = FALSE /\ queue' = TRUE
  /\ UNCHANGED <<km, exists, cached, recVars, jobs, cron, history, used,
                 events, views, overlooked>>

\* The informer's periodic resync.
Resync ==
  /\ ~queue /\ exists
  /\ queue' = TRUE
  /\ UNCHANGED <<km, exists, cached, recVars, timer, jobs, cron, history, used,
                 events, views, overlooked>>

\* "failing": pods have failed, and there may be attempts left.
JobMoves(t, outcome) ==
  /\ \/ jobs[t] = "running" /\ outcome \in {"failing", "done"}
     \/ jobs[t] = "failing" /\ outcome = "done"
  /\ jobs' = [jobs EXCEPT ![t] = outcome]
  /\ UNCHANGED <<km, exists, cached, recVars, wakeVars, cron, history, used,
                 events, views, overlooked>>

\* ttlSecondsAfterFinished is an hour, long enough for the result to be seen.
JobExpires(t) ==
  /\ jobs[t] = "done" /\ km.last = t
  /\ jobs' = [jobs EXCEPT ![t] = "none"]
  /\ UNCHANGED <<km, exists, cached, recVars, wakeVars, cron, history, used,
                 events, views, overlooked>>

\* The CronJob keeps no more than HistoryLimit failed Jobs.
CronJobRuns(outcome) ==
  /\ cron # NoCronJob /\ Event
  /\ cron.suspend = FALSE
  /\ history' = IF outcome = "done" THEN [history EXCEPT !.success = "recent"]
                ELSE [history EXCEPT !.failed =
                        IF @ < HistoryLimit THEN @ + 1 ELSE @]
  /\ queue' = TRUE
  /\ UNCHANGED <<km, exists, cached, recVars, timer, jobs, cron, used, views,
                 overlooked>>

DayPasses ==
  /\ history.failed > 0 \/ history.success = "recent"
  /\ history' = [history EXCEPT !.failed = 0,
                                !.success = IF @ = "never" THEN @ ELSE "old"]
  /\ UNCHANGED <<km, exists, cached, recVars, wakeVars, jobs, cron, used,
                 events, views, overlooked>>

Edit(field, r) ==
  /\ exists /\ field \in Editable /\ Event
  /\ r # km
  /\ km' = r
  /\ UNCHANGED <<exists, cached, recVars, wakeVars, jobs, cron, history, views,
                 overlooked>>

SetManual(t) ==
  /\ t \notin used
  /\ Edit("manual", [km EXCEPT !.manual = t])
  /\ used' = used \cup ({t} \ {NoTag})

EditResource ==
  /\ \/ Edit("enabled", [km EXCEPT !.enabled = ~km.enabled])
     \/ Edit("suspend", [km EXCEPT !.suspend = ~km.suspend])
     \/ Edit("valid", [km EXCEPT !.valid = ~km.valid])
     \/ \E s \in Shapes : Edit("shape", [km EXCEPT !.shape = s])
     \/ Edit("reset", [km EXCEPT !.reset = TRUE])
     \/ km.finalizer /\ Edit("deleting", [km EXCEPT !.deleting = TRUE])
  /\ UNCHANGED used

\* What the resource owns goes with it.
GarbageCollect ==
  /\ ~exists
  /\ jobs' = [t \in Tags |-> "none"] /\ cleanupCronJob
  /\ UNCHANGED <<km, exists, cached, recVars, wakeVars, used, events, views,
                 overlooked>>

Crash ==
  /\ Event /\ exists
  /\ cached' = km /\ shown' = jobs /\ shownCron' = cron
  /\ pc' = "idle" /\ local' = NewResource /\ queue' = TRUE /\ timer' = FALSE
  /\ UNCHANGED <<km, exists, jobs, cron, history, used, overlooked>>

-----------------------------------------------------------------------------
Reconcile ==
  \/ Get \/ ResetFailures \/ ValidationFails \/ HandleDeletion
  \/ RemoveFinalizer \/ AddFinalizer \/ UpdateConflicts \/ Disabled
  \/ CleanupForManual \/ AlreadyProcessed \/ Blocked \/ ensureMaintenanceJob
  \/ ReadBackFails
  \/ JobStillRunning \/ JobSucceeded \/ JobFailed \/ DeleteFailedJob
  \/ CleanupForSchedule \/ ensureCronJob \/ ScheduleStatus

Failures == CallFails \/ ensureMaintenanceJobFails \/ ensureCronJobFails

Environment ==
  \/ CacheSync \/ CronJobCacheSync \/ TimerFires \/ Resync \/ DayPasses
  \/ GarbageCollect \/ Crash
  \/ \E t \in Tags : JobExpires(t)
  \/ JobCacheSync
  \/ \E t \in Tags, o \in {"done", "failing"} : JobMoves(t, o)
  \/ \E o \in {"done", "failing"} : CronJobRuns(o)
  \/ \E t \in Tags \cup {NoTag} : SetManual(t)
  \/ EditResource

Next == Reconcile \/ Failures \/ Environment

Spec == Init /\ [][Next]_vars

\* Between two reconciles the caches show what is the case.
CaughtUp == pc = "idle" /\ cached = km /\ shown = jobs /\ shownCron = cron

(* The work queue is served, timers fire and Jobs end.  The caches may be  *)
(* behind whenever a reconcile begins, but not each time: some requeues    *)
(* leave the watches minutes to deliver.                                   *)
Fairness ==
  /\ WF_vars(Reconcile) /\ WF_vars(TimerFires)
  /\ \A t \in Tags : WF_vars(\E o \in {"done", "failing"} : JobMoves(t, o))
  /\ []<>CaughtUp

FairSpec == Spec /\ Fairness

-----------------------------------------------------------------------------
(* Properties. *)

FlagsOK ==
  /\ exists \in BOOLEAN /\ queue \in BOOLEAN /\ timer \in BOOLEAN

ValuesOK ==
  /\ km \in Resources /\ cached \in Resources /\ local \in Resources
  /\ pc \in {"idle", "start", "finalize", "manual", "created", "failed",
             "schedule", "status"}
  /\ jobs \in [Tags -> {"none", "running", "failing", "done"}]
  /\ shown \in [Tags -> {"none", "running", "failing", "done"}]
  /\ cron \in {NoCronJob} \cup [suspend : BOOLEAN, shape : Shapes]
  /\ shownCron \in {NoCronJob} \cup [suspend : BOOLEAN, shape : Shapes]
  /\ overlooked \subseteq Tags \cup {NoTag}
  /\ history \in [failed : Nat, success : {"never", "old", "recent"}]
  /\ used \subseteq Tags
  /\ events \in Nat

(* Type invariant. *)
TypeOK == FlagsOK /\ ValuesOK

\* NoTag stands for the CronJob.
Maintains(t) ==
  IF t = NoTag THEN cron # NoCronJob ELSE jobs[t] \in {"running", "failing"}

(* One repository is maintained by one Job at a time: a manual Job runs    *)
(* beside the CronJob, or beside the Job of another tag, only if one of    *)
(* the two was passed over by the last clean-up, the cache not showing it  *)
(* or its deletion failing, however the triggers are switched and however  *)
(* old the copies the reconciles work on                                   *)
(* (kopiamaintenance_controller.go:588-595, 601-604, 1788-1822).  It       *)
(* speaks of Jobs: the pods of one deleted without a propagation policy    *)
(* (:1818) may go on.                                                      *)
OneMaintenance ==
  \A t, u \in Tags \cup {NoTag} :
    Maintains(t) /\ Maintains(u) /\ t # u
      => t \in overlooked \/ u \in overlooked

(* The same of two manual Jobs and without the exception, which does not   *)
(* hold: a Job just created is not in the list the clean-up gets from the  *)
(* cache (:1791).                                                          *)
ExclusiveMaintenance ==
  \A t, u \in Tags : Maintains(t) /\ Maintains(u) => t = u

(* A manual Job is not deleted while it runs and its tag is still asked    *)
(* for: the clean-up of old Jobs goes by the name made from a cached tag   *)
(* (kopiamaintenance_controller.go:1801-1815).                             *)
RunningJobKept ==
  [][ \A t \in Tags :
        jobs[t] = "running" /\ jobs'[t] = "none" /\ exists
          => km.manual # t ]_vars

Asked ==
  /\ exists /\ km.valid /\ km.enabled /\ ~km.deleting
  /\ km.manual # NoTag

(* A manual trigger is processed: run, or refused after too many failures. *)
(* The error paths that only log and do not requeue (:691, :775) leave it  *)
(* to the informer's resync.                                               *)
TriggerProcessed ==
  WF_vars(Resync) => (Asked ~> (km.last = km.manual \/ ~Asked))

(* Once the user stops editing, no call fails and the caches are no longer *)
(* behind when a reconcile begins, the CronJob is what the spec asks for:  *)
(* absent under a manual trigger or when disabled, otherwise of the right  *)
(* shape, and suspended exactly when the spec says so or too many failures *)
(* are on record.  (Caches that stay behind can set the counter back each  *)
(* time, with the patch that follows an Update of an old CronJob, :630.)   *)
CronJobFollowsSpec ==
  WF_vars(Resync) /\ <>[][Get => CaughtUp]_vars =>
    <>[](exists /\ km.valid /\ ~km.deleting =>
           cron = IF km.enabled /\ km.manual = NoTag
                  THEN [suspend |-> suspended(km), shape |-> km.shape]
                  ELSE NoCronJob)

(* A deleted resource goes away, if its spec is valid: the deletion is     *)
(* only looked at after the validation (:520, :543).                       *)
DeletionCompletes == km.deleting /\ km.valid ~> (~exists \/ ~km.valid)

(* The events tell the user to add volsync.backube/reset-failures=true "to *)
(* reset" (:685, :992): the counter is zeroed before the annotation goes.  *)
ResetClearsFailures == [][ km.reset /\ ~km'.reset => km'.failures = 0 ]_vars
-----------------------------------------------------------------------------
(* Why they hold.  A reconcile deletes what may run before it starts       *)
(* anything else, and nobody but it creates a Job or the CronJob.          *)
SwitchInv ==
  /\ pc \in {"manual", "created"} =>
       /\ cron # NoCronJob => NoTag \in overlooked
       /\ \A t \in Old : jobs[t] # "none" => t \in overlooked
  /\ pc = "schedule" => \A t \in Tags : jobs[t] # "none" => t \in overlooked

(* A tag is used once, so the resource holds it for one interval, which    *)
(* the cache and the reconcile's copy pass through in this order: once the *)
(* Job of the tag in force exists, neither can still show an earlier tag.  *)
TagInv ==
  /\ km.manual \in used \cup {NoTag} /\ cached.manual \in used \cup {NoTag}
  /\ local.manual \in used \cup {NoTag}
  /\ \A t \in Tags : jobs[t] # "none" => t \in used
  /\ pc # "idle" /\ local.manual = km.manual /\ km.manual # NoTag
       => cached.manual = km.manual
  /\ \A t \in Tags :
       km.manual = t /\ jobs[t] # "none"
         => cached.manual = t /\ (pc # "idle" => local.manual = t)

(* A Job seen to fail does not go back to running before it is deleted,    *)
(* and no other is created while the cache shows it.                       *)
FailedInv ==
  /\ \A t \in Tags : shown[t] = "failing" => jobs[t] # "running"
  /\ pc = "failed" => \A t \in Tags : t = local.manual => jobs[t] # "running"
=============================================================================
