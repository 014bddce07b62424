------------------------- MODULE ReplicationMachine -------------------------
(***************************************************************************)
(* The synchronization state machine shared by ReplicationSource and       *)
(* ReplicationDestination (internal/controller/statemachine), run by the   *)
(* reconciler of one custom resource (replicationsource_controller.go,     *)
(* replicationdestination_controller.go).                                  *)
(*                                                                         *)
(* A reconcile is not atomic.  It reads the resource from the informer     *)
(* cache, runs the machine on that private copy (calling the data mover),  *)
(* and writes the copy's status back under optimistic concurrency.  In     *)
(* between, the user edits the resource, the mover's Job makes progress,   *)
(* time passes and the operator may restart.                               *)
(*                                                                         *)
(* The data mover is kept to its contract (mover.go) as the Job-based      *)
(* movers implement it: Synchronize starts a Job, waits for it and reports *)
(* completion once it succeeded; Cleanup deletes it.                       *)
(*                                                                         *)
(* Left out: Prometheus metrics, events, log lines and the sync duration,  *)
(* which no decision of the machine reads.                                 *)
(***************************************************************************)
EXTENDS Integers

CONSTANTS
  Tags,             \* values a user gives to spec.trigger.manual
  NoTag,            \* the empty string
  Crons,            \* cronspecs: a valid one is "every p ticks", see below
  InitialTriggers,  \* the triggers a resource may be created with
  DisciplinedUser,  \* the user sets a new tag only once the last one is done
  MaxTime,          \* bound on the clock
  MaxEdits,         \* bound on the user's edits of the trigger
  MaxFaults         \* bound on restarts, failing API calls and failing Jobs

NoCron  == 0        \* no spec.trigger.schedule
BadCron == -1       \* a cronspec cron.Parser rejects
Unset   == 0        \* a nil or zero *metav1.Time; the clock starts at 1

ASSUME TagAssumption == NoTag \notin Tags
ASSUME CronAssumption == NoCron \in Crons /\ Crons \subseteq Nat \cup {BadCron}
ASSUME BoundAssumption ==
  /\ MaxTime \in Nat
  /\ MaxEdits \in Nat
  /\ MaxFaults \in Nat
  /\ DisciplinedUser \in BOOLEAN
ASSUME TriggerAssumption ==
  InitialTriggers \subseteq [manual : Tags \cup {NoTag}, sched : Crons]

VARIABLES
  now,            \* the clock
  api,            \* the resource in the API server
  cached,         \* the resource in the operator's informer cache
  cachedCurrent,  \* cached carries api's resourceVersion
  pc,             \* the reconcile's position
  local,          \* the reconcile's copy of the resource
  localCurrent,   \* local carries api's resourceVersion
  res,            \* does the reconcile return an error?
  after,          \* absolute time of the requeue it asks for, or Unset
  queue,          \* the resource is in the work queue
  timer,          \* pending delayed requeue, or Unset
  job,            \* the mover's Job
  edits,          \* edits made so far
  faults,         \* restarts, failed API calls and failed Jobs so far
  runCovers,      \* auxiliary: the running sync began after the last tag edit
  covered,        \* auxiliary: so did the last sync that completed
  credited        \* auxiliary: the Job's success is already in lastSyncTime

envVars    == <<edits, faults>>
ghostVars  == <<runCovers, covered, credited>>
storeVars  == <<api, cached, cachedCurrent>>
localVars  == <<pc, local, localCurrent, res, after>>
wakeVars   == <<queue, timer>>
vars == <<now, storeVars, localVars, wakeVars, job, envVars, ghostVars>>

Conditions == {"None", "Sync", "Cleanup", "Scheduled", "Manual", "Error"}
Jobs == {"none", "running", "failed", "done"}

\* The part of the resource the machine reads and writes.
Resources ==
  [manual : Tags \cup {NoTag}, sched : Crons,
   lst : Nat, lsst : Nat, next : Nat,
   lastManual : Tags \cup {NoTag}, cond : Conditions]

NewResource(t) ==
  [manual |-> t.manual, sched |-> t.sched, lst |-> Unset, lsst |-> Unset,
   next |-> Unset, lastManual |-> NoTag, cond |-> "None"]

\* What `local` holds between reconciles, when the copy has been dropped.
Discarded == NewResource([manual |-> NoTag, sched |-> NoCron])

-----------------------------------------------------------------------------
(* Triggers, schedule and state, as machine.go derives them from a copy r. *)

getTrigger(r) ==
  IF r.manual # NoTag THEN "manual"
  ELSE IF r.sched # NoCron THEN "schedule"
  ELSE "none"

\* cron.Schedule.Next: the first activation strictly after t.
Next_(p, t) == ((t \div p) + 1) * p

\* getSchedule fails: only ever asked when the schedule is the trigger.
BadSchedule(r) == getTrigger(r) = "schedule" /\ r.sched = BadCron

currentState(r) ==
  IF r.lst = Unset /\ r.lsst = Unset THEN "initial"
  ELSE IF r.lsst # Unset THEN "synchronizing"
  ELSE "cleaningup"

\* Mutant: counts from the present instead of from the last sync.
updateNextSyncStartTimeFromNow(r) ==
  [r EXCEPT !.next = IF getTrigger(r) = "schedule"
                     THEN Next_(r.sched, now) ELSE Unset]

updateNextSyncStartTime(r) ==
  [r EXCEPT !.next = IF getTrigger(r) = "schedule"
                     THEN Next_(r.sched, r.lst) ELSE Unset]

\* Mutant: a manual trigger is not compared with the one already served.
shouldSyncAgain(r, t) == getTrigger(r) = "schedule" => t > r.next

shouldSync(r, t) ==
  CASE getTrigger(r) = "schedule" -> t > r.next
    [] getTrigger(r) = "manual"   -> r.manual # r.lastManual
    [] OTHER                      -> TRUE

transitionToSynchronizing(r, t) == [r EXCEPT !.lsst = t, !.cond = "Sync"]

\* Mutant: the start time is not reset, so the sync is not over.
transitionToCleaningUpKeepsStart(r, t) ==
  [updateNextSyncStartTime([r EXCEPT !.lst = t]) EXCEPT
     !.lastManual = r.manual, !.cond = "Cleanup"]

\* Mutant: the manual trigger is not acknowledged.
transitionToCleaningUpNoAck(r, t) ==
  [updateNextSyncStartTime([r EXCEPT !.lst = t]) EXCEPT
     !.lsst = Unset, !.cond = "Cleanup"]

\* With a cronspec that does not parse, the function fails after it has
\* recorded the end time and before it leaves the synchronizing state.
transitionToCleaningUp(r, t) ==
  LET ended == [r EXCEPT !.lst = t] IN
  IF BadSchedule(r)
  THEN [ended EXCEPT !.cond = "Error"]
  ELSE [updateNextSyncStartTime(ended) EXCEPT
          !.lastManual = r.manual, !.lsst = Unset, !.cond = "Cleanup"]

setConditionIdle(r) ==
  [r EXCEPT !.cond = IF getTrigger(r) = "schedule"
                     THEN "Scheduled" ELSE "Manual"]

\* Run's own deadline check parses the schedule once a sync has completed.
DeadlineUnparsable(r) == r.lst # Unset /\ BadSchedule(r)

Syncing(r) == r.lsst # Unset

-----------------------------------------------------------------------------
Init ==
  /\ now = 1
  /\ \E t \in InitialTriggers : api = NewResource(t)
  /\ cached = api /\ cachedCurrent = TRUE
  /\ pc = "idle" /\ local = Discarded /\ localCurrent = FALSE
  /\ res = "ok" /\ after = Unset
  /\ queue = TRUE /\ timer = Unset
  /\ job = "none"
  /\ edits = 0 /\ faults = 0
  /\ runCovers = FALSE /\ covered = FALSE /\ credited = FALSE

(* Reconcile: r.Get reads the informer cache. *)
Get ==
  /\ pc = "idle" /\ queue
  /\ pc' = "run"
  /\ local' = cached /\ localCurrent' = cachedCurrent
  /\ res' = "ok" /\ after' = Unset
  /\ queue' = FALSE
  /\ UNCHANGED <<now, storeVars, timer, job, envVars, ghostVars>>

Fault ==
  /\ faults < MaxFaults
  /\ faults' = faults + 1

\* The machine returns: go on to write `r` back.
Return(r, result, wake) ==
  /\ pc' = "write" /\ local' = r /\ res' = result /\ after' = wake
  /\ UNCHANGED <<now, storeVars, localCurrent, wakeVars, edits,
                 runCovers, covered>>

ReturnError(r) == Return([r EXCEPT !.cond = "Error"], "error", Unset)

Run(state) ==
  /\ pc = "run"
  /\ ~DeadlineUnparsable(local)
  /\ currentState(local) = state

RunDeadlineError ==
  /\ pc = "run"
  /\ DeadlineUnparsable(local)
  /\ ReturnError(local)
  /\ UNCHANGED <<job, faults, credited>>

doInitialState ==
  /\ Run("initial")
  /\ Return(transitionToSynchronizing(local, now), "ok", Unset)
  /\ UNCHANGED <<job, faults, credited>>

(* doSynchronizingState, by the outcome of mover.Synchronize. *)

\* mover.InProgress(): come back in a minute, or when a watched object moves.
InProgressRetry == 1
SyncInProgress ==
  /\ Run("synchronizing")
  /\ Return([local EXCEPT !.cond = "Sync"], "ok", now + InProgressRetry)

\* The volumes or secrets the Job needs are not there yet.
SynchronizeWaits ==
  /\ job = "none"
  /\ SyncInProgress
  /\ UNCHANGED <<job, faults, credited>>

SynchronizeStartsJob ==
  /\ job = "none"
  /\ SyncInProgress
  /\ job' = "running"
  /\ UNCHANGED <<faults, credited>>

SynchronizeJobRunning ==
  /\ job = "running"
  /\ SyncInProgress
  /\ UNCHANGED <<job, faults, credited>>

\* Backoff limit reached: the Job is deleted, to be created again later.
SynchronizeDeletesFailedJob ==
  /\ job = "failed"
  /\ SyncInProgress
  /\ job' = "none"
  /\ UNCHANGED <<faults, credited>>

SynchronizeFails ==
  /\ Run("synchronizing")
  /\ Fault
  /\ ReturnError(local)
  /\ UNCHANGED <<job, credited>>

SynchronizeCompletes ==
  /\ job = "done"
  /\ Run("synchronizing")
  /\ Return(transitionToCleaningUp(local, now),
            IF BadSchedule(local) THEN "error" ELSE "ok", Unset)
  /\ UNCHANGED <<job, faults, credited>>

(* doCleanupState, by the outcome of mover.Cleanup. *)

\* An error part way: the Job may or may not have been deleted.
CleanupFails ==
  /\ Run("cleaningup")
  /\ Fault
  /\ ReturnError(local)
  /\ \/ UNCHANGED <<job, credited>>
     \/ job' = "none" /\ credited' = FALSE

\* Mutant: decides with the deadline stored when the last sync ended.
CleanupThenSyncStale ==
  /\ Run("cleaningup")
  /\ shouldSync(local, now)
  /\ job' = "none" /\ credited' = FALSE
  /\ Return(transitionToSynchronizing(local, now), "ok", Unset)
  /\ UNCHANGED faults

\* Mutant: the mover's Cleanup leaves the Job behind.
CleanupThenSyncKeepsJob ==
  LET r == updateNextSyncStartTime(local) IN
  /\ Run("cleaningup")
  /\ shouldSync(r, now)
  /\ Return(transitionToSynchronizing(r, now), "ok", Unset)
  /\ UNCHANGED <<job, credited, faults>>

CleanupThenSync ==
  LET r == updateNextSyncStartTime(local) IN
  /\ Run("cleaningup")
  /\ shouldSync(r, now)
  /\ job' = "none" /\ credited' = FALSE
  /\ Return(transitionToSynchronizing(r, now), "ok", Unset)
  /\ UNCHANGED faults

CleanupThenIdle ==
  LET r == updateNextSyncStartTime(local) IN
  /\ Run("cleaningup")
  /\ ~shouldSync(r, now)
  /\ job' = "none" /\ credited' = FALSE
  /\ pc' = "requeue"
  /\ local' = setConditionIdle(r)
  /\ UNCHANGED <<now, storeVars, localCurrent, res, after, wakeVars, envVars,
                 runCovers, covered>>

\* Mutant: a duration where a time is expected, of either sign.
timeToNextSyncUnchecked ==
  /\ pc = "requeue"
  /\ pc' = "write"
  /\ after' = local.next - now
  /\ UNCHANGED <<now, storeVars, local, localCurrent, res, wakeVars, job,
                 envVars, ghostVars>>

\* The clock is read again: a deadline that passed meanwhile gives a duration
\* that is not positive, which controller-runtime takes as "do not requeue".
timeToNextSync ==
  /\ pc = "requeue"
  /\ pc' = "write"
  /\ after' = IF local.next > now THEN local.next ELSE Unset
  /\ UNCHANGED <<now, storeVars, local, localCurrent, res, wakeVars, job,
                 envVars, ghostVars>>

-----------------------------------------------------------------------------
(* The end of Reconcile. *)

Finish ==
  /\ pc' = "idle" /\ local' = Discarded /\ localCurrent' = FALSE
  /\ res' = "ok" /\ after' = Unset

\* controller-runtime: errors are requeued with backoff, RequeueAfter goes to
\* the delaying queue, which keeps the earlier of two deadlines.
Requeue ==
  /\ queue' = (queue \/ res = "error")
  /\ timer' = IF after # Unset /\ (timer = Unset \/ after < timer)
              THEN after ELSE timer

\* Mutant: the status is written without regard to the resourceVersion.
UpdateStatusBlind ==
  /\ pc = "write"
  /\ api' = [local EXCEPT !.manual = api.manual, !.sched = api.sched]
  /\ cachedCurrent' = (cachedCurrent /\ local = api)
  /\ Requeue
  /\ Finish
  /\ UNCHANGED <<now, cached, job, envVars, ghostVars>>

\* Status().Update with the current resourceVersion.  An update that changes
\* nothing produces no new version.
UpdateStatus ==
  /\ pc = "write"
  /\ localCurrent
  /\ api' = local
  /\ cachedCurrent' = (cachedCurrent /\ local = api)
  /\ Requeue
  /\ Finish
  /\ LET starts == ~Syncing(api) /\ Syncing(local)
         ends   == Syncing(api) /\ ~Syncing(local)
     IN /\ runCovers' = (starts \/ runCovers)
        /\ covered' = IF ends THEN runCovers ELSE covered
        /\ credited' = (credited \/ local.lst # api.lst)
  /\ UNCHANGED <<now, cached, job, envVars>>

\* A conflict (the version read is no longer current) or a failing call: the
\* whole reconcile is retried and what it computed is lost.
UpdateStatusFails ==
  /\ pc = "write"
  /\ \/ ~localCurrent /\ UNCHANGED faults
     \/ localCurrent /\ Fault
  /\ queue' = TRUE
  /\ Finish
  /\ UNCHANGED <<now, storeVars, timer, job, edits, ghostVars>>

-----------------------------------------------------------------------------
(* Everything around the reconciler. *)

\* The watch delivers the current version, and the event queues a reconcile.
CacheSync ==
  /\ ~cachedCurrent
  /\ cached' = api /\ cachedCurrent' = TRUE
  /\ queue' = TRUE
  /\ UNCHANGED <<now, api, localVars, timer, job, envVars, ghostVars>>

\* AddAfter starts counting after time.Until has read the clock, so the
\* deadline is strictly past when it fires.  (At the model's horizon, where
\* the clock stops, a pending timer fires as well.)
TimerFires ==
  /\ timer # Unset
  /\ now > timer \/ now = MaxTime
  /\ timer' = Unset /\ queue' = TRUE
  /\ UNCHANGED <<now, storeVars, localVars, job, envVars, ghostVars>>

\* The informer's periodic resync reconciles every resource.
Resync ==
  /\ ~queue
  /\ queue' = TRUE
  /\ UNCHANGED <<now, storeVars, localVars, timer, job, envVars, ghostVars>>

\* The mover's pods finish; the owned Job's event queues a reconcile.
JobEnds(outcome) ==
  /\ job = "running"
  /\ job' = outcome
  /\ IF outcome = "failed" THEN Fault ELSE UNCHANGED faults
  /\ queue' = TRUE
  /\ UNCHANGED <<now, storeVars, localVars, timer, edits, ghostVars>>

Tick ==
  /\ now < MaxTime
  /\ now' = now + 1
  /\ UNCHANGED <<storeVars, localVars, wakeVars, job, envVars, ghostVars>>

Edit(r) ==
  /\ edits < MaxEdits
  /\ r # api
  /\ edits' = edits + 1
  /\ api' = r
  /\ cachedCurrent' = FALSE /\ localCurrent' = FALSE
  /\ UNCHANGED <<now, cached, pc, local, res, after, wakeVars, job, faults,
                 credited>>

\* triggers.rst recommends to wait for lastManualSync before the next tag.
SetManual(t) ==
  /\ DisciplinedUser =>
       t # NoTag /\ api.manual # NoTag /\ api.lastManual = api.manual
  /\ Edit([api EXCEPT !.manual = t])
  /\ runCovers' = FALSE /\ covered' = FALSE

SetSchedule(s) ==
  /\ Edit([api EXCEPT !.sched = s])
  /\ UNCHANGED <<runCovers, covered>>

\* The operator restarts: the reconcile in flight and the queue are lost, the
\* cache is listed afresh and every resource is reconciled.
Crash ==
  /\ Fault
  /\ cached' = api /\ cachedCurrent' = TRUE
  /\ Finish
  /\ queue' = TRUE /\ timer' = Unset
  /\ UNCHANGED <<now, api, job, edits, ghostVars>>

-----------------------------------------------------------------------------
RunStep ==
  \/ RunDeadlineError \/ doInitialState
  \/ SynchronizeWaits \/ SynchronizeStartsJob \/ SynchronizeJobRunning
  \/ SynchronizeDeletesFailedJob \/ SynchronizeFails \/ SynchronizeCompletes
  \/ CleanupFails \/ CleanupThenSync \/ CleanupThenIdle

Reconcile ==
  Get \/ RunStep \/ timeToNextSync \/ UpdateStatus \/ UpdateStatusFails

Environment ==
  \/ CacheSync \/ TimerFires \/ Resync \/ Tick \/ Crash
  \/ \E outcome \in {"done", "failed"} : JobEnds(outcome)
  \/ \E t \in Tags \cup {NoTag} : SetManual(t)
  \/ \E s \in Crons : SetSchedule(s)

Next == Reconcile \/ Environment

Spec == Init /\ [][Next]_vars

(***************************************************************************)
(* Fairness.  controller-runtime serves the queue, retries what failed and *)
(* delivers watch events for as long as the operator runs; pods of a Job   *)
(* end.  A mover may be waiting for its volumes, but not for ever: strong  *)
(* fairness of starting the Job.  Faults are finitely many (MaxFaults).    *)
(***************************************************************************)
Fairness ==
  /\ WF_vars(Get) /\ WF_vars(timeToNextSync)
  /\ WF_vars(RunStep) /\ SF_vars(SynchronizeStartsJob)
  /\ WF_vars(UpdateStatus \/ UpdateStatusFails)
  /\ WF_vars(CacheSync) /\ WF_vars(TimerFires) /\ WF_vars(Tick)
  /\ WF_vars(JobEnds("done"))

FairSpec == Spec /\ Fairness

-----------------------------------------------------------------------------
(* Properties. *)

(* Type invariant: flags apart from values, as the proofs treat them.      *)
FlagsOK ==
  /\ cachedCurrent \in BOOLEAN /\ localCurrent \in BOOLEAN
  /\ queue \in BOOLEAN
  /\ runCovers \in BOOLEAN /\ covered \in BOOLEAN /\ credited \in BOOLEAN

ValuesOK ==
  /\ now \in Nat \ {0}
  /\ api \in Resources /\ cached \in Resources /\ local \in Resources
  /\ pc \in {"idle", "run", "requeue", "write"}
  /\ res \in {"ok", "error"} /\ after \in Nat /\ timer \in Nat
  /\ job \in Jobs
  /\ edits \in Nat /\ faults \in Nat

TypeOK == FlagsOK /\ ValuesOK

(* triggers.rst, "Manual": a user who waits for lastManualSync to equal    *)
(* spec.trigger.manual before setting the next tag knows, once they are    *)
(* equal again, that the sync so acknowledged began after the tag was set, *)
(* whatever reconciles were in flight when the tag was edited              *)
(* (machine.go:212 copies the tag at the end of a sync, not at its start). *)
ManualSyncIsFresh ==
  DisciplinedUser /\ api.manual # NoTag /\ api.lastManual = api.manual
    => covered

(* A scheduled sync never begins before the cronspec in force when its     *)
(* start is recorded allows it, even if the schedule is edited while the   *)
(* deciding reconcile is in flight (machine.go:127-136, 225-230).          *)
NoEarlyScheduledStart ==
  [][ (/\ ~Syncing(api) /\ Syncing(api')
       /\ api'.lst # Unset /\ getTrigger(api') = "schedule")
      => api'.lsst > Next_(api'.sched, api'.lst) ]_vars

(* lastSyncTime is the end of the most recent sync: one Job's success is   *)
(* recorded there once, however often the reconcile that saw it is         *)
(* retried (machine.go:198-199, replicationsource_controller.go:154).      *)
OneCreditPerJob == [][ api'.lst # api.lst => ~credited ]_vars

(* The machine seen through its status implements SyncCycle.               *)
Cycle == INSTANCE SyncCycle
           WITH Acks  <- Tags \cup {NoTag},
                phase <- currentState(api),
                moved <- job = "done",
                ack   <- api.lastManual
ImplementsSyncCycle == Cycle!Spec

(* Why it does: a copy of the resource that is behind the API server is at *)
(* most one phase behind, and then the Job is in the one state in which    *)
(* acting on the old phase does no harm.                                   *)
LagIsHarmless(r) ==
  Syncing(r) # Syncing(api) => job = IF Syncing(api) THEN "none" ELSE "done"

\* What a reconcile that may still write its copy is about to do to the API.
Outcome(r) ==
  \/ currentState(r) = currentState(api) /\ r.lastManual = api.lastManual
  \/ /\ ~Syncing(api) /\ Syncing(r) /\ job = "none"
     /\ r.lastManual = api.lastManual
  \/ Syncing(api) /\ currentState(r) = "cleaningup" /\ job = "done"

VersionsInv ==
  /\ cachedCurrent => cached = api
  /\ localCurrent => cachedCurrent /\ pc # "idle"
  /\ localCurrent /\ pc = "run" => local = api

JobInv ==
  /\ ~Syncing(api) => job \in {"none", "done"}
  /\ ~Syncing(api) /\ job = "done" => api.lst # Unset

PhaseInv ==
  /\ VersionsInv
  /\ JobInv
  /\ LagIsHarmless(cached)
  /\ pc = "run" =>
       /\ LagIsHarmless(local)
       /\ Syncing(local) = Syncing(cached) \/ Syncing(cached) = Syncing(api)
  /\ pc \in {"requeue", "write"} /\ localCurrent => Outcome(local)

\* A reconcile that may still write, and what it is about to write.
Pending == pc \in {"requeue", "write"} /\ localCurrent
Starting == Pending /\ ~Syncing(api) /\ Syncing(local)

ScheduleInv ==
  Starting /\ local.lst # Unset /\ getTrigger(local) = "schedule" =>
    local.lsst > Next_(local.sched, local.lst)

\* With a tag set, a sync only begins, and goes on, for that tag.
FreshInv ==
  DisciplinedUser =>
    /\ ManualSyncIsFresh
    /\ api.manual # NoTag /\ Syncing(api) =>
         api.lastManual # api.manual /\ runCovers
    /\ currentState(api) = "initial" => api.lastManual = NoTag
    /\ Pending => local.manual = api.manual
    /\ Starting /\ local.manual # NoTag => local.lastManual # local.manual

\* Unless a cronspec does not parse, see transitionToCleaningUp.
CreditInv ==
  BadCron \notin Crons =>
    /\ credited => ~Syncing(api) /\ job = "done"
    /\ Pending /\ local.lst # api.lst =>
         Syncing(api) /\ ~Syncing(local) /\ job = "done"

(* A manual trigger that is left in place is eventually acknowledged.      *)
ManualTriggerCompletes ==
  \A t \in Tags : api.manual = t ~> (api.lastManual = t \/ api.manual # t)

(* Once the time a cronspec asks for has passed, a sync starts (unless the *)
(* trigger is edited away).  Events, errors and timers alone do not ensure *)
(* it: timeToNextSync may ask for no requeue (machine.go:244-252), and the *)
(* informer's periodic resync is what then wakes the resource.             *)
ScheduledSyncStarts ==
  WF_vars(Resync) =>
    ((/\ getTrigger(api) = "schedule" /\ ~BadSchedule(api)
      /\ api.lst # Unset /\ now > Next_(api.sched, api.lst))
       ~> (Syncing(api) \/ getTrigger(api) # "schedule" \/ BadSchedule(api)
           \/ now <= Next_(api.sched, api.lst)))
=============================================================================
