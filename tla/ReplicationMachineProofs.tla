---------------------- MODULE ReplicationMachineProofs ----------------------
(***************************************************************************)
(* Proofs about ReplicationMachine, for every set of tags and cronspecs    *)
(* and every bound.                                                        *)
(***************************************************************************)
EXTENDS ReplicationMachine, TLAPS

-----------------------------------------------------------------------------
(* What the machine's operators return. *)

(* The next activation of a valid cronspec is a time.                      *)
LEMMA NextType ==
  ASSUME NEW p \in Nat \ {0}, NEW t \in Nat
  PROVE  Next_(p, t) \in Nat
<1>1. t \div p \in Nat
  OBVIOUS
<1>2. QED
  BY <1>1 DEF Next_

(* Operators on a copy of the resource return a copy of the resource, when *)
(* they are called the way Run calls them: machine.go never computes a     *)
(* next time from a cronspec that does not parse.                          *)
LEMMA UpdateNextType ==
  ASSUME NEW r \in Resources, ~BadSchedule(r)
  PROVE  /\ updateNextSyncStartTime(r) \in Resources
         /\ updateNextSyncStartTime(r).lsst = r.lsst
         /\ updateNextSyncStartTime(r).lst = r.lst
<1>1. CASE getTrigger(r) = "schedule"
  <2>1. r.sched \in Nat \ {0}
    BY <1>1, CronAssumption DEF BadSchedule, getTrigger, Resources, NoCron, BadCron
  <2>2. Next_(r.sched, r.lst) \in Nat
    BY <2>1, NextType DEF Resources
  <2>3. QED
    BY <1>1, <2>2 DEF updateNextSyncStartTime, Resources
<1>2. CASE getTrigger(r) # "schedule"
  BY <1>2 DEF updateNextSyncStartTime, Resources, Unset
<1>3. QED
  BY <1>1, <1>2

LEMMA StartType ==
  ASSUME NEW r \in Resources, NEW t \in Nat \ {0}
  PROVE  /\ transitionToSynchronizing(r, t) \in Resources
         /\ Syncing(transitionToSynchronizing(r, t))
         /\ transitionToSynchronizing(r, t).lst = r.lst
         /\ transitionToSynchronizing(r, t).lastManual = r.lastManual
BY DEF transitionToSynchronizing, Resources, Conditions, Syncing, Unset

LEMMA ErrorType ==
  ASSUME NEW r \in Resources, NEW c \in Conditions
  PROVE  /\ [r EXCEPT !.cond = c] \in Resources
         /\ currentState([r EXCEPT !.cond = c]) = currentState(r)
         /\ [r EXCEPT !.cond = c].lastManual = r.lastManual
         /\ [r EXCEPT !.cond = c].lsst = r.lsst
BY DEF Resources, currentState

(* transitionToCleaningUp either leaves the synchronizing state, with an   *)
(* end time recorded, or (cronspec unparsable) stays in it.                *)
LEMMA EndType ==
  ASSUME NEW r \in Resources, NEW t \in Nat \ {0}, Syncing(r)
  PROVE  /\ transitionToCleaningUp(r, t) \in Resources
         /\ ~BadSchedule(r) =>
              currentState(transitionToCleaningUp(r, t)) = "cleaningup"
         /\ BadSchedule(r) =>
              /\ currentState(transitionToCleaningUp(r, t)) = "synchronizing"
              /\ transitionToCleaningUp(r, t).lastManual = r.lastManual
<1> DEFINE ended == [r EXCEPT !.lst = t]
<1>1. /\ ended \in Resources /\ ended.lst = t /\ ended.lsst = r.lsst
      /\ ended.lastManual = r.lastManual
      /\ ended.manual = r.manual /\ ended.sched = r.sched
  BY DEF Resources
<1>2. BadSchedule(ended) <=> BadSchedule(r)
  BY <1>1 DEF BadSchedule, getTrigger
<1>3. CASE BadSchedule(r)
  <2>1. transitionToCleaningUp(r, t) = [ended EXCEPT !.cond = "Error"]
    BY <1>3 DEF transitionToCleaningUp
  <2>2. "Error" \in Conditions
    BY DEF Conditions
  <2>3. currentState(ended) = "synchronizing"
    BY <1>1 DEF currentState, Syncing
  <2> HIDE DEF ended
  <2>4. QED
    BY <1>1, <1>3, <2>1, <2>2, <2>3, ErrorType
<1>4. CASE ~BadSchedule(r)
  <2> DEFINE u == updateNextSyncStartTime(ended)
  <2>1. u \in Resources /\ u.lst = t
    BY <1>1, <1>2, <1>4, UpdateNextType
  <2>2. transitionToCleaningUp(r, t) =
          [u EXCEPT !.lastManual = r.manual, !.lsst = Unset, !.cond = "Cleanup"]
    BY <1>4 DEF transitionToCleaningUp
  <2> HIDE DEF u
  <2>3. transitionToCleaningUp(r, t) \in Resources
    <3>1. r.manual \in Tags \cup {NoTag} /\ Unset \in Nat /\ "Cleanup" \in Conditions
      BY DEF Resources, Conditions, Unset
    <3>2. QED
      BY <2>1, <2>2, <3>1 DEF Resources
  <2>4. /\ transitionToCleaningUp(r, t).lst = t
        /\ transitionToCleaningUp(r, t).lsst = Unset
    BY <2>1, <2>2 DEF Resources
  <2>5. QED
    BY <1>4, <2>3, <2>4 DEF currentState, Unset
<1>5. QED
  BY <1>3, <1>4

LEMMA NewResourceType ==
  ASSUME NEW t \in [manual : Tags \cup {NoTag}, sched : Crons]
  PROVE  /\ NewResource(t) \in Resources
         /\ currentState(NewResource(t)) = "initial"
BY DEF NewResource, Resources, Conditions, currentState, Unset

LEMMA DiscardedType == Discarded \in Resources
<1>1. [manual |-> NoTag, sched |-> NoCron]
        \in [manual : Tags \cup {NoTag}, sched : Crons]
  BY CronAssumption
<1>2. QED
  BY <1>1, NewResourceType DEF Discarded

(* In the cleaning-up state Run has already parsed the schedule.           *)
LEMMA CleaningUpParses ==
  ASSUME Run("cleaningup"), local \in Resources
  PROVE  ~BadSchedule(local) /\ local.lst # Unset /\ ~Syncing(local)
BY DEF Run, DeadlineUnparsable, currentState, Syncing

-----------------------------------------------------------------------------
(* Type correctness. *)

LEMMA TypeInit == Init => TypeOK
<1> SUFFICES ASSUME Init PROVE TypeOK
  OBVIOUS
<1>1. api \in Resources
  BY TriggerAssumption, NewResourceType DEF Init
<1>2. ValuesOK
  BY <1>1, DiscardedType DEF Init, ValuesOK, Unset, Jobs
<1>3. FlagsOK
  BY Zenon DEF Init, FlagsOK
<1>4. QED
  BY <1>2, <1>3 DEF TypeOK

\* A step of the machine leaves a well-formed copy behind.
LEMMA RunStepType ==
  ASSUME ValuesOK, RunStep
  PROVE  ValuesOK'
<1> USE DEF ValuesOK, Return, Unset, Jobs, Fault, wakeVars, storeVars
<1> "Error" \in Conditions /\ "Sync" \in Conditions
  BY DEF Conditions
<1>1. CASE RunDeadlineError
  BY <1>1, ErrorType DEF RunDeadlineError, ReturnError
<1>2. CASE doInitialState
  BY <1>2, StartType DEF doInitialState
<1>3. CASE SynchronizeWaits \/ SynchronizeStartsJob \/ SynchronizeJobRunning
             \/ SynchronizeDeletesFailedJob
  <2>1. SyncInProgress /\ faults' = faults /\ job' \in Jobs
    BY <1>3 DEF SynchronizeWaits, SynchronizeStartsJob, SynchronizeJobRunning,
                SynchronizeDeletesFailedJob
  <2>2. QED
    BY <2>1, ErrorType DEF SyncInProgress, InProgressRetry
<1>4. CASE SynchronizeFails
  BY <1>4, ErrorType DEF SynchronizeFails, ReturnError
<1>5. CASE SynchronizeCompletes
  <2>1. Syncing(local)
    BY <1>5 DEF SynchronizeCompletes, Run, currentState, Syncing
  <2>2. transitionToCleaningUp(local, now) \in Resources
    BY <2>1, EndType
  <2>3. QED
    BY <1>5, <2>2 DEF SynchronizeCompletes
<1>6. CASE CleanupFails
  <2>1. job' \in Jobs
    BY <1>6 DEF CleanupFails
  <2>2. QED
    BY <1>6, <2>1, ErrorType DEF CleanupFails, ReturnError
<1>7. CASE CleanupThenSync
  <2>1. updateNextSyncStartTime(local) \in Resources
    BY <1>7, CleaningUpParses, UpdateNextType DEF CleanupThenSync
  <2>2. QED
    BY <1>7, <2>1, StartType DEF CleanupThenSync
<1>8. CASE CleanupThenIdle
  <2>1. updateNextSyncStartTime(local) \in Resources
    BY <1>8, CleaningUpParses, UpdateNextType DEF CleanupThenIdle
  <2>2. setConditionIdle(updateNextSyncStartTime(local)) \in Resources
    BY <2>1 DEF setConditionIdle, Resources, Conditions
  <2>3. /\ local' = setConditionIdle(updateNextSyncStartTime(local))
        /\ job' = "none" /\ pc' = "requeue"
        /\ UNCHANGED <<now, api, cached, res, after, timer, edits, faults>>
    BY <1>8, Zenon DEF CleanupThenIdle, envVars
  <2>4. QED
    BY <2>2, <2>3
<1>9. QED
  BY <1>1, <1>2, <1>3, <1>4, <1>5, <1>6, <1>7, <1>8 DEF RunStep

LEMMA ValuesStep == ValuesOK /\ [Next]_vars => ValuesOK'
<1> SUFFICES ASSUME ValuesOK, [Next]_vars PROVE ValuesOK'
  OBVIOUS
<1> USE DEF ValuesOK, Unset, Jobs, Fault, envVars, ghostVars, storeVars,
            localVars, wakeVars
<1>1. CASE Get
  BY <1>1 DEF Get
<1>2. CASE RunStep
  BY <1>2, RunStepType
<1>3. CASE timeToNextSync
  BY <1>3 DEF timeToNextSync, Resources
<1>4. CASE UpdateStatus
  BY <1>4, DiscardedType DEF UpdateStatus, Requeue, Finish
<1>5. CASE UpdateStatusFails
  BY <1>5, DiscardedType DEF UpdateStatusFails, Finish
<1>6. CASE CacheSync \/ TimerFires \/ Resync \/ Tick
  BY <1>6 DEF CacheSync, TimerFires, Resync, Tick
<1>7. CASE Crash
  BY <1>7, DiscardedType DEF Crash, Finish
<1>8. CASE \E outcome \in {"done", "failed"} : JobEnds(outcome)
  BY <1>8 DEF JobEnds
<1>9. CASE \E t \in Tags \cup {NoTag} : SetManual(t)
  <2>1. PICK t \in Tags \cup {NoTag} : Edit([api EXCEPT !.manual = t])
    BY <1>9 DEF SetManual
  <2>2. [api EXCEPT !.manual = t] \in Resources
    BY DEF Resources
  <2>3. QED
    BY <2>1, <2>2 DEF Edit
<1>10. CASE \E c \in Crons : SetSchedule(c)
  <2>1. PICK c \in Crons : Edit([api EXCEPT !.sched = c])
    BY <1>10 DEF SetSchedule
  <2>2. [api EXCEPT !.sched = c] \in Resources
    BY DEF Resources
  <2>3. QED
    BY <2>1, <2>2 DEF Edit
<1>11. CASE UNCHANGED vars
  BY <1>11 DEF vars
<1>12. QED
  BY <1>1, <1>2, <1>3, <1>4, <1>5, <1>6, <1>7, <1>8, <1>9, <1>10, <1>11
     DEF Next, Reconcile, Environment

LEMMA FlagsStep == FlagsOK /\ [Next]_vars => FlagsOK'
<1> SUFFICES ASSUME FlagsOK, [Next]_vars PROVE FlagsOK'
  OBVIOUS
<1> USE DEF FlagsOK, envVars, ghostVars, storeVars, localVars, wakeVars
<1>1. CASE Get
  BY <1>1, Zenon DEF Get
<1>2. CASE RunDeadlineError \/ doInitialState \/ SynchronizeWaits
             \/ SynchronizeStartsJob \/ SynchronizeJobRunning
             \/ SynchronizeDeletesFailedJob \/ SynchronizeFails
             \/ SynchronizeCompletes
  BY <1>2, Zenon DEF RunDeadlineError, doInitialState, SynchronizeWaits,
        SynchronizeStartsJob, SynchronizeJobRunning, SynchronizeFails,
        SynchronizeDeletesFailedJob, SynchronizeCompletes, SyncInProgress,
        ReturnError, Return
<1>3. CASE CleanupFails \/ CleanupThenSync \/ CleanupThenIdle
  BY <1>3, Zenon DEF CleanupFails, CleanupThenSync, CleanupThenIdle,
        ReturnError, Return
<1>4. CASE timeToNextSync \/ UpdateStatusFails
  BY <1>4, Zenon DEF timeToNextSync, UpdateStatusFails, Finish
<1>5. CASE UpdateStatus
  BY <1>5, Zenon DEF UpdateStatus, Requeue, Finish
<1>6. CASE CacheSync \/ TimerFires \/ Resync \/ Tick \/ Crash
  BY <1>6, Zenon DEF CacheSync, TimerFires, Resync, Tick, Crash, Finish
<1>7. CASE \E outcome \in {"done", "failed"} : JobEnds(outcome)
  BY <1>7, Zenon DEF JobEnds
<1>8. CASE \E t \in Tags \cup {NoTag} : SetManual(t)
  BY <1>8, Zenon DEF SetManual, Edit
<1>9. CASE \E c \in Crons : SetSchedule(c)
  BY <1>9, Zenon DEF SetSchedule, Edit
<1>10. CASE UNCHANGED vars
  BY <1>10, Zenon DEF vars
<1>11. QED
  BY <1>1, <1>2, <1>3, <1>4, <1>5, <1>6, <1>7, <1>8, <1>9, <1>10
     DEF Next, Reconcile, Environment, RunStep

(* Every reachable state is well formed: no path of Run, however it fails, *)
(* leaves the resource, its copies or the requeue request outside their    *)
(* types, in particular nextSyncTime is never computed from a cronspec     *)
(* that does not parse (machine.go:282-299).                               *)
THEOREM TypeCorrect == Spec => []TypeOK
BY TypeInit, ValuesStep, FlagsStep, PTL DEF Spec, TypeOK

-----------------------------------------------------------------------------
(* The phase invariant. *)

LEMMA StateOfSyncing ==
  ASSUME NEW r \in Resources
  PROVE  /\ currentState(r) = "synchronizing" <=> Syncing(r)
         /\ currentState(r) \in {"initial", "synchronizing", "cleaningup"}
         /\ currentState(r) = "cleaningup" <=> (~Syncing(r) /\ r.lst # Unset)
         /\ currentState(r) = "initial" <=> (~Syncing(r) /\ r.lst = Unset)
BY DEF currentState, Syncing

LEMMA PhaseInit == Init => PhaseInv
<1> SUFFICES ASSUME Init PROVE PhaseInv
  OBVIOUS
<1>1. cached = api /\ pc = "idle" /\ job = "none" /\ ~localCurrent
  BY Zenon DEF Init
<1>2. QED
  BY <1>1 DEF PhaseInv, VersionsInv, JobInv, LagIsHarmless

\* What every step of the machine has in common: it touches the copy, the Job
\* and the reconcile's position only.
LEMMA RunStepFrame ==
  ASSUME RunStep
  PROVE  /\ pc = "run" /\ pc' \in {"requeue", "write"}
         /\ api' = api /\ cached' = cached
         /\ cachedCurrent' = cachedCurrent /\ localCurrent' = localCurrent
<1> USE DEF Return, ReturnError, Run, storeVars
<1>1. CASE RunDeadlineError \/ doInitialState
  BY <1>1, Zenon DEF RunDeadlineError, doInitialState
<1>2. CASE SynchronizeWaits \/ SynchronizeStartsJob \/ SynchronizeJobRunning
             \/ SynchronizeDeletesFailedJob
  BY <1>2, Zenon DEF SynchronizeWaits, SynchronizeStartsJob,
        SynchronizeJobRunning, SynchronizeDeletesFailedJob, SyncInProgress
<1>3. CASE SynchronizeFails \/ SynchronizeCompletes
  BY <1>3, Zenon DEF SynchronizeFails, SynchronizeCompletes
<1>4. CASE CleanupFails \/ CleanupThenSync \/ CleanupThenIdle
  BY <1>4, Zenon DEF CleanupFails, CleanupThenSync, CleanupThenIdle
<1>5. QED
  BY <1>1, <1>2, <1>3, <1>4 DEF RunStep

(* How a step of the machine changes the Job and the phase of its copy.    *)
LEMMA RunStepEffect ==
  ASSUME ValuesOK, RunStep
  PROVE  \/ /\ job' = job
            /\ currentState(local') = currentState(local)
            /\ local'.lastManual = local.lastManual
         \/ /\ job' = job /\ currentState(local) = "initial"
            /\ Syncing(local') /\ local'.lastManual = local.lastManual
         \/ /\ job = "none" /\ job' = "running" /\ Syncing(local)
            /\ currentState(local') = currentState(local)
            /\ local'.lastManual = local.lastManual
         \/ /\ job = "failed" /\ job' = "none" /\ Syncing(local)
            /\ currentState(local') = currentState(local)
            /\ local'.lastManual = local.lastManual
         \/ /\ job = "done" /\ job' = job
            /\ Syncing(local) /\ currentState(local') = "cleaningup"
         \/ /\ currentState(local) = "cleaningup"
            /\ job' = "none" /\ local'.lastManual = local.lastManual
            /\ currentState(local') = "cleaningup" \/ Syncing(local')
<1> USE DEF ValuesOK
<1> "Error" \in Conditions /\ "Sync" \in Conditions
  BY DEF Conditions
<1>1. CASE RunDeadlineError
  BY <1>1, ErrorType DEF RunDeadlineError, ReturnError, Return
<1>2. CASE doInitialState
  BY <1>2, StartType DEF doInitialState, Return, Run
<1>3. CASE SynchronizeWaits \/ SynchronizeJobRunning
  BY <1>3, ErrorType DEF SynchronizeWaits, SynchronizeJobRunning,
                         SyncInProgress, Return
<1>4. CASE SynchronizeStartsJob
  BY <1>4, ErrorType, StateOfSyncing
     DEF SynchronizeStartsJob, SyncInProgress, Return, Run
<1>5. CASE SynchronizeDeletesFailedJob
  BY <1>5, ErrorType, StateOfSyncing
     DEF SynchronizeDeletesFailedJob, SyncInProgress, Return, Run
<1>6. CASE SynchronizeFails
  BY <1>6, ErrorType DEF SynchronizeFails, ReturnError, Return
<1>7. CASE SynchronizeCompletes
  <2>1. Syncing(local) /\ currentState(local) = "synchronizing"
    BY <1>7, StateOfSyncing DEF SynchronizeCompletes, Run
  <2>2. /\ local' = transitionToCleaningUp(local, now)
        /\ job' = job /\ job = "done"
    BY <1>7 DEF SynchronizeCompletes, Return
  <2>3. QED
    BY <2>1, <2>2, EndType
<1>8. CASE CleanupFails
  <2>1. /\ Run("cleaningup") /\ local' = [local EXCEPT !.cond = "Error"]
        /\ job' = job \/ job' = "none"
    BY <1>8, Zenon DEF CleanupFails, ReturnError, Return
  <2>2. QED
    BY <2>1, ErrorType DEF Run
<1>9. CASE CleanupThenSync \/ CleanupThenIdle
  <2> DEFINE r == updateNextSyncStartTime(local)
  <2>1. /\ Run("cleaningup") /\ job' = "none"
        /\ \/ local' = transitionToSynchronizing(r, now)
           \/ local' = setConditionIdle(r)
    BY <1>9, Zenon DEF CleanupThenSync, CleanupThenIdle, Return
  <2>2. /\ r \in Resources /\ r.lsst = local.lsst /\ r.lst = local.lst
    BY <2>1, CleaningUpParses, UpdateNextType
  <2>3. r.lastManual = local.lastManual
    BY DEF updateNextSyncStartTime, Resources
  <2>4. currentState(r) = "cleaningup" /\ currentState(local) = "cleaningup"
    BY <2>1, <2>2 DEF Run, currentState
  <2> HIDE DEF r
  <2>5. /\ setConditionIdle(r).lastManual = r.lastManual
        /\ currentState(setConditionIdle(r)) = currentState(r)
    BY <2>2 DEF setConditionIdle, currentState, Resources
  <2>6. QED
    BY <2>1, <2>2, <2>3, <2>4, <2>5, StartType
<1>10. QED
  BY <1>1, <1>2, <1>3, <1>4, <1>5, <1>6, <1>7, <1>8, <1>9 DEF RunStep

\* An edit of the trigger leaves the status alone.
LEMMA EditFrame ==
  ASSUME ValuesOK,
         \/ \E t \in Tags \cup {NoTag} : SetManual(t)
         \/ \E c \in Crons : SetSchedule(c)
  PROVE  \E r : /\ Edit(r) /\ r.lsst = api.lsst /\ r.lst = api.lst
               /\ r.lastManual = api.lastManual
<1>1. CASE \E t \in Tags \cup {NoTag} : SetManual(t)
  <2>1. PICK t \in Tags \cup {NoTag} : Edit([api EXCEPT !.manual = t])
    BY <1>1 DEF SetManual
  <2>2. WITNESS [api EXCEPT !.manual = t]
  <2>3. QED
    BY <2>1 DEF ValuesOK, Resources
<1>2. CASE \E c \in Crons : SetSchedule(c)
  <2>1. PICK c \in Crons : Edit([api EXCEPT !.sched = c])
    BY <1>2 DEF SetSchedule
  <2>2. WITNESS [api EXCEPT !.sched = c]
  <2>3. QED
    BY <2>1 DEF ValuesOK, Resources
<1>3. QED
  BY <1>1, <1>2

LEMMA PhaseRunStep ==
  ASSUME ValuesOK, PhaseInv, RunStep
  PROVE  PhaseInv'
<1>1. /\ pc = "run" /\ pc' \in {"requeue", "write"}
      /\ api' = api /\ cached' = cached
      /\ cachedCurrent' = cachedCurrent /\ localCurrent' = localCurrent
  BY RunStepFrame
<1>2. ValuesOK' /\ local \in Resources /\ api \in Resources /\ job \in Jobs
  BY RunStepType DEF ValuesOK
<1>3. VersionsInv'
  BY <1>1 DEF PhaseInv, VersionsInv
<1>4. JobInv' /\ LagIsHarmless(cached)'
  BY <1>1, <1>2, RunStepEffect, StateOfSyncing
     DEF PhaseInv, JobInv, LagIsHarmless, Syncing
<1>5. ASSUME localCurrent' PROVE Outcome(local)'
  <2>1. local = api
    BY <1>1, <1>5 DEF PhaseInv, VersionsInv
  <2>2. QED
    BY <1>1, <1>2, <2>1, RunStepEffect, StateOfSyncing
       DEF Outcome, PhaseInv, JobInv, ValuesOK, Syncing, currentState
<1>6. QED
  BY <1>1, <1>3, <1>4, <1>5 DEF PhaseInv

LEMMA PhaseStep == ValuesOK /\ PhaseInv /\ [Next]_vars => PhaseInv'
<1> SUFFICES ASSUME ValuesOK, PhaseInv, [Next]_vars PROVE PhaseInv'
  OBVIOUS
<1> USE DEF PhaseInv, VersionsInv, JobInv, LagIsHarmless, storeVars, localVars,
            Syncing
<1>1. CASE Get
  <2>1. /\ pc' = "run" /\ local' = cached /\ localCurrent' = cachedCurrent
        /\ api' = api /\ cached' = cached /\ cachedCurrent' = cachedCurrent
        /\ job' = job
    BY <1>1, Zenon DEF Get
  <2>2. QED
    BY <2>1
<1>2. CASE RunStep
  BY <1>2, PhaseRunStep
<1>3. CASE timeToNextSync
  <2>1. /\ pc = "requeue" /\ pc' = "write" /\ local' = local
        /\ localCurrent' = localCurrent
        /\ api' = api /\ cached' = cached /\ cachedCurrent' = cachedCurrent
        /\ job' = job
    BY <1>3, Zenon DEF timeToNextSync
  <2>2. QED
    BY <2>1 DEF Outcome, currentState
<1>4. CASE UpdateStatus
  <2>1. /\ pc = "write" /\ pc' = "idle" /\ api' = local /\ cached' = cached
        /\ job' = job /\ localCurrent /\ ~localCurrent'
        /\ cachedCurrent' = (cachedCurrent /\ local = api)
    BY <1>4, Zenon DEF UpdateStatus, Finish
  <2>2. /\ cached = api /\ Outcome(local)
        /\ local \in Resources /\ api \in Resources
    BY <2>1 DEF ValuesOK
  <2>3. QED
    BY <2>1, <2>2, StateOfSyncing DEF Outcome
<1>5. CASE UpdateStatusFails
  <2>1. /\ pc' = "idle" /\ ~localCurrent' /\ api' = api /\ cached' = cached
        /\ cachedCurrent' = cachedCurrent /\ job' = job
    BY <1>5, Zenon DEF UpdateStatusFails, Finish
  <2>2. QED
    BY <2>1
<1>6. CASE CacheSync
  <2>1. /\ cached' = api /\ api' = api /\ ~cachedCurrent /\ cachedCurrent'
        /\ pc' = pc /\ local' = local /\ localCurrent' = localCurrent
        /\ job' = job
    BY <1>6, Zenon DEF CacheSync
  <2>2. QED
    BY <2>1 DEF Outcome
<1>7. CASE TimerFires \/ Resync \/ Tick \/ UNCHANGED vars
  <2>1. /\ api' = api /\ cached' = cached /\ cachedCurrent' = cachedCurrent
        /\ pc' = pc /\ local' = local /\ localCurrent' = localCurrent
        /\ job' = job
    BY <1>7, Zenon DEF TimerFires, Resync, Tick, vars
  <2>2. QED
    BY <2>1 DEF Outcome, currentState
<1>8. CASE Crash
  <2>1. /\ pc' = "idle" /\ ~localCurrent' /\ api' = api /\ cached' = api
        /\ job' = job
    BY <1>8, Zenon DEF Crash, Finish
  <2>2. QED
    BY <2>1
<1>9. CASE \E outcome \in {"done", "failed"} : JobEnds(outcome)
  <2>1. /\ api' = api /\ cached' = cached /\ cachedCurrent' = cachedCurrent
        /\ pc' = pc /\ local' = local /\ localCurrent' = localCurrent
        /\ job = "running"
    BY <1>9, Zenon DEF JobEnds
  <2>2. QED
    BY <2>1 DEF Outcome, currentState
<1>10. CASE \/ \E t \in Tags \cup {NoTag} : SetManual(t)
            \/ \E c \in Crons : SetSchedule(c)
  <2>1. PICK r : Edit(r) /\ r.lsst = api.lsst /\ r.lst = api.lst
    BY <1>10, EditFrame
  <2>2. /\ api' = r /\ cached' = cached /\ ~cachedCurrent'
        /\ pc' = pc /\ local' = local /\ ~localCurrent' /\ job' = job
    BY <2>1, Zenon DEF Edit
  <2>3. QED
    BY <2>1, <2>2
<1>11. QED
  BY <1>1, <1>2, <1>3, <1>4, <1>5, <1>6, <1>7, <1>8, <1>9, <1>10
     DEF Next, Reconcile, Environment

(* Whatever copy of the resource a reconcile works on, acting on it cannot *)
(* disturb the phase the API server shows: a stale copy meets a Job that   *)
(* makes its action a no-op, and a copy that will be accepted describes a  *)
(* legal change (replicationsource_controller.go:97-159).                  *)
THEOREM PhaseCorrect == Spec => []PhaseInv
<1>1. Spec => []ValuesOK
  BY TypeCorrect, PTL DEF TypeOK
<1>2. QED
  BY <1>1, PhaseInit, PhaseStep, PTL DEF Spec

-----------------------------------------------------------------------------
(* Refinement. *)

LEMMA CycleInit == Init => Cycle!Init
<1> SUFFICES ASSUME Init PROVE Cycle!Init
  OBVIOUS
<1>1. PICK t \in InitialTriggers : api = NewResource(t)
  BY DEF Init
<1>2. currentState(api) = "initial"
  BY <1>1, TriggerAssumption, NewResourceType
<1>3. job = "none" /\ api.lastManual = NoTag
  BY <1>1 DEF Init, NewResource
<1>4. QED
  BY <1>2, <1>3 DEF Cycle!Init

LEMMA CycleStep ==
  ValuesOK /\ PhaseInv /\ [Next]_vars => [Cycle!Next]_(Cycle!vars)
<1> SUFFICES ASSUME ValuesOK, PhaseInv, [Next]_vars
             PROVE  [Cycle!Next]_(Cycle!vars)
  OBVIOUS
<1> USE DEF Cycle!vars, storeVars, localVars
<1>1. ASSUME api' = api, job' = job
      PROVE  UNCHANGED Cycle!vars
  BY <1>1 DEF currentState
<1>2. CASE Get \/ timeToNextSync \/ UpdateStatusFails \/ CacheSync
             \/ TimerFires \/ Resync \/ Tick \/ Crash \/ UNCHANGED vars
  BY <1>1, <1>2, Zenon DEF Get, timeToNextSync, UpdateStatusFails, CacheSync,
     TimerFires, Resync, Tick, Crash, vars
<1>3. CASE RunStep
  <2>1. api' = api /\ pc = "run"
    BY <1>3, RunStepFrame
  <2>2. currentState(api') = currentState(api) /\ api'.lastManual = api.lastManual
    BY <2>1 DEF currentState
  <2>3. CASE job' = "done" <=> job = "done"
    BY <2>2, <2>3
  <2>4. CASE ~(job' = "done" <=> job = "done")
    <3>1. /\ job = "done" /\ job' # "done"
          /\ currentState(local) = "cleaningup"
      BY <1>3, <2>4, RunStepEffect
    <3>2. ~Syncing(local) /\ ~Syncing(api)
      BY <2>1, <3>1, StateOfSyncing DEF ValuesOK, PhaseInv, LagIsHarmless
    <3>3. currentState(api) = "cleaningup"
      BY <3>1, <3>2, StateOfSyncing DEF ValuesOK, PhaseInv, JobInv
    <3>4. Cycle!CleanUp
      BY <2>2, <3>1, <3>3 DEF Cycle!CleanUp
    <3>5. QED
      BY <3>4 DEF Cycle!Next
  <2>5. QED
    BY <2>3, <2>4
<1>4. CASE UpdateStatus
  <2>1. pc = "write" /\ localCurrent /\ api' = local /\ job' = job
    BY <1>4, Zenon DEF UpdateStatus
  <2>2. /\ Outcome(local) /\ local \in Resources /\ api \in Resources
    BY <2>1 DEF PhaseInv, ValuesOK
  <2>3. CASE /\ currentState(local) = currentState(api)
             /\ local.lastManual = api.lastManual
    BY <2>1, <2>3 DEF currentState
  <2>4. CASE /\ ~Syncing(api) /\ Syncing(local) /\ job = "none"
             /\ local.lastManual = api.lastManual
    <3>1. currentState(api) \in {"initial", "cleaningup"}
      BY <2>2, <2>4, StateOfSyncing
    <3>2. currentState(local) = "synchronizing"
      BY <2>2, <2>4, StateOfSyncing
    <3>3. currentState(api)' = currentState(local)
      BY <2>1 DEF currentState
    <3>4. Cycle!Start
      BY <2>1, <2>4, <3>1, <3>2, <3>3 DEF Cycle!Start
    <3>5. QED
      BY <3>4 DEF Cycle!Next
  <2>5. CASE Syncing(api) /\ currentState(local) = "cleaningup" /\ job = "done"
    <3>1. currentState(api) = "synchronizing"
      BY <2>2, <2>5, StateOfSyncing
    <3>2. currentState(api)' = currentState(local)
      BY <2>1 DEF currentState
    <3>3. api'.lastManual \in Tags \cup {NoTag}
      BY <2>1, <2>2 DEF Resources
    <3>4. Cycle!Complete
      BY <2>1, <2>5, <3>1, <3>2, <3>3 DEF Cycle!Complete
    <3>5. QED
      BY <3>4 DEF Cycle!Next
  <2>6. QED
    BY <2>2, <2>3, <2>4, <2>5 DEF Outcome
<1>5. CASE \E outcome \in {"done", "failed"} : JobEnds(outcome)
  <2>1. api' = api /\ job = "running" /\ job' \in {"done", "failed"}
    BY <1>5, Zenon DEF JobEnds
  <2>2. currentState(api) = "synchronizing"
    BY <2>1, StateOfSyncing DEF ValuesOK, PhaseInv, JobInv
  <2>3. currentState(api)' = currentState(api)
    BY <2>1 DEF currentState
  <2>4. job' = "done" => Cycle!Transfer
    BY <2>1, <2>2, <2>3 DEF Cycle!Transfer
  <2>5. job' = "failed" => UNCHANGED Cycle!vars
    BY <2>1, <2>3
  <2>6. QED
    BY <2>1, <2>4, <2>5 DEF Cycle!Next
<1>6. CASE \/ \E t \in Tags \cup {NoTag} : SetManual(t)
           \/ \E c \in Crons : SetSchedule(c)
  <2>1. PICK r : Edit(r) /\ r.lsst = api.lsst /\ r.lst = api.lst
                 /\ r.lastManual = api.lastManual
    BY <1>6, EditFrame
  <2>2. api' = r /\ job' = job
    BY <2>1, Zenon DEF Edit
  <2>3. QED
    BY <2>1, <2>2 DEF currentState
<1>7. QED
  BY <1>2, <1>3, <1>4, <1>5, <1>6 DEF Next, Reconcile, Environment

(* The state machine, with its stale reads, conflicts, retries, restarts   *)
(* and user edits, implements the abstract cycle: a sync is reported over  *)
(* only after a Job of that sync succeeded, lastManualSync moves only then *)
(* and a new sync starts only once the old Job is gone.                    *)
THEOREM RefinesSyncCycle == Spec => ImplementsSyncCycle
<1>1. Spec => [](ValuesOK /\ PhaseInv)
  BY TypeCorrect, PhaseCorrect, PTL DEF TypeOK
<1>2. QED
  BY <1>1, CycleInit, CycleStep, PTL DEF Spec, ImplementsSyncCycle, Cycle!Spec

-----------------------------------------------------------------------------
(* When a sync starts, and for which trigger. *)

(* A step of the machine keeps the trigger it was given.  It starts a sync *)
(* only when the schedule or the tag asks for one, and it moves the time   *)
(* of the last sync only once the Job is done.                             *)
LEMMA RunStepTrigger ==
  ASSUME ValuesOK, RunStep
  PROVE  /\ local'.manual = local.manual /\ local'.sched = local.sched
         /\ ~Syncing(local) /\ Syncing(local') =>
              /\ local'.lst = local.lst /\ local'.lastManual = local.lastManual
              /\ currentState(local) = "cleaningup" =>
                   /\ getTrigger(local) = "schedule" =>
                        local'.lsst > Next_(local.sched, local.lst)
                   /\ local.manual # NoTag => local.manual # local.lastManual
         /\ local'.lst # local.lst =>
              /\ Syncing(local) /\ job' = "done"
              /\ ~BadSchedule(local) => ~Syncing(local')
<1> DEFINE Goal == /\ local'.manual = local.manual /\ local'.sched = local.sched
                   /\ Syncing(local) <=> Syncing(local')
                   /\ local'.lst = local.lst
<1> USE DEF ValuesOK
<1> "Error" \in Conditions /\ "Sync" \in Conditions
  BY DEF Conditions
<1>1. ASSUME NEW c \in Conditions, local' = [local EXCEPT !.cond = c]
      PROVE  Goal
  BY <1>1 DEF Resources, Syncing
<1>2. CASE RunDeadlineError \/ SynchronizeFails
  BY <1>1, <1>2 DEF RunDeadlineError, SynchronizeFails, ReturnError, Return
<1>3. CASE SynchronizeWaits \/ SynchronizeStartsJob \/ SynchronizeJobRunning
             \/ SynchronizeDeletesFailedJob
  <2>1. local' = [local EXCEPT !.cond = "Sync"]
    BY <1>3, Zenon DEF SynchronizeWaits, SynchronizeStartsJob,
       SynchronizeJobRunning, SynchronizeDeletesFailedJob, SyncInProgress, Return
  <2>2. QED
    BY <1>1, <2>1
<1>4. CASE CleanupFails
  <2>1. local' = [local EXCEPT !.cond = "Error"]
    BY <1>4, Zenon DEF CleanupFails, ReturnError, Return
  <2>2. QED
    BY <1>1, <2>1
<1>5. CASE doInitialState
  <2>1. /\ local' = transitionToSynchronizing(local, now)
        /\ currentState(local) = "initial"
    BY <1>5 DEF doInitialState, Return, Run
  <2>2. QED
    BY <2>1 DEF transitionToSynchronizing, Resources
<1>6. CASE SynchronizeCompletes
  <2>1. Syncing(local) /\ currentState(local) = "synchronizing"
    BY <1>6, StateOfSyncing DEF SynchronizeCompletes, Run
  <2>2. /\ local' = transitionToCleaningUp(local, now)
        /\ job' = job /\ job = "done"
    BY <1>6 DEF SynchronizeCompletes, Return
  <2>3. ~BadSchedule(local) => ~Syncing(local')
    BY <2>1, <2>2, EndType, StateOfSyncing
  <2>4. /\ transitionToCleaningUp(local, now).manual = local.manual
        /\ transitionToCleaningUp(local, now).sched = local.sched
    BY DEF transitionToCleaningUp, updateNextSyncStartTime, Resources
  <2>5. QED
    BY <2>1, <2>2, <2>3, <2>4
<1>7. CASE CleanupThenSync \/ CleanupThenIdle
  <2> DEFINE r == updateNextSyncStartTime(local)
  <2>1. /\ Run("cleaningup")
        /\ \/ local' = transitionToSynchronizing(r, now) /\ shouldSync(r, now)
           \/ local' = setConditionIdle(r)
    BY <1>7, Zenon DEF CleanupThenSync, CleanupThenIdle, Return
  <2>2. r \in Resources /\ r.lsst = local.lsst /\ r.lst = local.lst
    BY <2>1, CleaningUpParses, UpdateNextType
  <2>3. /\ r.manual = local.manual /\ r.sched = local.sched
        /\ r.lastManual = local.lastManual
        /\ getTrigger(local) = "schedule" => r.next = Next_(local.sched, local.lst)
    BY DEF updateNextSyncStartTime, Resources
  <2>4. getTrigger(r) = getTrigger(local)
    BY <2>3 DEF getTrigger
  <2> HIDE DEF r
  <2>5. CASE local' = setConditionIdle(r)
    <3>1. /\ local'.manual = r.manual /\ local'.sched = r.sched
          /\ local'.lst = r.lst /\ local'.lsst = r.lsst
      BY <2>2, <2>5 DEF setConditionIdle, Resources
    <3>2. QED
      BY <2>2, <2>3, <3>1 DEF Syncing
  <2>6. CASE local' = transitionToSynchronizing(r, now) /\ shouldSync(r, now)
    <3>1. /\ local'.manual = r.manual /\ local'.sched = r.sched
          /\ local'.lst = r.lst /\ local'.lsst = now
          /\ local'.lastManual = r.lastManual
      BY <2>2, <2>6 DEF transitionToSynchronizing, Resources
    <3>2. getTrigger(local) = "schedule" => now > Next_(local.sched, local.lst)
      BY <2>3, <2>4, <2>6 DEF shouldSync
    <3>3. local.manual # NoTag => local.manual # local.lastManual
      BY <2>3, <2>4, <2>6 DEF shouldSync, getTrigger
    <3>4. QED
      BY <2>2, <2>3, <3>1, <3>2, <3>3
  <2>7. QED
    BY <2>1, <2>5, <2>6
<1>8. QED
  BY <1>2, <1>3, <1>4, <1>5, <1>6, <1>7 DEF RunStep

(* The steps other than those of the machine and of UpdateStatus, as far   *)
(* as a write that is pending is concerned: it stays as it is, or it is    *)
(* given up, or (SetManual, SetSchedule) it can no longer succeed.         *)
LEMMA PendingFrame ==
  ASSUME ValuesOK, [Next]_vars, ~RunStep, ~UpdateStatus
  PROVE  /\ Pending' => Pending /\ local' = local /\ api' = api
         /\ api'.lst = api.lst /\ api'.lsst = api.lsst
         /\ api'.lastManual = api.lastManual
         /\ job' # job => job = "running"
<1> USE DEF Pending, storeVars, localVars
<1>1. CASE Get
  <2>1. pc' = "run" /\ api' = api /\ job' = job
    BY <1>1, Zenon DEF Get
  <2>2. QED
    BY <2>1
<1>2. CASE timeToNextSync
  <2>1. /\ pc = "requeue" /\ local' = local /\ localCurrent' = localCurrent
        /\ api' = api /\ job' = job
    BY <1>2, Zenon DEF timeToNextSync
  <2>2. QED
    BY <2>1
<1>3. CASE UpdateStatusFails \/ Crash
  <2>1. pc' = "idle" /\ api' = api /\ job' = job
    BY <1>3, Zenon DEF UpdateStatusFails, Crash, Finish
  <2>2. QED
    BY <2>1
<1>4. CASE CacheSync \/ TimerFires \/ Resync \/ Tick \/ UNCHANGED vars
  <2>1. /\ pc' = pc /\ local' = local /\ localCurrent' = localCurrent
        /\ api' = api /\ job' = job
    BY <1>4, Zenon DEF CacheSync, TimerFires, Resync, Tick, vars
  <2>2. QED
    BY <2>1
<1>5. CASE \E outcome \in {"done", "failed"} : JobEnds(outcome)
  <2>1. /\ pc' = pc /\ local' = local /\ localCurrent' = localCurrent
        /\ api' = api /\ job = "running"
    BY <1>5, Zenon DEF JobEnds
  <2>2. QED
    BY <2>1
<1>6. CASE \/ \E t \in Tags \cup {NoTag} : SetManual(t)
           \/ \E c \in Crons : SetSchedule(c)
  <2>1. PICK r : /\ Edit(r) /\ r.lsst = api.lsst /\ r.lst = api.lst
                 /\ r.lastManual = api.lastManual
    BY <1>6, EditFrame
  <2>2. api' = r /\ ~localCurrent' /\ job' = job
    BY <2>1, Zenon DEF Edit
  <2>3. QED
    BY <2>1, <2>2
<1>7. QED
  BY <1>1, <1>2, <1>3, <1>4, <1>5, <1>6 DEF Next, Reconcile, Environment

(* A write that may succeed was computed from the resource as it is.       *)
LEMMA PendingStarts ==
  ASSUME ValuesOK, PhaseInv, RunStep, Pending'
  PROVE  /\ local = api /\ api' = api
<1>1. /\ pc = "run" /\ api' = api /\ localCurrent' = localCurrent
  BY RunStepFrame
<1>2. QED
  BY <1>1 DEF Pending, PhaseInv, VersionsInv

LEMMA UpdateStatusFrame ==
  ASSUME UpdateStatus
  PROVE  Pending /\ ~Pending' /\ api' = local /\ job' = job
<1>1. /\ pc = "write" /\ localCurrent /\ pc' = "idle" /\ api' = local
      /\ job' = job
  BY Zenon DEF UpdateStatus, Finish
<1>2. QED
  BY <1>1 DEF Pending

LEMMA ScheduleStep ==
  ASSUME ValuesOK, PhaseInv, ScheduleInv, [Next]_vars
  PROVE  ScheduleInv'
<1>1. CASE RunStep
  <2> SUFFICES ASSUME Starting', local'.lst # Unset,
                      getTrigger(local') = "schedule"
               PROVE  local'.lsst > Next_(local'.sched, local'.lst)
    BY DEF ScheduleInv, getTrigger
  <2>1. local = api /\ api' = api
    BY <1>1, PendingStarts DEF Starting
  <2>2. ~Syncing(local) /\ Syncing(local')
    BY <2>1 DEF Starting, Syncing
  <2>3. /\ local'.manual = local.manual /\ local'.sched = local.sched
        /\ local'.lst = local.lst
        /\ currentState(local) = "cleaningup" /\ getTrigger(local) = "schedule" =>
             local'.lsst > Next_(local.sched, local.lst)
    BY <1>1, <2>2, RunStepTrigger
  <2>4. currentState(local) = "cleaningup"
    BY <2>2, <2>3, StateOfSyncing DEF ValuesOK
  <2>5. getTrigger(local) = "schedule"
    BY <2>3 DEF getTrigger
  <2>6. QED
    BY <2>3, <2>4, <2>5
<1>2. CASE UpdateStatus
  BY <1>2, UpdateStatusFrame DEF ScheduleInv, Starting
<1>3. CASE ~RunStep /\ ~UpdateStatus
  <2>1. /\ Pending' => Pending /\ local' = local /\ api' = api
    BY <1>3, PendingFrame
  <2>2. QED
    BY <2>1 DEF ScheduleInv, Starting, Syncing, getTrigger
<1>4. QED
  BY <1>1, <1>2, <1>3

(* A scheduled sync never begins before the cronspec in force when its     *)
(* start is recorded allows it, for any cronspecs and any interleaving of  *)
(* edits, restarts, conflicts and stale reads.                             *)
THEOREM ScheduleRespected == Spec => NoEarlyScheduledStart
<1> DEFINE NotEarly ==
      (/\ ~Syncing(api) /\ Syncing(api')
       /\ api'.lst # Unset /\ getTrigger(api') = "schedule")
      => api'.lsst > Next_(api'.sched, api'.lst)
<1>1. Init => ScheduleInv
  <2> SUFFICES ASSUME Init PROVE ScheduleInv
    OBVIOUS
  <2>1. pc = "idle"
    BY Zenon DEF Init
  <2>2. QED
    BY <2>1 DEF ScheduleInv, Starting, Pending
<1>2. ValuesOK /\ PhaseInv /\ ScheduleInv /\ [Next]_vars => [NotEarly]_vars
  <2> SUFFICES ASSUME ValuesOK, PhaseInv, ScheduleInv, [Next]_vars
               PROVE  NotEarly
    OBVIOUS
  <2>1. CASE UpdateStatus
    BY <2>1, UpdateStatusFrame DEF ScheduleInv, Starting, getTrigger
  <2>2. CASE ~UpdateStatus
    <3>1. Syncing(api') <=> Syncing(api)
      BY <2>2, PendingFrame, RunStepFrame DEF Syncing
    <3>2. QED
      BY <3>1
  <2>3. QED
    BY <2>1, <2>2
<1>3. Spec => [](ValuesOK /\ PhaseInv)
  BY TypeCorrect, PhaseCorrect, PTL DEF TypeOK
<1>4. Spec => []ScheduleInv
  BY <1>1, <1>3, ScheduleStep, PTL DEF Spec
<1>5. QED
  BY <1>2, <1>3, <1>4, PTL DEF Spec, NoEarlyScheduledStart

-----------------------------------------------------------------------------
(* One credit per Job. *)

(* Only the end of a sync is credited; only deleting the Job resets it.    *)
LEMMA CreditFrame ==
  ASSUME [Next]_vars
  PROVE  /\ UpdateStatus => (credited' => credited \/ local.lst # api.lst)
         /\ ~UpdateStatus => (credited' => credited)
         /\ RunStep => (credited' => credited /\ job' = job) \/ job # "done"
<1> USE DEF ghostVars, envVars
<1>1. UpdateStatus => (credited' => credited \/ local.lst # api.lst)
  BY Zenon DEF UpdateStatus
<1>2. CASE RunDeadlineError \/ doInitialState \/ SynchronizeFails
             \/ SynchronizeCompletes \/ SynchronizeWaits \/ SynchronizeJobRunning
  <2>1. job' = job /\ credited' = credited
    BY <1>2, Zenon DEF RunDeadlineError, doInitialState, SynchronizeFails,
       SynchronizeCompletes, SynchronizeWaits, SynchronizeJobRunning
  <2>2. QED
    BY <1>1, <2>1, Zenon
<1>3. CASE SynchronizeStartsJob \/ SynchronizeDeletesFailedJob
  <2>1. job # "done" /\ credited' = credited
    BY <1>3 DEF SynchronizeStartsJob, SynchronizeDeletesFailedJob
  <2>2. QED
    BY <1>1, <2>1
<1>4. CASE CleanupFails \/ CleanupThenSync \/ CleanupThenIdle
  <2>1. ~credited' \/ (job' = job /\ credited' = credited)
    BY <1>4, Zenon DEF CleanupFails, CleanupThenSync, CleanupThenIdle
  <2>2. credited' => credited /\ job' = job
    BY <2>1, Zenon
  <2>3. QED
    BY <1>1, <2>2, Zenon
<1>5. CASE RunStep
  BY <1>2, <1>3, <1>4, <1>5 DEF RunStep
<1>6. CASE ~RunStep /\ ~UpdateStatus
  <2>1. credited' = credited
    BY <1>6, Zenon DEF Next, Reconcile, Environment, Get, timeToNextSync,
       UpdateStatusFails, CacheSync, TimerFires, Resync, Tick, Crash, JobEnds,
       SetManual, SetSchedule, Edit, vars
  <2>2. QED
    BY <1>6, <2>1
<1>7. CASE UpdateStatus /\ ~RunStep
  BY <1>1, <1>7
<1>8. QED
  BY <1>5, <1>6, <1>7

LEMMA CreditStep ==
  ASSUME ValuesOK, PhaseInv, CreditInv, [Next]_vars
  PROVE  CreditInv'
<1> SUFFICES ASSUME BadCron \notin Crons
             PROVE  /\ credited' => ~Syncing(api') /\ job' = "done"
                    /\ Pending' /\ local'.lst # api'.lst =>
                         Syncing(api') /\ ~Syncing(local') /\ job' = "done"
  BY DEF CreditInv, Syncing
<1>1. /\ credited => ~Syncing(api) /\ job = "done"
      /\ Pending /\ local.lst # api.lst =>
           Syncing(api) /\ ~Syncing(local) /\ job = "done"
  BY DEF CreditInv
<1>2. CASE RunStep
  <2>1. api' = api /\ pc = "run"
    BY <1>2, RunStepFrame
  <2>2. credited' => ~Syncing(api') /\ job' = "done"
    <3>1. ~UpdateStatus
      BY <2>1 DEF UpdateStatus
    <3>2. QED
      BY <1>1, <1>2, <2>1, <3>1, CreditFrame DEF Syncing
  <2>3. ASSUME Pending', local'.lst # api'.lst
        PROVE  Syncing(api') /\ ~Syncing(local') /\ job' = "done"
    <3>1. local = api
      BY <1>2, <2>3, PendingStarts
    <3>2. ~BadSchedule(local)
      BY DEF ValuesOK, Resources, BadSchedule
    <3>3. QED
      BY <1>2, <2>1, <2>3, <3>1, <3>2, RunStepTrigger DEF Syncing
  <2>4. QED
    BY <2>2, <2>3
<1>3. CASE UpdateStatus
  <2>1. Pending /\ ~Pending' /\ api' = local /\ job' = job
    BY <1>3, UpdateStatusFrame
  <2>2. credited' => credited \/ local.lst # api.lst
    BY <1>3, CreditFrame
  <2>3. CASE local.lst # api.lst
    BY <1>1, <2>1, <2>3 DEF Syncing
  <2>4. CASE local.lst = api.lst /\ credited
    <3>1. ~Syncing(api) /\ job = "done" /\ Outcome(local)
      BY <1>1, <2>1, <2>4 DEF PhaseInv, Pending
    <3>2. ~Syncing(local)
      BY <3>1, StateOfSyncing DEF Outcome, ValuesOK
    <3>3. QED
      BY <2>1, <3>1, <3>2 DEF Syncing
  <2>5. QED
    BY <2>1, <2>2, <2>3, <2>4
<1>4. CASE ~RunStep /\ ~UpdateStatus
  <2>1. /\ Pending' => Pending /\ local' = local /\ api' = api
        /\ api'.lst = api.lst /\ api'.lsst = api.lsst
        /\ job' # job => job = "running"
    BY <1>4, PendingFrame
  <2>2. credited' => credited
    BY <1>4, CreditFrame
  <2>3. QED
    BY <1>1, <2>1, <2>2 DEF Syncing
<1>5. QED
  BY <1>2, <1>3, <1>4

(* Where every cronspec parses, the success of one Job is recorded in      *)
(* lastSyncTime once.  (A cronspec that does not parse is an exception:    *)
(* transitionToCleaningUp then records the end time and fails, and does so *)
(* again once the cronspec is corrected.)                                  *)
THEOREM CreditedOnce ==
  ASSUME BadCron \notin Crons
  PROVE  Spec => OneCreditPerJob
<1>1. Init => CreditInv
  <2> SUFFICES ASSUME Init PROVE CreditInv
    OBVIOUS
  <2>1. pc = "idle" /\ ~credited
    BY Zenon DEF Init
  <2>2. QED
    BY <2>1 DEF CreditInv, Pending
<1>2. ValuesOK /\ CreditInv /\ [Next]_vars
        => [api'.lst # api.lst => ~credited]_vars
  <2> SUFFICES ASSUME ValuesOK, CreditInv, [Next]_vars, api'.lst # api.lst
               PROVE  ~credited
    OBVIOUS
  <2>1. UpdateStatus
    BY PendingFrame, RunStepFrame
  <2>2. Pending /\ api' = local
    BY <2>1, UpdateStatusFrame
  <2>3. QED
    BY <2>2 DEF CreditInv
<1>3. Spec => [](ValuesOK /\ PhaseInv)
  BY TypeCorrect, PhaseCorrect, PTL DEF TypeOK
<1>4. Spec => []CreditInv
  BY <1>1, <1>3, CreditStep, PTL DEF Spec
<1>5. QED
  BY <1>2, <1>3, <1>4, PTL DEF Spec, OneCreditPerJob

-----------------------------------------------------------------------------
(* The manual trigger. *)

(* Who touches the auxiliary variables, and how.                           *)
LEMMA CoverFrame ==
  ASSUME [Next]_vars
  PROVE  /\ UpdateStatus =>
              /\ ~Syncing(api) /\ Syncing(local) => runCovers'
              /\ runCovers => runCovers'
              /\ Syncing(api) /\ ~Syncing(local) /\ runCovers => covered'
              /\ (Syncing(api) <=> Syncing(local)) /\ covered => covered'
              /\ ~Syncing(api) /\ covered => covered'
         /\ \/ \E t \in Tags \cup {NoTag} : SetManual(t)
            \/ UpdateStatus
            \/ (covered => covered') /\ (runCovers => runCovers')
<1> USE DEF ghostVars, envVars
<1>1. UpdateStatus =>
        /\ ~Syncing(api) /\ Syncing(local) => runCovers'
        /\ runCovers => runCovers'
        /\ Syncing(api) /\ ~Syncing(local) /\ runCovers => covered'
        /\ (Syncing(api) <=> Syncing(local)) /\ covered => covered'
        /\ ~Syncing(api) /\ covered => covered'
  <2> SUFFICES ASSUME UpdateStatus PROVE <1>1!2
    OBVIOUS
  <2>1. /\ runCovers' = ((~Syncing(api) /\ Syncing(local)) \/ runCovers)
        /\ covered' = IF Syncing(api) /\ ~Syncing(local) THEN runCovers ELSE covered
    BY Zenon DEF UpdateStatus
  <2>2. QED
    BY <2>1, Zenon
<1>2. CASE RunStep
  <2>1. CASE RunDeadlineError \/ doInitialState \/ SynchronizeWaits
               \/ SynchronizeStartsJob \/ SynchronizeJobRunning
               \/ SynchronizeDeletesFailedJob \/ SynchronizeFails
               \/ SynchronizeCompletes
    <3>1. covered' = covered /\ runCovers' = runCovers
      BY <2>1, Zenon DEF RunDeadlineError, doInitialState, SynchronizeWaits,
         SynchronizeStartsJob, SynchronizeJobRunning, SynchronizeFails,
         SynchronizeDeletesFailedJob, SynchronizeCompletes, SyncInProgress,
         ReturnError, Return
    <3>2. QED
      BY <1>1, <3>1, Zenon
  <2>2. CASE CleanupFails \/ CleanupThenSync \/ CleanupThenIdle
    <3>1. covered' = covered /\ runCovers' = runCovers
      BY <2>2, Zenon DEF CleanupFails, CleanupThenSync, CleanupThenIdle,
         ReturnError, Return
    <3>2. QED
      BY <1>1, <3>1, Zenon
  <2>3. QED
    BY <1>2, <2>1, <2>2 DEF RunStep
<1>3. CASE ~RunStep /\ ~UpdateStatus /\ ~ \E t \in Tags \cup {NoTag} : SetManual(t)
  <2>1. covered' = covered /\ runCovers' = runCovers
    BY <1>3, Zenon DEF Next, Reconcile, Environment, Get, timeToNextSync,
       UpdateStatusFails, CacheSync, TimerFires, Resync, Tick, Crash, JobEnds,
       SetSchedule, Edit, vars
  <2>2. QED
    BY <1>1, <2>1, Zenon
<1>4. QED
  BY <1>1, <1>2, <1>3

LEMMA FreshStep ==
  ASSUME ValuesOK, PhaseInv, FreshInv, [Next]_vars
  PROVE  FreshInv'
<1> SUFFICES ASSUME DisciplinedUser
             PROVE  /\ api'.manual # NoTag /\ api'.lastManual = api'.manual
                         => covered'
                    /\ api'.manual # NoTag /\ Syncing(api') =>
                         api'.lastManual # api'.manual /\ runCovers'
                    /\ currentState(api') = "initial" => api'.lastManual = NoTag
                    /\ Pending' => local'.manual = api'.manual
                    /\ Starting' /\ local'.manual # NoTag =>
                         local'.lastManual # local'.manual
  BY DEF FreshInv, ManualSyncIsFresh, Syncing, currentState
<1>1. /\ api.manual # NoTag /\ api.lastManual = api.manual => covered
      /\ api.manual # NoTag /\ Syncing(api) =>
           api.lastManual # api.manual /\ runCovers
      /\ currentState(api) = "initial" => api.lastManual = NoTag
      /\ Pending => local.manual = api.manual
      /\ Starting /\ local.manual # NoTag => local.lastManual # local.manual
  BY DEF FreshInv, ManualSyncIsFresh
<1>2. CASE RunStep
  <2>1. api' = api /\ pc = "run"
    BY <1>2, RunStepFrame
  <2>2. (covered => covered') /\ (runCovers => runCovers')
    <3>1. ~UpdateStatus
      BY <2>1 DEF UpdateStatus
    <3>2. ~ \E t \in Tags \cup {NoTag} : SetManual(t)
      <4>1. pc' \in {"requeue", "write"}
        BY <1>2, RunStepFrame
      <4>2. (\E t \in Tags \cup {NoTag} : SetManual(t)) => pc' = pc
        BY Zenon DEF SetManual, Edit
      <4>3. QED
        BY <2>1, <4>1, <4>2
    <3>3. QED
      BY <3>1, <3>2, CoverFrame
  <2>3. ASSUME Pending'
        PROVE  /\ local'.manual = api'.manual
               /\ Starting' /\ local'.manual # NoTag =>
                    local'.lastManual # local'.manual
    <3>1. local = api
      BY <1>2, <2>3, PendingStarts
    <3>2. local'.manual = local.manual
      BY <1>2, RunStepTrigger
    <3>3. ASSUME Starting', local'.manual # NoTag
          PROVE  local'.lastManual # local'.manual
      <4>1. ~Syncing(local) /\ Syncing(local')
        BY <2>1, <3>1, <3>3 DEF Starting, Syncing
      <4>2. /\ local'.lastManual = local.lastManual
            /\ currentState(local) = "cleaningup" /\ local.manual # NoTag =>
                 local.manual # local.lastManual
        BY <1>2, <4>1, RunStepTrigger
      <4>3. currentState(local) \in {"initial", "cleaningup"}
        BY <4>1, StateOfSyncing DEF ValuesOK
      <4>4. QED
        BY <1>1, <3>1, <3>2, <3>3, <4>2, <4>3
    <3>4. QED
      BY <2>1, <3>1, <3>2, <3>3
  <2>4. QED
    BY <1>1, <2>1, <2>2, <2>3 DEF Syncing, currentState, Starting
<1>3. CASE UpdateStatus
  <2>1. Pending /\ ~Pending' /\ api' = local
    BY <1>3, UpdateStatusFrame
  <2>2. /\ local.manual = api.manual /\ Outcome(local)
        /\ local \in Resources /\ api \in Resources
    BY <1>1, <2>1 DEF PhaseInv, Pending, ValuesOK
  <2>3. /\ ~Syncing(api) /\ Syncing(local) => runCovers'
        /\ runCovers => runCovers'
        /\ Syncing(api) /\ ~Syncing(local) /\ runCovers => covered'
        /\ (Syncing(api) <=> Syncing(local)) /\ covered => covered'
        /\ ~Syncing(api) /\ covered => covered'
    BY <1>3, CoverFrame
  <2>4. CASE /\ currentState(local) = currentState(api)
             /\ local.lastManual = api.lastManual
    <3>1. Syncing(local) <=> Syncing(api)
      BY <2>2, <2>4, StateOfSyncing
    <3>2. QED
      BY <1>1, <2>1, <2>2, <2>3, <2>4, <3>1 DEF Syncing, currentState, Starting
  <2>5. CASE /\ ~Syncing(api) /\ Syncing(local)
             /\ local.lastManual = api.lastManual
    <3>1. local.manual # NoTag => local.lastManual # local.manual
      BY <1>1, <2>1, <2>5 DEF Starting
    <3>2. currentState(local) = "synchronizing"
      BY <2>2, <2>5, StateOfSyncing
    <3>3. QED
      BY <2>1, <2>3, <2>5, <3>1, <3>2 DEF Syncing, currentState, Starting
  <2>6. CASE Syncing(api) /\ currentState(local) = "cleaningup"
    <3>1. ~Syncing(local)
      BY <2>2, <2>6, StateOfSyncing
    <3>2. api.manual # NoTag => covered'
      BY <1>1, <2>3, <2>6, <3>1
    <3>3. QED
      BY <2>1, <2>2, <2>6, <3>1, <3>2 DEF Syncing, currentState, Starting
  <2>7. QED
    BY <2>2, <2>4, <2>5, <2>6 DEF Outcome
<1>4. CASE \E t \in Tags \cup {NoTag} : SetManual(t)
  <2>1. PICK t \in Tags \cup {NoTag} :
          /\ t # NoTag /\ api.manual # NoTag /\ api.lastManual = api.manual
          /\ Edit([api EXCEPT !.manual = t])
    BY <1>4 DEF SetManual
  <2>2. /\ api' = [api EXCEPT !.manual = t] /\ api' # api /\ ~localCurrent'
    BY <2>1, Zenon DEF Edit
  <2>3. /\ api'.manual = t /\ t # api.manual /\ api'.lastManual = api.lastManual
        /\ api'.lsst = api.lsst /\ api'.lst = api.lst
    BY <2>2 DEF ValuesOK, Resources
  <2>4. ~Syncing(api)
    BY <1>1, <2>1
  <2>5. QED
    BY <1>1, <2>1, <2>2, <2>3, <2>4 DEF Syncing, currentState, Starting, Pending
<1>5. CASE ~RunStep /\ ~UpdateStatus /\ ~ \E t \in Tags \cup {NoTag} : SetManual(t)
  <2>1. /\ Pending' => Pending /\ local' = local /\ api' = api
        /\ api'.lst = api.lst /\ api'.lsst = api.lsst
        /\ api'.lastManual = api.lastManual
    BY <1>5, PendingFrame
  <2>2. (covered => covered') /\ (runCovers => runCovers')
    BY <1>5, CoverFrame
  <2>3. api'.manual = api.manual
    <3>1. \/ api' = api
          \/ \E c \in Crons : api' = [api EXCEPT !.sched = c]
      BY <1>5, Zenon DEF Next, Reconcile, Environment, Get, timeToNextSync,
         UpdateStatusFails, CacheSync, TimerFires, Resync, Tick, Crash, JobEnds,
         SetSchedule, Edit, vars, storeVars
    <3>2. QED
      BY <3>1 DEF ValuesOK, Resources
  <2>4. QED
    BY <1>1, <2>1, <2>2, <2>3 DEF Syncing, currentState, Starting
<1>6. QED
  BY <1>2, <1>3, <1>4, <1>5

(* A user who sets a new tag only once the last one is acknowledged knows, *)
(* when the new one is, that the sync so acknowledged began after it.      *)
THEOREM ManualSyncCorrect == Spec => []ManualSyncIsFresh
<1>1. Init => FreshInv
  <2> SUFFICES ASSUME Init PROVE FreshInv
    OBVIOUS
  <2>1. PICK t \in InitialTriggers : api = NewResource(t)
    BY DEF Init
  <2>2. api.lastManual = NoTag /\ currentState(api) = "initial" /\ ~Syncing(api)
    BY <2>1, TriggerAssumption, NewResourceType DEF NewResource, Syncing, Unset
  <2>3. pc = "idle"
    BY Zenon DEF Init
  <2>4. QED
    BY <2>2, <2>3 DEF FreshInv, ManualSyncIsFresh, Starting, Pending
<1>2. Spec => [](ValuesOK /\ PhaseInv)
  BY TypeCorrect, PhaseCorrect, PTL DEF TypeOK
<1>3. FreshInv => ManualSyncIsFresh
  BY DEF FreshInv, ManualSyncIsFresh
<1>4. QED
  BY <1>1, <1>2, <1>3, FreshStep, PTL DEF Spec

=============================================================================
