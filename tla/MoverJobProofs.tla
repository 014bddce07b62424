--------------------------- MODULE MoverJobProofs ---------------------------
(***************************************************************************)
(* Proofs about MoverJob, for any number of retries, edits, prunes and     *)
(* synchronizations.                                                       *)
(***************************************************************************)
EXTENDS MoverJob, TLAPS

-----------------------------------------------------------------------------
(* What happens to a Job. *)

Specs == [paused : BOOLEAN, unlock : Unlocks \cup {NoUnlock},
          conf : Confs \cup {NoConf}]

LEMMA PlainType ==
  ASSUME ValuesOK
  PROVE  /\ PlainTemplate \in Templates
         /\ ~PlainTemplate.unlock /\ ~PlainTemplate.prune
BY DEF PlainTemplate, Templates, ValuesOK

LEMMA ResticTemplateType ==
  ASSUME ValuesOK, NEW current \in Nat
  PROVE  /\ ResticTemplate(current) \in Templates
         /\ ResticTemplate(current).unlock <=> IsSource /\ shouldUnlock
         /\ ResticTemplate(current).prune <=> IsSource /\ shouldPrune(current)
         /\ ResticTemplate(current).conf = spec.conf
         /\ ~ResticTemplate(current).skip
<1> DEFINE u == IsSource /\ shouldUnlock
           r == IsSource /\ shouldPrune(current)
<1>1. u \in BOOLEAN /\ r \in BOOLEAN
  OBVIOUS
<1>2. ResticTemplate(current) = [PlainTemplate EXCEPT !.unlock = u, !.prune = r]
  BY DEF ResticTemplate
<1>3. PlainTemplate = [conf |-> spec.conf, unlock |-> FALSE, prune |-> FALSE,
                       skip |-> FALSE]
  BY DEF PlainTemplate
<1> HIDE DEF u, r
<1>4. /\ ResticTemplate(current) \in Templates
      /\ ResticTemplate(current).unlock = u
      /\ ResticTemplate(current).prune = r
      /\ ResticTemplate(current).conf = spec.conf
      /\ ResticTemplate(current).skip = FALSE
  BY <1>1, <1>2, <1>3 DEF Templates, ValuesOK
<1>5. QED
  BY <1>4 DEF u, r

LEMMA KopiaTemplateType ==
  ASSUME ValuesOK
  PROVE  /\ KopiaTemplate \in Templates
         /\ ~KopiaTemplate.unlock /\ ~KopiaTemplate.prune
<1> DEFINE k == shouldSkipCacheConfig
<1>1. k \in BOOLEAN
  BY DEF shouldSkipCacheConfig
<1> HIDE DEF k
<1>2. QED
  BY <1>1, PlainType DEF KopiaTemplate, Templates, k

(* Only a restic source unlocks and prunes, when that is due.              *)
LEMMA TemplateType ==
  ASSUME ValuesOK, NEW current \in Nat
  PROVE  /\ Template(current) \in Templates
         /\ Template(current).unlock <=>
              setup.kind = "restic" /\ IsSource /\ shouldUnlock
         /\ Template(current).prune <=>
              setup.kind = "restic" /\ IsSource /\ shouldPrune(current)
<1>1. setup.kind \in {"restic", "rclone", "rsync", "rsynctls", "kopia"}
  BY SetupAssumption DEF ValuesOK, Kinds
<1>2. CASE setup.kind = "restic"
  BY <1>2, ResticTemplateType DEF Template
<1>3. CASE setup.kind = "kopia"
  BY <1>3, KopiaTemplateType DEF Template
<1>4. CASE setup.kind \in {"rclone", "rsync", "rsynctls"}
  BY <1>4, PlainType
     DEF Template, RcloneTemplate, RsyncTemplate, RsyncTLSTemplate
<1>5. QED
  BY <1>1, <1>2, <1>3, <1>4

NewJob ==
  [template |-> Template(now), parallelism |-> Parallelism,
   failed |-> 0, active |-> FALSE, condition |-> "None"]

LEMMA NewJobType ==
  ASSUME ValuesOK
  PROVE  /\ NewJob \in Jobs /\ NewJob.template = Template(now)
         /\ ~NewJob.active /\ NewJob.condition = "None" /\ NewJob.failed = 0
<1>1. Template(now) \in Templates
  BY TemplateType DEF ValuesOK
<1>2. QED
  BY <1>1, BoundAssumption DEF NewJob, Jobs, Parallelism

LEMMA ResizeType ==
  ASSUME NEW j \in Jobs
  PROVE  LET k == [j EXCEPT !.parallelism = Parallelism]
         IN /\ k \in Jobs /\ k.template = j.template /\ k.active = j.active
            /\ k.condition = j.condition /\ k.failed = j.failed
BY DEF Jobs, Parallelism

LEMMA StartType ==
  ASSUME NEW j \in Jobs
  PROVE  LET k == [j EXCEPT !.active = TRUE]
         IN /\ k \in Jobs /\ k.template = j.template /\ k.active
            /\ k.condition = j.condition /\ k.failed = j.failed
BY DEF Jobs

LEMMA StopType ==
  ASSUME NEW j \in Jobs
  PROVE  LET k == [j EXCEPT !.active = FALSE]
         IN /\ k \in Jobs /\ k.template = j.template /\ ~k.active
            /\ k.condition = j.condition /\ k.failed = j.failed
BY DEF Jobs

LEMMA SuccessType ==
  ASSUME NEW j \in Jobs
  PROVE  LET k == [j EXCEPT !.active = FALSE, !.condition = "Complete"]
         IN /\ k \in Jobs /\ k.template = j.template /\ ~k.active
            /\ k.condition = "Complete" /\ k.failed = j.failed
BY DEF Jobs

LEMMA FailureType ==
  ASSUME NEW j \in Jobs, j.failed <= Limit
  PROVE  LET k == [j EXCEPT !.active = FALSE, !.failed = @ + 1,
                            !.condition = IF j.failed + 1 > Limit
                                          THEN "Failed" ELSE "None"]
         IN /\ k \in Jobs /\ k.template = j.template /\ ~k.active
            /\ k.condition \in {"Failed", "None"} /\ k.failed = j.failed + 1
            /\ k.condition = "None" => k.failed <= Limit
<1> DEFINE n == j.failed + 1
           c == IF n > Limit THEN "Failed" ELSE "None"
<1>1. j.failed \in Nat /\ Limit \in Nat
  BY BoundAssumption DEF Jobs
<1>2. n \in 0 .. Limit + 1 /\ (c = "None" => n <= Limit)
  BY <1>1
<1>3. c \in {"Failed", "None"}
  OBVIOUS
<1>4. [j EXCEPT !.active = FALSE, !.failed = @ + 1,
                !.condition = IF j.failed + 1 > Limit
                              THEN "Failed" ELSE "None"]
        = [j EXCEPT !.active = FALSE, !.failed = n, !.condition = c]
  BY DEF Jobs
<1> HIDE DEF n, c
<1>5. LET k == [j EXCEPT !.active = FALSE, !.failed = n, !.condition = c]
      IN /\ k \in Jobs /\ k.template = j.template /\ ~k.active
         /\ k.condition = c /\ k.failed = n
  BY <1>2, <1>3 DEF Jobs
<1>6. QED
  BY <1>2, <1>3, <1>4, <1>5 DEF n

(* The Update changes the parallelism at most.                             *)
LEMMA UpdatedType ==
  ASSUME ValuesOK, JobUpdated
  PROVE  \/ job' = job
         \/ /\ job \in Jobs /\ job' \in Jobs /\ job'.template = job.template
            /\ job'.active = job.active /\ job'.condition = job.condition
            /\ job'.failed = job.failed
<1>1. CASE job' = job
  BY <1>1
<1>2. CASE job' # job
  <2>1. job \in Jobs /\ job' = [job EXCEPT !.parallelism = Parallelism]
    BY <1>2 DEF JobUpdated, ValuesOK
  <2>2. QED
    BY <2>1, ResizeType
<1>3. QED
  BY <1>1, <1>2

-----------------------------------------------------------------------------
(* What the steps do, in terms of the Job's fields. *)

Owner == <<setup, spec, status, phase>>

LEMMA DeletedEffect ==
  ASSUME DeleteFailedJob \/ RecreateJob
  PROVE  /\ Reconciling /\ cache # NoJob /\ job # NoJob /\ job' = NoJob
         /\ HasFailed(cache) \/ ~TemplateIs(cache, now)
         /\ UNCHANGED Owner /\ UNCHANGED <<cache, dataVars, history, bounds>>
BY Zenon DEF DeleteFailedJob, RecreateJob, DeleteJob, MoverRuns, Owner, ownerVars

LEMMA CreateEffect ==
  ASSUME ValuesOK, CreateJob
  PROVE  /\ Reconciling /\ cache = NoJob /\ job = NoJob
         /\ job' \in Jobs /\ job' # NoJob
         /\ job'.template = Template(now) /\ ~job'.active
         /\ job'.condition = "None" /\ job'.failed = 0
         /\ UNCHANGED Owner
         /\ UNCHANGED <<cache, orphan, dataVars, history, bounds>>
<1>1. /\ Reconciling /\ cache = NoJob /\ job = NoJob /\ job' = NewJob
      /\ UNCHANGED Owner
      /\ UNCHANGED <<cache, orphan, dataVars, history, bounds>>
  BY Zenon DEF CreateJob, MoverRuns, NewJob, Owner, ownerVars
<1>2. QED
  BY <1>1, NewJobType, NoJobAssumption

LEMMA PodStartsEffect ==
  ASSUME ValuesOK, PodStarts
  PROVE  /\ job \in Jobs /\ job' \in Jobs /\ job # NoJob /\ job' # NoJob
         /\ job.condition = "None" /\ ~job.active
         /\ job'.template = job.template /\ job'.active
         /\ job'.condition = job.condition /\ job'.failed = job.failed
         /\ orphan => OrphansLinger
         /\ unlockedFor' = unlockedFor \cup
              (IF job.template.unlock THEN {spec.unlock} \ {NoUnlock} ELSE {})
         /\ UNCHANGED Owner
         /\ UNCHANGED <<cache, orphan, snap, image, moved, pruned, bounds>>
<1>1. /\ job # NoJob /\ job.condition = "None" /\ ~job.active
      /\ job' = [job EXCEPT !.active = TRUE] /\ (orphan => OrphansLinger)
      /\ unlockedFor' = unlockedFor \cup
           (IF job.template.unlock THEN {spec.unlock} \ {NoUnlock} ELSE {})
      /\ UNCHANGED Owner
      /\ UNCHANGED <<cache, orphan, snap, image, moved, pruned, bounds>>
  BY Zenon DEF PodStarts, Owner, ownerVars
<1>2. job \in Jobs
  BY <1>1 DEF ValuesOK
<1>3. QED
  BY <1>1, <1>2, StartType, NoJobAssumption

LEMMA PodSucceedsEffect ==
  ASSUME ValuesOK, PodSucceeds
  PROVE  /\ job \in Jobs /\ job' \in Jobs /\ job # NoJob /\ job' # NoJob
         /\ job.active /\ job'.template = job.template /\ ~job'.active
         /\ job'.condition = "Complete" /\ job'.failed = job.failed
         /\ ~dirty' /\ moved' /\ (pruned \/ job.template.prune => pruned')
         /\ snap' = IF snap = "clean" THEN "stale" ELSE snap
         /\ UNCHANGED Owner
         /\ UNCHANGED <<cache, orphan, image, unlockedFor, bounds>>
<1>1. /\ job # NoJob /\ job.active
      /\ job' = [job EXCEPT !.active = FALSE, !.condition = "Complete"]
      /\ ~dirty' /\ moved' /\ (pruned \/ job.template.prune => pruned')
      /\ snap' = IF snap = "clean" THEN "stale" ELSE snap
      /\ UNCHANGED Owner
      /\ UNCHANGED <<cache, orphan, image, unlockedFor, bounds>>
  BY Zenon DEF PodSucceeds, Owner, ownerVars
<1>2. job \in Jobs
  BY <1>1 DEF ValuesOK
<1>3. QED
  BY <1>1, <1>2, SuccessType, NoJobAssumption

(* A pod that ends otherwise: it fails, or it is stopped.                  *)
LEMMA PodEndsEffect ==
  ASSUME ValuesOK, CountInv, PodFails \/ PodStopped
  PROVE  /\ job \in Jobs /\ job' \in Jobs /\ job # NoJob /\ job' # NoJob
         /\ job.active /\ job.condition = "None"
         /\ job'.template = job.template /\ ~job'.active
         /\ job'.condition \in {"Failed", "None"}
         /\ job'.condition = "None" => job'.failed <= Limit
         /\ UNCHANGED Owner
         /\ UNCHANGED <<cache, orphan, dataVars, history, now, edits>>
         /\ faults' \in {faults, faults + 1}
         /\ faults' # faults => faults < MaxFaults
<1>1. /\ job # NoJob /\ job.active /\ UNCHANGED Owner
      /\ UNCHANGED <<cache, orphan, dataVars, history, now, edits>>
      /\ faults' \in {faults, faults + 1}
      /\ faults' # faults => faults < MaxFaults
  BY DEF PodFails, PodStopped, Owner, ownerVars, bounds
<1>2. job \in Jobs /\ job.condition = "None" /\ job.failed <= Limit
  BY <1>1 DEF ValuesOK, CountInv
<1>3. CASE PodFails
  <2>1. job' = [job EXCEPT !.active = FALSE, !.failed = @ + 1,
                           !.condition = IF job.failed + 1 > Limit
                                         THEN "Failed" ELSE "None"]
    BY <1>3 DEF PodFails
  <2>2. QED
    BY <1>1, <1>2, <2>1, FailureType, NoJobAssumption
<1>4. CASE PodStopped
  <2>1. job' = [job EXCEPT !.active = FALSE]
    BY <1>4 DEF PodStopped
  <2>2. QED
    BY <1>1, <1>2, <2>1, StopType, NoJobAssumption
<1>5. QED
  BY <1>3, <1>4

(* A reconcile that finds the Job done, or pauses or resumes it.           *)
LEMMA UpdateEffect ==
  ASSUME ValuesOK,
         \/ UpdateJob
         \/ \E saved \in BOOLEAN, current \in {now, now + 1} :
              JobCompleted(saved, current)
  PROVE  /\ Reconciling /\ cache # NoJob
         /\ ~HasFailed(cache) /\ TemplateIs(cache, now)
         /\ \/ job' = job
            \/ /\ job \in Jobs /\ job' \in Jobs /\ job # NoJob /\ job' # NoJob
               /\ job'.template = job.template
               /\ job'.active = job.active /\ job'.condition = job.condition
               /\ job'.failed = job.failed
         /\ UNCHANGED <<setup, spec, cache, orphan, dirty, history, edits>>
<1>1. /\ Reconciling /\ cache # NoJob /\ JobUpdated
      /\ ~HasFailed(cache) /\ TemplateIs(cache, now)
      /\ UNCHANGED <<setup, spec, cache, orphan, dirty, history, edits>>
  BY Zenon DEF UpdateJob, JobCompleted, JobUpdated, MoverRuns, EnsureImage,
     ownerVars, dataVars, bounds
<1>2. QED
  BY <1>1, UpdatedType, NoJobAssumption

LEMMA CompletedEffect ==
  ASSUME ValuesOK, NEW saved \in BOOLEAN, NEW current \in {now, now + 1},
         JobCompleted(saved, current)
  PROVE  /\ HasSucceeded(cache) /\ now' = current
         /\ snap' = IF ~ImageReady /\ snap = "none" THEN "created" ELSE snap
         /\ \/ /\ ImageReady /\ phase' = "cleaningup"
               /\ status' = RecordedStatus(current) /\ faults' = faults
               /\ image' = IF snap \in Cuts THEN snap ELSE image
            \/ /\ ~ImageReady /\ phase' = phase /\ image' = image
               /\ status' = RecordedStatus(current) /\ faults' = faults
            \/ /\ faults < MaxFaults /\ faults' = faults + 1
               /\ UNCHANGED <<status, phase, image>>
BY Zenon DEF JobCompleted, EnsureImage, SaveStatus, Credit

LEMMA CleanupEffect ==
  ASSUME Cleanup
  PROVE  /\ phase = "cleaningup" /\ job' = NoJob /\ snap' = "none"
         /\ cache' \in {cache, NoJob}
         /\ ~CacheMissesCleanup => cache' = NoJob
         /\ phase' \in {"synchronizing", "cleaningup"}
         /\ UNCHANGED <<setup, spec, status, dirty, image, unlockedFor, bounds>>
BY Zenon DEF Cleanup, DeleteJob

(* What the user changes.                                                  *)
LEMMA UserEffect ==
  ASSUME ValuesOK, User
  PROVE  /\ UNCHANGED <<setup, status, phase, jobVars, dataVars, history, now,
                        faults>>
         /\ spec' \in Specs
         /\ edits' \in {edits, edits + 1}
         /\ edits' # edits => edits < MaxEdits
         /\ spec'.unlock # spec.unlock =>
              HastyUser \/ status.unlocked = spec.unlock
         /\ spec'.conf # spec.conf => HastyUser \/ (snap = "none" /\ ~Outlived)
<1>1. spec \in Specs
  BY DEF ValuesOK, Specs
<1>2. ASSUME NEW value \in Unlocks \cup {NoUnlock}
      PROVE  LET x == [spec EXCEPT !.unlock = value]
             IN x \in Specs /\ x.conf = spec.conf
  BY <1>1 DEF Specs
<1>3. ASSUME NEW value \in Confs
      PROVE  LET x == [spec EXCEPT !.conf = value]
             IN x \in Specs /\ x.unlock = spec.unlock
  BY <1>1 DEF Specs
<1>4. LET x == [spec EXCEPT !.paused = TRUE]
          y == [spec EXCEPT !.paused = FALSE]
      IN /\ x \in Specs /\ x.unlock = spec.unlock /\ x.conf = spec.conf
         /\ y \in Specs /\ y.unlock = spec.unlock /\ y.conf = spec.conf
  BY <1>1 DEF Specs
<1>5. CASE \E value \in Unlocks \cup {NoUnlock} : SetUnlock(value)
  BY <1>2, <1>5 DEF SetUnlock, Edit
<1>6. CASE \E value \in Confs : SetConf(value)
  BY <1>3, <1>6 DEF SetConf, Edit
<1>7. CASE Pause
  BY <1>4, <1>7 DEF Pause, Edit
<1>8. CASE Resume
  BY <1>4, <1>8 DEF Resume, bounds
<1>9. QED
  BY <1>5, <1>6, <1>7, <1>8 DEF User

-----------------------------------------------------------------------------
(* Type correctness. *)

LEMMA RecordedType ==
  ASSUME ValuesOK, NEW current \in 0 .. MaxTime
  PROVE  /\ RecordedStatus(current) \in
              [unlocked : Unlocks \cup {NoUnlock}, pruned : 0 .. MaxTime,
               limit : Confs \cup {NoConf}]
         /\ RecordedStatus(current).unlocked \in
              {status.unlocked, spec.unlock, NoUnlock}
         /\ RecordedStatus(current).unlocked \notin {status.unlocked, NoUnlock}
              => setup.kind = "restic" /\ IsSource /\ shouldUnlock
<1> DEFINE u == IF shouldUnlock THEN spec.unlock
                ELSE IF spec.unlock = NoUnlock THEN NoUnlock
                ELSE status.unlocked
           r == IF shouldPrune(current) THEN current ELSE status.pruned
<1>1. /\ u \in Unlocks \cup {NoUnlock} /\ r \in 0 .. MaxTime
      /\ u \in {status.unlocked, spec.unlock, NoUnlock}
      /\ u \notin {status.unlocked, NoUnlock} => shouldUnlock
  BY DEF ValuesOK
<1>2. ResticStatus(current) = [status EXCEPT !.unlocked = u, !.pruned = r]
  BY DEF ResticStatus, ValuesOK
<1> HIDE DEF u, r
<1>3. CASE setup.kind = "restic" /\ IsSource
  BY <1>1, <1>2, <1>3 DEF RecordedStatus, ValuesOK
<1>4. CASE ~(setup.kind = "restic" /\ IsSource)
  BY <1>4 DEF RecordedStatus, KopiaStatus, ValuesOK
<1>5. QED
  BY <1>3, <1>4

LEMMA ValuesStep ==
  ValuesOK /\ CountInv /\ [Next]_vars => ValuesOK' /\ CountInv'
<1> SUFFICES ASSUME ValuesOK, CountInv, [Next]_vars
             PROVE  ValuesOK' /\ CountInv'
  OBVIOUS
<1> USE BoundAssumption
    DEF Owner, ownerVars, jobVars, dataVars, history, bounds
<1>1. CASE KopiaPaused
  <2>1. UNCHANGED <<setup, spec, status, jobVars, dataVars, history, bounds>>
        /\ phase' = "cleaningup"
    BY <1>1 DEF KopiaPaused, Credit
  <2>2. QED
    BY <2>1 DEF ValuesOK, CountInv
<1>2. CASE CreateJob
  BY <1>2, CreateEffect DEF ValuesOK, CountInv
<1>3. CASE DeleteFailedJob \/ RecreateJob
  BY <1>3, DeletedEffect DEF ValuesOK, CountInv
<1>4. CASE UpdateJob
  <2>1. UNCHANGED <<status, phase, snap, image, now, faults>>
    BY <1>4 DEF UpdateJob
  <2>2. QED
    BY <1>4, <2>1, UpdateEffect DEF ValuesOK, CountInv
<1>5. CASE \E saved \in BOOLEAN, current \in {now, now + 1} :
             current <= MaxTime /\ JobCompleted(saved, current)
  <2>1. PICK saved \in BOOLEAN, current \in {now, now + 1} :
               current <= MaxTime /\ JobCompleted(saved, current)
    BY <1>5
  <2>2. current \in 0 .. MaxTime
    BY <2>1 DEF ValuesOK
  <2>3. /\ UNCHANGED <<setup, spec, cache, unlockedFor, edits>>
        /\ \/ job' = job
           \/ /\ job' \in Jobs /\ job # NoJob
              /\ job'.active = job.active /\ job'.condition = job.condition
              /\ job'.failed = job.failed
    BY <2>1, UpdateEffect
  <2>4. CountInv'
    BY <2>3 DEF CountInv
  <2>5. /\ now' = current /\ snap' \in {"created", snap}
        /\ phase' \in {"cleaningup", phase} /\ image' \in {image} \cup Cuts
        /\ status' \in {status, RecordedStatus(current)}
        /\ faults' \in 0 .. MaxFaults
    BY <2>1, CompletedEffect DEF ValuesOK
  <2>6. QED
    BY <2>2, <2>3, <2>4, <2>5, RecordedType DEF ValuesOK
<1>6. CASE Cleanup
  BY <1>6, CleanupEffect DEF ValuesOK, CountInv
<1>7. CASE CacheSync
  BY <1>7 DEF CacheSync, ValuesOK, CountInv
<1>8. CASE PodStarts
  BY <1>8, PodStartsEffect DEF ValuesOK, CountInv
<1>9. CASE PodSucceeds
  BY <1>9, PodSucceedsEffect DEF ValuesOK, CountInv, Cuts
<1>10. CASE PodFails \/ PodStopped
  BY <1>10, PodEndsEffect DEF ValuesOK, CountInv
<1>11. CASE OrphanEnds
  <2>1. UNCHANGED <<Owner, job, cache, snap, image, history, bounds>>
    BY <1>11, Zenon DEF OrphanEnds
  <2>2. QED
    BY <2>1 DEF ValuesOK, CountInv
<1>12. CASE CutSnapshot
  BY <1>12 DEF CutSnapshot, ValuesOK, CountInv, Cuts
<1>13. CASE Tick
  BY <1>13 DEF Tick, ValuesOK, CountInv
<1>14. CASE User
  BY <1>14, UserEffect DEF ValuesOK, CountInv, Specs
<1>15. CASE UNCHANGED vars
  BY <1>15 DEF vars, ValuesOK, CountInv
<1>16. QED
  BY <1>1, <1>2, <1>3, <1>4, <1>5, <1>6, <1>7, <1>8, <1>9, <1>10, <1>11,
     <1>12, <1>13, <1>14, <1>15 DEF Next, Synchronize, PodEnds

LEMMA FlagsStep == FlagsOK /\ [Next]_vars => FlagsOK'
<1> SUFFICES ASSUME FlagsOK, [Next]_vars PROVE FlagsOK'
  OBVIOUS
<1> USE DEF ownerVars, jobVars, dataVars, history, bounds, FlagsOK
<1>1. CASE KopiaPaused \/ CreateJob \/ UpdateJob
  BY Zenon, <1>1 DEF KopiaPaused, CreateJob, UpdateJob
<1>2. CASE DeleteFailedJob \/ RecreateJob \/ Cleanup
  BY Zenon, <1>2 DEF DeleteFailedJob, RecreateJob, Cleanup, DeleteJob
<1>3. CASE \E saved \in BOOLEAN, current \in {now, now + 1} :
             JobCompleted(saved, current)
  BY Zenon, <1>3 DEF JobCompleted, EnsureImage
<1>4. CASE CacheSync \/ OrphanEnds \/ CutSnapshot \/ Tick
  BY Zenon, <1>4 DEF CacheSync, OrphanEnds, CutSnapshot, Tick
<1>5. CASE PodStarts
  BY Zenon, <1>5 DEF PodStarts
<1>6. CASE PodSucceeds
  BY Zenon, <1>6 DEF PodSucceeds
<1>7. CASE PodFails \/ PodStopped
  BY Zenon, <1>7 DEF PodFails, PodStopped
<1>8. CASE User
  BY Zenon, <1>8 DEF User, SetUnlock, SetConf, Pause, Resume, Edit
<1>9. CASE UNCHANGED vars
  BY Zenon, <1>9 DEF vars
<1>10. QED
  BY <1>1, <1>2, <1>3, <1>4, <1>5, <1>6, <1>7, <1>8, <1>9
     DEF Next, Synchronize, PodEnds

LEMMA TypeInit == Init => FlagsOK /\ ValuesOK /\ CountInv
<1> SUFFICES ASSUME Init PROVE FlagsOK /\ ValuesOK /\ CountInv
  OBVIOUS
<1>1. FlagsOK
  BY Zenon DEF Init, FlagsOK
<1>2. /\ setup \in Setups
      /\ spec \in [paused : {FALSE}, unlock : {NoUnlock},
                   conf : Confs \cup {NoConf}]
      /\ status = [unlocked |-> NoUnlock, pruned |-> 0, limit |-> NoConf]
      /\ phase = "synchronizing" /\ job = NoJob /\ cache = NoJob
      /\ snap = "none" /\ image = "none"
      /\ now = 0 /\ edits = 0 /\ faults = 0 /\ unlockedFor = {}
  BY Zenon DEF Init
<1>3. CountInv
  BY <1>2 DEF CountInv
<1>4. ValuesOK
  <2>1. spec \in Specs
    BY <1>2 DEF Specs
  <2>2. /\ 0 \in 0 .. MaxTime /\ 0 \in 0 .. MaxEdits /\ 0 \in 0 .. MaxFaults
        /\ status \in [unlocked : Unlocks \cup {NoUnlock},
                       pruned : 0 .. MaxTime, limit : Confs \cup {NoConf}]
    BY <1>2, BoundAssumption
  <2>3. QED
    BY <1>2, <2>1, <2>2 DEF ValuesOK, Specs
<1>5. QED
  BY <1>1, <1>3, <1>4

LEMMA CountInvariant == Spec => [](FlagsOK /\ ValuesOK /\ CountInv)
BY TypeInit, ValuesStep, FlagsStep, PTL DEF Spec

(* Every variable has its type; the Job never counts more failures than    *)
(* backoffLimit allows it to.                                              *)
THEOREM TypeCorrect == Spec => []TypeOK
<1>1. FlagsOK /\ ValuesOK /\ CountInv => TypeOK
  BY DEF TypeOK
<1>2. QED
  BY <1>1, CountInvariant, PTL

-----------------------------------------------------------------------------
(* A synchronization is credited only for work done. *)

Completes ==
  \E saved \in BOOLEAN, current \in {now, now + 1} :
    current <= MaxTime /\ JobCompleted(saved, current)

(* The steps that touch neither the Job nor the phase.                     *)
Aside == CacheSync \/ OrphanEnds \/ CutSnapshot \/ Tick \/ User
           \/ UNCHANGED vars

LEMMA StepCases ==
  ASSUME [Next]_vars
  PROVE  \/ KopiaPaused \/ CreateJob \/ DeleteFailedJob \/ RecreateJob
         \/ UpdateJob \/ Completes \/ Cleanup \/ PodStarts \/ PodSucceeds
         \/ PodFails \/ PodStopped \/ Aside
BY DEF Next, Synchronize, PodEnds, Completes, Aside

LEMMA AsideEffect ==
  ASSUME ValuesOK, Aside
  PROVE  /\ UNCHANGED <<setup, status, phase, job, moved, pruned, unlockedFor>>
         /\ cache' \in {cache, job}
         /\ ~User => UNCHANGED spec
<1> USE DEF ownerVars, jobVars, dataVars, history, bounds
<1>1. CASE User
  BY <1>1, UserEffect
<1>2. CASE CacheSync \/ OrphanEnds \/ CutSnapshot \/ Tick
  BY Zenon, <1>2 DEF CacheSync, OrphanEnds, CutSnapshot, Tick
<1>3. CASE UNCHANGED vars
  BY <1>3 DEF vars
<1>4. QED
  BY <1>1, <1>2, <1>3 DEF Aside

LEMMA CompletesEffect ==
  ASSUME ValuesOK, Completes
  PROVE  /\ Reconciling /\ HasSucceeded(cache) /\ cache # NoJob
         /\ ~HasFailed(cache) /\ TemplateIs(cache, now)
         /\ \/ job' = job
            \/ /\ job \in Jobs /\ job' \in Jobs /\ job # NoJob /\ job' # NoJob
               /\ job'.template = job.template
               /\ job'.active = job.active /\ job'.condition = job.condition
               /\ job'.failed = job.failed
         /\ UNCHANGED <<setup, spec, cache, orphan, dirty, history, edits>>
         /\ snap' = IF ~ImageReady /\ snap = "none" THEN "created" ELSE snap
         /\ \/ /\ ImageReady /\ phase' = "cleaningup"
               /\ image' = IF snap \in Cuts THEN snap ELSE image
            \/ ~ImageReady /\ phase' = phase /\ image' = image
            \/ UNCHANGED <<status, phase, image>>
         /\ status'.unlocked \notin {status.unlocked, NoUnlock} =>
              /\ setup.kind = "restic" /\ IsSource /\ shouldUnlock
              /\ status'.unlocked = spec.unlock
<1>1. PICK saved \in BOOLEAN, current \in {now, now + 1} :
             current <= MaxTime /\ JobCompleted(saved, current)
  BY DEF Completes
<1>2. current \in 0 .. MaxTime
  BY <1>1, BoundAssumption DEF ValuesOK
<1>3. /\ status' \in {status, RecordedStatus(current)}
      /\ HasSucceeded(cache)
      /\ snap' = IF ~ImageReady /\ snap = "none" THEN "created" ELSE snap
      /\ \/ /\ ImageReady /\ phase' = "cleaningup"
            /\ image' = IF snap \in Cuts THEN snap ELSE image
         \/ ~ImageReady /\ phase' = phase /\ image' = image
         \/ UNCHANGED <<status, phase, image>>
  BY <1>1, CompletedEffect
<1>4. status'.unlocked \notin {status.unlocked, NoUnlock} =>
        /\ setup.kind = "restic" /\ IsSource /\ shouldUnlock
        /\ status'.unlocked = spec.unlock
  BY <1>2, <1>3, RecordedType
<1>5. QED
  BY <1>1, <1>3, <1>4, UpdateEffect

LEMMA EarnedStep ==
  ASSUME ~CacheMissesCleanup, ValuesOK, CountInv, EarnedInv, [Next]_vars
  PROVE  EarnedInv'
<1> USE DEF EarnedInv, Theirs, Reconciling, HasSucceeded
<1>1. CASE KopiaPaused
  BY <1>1 DEF KopiaPaused, Credit
<1>2. CASE CreateJob
  BY <1>2, CreateEffect DEF Owner, history
<1>3. CASE DeleteFailedJob \/ RecreateJob
  BY <1>3, DeletedEffect DEF Owner, history
<1>4. CASE UpdateJob
  <2>1. phase' = phase
    BY <1>4 DEF UpdateJob, ownerVars
  <2>2. QED
    BY <1>4, <2>1, UpdateEffect DEF history
<1>5. CASE Completes
  BY <1>5, CompletesEffect DEF history
<1>6. CASE Cleanup
  BY <1>6, CleanupEffect
<1>7. CASE PodStarts
  BY <1>7, PodStartsEffect DEF Owner
<1>8. CASE PodSucceeds
  BY <1>8, PodSucceedsEffect DEF Owner
<1>9. CASE PodFails \/ PodStopped
  BY <1>9, PodEndsEffect DEF Owner, history
<1>10. CASE Aside
  BY <1>10, AsideEffect
<1>11. QED
  BY <1>1, <1>2, <1>3, <1>4, <1>5, <1>6, <1>7, <1>8, <1>9, <1>10, StepCases

(* A synchronization ends by a reconcile that has found the Job done.      *)
LEMMA CreditStep ==
  ASSUME ValuesOK, CountInv, [Next]_vars, Credited, ~spec.paused
  PROVE  Completes
<1> USE DEF Credited, Owner
<1>1. ~KopiaPaused
  BY DEF KopiaPaused
<1>2. ~UpdateJob
  BY DEF UpdateJob, ownerVars
<1>3. ~Cleanup
  BY CleanupEffect
<1>4. ~CreateJob /\ ~DeleteFailedJob /\ ~RecreateJob
  BY CreateEffect, DeletedEffect
<1>5. ~PodStarts /\ ~PodSucceeds /\ ~PodFails /\ ~PodStopped
  BY PodStartsEffect, PodSucceedsEffect, PodEndsEffect
<1>6. ~Aside
  BY AsideEffect
<1>7. QED
  BY <1>1, <1>2, <1>3, <1>4, <1>5, <1>6, StepCases

(* As long as the cache never shows a Job that Cleanup has deleted, a sync *)
(* that is reported as over has moved data, and pruned if that was due:    *)
(* for any number of failed pods, retries and rebuilt Jobs                 *)
(* (restic/mover.go:378, 623, kopia/mover.go:1471).                        *)
THEOREM SyncsAreEarned ==
  ASSUME ~CacheMissesCleanup
  PROVE  Spec => CreditIsEarned
<1> DEFINE Earned ==
      Credited /\ ~spec.paused =>
        /\ moved
        /\ setup.kind = "restic" /\ IsSource /\ shouldPrune(now) => pruned
<1>1. Init => EarnedInv
  <2>1. Init => job = NoJob /\ cache = NoJob
    BY Zenon DEF Init
  <2>2. QED
    BY <2>1 DEF EarnedInv, Theirs
<1>2. Spec => [](ValuesOK /\ CountInv)
  BY CountInvariant, PTL
<1>3. ValuesOK /\ CountInv /\ EarnedInv /\ [Next]_vars => EarnedInv'
  BY EarnedStep
<1>4. ASSUME ValuesOK, CountInv, EarnedInv, [Next]_vars
      PROVE  [Earned]_vars
  <2> SUFFICES ASSUME Credited, ~spec.paused
               PROVE  /\ moved
                      /\ setup.kind = "restic" /\ IsSource /\ shouldPrune(now)
                           => pruned
    OBVIOUS
  <2>1. /\ HasSucceeded(cache) /\ cache # NoJob /\ Reconciling
        /\ cache.template = Template(now)
    BY <1>4, CreditStep, CompletesEffect DEF TemplateIs
  <2>2. moved /\ (cache.template.prune => pruned)
    BY <1>4, <2>1 DEF EarnedInv, Theirs
  <2>3. now \in Nat
    BY <1>4, BoundAssumption DEF ValuesOK
  <2>4. QED
    BY <1>4, <2>1, <2>2, <2>3, TemplateType
<1>5. Spec => [][Earned]_vars
  BY <1>1, <1>2, <1>3, <1>4, PTL DEF Spec
<1>6. QED
  BY <1>5 DEF CreditIsEarned

-----------------------------------------------------------------------------
(* What is acknowledged as unlocked has been unlocked. *)

LEMMA UnlockStep ==
  ASSUME ~HastyUser, ~CacheMissesCleanup, ValuesOK, CountInv,
         UnlockInv, UnlockAcknowledged, [Next]_vars
  PROVE  UnlockInv' /\ UnlockAcknowledged'
<1> USE DEF UnlockInv, UnlockAcknowledged, Theirs, Reconciling, HasSucceeded,
            IsSource, shouldUnlock
<1>n. now \in Nat
  BY BoundAssumption DEF ValuesOK
<1>1. CASE KopiaPaused
  BY <1>1 DEF KopiaPaused, Credit, history
<1>2. CASE CreateJob
  <2>1. Template(now).unlock =>
          setup.kind = "restic" /\ IsSource /\ shouldUnlock
    BY <1>n, TemplateType
  <2>2. QED
    BY <1>2, <2>1, CreateEffect DEF Owner, history
<1>3. CASE DeleteFailedJob \/ RecreateJob
  BY <1>3, DeletedEffect DEF Owner, history
<1>4. CASE UpdateJob
  <2>1. phase' = phase /\ status' = status
    BY <1>4 DEF UpdateJob, ownerVars
  <2>2. QED
    BY <1>4, <2>1, UpdateEffect DEF history
<1>5. CASE Completes
  <2>1. UnlockInv'
    <3>1. CASE phase' = "cleaningup"
      BY <3>1
    <3>2. CASE ~ImageReady
      <4>1. ~IsSource
        BY <3>2 DEF ImageReady
      <4>2. QED
        BY <1>5, <4>1, CompletesEffect DEF history
    <3>3. CASE UNCHANGED <<status, phase>>
      BY <1>5, <3>3, CompletesEffect DEF history
    <3>4. QED
      BY <1>5, <3>1, <3>2, <3>3, CompletesEffect
  <2>2. CASE status'.unlocked \in {status.unlocked, NoUnlock}
    BY <1>5, <2>1, <2>2, CompletesEffect DEF history
  <2>3. CASE status'.unlocked \notin {status.unlocked, NoUnlock}
    <3>1. cache.template.unlock
      BY <1>5, <1>n, <2>3, CompletesEffect, TemplateType DEF TemplateIs
    <3>2. spec.unlock \in unlockedFor
      BY <1>5, <3>1, CompletesEffect
    <3>3. QED
      BY <1>5, <2>1, <2>3, <3>2, CompletesEffect DEF history
  <2>4. QED
    BY <2>2, <2>3
<1>6. CASE Cleanup
  BY <1>6, CleanupEffect
<1>7. CASE PodStarts
  BY <1>7, PodStartsEffect DEF Owner
<1>8. CASE PodSucceeds
  BY <1>8, PodSucceedsEffect DEF Owner
<1>9. CASE PodFails \/ PodStopped
  BY <1>9, PodEndsEffect DEF Owner, history
<1>10. CASE User
  <2>1. spec'.unlock # spec.unlock => status.unlocked = spec.unlock
    BY <1>10, UserEffect
  <2>2. UNCHANGED <<setup, status, phase, job, cache, unlockedFor>>
    BY <1>10, UserEffect DEF jobVars, history
  <2>3. QED
    BY <2>1, <2>2
<1>11. CASE Aside /\ ~User
  BY <1>11, AsideEffect
<1>12. QED
  BY <1>1, <1>2, <1>3, <1>4, <1>5, <1>6, <1>7, <1>8, <1>9, <1>10, <1>11,
     StepCases

(* For a user who waits for lastUnlocked before changing unlock again, and *)
(* a cache that does not show Jobs Cleanup has deleted: if lastUnlocked    *)
(* names a value, `restic unlock` has run while the spec held that value   *)
(* (replicationsource_types.go:206, restic/mover.go:373, 629).             *)
THEOREM UnlocksHappen ==
  ASSUME ~HastyUser, ~CacheMissesCleanup
  PROVE  Spec => []UnlockAcknowledged
<1>1. Init => UnlockInv /\ UnlockAcknowledged
  <2>1. Init => /\ job = NoJob /\ cache = NoJob
                /\ status = [unlocked |-> NoUnlock, pruned |-> 0,
                             limit |-> NoConf]
    BY Zenon DEF Init
  <2>2. QED
    BY <2>1 DEF UnlockInv, Theirs, UnlockAcknowledged
<1>2. Spec => [](ValuesOK /\ CountInv)
  BY CountInvariant, PTL
<1>3. ASSUME ValuesOK, CountInv, UnlockInv, UnlockAcknowledged, [Next]_vars
      PROVE  UnlockInv' /\ UnlockAcknowledged'
  BY <1>3, UnlockStep
<1>4. QED
  BY <1>1, <1>2, <1>3, PTL DEF Spec

-----------------------------------------------------------------------------
(* The image. *)

LEMMA ImagingTemplate ==
  ASSUME ValuesOK, Imaging, NEW current \in Nat
  PROVE  Template(current) = PlainTemplate
<1>1. /\ setup.kind \in {"restic", "rclone", "rsync", "rsynctls"}
      /\ ~IsSource
  BY SetupAssumption DEF ValuesOK, Kinds, Imaging, IsSource
<1>2. CASE setup.kind = "restic"
  <2>1. ResticTemplate(current) =
          [PlainTemplate EXCEPT !.unlock = FALSE, !.prune = FALSE]
    BY <1>1 DEF ResticTemplate
  <2>2. QED
    BY <1>2, <2>1 DEF Template, PlainTemplate
<1>3. CASE setup.kind # "restic"
  BY <1>1, <1>3
     DEF Template, RcloneTemplate, RsyncTemplate, RsyncTLSTemplate
<1>4. QED
  BY <1>2, <1>3

NoKopiaImage ==
  \A x \in Setups : ~(/\ x.kind = "kopia" /\ x.role = "destination"
                      /\ x.copy = "Snapshot")

(* The cache's version of the Job.                                         *)
LEMMA VersionStep ==
  ASSUME ~CacheMissesCleanup, ValuesOK, CountInv, VersionInv, [Next]_vars
  PROVE  VersionInv'
<1> USE DEF VersionInv
<1>1. CASE KopiaPaused
  BY <1>1 DEF KopiaPaused, jobVars
<1>2. CASE CreateJob \/ DeleteFailedJob \/ RecreateJob
  BY <1>2, CreateEffect, DeletedEffect
<1>3. CASE UpdateJob
  BY <1>3, UpdateEffect
<1>4. CASE Completes
  BY <1>4, CompletesEffect
<1>5. CASE Cleanup
  BY <1>5, CleanupEffect
<1>6. CASE PodStarts
  BY <1>6, PodStartsEffect
<1>7. CASE PodSucceeds
  BY <1>7, PodSucceedsEffect DEF CountInv
<1>8. CASE PodFails \/ PodStopped
  BY <1>8, PodEndsEffect
<1>9. CASE Aside
  BY <1>9, AsideEffect
<1>10. QED
  BY <1>1, <1>2, <1>3, <1>4, <1>5, <1>6, <1>7, <1>8, <1>9, StepCases

(* What writes to the volume.                                              *)
LEMMA QuietStep ==
  ASSUME ~OrphansLinger, ValuesOK, CountInv, QuietInv, [Next]_vars
  PROVE  QuietInv'
<1> USE DEF QuietInv, HasSucceeded
<1>1. CASE KopiaPaused
  BY <1>1 DEF KopiaPaused, jobVars, dataVars
<1>2. CASE CreateJob \/ DeleteFailedJob \/ RecreateJob
  BY <1>2, CreateEffect, DeletedEffect
<1>3. CASE UpdateJob
  BY <1>3, UpdateEffect
<1>4. CASE Completes
  BY <1>4, CompletesEffect
<1>5. CASE Cleanup
  BY <1>5, CleanupEffect
<1>6. CASE PodStarts
  BY <1>6, PodStartsEffect
<1>7. CASE PodSucceeds
  BY <1>7, PodSucceedsEffect
<1>8. CASE PodFails \/ PodStopped
  BY <1>8, PodEndsEffect DEF dataVars
<1>9. CASE OrphanEnds
  <2>1. orphan /\ ~orphan' /\ job' = job
    BY <1>9, Zenon DEF OrphanEnds
  <2>2. QED
    BY <2>1
<1>10. CASE User
  BY <1>10, UserEffect DEF jobVars, dataVars
<1>11. CASE CacheSync \/ CutSnapshot \/ Tick \/ UNCHANGED vars
  <2>1. UNCHANGED <<job, orphan, dirty>>
    BY <1>11 DEF CacheSync, CutSnapshot, Tick, vars, jobVars, dataVars
  <2>2. QED
    BY <2>1
<1>12. QED
  BY <1>1, <1>2, <1>3, <1>4, <1>5, <1>6, <1>7, <1>8, <1>9, <1>10, <1>11,
     StepCases DEF Aside

(* The Job stays what the spec asks for while a snapshot is made.          *)
LEMMA ImagingStep ==
  ASSUME ~HastyUser, ~CacheMissesCleanup, ValuesOK, CountInv, VersionInv,
         ImagingInv, [Next]_vars
  PROVE  ImagingInv'
<1> USE DEF ImagingInv, Theirs, Reconciling, HasFailed, BackoffLimitReached,
            Outlived
<1>n. Imaging => Template(now) = PlainTemplate
  BY ImagingTemplate, BoundAssumption DEF ValuesOK
<1>s. ASSUME setup' = setup, spec' = spec
      PROVE  Imaging' = Imaging /\ PlainTemplate' = PlainTemplate
  BY <1>s DEF Imaging, PlainTemplate
<1> USE DEF Imaging
<1>1. CASE KopiaPaused
  BY <1>1 DEF KopiaPaused
<1>2. CASE CreateJob
  BY <1>2, <1>n, <1>s, CreateEffect DEF Owner, dataVars
<1>3. CASE DeleteFailedJob \/ RecreateJob
  BY <1>3, <1>n, <1>s, DeletedEffect DEF Owner, TemplateIs, dataVars
<1>4. CASE UpdateJob
  <2>1. phase' = phase /\ snap' = snap
    BY <1>4 DEF UpdateJob, ownerVars, dataVars
  <2>2. QED
    BY <1>4, <1>s, <2>1, UpdateEffect
<1>5. CASE Completes
  <2>1. Imaging => cache.template = PlainTemplate
    BY <1>5, <1>n, CompletesEffect DEF TemplateIs
  <2>2. Imaging => job # NoJob /\ job.template = PlainTemplate
    BY <1>5, <2>1, CompletesEffect DEF VersionInv
  <2>3. QED
    BY <1>5, <1>s, <2>1, <2>2, CompletesEffect
<1>6. CASE Cleanup
  BY <1>6, CleanupEffect
<1>7. CASE PodStarts
  BY <1>7, <1>s, PodStartsEffect DEF Owner
<1>8. CASE PodSucceeds
  BY <1>8, <1>s, PodSucceedsEffect DEF Owner
<1>9. CASE PodFails \/ PodStopped
  BY <1>9, <1>s, PodEndsEffect DEF Owner, dataVars
<1>10. CASE User
  <2>1. UNCHANGED <<setup, phase, job, cache, snap>>
    BY <1>10, UserEffect DEF jobVars, dataVars
  <2>2. snap # "none" \/ Outlived => spec'.conf = spec.conf
    BY <1>10, UserEffect
  <2>3. snap # "none" \/ Outlived => PlainTemplate' = PlainTemplate
    BY <2>2 DEF PlainTemplate
  <2>4. QED
    BY <2>1, <2>3
<1>11. CASE Aside /\ ~User
  <2>1. snap' # "none" => snap # "none"
    BY <1>11, Zenon DEF Aside, CacheSync, OrphanEnds, CutSnapshot, Tick, vars,
       dataVars
  <2>2. QED
    BY <1>11, <1>s, <2>1, AsideEffect
<1>12. QED
  BY <1>1, <1>2, <1>3, <1>4, <1>5, <1>6, <1>7, <1>8, <1>9, <1>10, <1>11,
     StepCases

(* The snapshot, and the image it becomes.                                 *)
LEMMA SnapStep ==
  ASSUME NoKopiaImage, ~CacheMissesCleanup, ValuesOK, CountInv, ImageInv,
         [Next]_vars
  PROVE  SnapInv' /\ ImageConsistent'
<1> USE DEF SnapInv, ImageConsistent, HasSucceeded, HasFailed,
            BackoffLimitReached, Imaging
<1>i. VersionInv /\ QuietInv /\ ImagingInv /\ SnapInv /\ ImageConsistent
  BY DEF ImageInv
<1>1. CASE KopiaPaused
  BY <1>i, <1>1 DEF KopiaPaused, jobVars, dataVars
<1>2. CASE CreateJob
  BY <1>i, <1>2, CreateEffect DEF Owner, dataVars
<1>3. CASE DeleteFailedJob \/ RecreateJob
  <2>1. cache # NoJob /\ Reconciling
    BY <1>3, DeletedEffect
  <2>2. Imaging /\ snap # "none" => TemplateIs(cache, now)
    BY <1>i, <2>1, ImagingTemplate, BoundAssumption
       DEF ImagingInv, Theirs, TemplateIs, ValuesOK
  <2>3. snap = "none"
    BY <1>i, <1>3, <2>2, DeletedEffect
  <2>4. QED
    BY <1>i, <1>3, <2>3, DeletedEffect DEF dataVars
<1>4. CASE UpdateJob
  <2>1. UNCHANGED <<snap, image>>
    BY <1>4 DEF UpdateJob, dataVars
  <2>2. QED
    BY <1>i, <1>4, <2>1, UpdateEffect
<1>5. CASE Completes
  <2>1. UNCHANGED <<setup, cache>>
    BY <1>5, CompletesEffect
  <2>2. CASE snap' = snap
    <3>1. SnapInv'
      BY <1>i, <1>5, <2>1, <2>2, CompletesEffect
    <3>2. QED
      BY <1>i, <1>5, <3>1, CompletesEffect DEF Cuts
  <2>3. CASE snap' # snap
    <3>1. ~ImageReady /\ snap' = "created" /\ image' = image
      BY <1>5, <2>3, CompletesEffect
    <3>2. Imaging
      BY <3>1, SetupAssumption
         DEF ImageReady, IsSource, NoKopiaImage, ValuesOK
    <3>3. job # NoJob /\ job.condition = "Complete"
      <4>1. cache.template = PlainTemplate
        BY <1>5, <3>2, CompletesEffect, ImagingTemplate, BoundAssumption
           DEF TemplateIs, ValuesOK
      <4>2. QED
        BY <1>i, <1>5, <3>2, <4>1, CompletesEffect
           DEF ImagingInv, Outlived, VersionInv
    <3>4. QED
      BY <1>i, <1>5, <2>1, <3>1, <3>2, <3>3, CompletesEffect
  <2>4. QED
    BY <2>2, <2>3
<1>6. CASE Cleanup
  BY <1>i, <1>6, CleanupEffect
<1>7. CASE PodStarts
  BY <1>i, <1>7, PodStartsEffect DEF Owner
<1>8. CASE PodSucceeds
  BY <1>i, <1>8, PodSucceedsEffect DEF Owner, CountInv
<1>9. CASE PodFails \/ PodStopped
  BY <1>i, <1>9, PodEndsEffect DEF Owner, dataVars
<1>10. CASE CutSnapshot
  <2>1. snap = "created" => ~dirty /\ ~orphan /\ ~(job # NoJob /\ job.active)
    BY <1>i DEF QuietInv, CountInv
  <2>2. snap = "created" /\ snap' = "clean" /\ UNCHANGED <<job, cache, image>>
        /\ setup' = setup
    BY <1>10, <2>1 DEF CutSnapshot, jobVars
  <2>3. QED
    BY <1>i, <2>2
<1>11. CASE CacheSync
  <2>1. cache' = job /\ UNCHANGED <<setup, job, snap, image>>
    BY <1>11 DEF CacheSync, dataVars
  <2>2. QED
    BY <1>i, <2>1 DEF VersionInv
<1>12. CASE User \/ OrphanEnds \/ Tick \/ UNCHANGED vars
  <2>1. User => UNCHANGED <<setup, job, cache, snap, image>>
    BY UserEffect DEF jobVars, dataVars
  <2>2. UNCHANGED <<setup, job, cache, snap, image>>
    BY Zenon, <1>12, <2>1
       DEF OrphanEnds, Tick, vars, jobVars, dataVars
  <2>3. QED
    BY <1>i, <2>2
<1>13. QED
  BY <1>1, <1>2, <1>3, <1>4, <1>5, <1>6, <1>7, <1>8, <1>9, <1>10, <1>11,
     <1>12, StepCases DEF Aside

(* Whatever fails, is retried, is paused or is edited before the snapshot  *)
(* is asked for, latestImage of a mover other than Kopia is a consistent   *)
(* image of the last transfer (restic/mover.go:172, 623-660).  It takes a  *)
(* cache that does not show Jobs deleted by Cleanup, no pod that outlives  *)
(* its Job into the next one, and a user who does not edit the spec while  *)
(* the snapshot is made: such an edit recreates the finished Job under the *)
(* snapshot, see MoverHasty.cfg.  For Kopia no user is needed for that:    *)
(* see KopiaRestore.cfg.                                                   *)
THEOREM ImagesAreConsistent ==
  ASSUME ~HastyUser, ~CacheMissesCleanup, ~OrphansLinger, NoKopiaImage
  PROVE  Spec => []ImageConsistent
<1>1. Init => ImageInv
  <2>1. Init => job = NoJob /\ cache = NoJob /\ snap = "none" /\ image = "none"
    BY Zenon DEF Init
  <2>2. QED
    BY <2>1 DEF ImageInv, VersionInv, QuietInv, ImagingInv, Theirs, Outlived,
       SnapInv, ImageConsistent
<1>2. Spec => [](ValuesOK /\ CountInv)
  BY CountInvariant, PTL
<1>3. ASSUME ValuesOK, CountInv, ImageInv, [Next]_vars
      PROVE  ImageInv'
  <2>1. VersionInv /\ QuietInv /\ ImagingInv
    BY <1>3 DEF ImageInv
  <2>2. VersionInv'
    BY <1>3, <2>1, VersionStep
  <2>3. QuietInv'
    BY <1>3, <2>1, QuietStep
  <2>4. ImagingInv'
    BY <1>3, <2>1, ImagingStep
  <2>5. SnapInv' /\ ImageConsistent'
    BY <1>3, SnapStep
  <2>6. QED
    BY <2>2, <2>3, <2>4, <2>5 DEF ImageInv
<1>4. ImageInv => ImageConsistent
  BY DEF ImageInv
<1>5. QED
  BY <1>1, <1>2, <1>3, <1>4, PTL DEF Spec
=============================================================================
