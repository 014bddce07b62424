----------------------------- MODULE ResticLock -----------------------------
(***************************************************************************)
(* How a restic process locks the repository (mover-restic/restic/internal *)
(* /restic/lock.go, internal/repository/lock.go).  A lock is a file in the *)
(* repository.  A process lists the lock files, creates its own, waits and *)
(* lists them again.  While it works, one goroutine replaces the file by a *)
(* younger one every refreshInterval, and another, the monitor, forces a   *)
(* refresh, or cancels the work, when that has not happened for too long.  *)
(* `restic unlock`, which the VolSync mover runs on demand, removes files  *)
(* older than StaleLockTimeout.                                            *)
(*                                                                         *)
(* Times are ages in ticks, cut off where the code stops telling them      *)
(* apart.  A step of a process that is not in standby takes less than a    *)
(* tick, the monitor's poll, once a second, included.  In standby          *)
(* (`asleep`) wall time goes on, monotonic time (the refresher's ticker    *)
(* and time.Since) does not.                                               *)
(*                                                                         *)
(* Left out: --retry-lock (an attempt that finds the repository locked is  *)
(* simply made again), empty and unreadable lock files, same-host checks   *)
(* for dead processes (each mover pod has a host name of its own).         *)
(***************************************************************************)
EXTENDS Naturals

CONSTANTS
  Procs,
  Ids,              \* enough names for a process's lock files
  NoId,
  StaleTimeout,     \* StaleLockTimeout, 30 minutes
  RefreshInterval,  \* defaultRefreshInterval, 5 minutes
  RefreshTimeout,   \* refreshabilityTimeout, 22.5 minutes
  MaxTries,         \* attempts to read the lock files, 4
  MaxFaults,        \* bound on failing storage operations, crashes, standbys
  SleepAt,          \* the control points at which a standby may begin
  TickAtDeadline    \* the refresher may handle its ticker in the second
                    \* between the monitor's deadline and the forced refresh

ASSUME TimeAssumption ==
  /\ StaleTimeout \in Nat /\ RefreshInterval \in Nat \ {0}
  /\ RefreshTimeout \in Nat
  /\ 2 * RefreshTimeout = 2 * StaleTimeout - 3 * RefreshInterval
ASSUME BoundAssumption ==
  MaxTries \in Nat \ {0} /\ MaxFaults \in Nat
ASSUME IdAssumption == NoId \notin Ids
ASSUME SwitchAssumption == TickAtDeadline \in BOOLEAN

VARIABLES
  files,     \* the lock files: [proc, id, exclusive, age]
  proc,      \* the state of each process, see Process below
  faults

vars == <<files, proc, faults>>

AtMost(n, m) == IF n < m THEN n ELSE m

Files == [proc : Procs, id : Ids, exclusive : BOOLEAN,
          age : 0 .. StaleTimeout + 1]

\* pc: NewLock's steps, "held" until the context is cancelled, then "closing"
\* refresher, monitor: where the two goroutines are
Points == {"idle", "list1", "load1", "create", "list2", "load2", "start",
           "held", "closing"}
Refreshers == {"off", "select", "create", "remove", "notify",
               "exists1", "replace", "exists2", "commit"}
Monitors == {"off", "select", "sending", "waiting"}
Process ==
  [pc : Points, exclusive : BOOLEAN,
   seen : SUBSET (Procs \X Ids), tries : 0 .. MaxTries,
   lockID : Ids \cup {NoId}, newID : Ids \cup {NoId},
   time : 0 .. StaleTimeout + 1,         \* age of lock.Time
   refresher : Refreshers, monitor : Monitors,
   ticker : 0 .. RefreshInterval,
   lastRefresh : 0 .. RefreshTimeout + 1,   \* the refresher's, monotonic
   monitored : 0 .. RefreshTimeout,         \* the monitor's, wall clock
   asleep : BOOLEAN]

Idle ==
  [pc |-> "idle", exclusive |-> FALSE, seen |-> {}, tries |-> 0,
   lockID |-> NoId, newID |-> NoId, time |-> 0,
   refresher |-> "off", monitor |-> "off", ticker |-> 0,
   lastRefresh |-> 0, monitored |-> 0, asleep |-> FALSE]

(* The type invariant. *)
TypeOK ==
  /\ files \subseteq Files
  /\ proc \in [Procs -> Process]
  /\ faults \in 0 .. MaxFaults

-----------------------------------------------------------------------------
(* Lock files. *)

Name(f) == <<f.proc, f.id>>
Names == {Name(f) : f \in files}
Exists(p, id) == <<p, id>> \in Names
Stale(f) == f.age > StaleTimeout

\* ids are hashes: one that anybody remembers is not used again, and which
\* one is taken does not matter
FreshIds(p) ==
  {id \in Ids : /\ ~Exists(p, id) /\ id # proc[p].lockID
                /\ \A q \in Procs : <<p, id>> \notin proc[q].seen}
NextId(p) == CHOOSE id \in FreshIds(p) : TRUE

\* createLock: the file carries lock.Time, however old that is by now
createLock(p, id) ==
  /\ id \in FreshIds(p)
  /\ files' = files \cup {[proc |-> p, id |-> id, age |-> proc[p].time,
                           exclusive |-> proc[p].exclusive]}

Without(p, id) == {f \in files : Name(f) # <<p, id>>}

Fault == faults < MaxFaults /\ faults' = faults + 1

\* removing a file that is gone may or may not be reported as an error
Removed(p, id) == files' = Without(p, id) /\ UNCHANGED faults
NotRemoved(p, id) ==
  \/ Fault /\ UNCHANGED files
  \/ ~Exists(p, id) /\ UNCHANGED <<files, faults>>

Awake(p) == ~proc[p].asleep

At(p, point) == Awake(p) /\ proc[p].pc = point

Set(p, state) == proc' = [proc EXCEPT ![p] = state]

-----------------------------------------------------------------------------
(* NewLock. *)

NewLock(p, exclusive) ==
  /\ At(p, "idle")
  /\ FreshIds(p) # {}
  /\ Set(p, [Idle EXCEPT !.pc = "list1", !.exclusive = exclusive])
  /\ UNCHANGED <<files, faults>>

\* checkForOtherLocks: the names are listed, then each file is loaded
ListLocks(p) ==
  \E now \in {"list1", "list2"} :
    /\ At(p, now)
    /\ Set(p, [proc[p] EXCEPT
                 !.pc = IF now = "list1" THEN "load1" ELSE "load2",
                 !.seen = Names \ {<<p, proc[p].lockID>>}])
    /\ UNCHANGED <<files, faults>>

Conflict(p) ==
  \E f \in files : /\ Name(f) \in proc[p].seen
                   /\ proc[p].exclusive \/ f.exclusive

\* Mutant: a file that has gone is passed over.
NeverUnclear(p) == FALSE

\* a file that was listed and is gone, or cannot be read, is no answer: the
\* check is made again
Unclear(p) == ~(proc[p].seen \subseteq Names)

\* Mutant: the check is made again without end.
TriesWithoutEnd(p) == TRUE

TriesLeft(p) == proc[p].tries + 1 < MaxTries

LoadLocks(p) ==
  \E now \in {"load1", "load2"} :
    /\ At(p, now)
    /\ ~Conflict(p)
    /\ IF Unclear(p)
       THEN /\ TriesLeft(p)
            /\ Set(p, [proc[p] EXCEPT
                         !.pc = IF now = "load1" THEN "list1" ELSE "list2",
                         !.seen = {}, !.tries = @ + 1])
       ELSE Set(p, [proc[p] EXCEPT
                      !.pc = IF now = "load1" THEN "create" ELSE "start",
                      !.seen = {}, !.tries = 0])
    /\ UNCHANGED <<files, faults>>

GivesUp(p) == Conflict(p) \/ (Unclear(p) /\ ~TriesLeft(p))

\* NewLock returns an error, after Unlock if the file had been created
NewLockFails(p) ==
  /\ \/ At(p, "load1") /\ GivesUp(p) /\ UNCHANGED <<files, faults>>
     \/ At(p, "create") /\ Fault /\ UNCHANGED files
     \/ /\ At(p, "load2") /\ GivesUp(p)
        /\ \/ Removed(p, proc[p].lockID)
           \/ NotRemoved(p, proc[p].lockID)
  /\ Set(p, Idle)

CreateLock(p) ==
  /\ At(p, "create")
  /\ createLock(p, NextId(p))
  /\ Set(p, [proc[p] EXCEPT !.pc = "list2", !.lockID = NextId(p)])
  /\ UNCHANGED faults

\* Lock starts the goroutines: the refresher counts from lock.Time, the
\* monitor from now
StartGoroutines(p) ==
  /\ At(p, "start")
  /\ Set(p, [proc[p] EXCEPT
               !.pc = "held", !.refresher = "select", !.monitor = "select",
               !.ticker = 0, !.time = 0, !.monitored = 0,
               !.lastRefresh = AtMost(proc[p].time, RefreshTimeout + 1)])
  /\ UNCHANGED <<files, faults>>

\* Unlocker.Unlock, or an interrupt: the context is cancelled
Cancel(p) ==
  /\ At(p, "held")
  /\ Set(p, [proc[p] EXCEPT !.pc = "closing"])
  /\ UNCHANGED <<files, faults>>

\* Unlock waits for both goroutines
Unlocked(p) ==
  /\ At(p, "closing")
  /\ proc[p].refresher = "off" /\ proc[p].monitor = "off"
  /\ Set(p, Idle)
  /\ UNCHANGED <<files, faults>>

-----------------------------------------------------------------------------
(* refreshLocks, the goroutine that keeps the lock file young.             *)

Refresher(p, point) == Awake(p) /\ proc[p].refresher = point

Live(p) == proc[p].pc = "held"

TickerFired(p) == proc[p].ticker >= RefreshInterval

MonitorDue(p) ==
  proc[p].monitor = "select" /\ proc[p].monitored >= RefreshTimeout

\* too old a lock is left to the monitor
RefreshTick(p) ==
  /\ Refresher(p, "select") /\ TickerFired(p)
  /\ (Live(p) /\ MonitorDue(p)) \/ proc[p].monitor = "sending"
       => TickAtDeadline
  /\ Set(p, IF proc[p].lastRefresh > RefreshTimeout
            THEN [proc[p] EXCEPT !.ticker = 0]
            ELSE [proc[p] EXCEPT !.ticker = 0, !.time = 0,
                                 !.refresher = "create"])
  /\ UNCHANGED <<files, faults>>

\* Refresh does not look whether the old file still exists
RefreshCreate(p) ==
  /\ Refresher(p, "create")
  /\ \/ /\ createLock(p, NextId(p))
        /\ Set(p, [proc[p] EXCEPT !.refresher = "remove",
                                  !.newID = NextId(p)])
        /\ UNCHANGED faults
     \/ /\ Fault
        /\ Set(p, [proc[p] EXCEPT !.refresher = "select", !.time = 0])
        /\ UNCHANGED files

\* lockID is the new one even if the old file could not be removed; only
\* then is the refresh not counted
RefreshRemove(p) ==
  /\ Refresher(p, "remove")
  /\ LET swapped == [proc[p] EXCEPT !.lockID = proc[p].newID,
                                   !.newID = NoId, !.time = 0]
     IN \/ /\ Removed(p, proc[p].lockID)
           /\ Set(p, [swapped EXCEPT
                        !.refresher = "notify",
                        !.lastRefresh =
                          AtMost(proc[p].time, RefreshTimeout + 1)])
        \/ /\ NotRemoved(p, proc[p].lockID)
           /\ Set(p, [swapped EXCEPT !.refresher = "select"])

\* the monitor hears of it, unless it is blocked sending its own request,
\* and ignores it while it waits for the answer to one
Refreshed(p) ==
  /\ Refresher(p, "notify")
  /\ \/ /\ proc[p].monitor = "select"
        /\ Set(p, [proc[p] EXCEPT !.refresher = "select", !.monitored = 0])
     \/ /\ proc[p].monitor = "waiting" \/ ~Live(p)
        /\ Set(p, [proc[p] EXCEPT !.refresher = "select"])
  /\ UNCHANGED <<files, faults>>

\* the deferred clean-up when the context is cancelled
RefresherExits(p) ==
  /\ Refresher(p, "select") /\ ~Live(p)
  /\ Removed(p, proc[p].lockID) \/ NotRemoved(p, proc[p].lockID)
  /\ Set(p, [proc[p] EXCEPT !.refresher = "off"])

-----------------------------------------------------------------------------
(* monitorLockRefresh, and RefreshStaleLock on its request.  The backend   *)
(* is frozen while the latter runs: the process cannot work.               *)

MonitorExpires(p) ==
  /\ Awake(p) /\ Live(p) /\ MonitorDue(p)
  /\ Set(p, [proc[p] EXCEPT !.monitor = "sending"])
  /\ UNCHANGED <<files, faults>>

ForceRefresh(p) ==
  /\ Refresher(p, "select") /\ proc[p].monitor = "sending"
  /\ Set(p, [proc[p] EXCEPT !.refresher = "exists1", !.monitor = "waiting"])
  /\ UNCHANGED <<files, faults>>

\* Mutant: the context is not cancelled.
ForcedRefreshIgnored(p) ==
  [proc[p] EXCEPT !.monitor = "select", !.monitored = 0,
                  !.refresher = "select", !.newID = NoId, !.time = 0]

\* tryRefreshStaleLock cancels the context while the backend is frozen
ForcedRefreshFailed(p) ==
  [proc[p] EXCEPT !.pc = "closing", !.refresher = "select",
                  !.newID = NoId, !.time = 0]

\* Mutant: the old file is not looked for.
NotLookedFor(p) == TRUE

StillThere(p) == Exists(p, proc[p].lockID)

CheckExistence(p) ==
  /\ Refresher(p, "exists1")
  /\ \/ /\ StillThere(p)
        /\ Set(p, [proc[p] EXCEPT !.refresher = "replace", !.time = 0])
        /\ UNCHANGED faults
     \/ /\ (~StillThere(p) /\ UNCHANGED faults) \/ Fault
        /\ Set(p, ForcedRefreshFailed(p))
  /\ UNCHANGED files

ReplaceLock(p) ==
  /\ Refresher(p, "replace")
  /\ \/ /\ createLock(p, NextId(p))
        /\ Set(p, [proc[p] EXCEPT !.refresher = "exists2",
                                  !.newID = NextId(p)])
        /\ UNCHANGED faults
     \/ /\ Fault
        /\ Set(p, ForcedRefreshFailed(p))
        /\ UNCHANGED files

\* if the old file has gone meanwhile, or it cannot be found out, the
\* replacement is withdrawn
CheckExistenceAgain(p) ==
  /\ Refresher(p, "exists2")
  /\ \/ /\ StillThere(p)
        /\ Set(p, [proc[p] EXCEPT !.refresher = "commit"])
        /\ UNCHANGED <<files, faults>>
     \/ /\ ~StillThere(p)
        /\ Removed(p, proc[p].newID) \/ NotRemoved(p, proc[p].newID)
        /\ Set(p, ForcedRefreshFailed(p))
     \/ /\ Fault
        /\ files' \in {files, Without(p, proc[p].newID)}
        /\ Set(p, ForcedRefreshFailed(p))

\* success is reported to the waiting monitor
CommitLock(p) ==
  /\ Refresher(p, "commit")
  /\ \/ /\ Removed(p, proc[p].lockID)
        /\ Set(p, [proc[p] EXCEPT
                     !.lockID = proc[p].newID, !.newID = NoId,
                     !.lastRefresh = AtMost(proc[p].time, RefreshTimeout + 1),
                     !.time = 0, !.refresher = "select",
                     !.monitor = IF Live(p) THEN "select" ELSE @,
                     !.monitored = 0])
     \/ /\ NotRemoved(p, proc[p].lockID)
        /\ Set(p, [ForcedRefreshFailed(p) EXCEPT !.lockID = proc[p].newID])

MonitorExits(p) ==
  /\ Awake(p) /\ ~Live(p) /\ proc[p].monitor # "off"
  /\ Set(p, [proc[p] EXCEPT !.monitor = "off", !.monitored = 0])
  /\ UNCHANGED <<files, faults>>

-----------------------------------------------------------------------------
(* The world: time, standby, crashes and `restic unlock`.                  *)

\* RemoveStaleLocks of some other process
RemoveStaleLock(f) ==
  /\ f \in files /\ Stale(f)
  /\ files' = files \ {f}
  /\ UNCHANGED <<proc, faults>>

\* the process is killed: its lock file stays
Crash(p) ==
  /\ proc[p].pc # "idle"
  /\ Fault
  /\ Set(p, Idle)
  /\ UNCHANGED files

\* "ticking": the refresher is about to handle its ticker
ControlPoint(p) ==
  IF proc[p].pc # "held" THEN proc[p].pc
  ELSE IF proc[p].refresher = "select" /\ TickerFired(p) THEN "ticking"
  ELSE proc[p].refresher

Sleep(p) ==
  /\ Awake(p) /\ ControlPoint(p) \in SleepAt
  /\ Fault
  /\ Set(p, [proc[p] EXCEPT !.asleep = TRUE])
  /\ UNCHANGED files

Wake(p) ==
  /\ proc[p].asleep
  /\ Set(p, [proc[p] EXCEPT !.asleep = FALSE])
  /\ UNCHANGED <<files, faults>>

\* a process that is awake has something to do before the next tick
Busy(p) ==
  /\ Awake(p)
  /\ \/ proc[p].pc \notin {"idle", "held"}
     \/ Live(p) /\ MonitorDue(p)
     \/ proc[p].refresher \notin {"off", "select", "notify"}
     \/ proc[p].refresher = "notify" /\ proc[p].monitor # "sending"
     \/ /\ proc[p].refresher = "select"
        /\ TickerFired(p) \/ proc[p].monitor = "sending"

\* one tick of a process's clocks, those that are running
Aged(s) ==
  [s EXCEPT
     !.time = IF s.pc \notin {"idle", "held"} \/ s.refresher \notin
                   {"off", "select", "notify", "exists1"}
              THEN AtMost(@ + 1, StaleTimeout + 1) ELSE @,
     !.monitored = IF s.monitor = "off" THEN @
                   ELSE AtMost(@ + 1, RefreshTimeout),
     !.ticker = IF s.refresher = "off" \/ s.asleep THEN @
                ELSE AtMost(@ + 1, RefreshInterval),
     !.lastRefresh = IF s.refresher = "off" \/ s.asleep THEN @
                     ELSE AtMost(@ + 1, RefreshTimeout + 1)]

Tick ==
  /\ \A p \in Procs : ~Busy(p)
  /\ files' = {[f EXCEPT !.age = AtMost(@ + 1, StaleTimeout + 1)] :
                  f \in files}
  /\ proc' = [p \in Procs |-> Aged(proc[p])]
  /\ UNCHANGED faults

-----------------------------------------------------------------------------
Init ==
  /\ files = {}
  /\ proc = [p \in Procs |-> Idle]
  /\ faults = 0

Acquiring(p) ==
  \/ ListLocks(p) \/ LoadLocks(p) \/ NewLockFails(p) \/ CreateLock(p)
  \/ StartGoroutines(p) \/ Unlocked(p)

Refreshing(p) ==
  \/ RefreshTick(p) \/ RefreshCreate(p) \/ RefreshRemove(p) \/ Refreshed(p)
  \/ RefresherExits(p)
  \/ ForceRefresh(p) \/ CheckExistence(p) \/ ReplaceLock(p)
  \/ CheckExistenceAgain(p) \/ CommitLock(p)

Monitoring(p) == MonitorExpires(p) \/ MonitorExits(p)

Next ==
  \/ \E p \in Procs :
       \/ \E exclusive \in BOOLEAN : NewLock(p, exclusive)
       \/ Acquiring(p) \/ Cancel(p) \/ Refreshing(p) \/ Monitoring(p)
       \/ Crash(p) \/ Sleep(p) \/ Wake(p)
  \/ \E f \in files : RemoveStaleLock(f)
  \/ Tick

Spec == Init /\ [][Next]_vars

-----------------------------------------------------------------------------
Frozen(p) == proc[p].refresher \in {"exists1", "replace", "exists2", "commit"}

\* the process may be changing the repository.  Between a deadline and the
\* start of the forced refresh lies the second the monitor's poll takes.
Working(p) ==
  /\ Awake(p) /\ Live(p) /\ ~Frozen(p) /\ ~MonitorDue(p)
  /\ ~(proc[p].monitor = "sending" /\ proc[p].refresher = "select")

(* A process works only while its lock file exists and is not stale to the *)
(* others: a refresh counts as failed "a bit before the lock actually      *)
(* becomes stale" (repository/lock.go:35).                                 *)
WorkerHoldsFreshLock ==
  \A p \in Procs : Working(p) =>
    \E f \in files : /\ f.proc = p /\ ~Stale(f)
                     /\ f.id \in {proc[p].lockID, proc[p].newID}
                     /\ f.exclusive = proc[p].exclusive

\* a process has the lock as long as its file is there, or the replacement
\* that it has checked and not yet adopted
Has(p) ==
  /\ Live(p)
  /\ \/ Exists(p, proc[p].lockID)
     \/ proc[p].refresher = "commit" /\ Exists(p, proc[p].newID)

held == [p \in Procs |-> IF ~Has(p) THEN "none"
                         ELSE IF proc[p].exclusive THEN "exclusive"
                         ELSE "shared"]

Abstract == INSTANCE RepositoryLock

(* Lock files, refreshes and the removal of stale locks implement a        *)
(* shared/exclusive lock: whoever has it exclusively has it alone.         *)
ImplementsRepositoryLock == Abstract!Spec

(* A forced refresh never brings back a lock that others have removed, nor *)
(* does the wait for one: whatever happens while the process looks for its *)
(* file, replaces it and looks again, the lock stays lost                  *)
(* (internal/restic/lock.go:333-385).                                      *)
ForcedRefreshIsHonest ==
  [][\A p \in Procs :
       Live(p) /\ ~Has(p) /\ (Frozen(p) \/ proc[p].refresher = "select")
         => ~Has(p)']_vars

(* The same of every refresh.  It holds only as long as no tick is handled *)
(* after the deadline: Refresh does not look for the old file, and after a *)
(* standby the ticker that was pending may come before the monitor's poll  *)
(* (repository/lock.go:161-177).                                           *)
LostForGood ==
  [][\A p \in Procs : ~Has(p) /\ proc[p].pc # "start" => ~Has(p)']_vars

-----------------------------------------------------------------------------
(* Why the file is there and fresh, and the lock exclusive, if a standby   *)
(* begins only between two refreshes or before a forced one, with no tick  *)
(* pending, and no tick meets the monitor's deadline.                      *)

Undisturbed ==
  ~TickAtDeadline /\ SleepAt \subseteq {"select", "exists1"}

\* p has a file of that name, of at most that age.
Young(p, id, age) ==
  \E f \in files : Name(f) = <<p, id>> /\ f.age <= age

\* What is written in a file is what its process wants.
FlagInv(p) ==
  \A f \in files :
    Name(f) \in {<<p, proc[p].lockID>>, <<p, proc[p].newID>>} =>
      f.exclusive = proc[p].exclusive

\* Standby aside, only the wait between two refreshes takes time.
PromptInv(p) ==
  LET s == proc[p] IN
    /\ s.asleep => s.pc = "held" /\ s.refresher \in {"select", "exists1"}
    /\ s.pc \notin {"held", "closing"} =>
         s.refresher = "off" /\ s.monitor = "off"
    /\ s.pc \in {"list1", "load1", "create"} => s.time = 0
    /\ s.pc \in {"list2", "load2", "start"} => Young(p, s.lockID, 0)

\* The monitor's clock bounds the age of the file; a new file is made before
\* the old one goes.
HeldInv(p) ==
  LET s == proc[p] IN s.pc = "held" =>
    /\ s.refresher # "off"
    /\ s.refresher = "select" => s.monitor \in {"select", "sending"}
    /\ s.refresher \in {"create", "remove", "notify"} =>
         s.monitor = "select" /\ s.monitored < RefreshTimeout
    /\ Frozen(p) => s.monitor = "waiting"
    /\ s.monitor = "select" /\ s.monitored < RefreshTimeout =>
         Young(p, s.lockID, s.monitored)
    /\ s.refresher \in {"create", "replace"} => s.time = 0
    /\ s.refresher \in {"remove", "exists2", "commit"} =>
         Young(p, s.newID, 0) /\ s.newID # s.lockID
    /\ s.refresher = "notify" => Young(p, s.lockID, 0)

ProcInv(p) == FlagInv(p) /\ PromptInv(p) /\ HeldInv(p)
ClockInv == \A p \in Procs : ProcInv(p)

\* Of two processes that have created their files and listed the others, the
\* later one has seen the earlier one's file, which is there or will be
\* missed; so not both get past it.
Listed(p) == proc[p].pc \in {"load2", "start"} \/ Has(p)

Sees(p, q) ==
  /\ proc[p].pc = "load2"
  /\ \E id \in Ids : /\ <<q, id>> \in proc[p].seen
                     /\ \A f \in files : Name(f) = <<q, id>> =>
                          f.exclusive = proc[q].exclusive

Agree(p, q) == ~proc[p].exclusive /\ ~proc[q].exclusive

PairInv ==
  \A p, q \in Procs : p # q /\ Listed(p) /\ Listed(q) =>
    Agree(p, q) \/ Sees(p, q) \/ Sees(q, p)

=============================================================================
