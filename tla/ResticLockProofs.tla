-------------------------- MODULE ResticLockProofs --------------------------
(***************************************************************************)
(* Proofs about ResticLock, for any number of processes and failures and   *)
(* any timeouts related as in the code.                                    *)
(***************************************************************************)
EXTENDS ResticLock, TLAPS

-----------------------------------------------------------------------------
(* Clocks, names and files. *)

LEMMA Times ==
  /\ StaleTimeout \in Nat /\ RefreshInterval \in Nat /\ RefreshTimeout \in Nat
  /\ RefreshTimeout < StaleTimeout
BY TimeAssumption

LEMMA AtMostType ==
  ASSUME NEW n \in Nat, NEW m \in Nat
  PROVE  AtMost(n, m) \in 0 .. m /\ AtMost(n, m) <= n
BY DEF AtMost

LEMMA NamesType ==
  ASSUME TypeOK
  PROVE  Names \subseteq Procs \X Ids
BY DEF TypeOK, Files, Names, Name

LEMMA CreateType ==
  ASSUME TypeOK, NEW p \in Procs, createLock(p, NextId(p))
  PROVE  /\ NextId(p) \in Ids /\ NextId(p) # proc[p].lockID
         /\ ~Exists(p, NextId(p))
         /\ \A q \in Procs : <<p, NextId(p)>> \notin proc[q].seen
         /\ files' \subseteq Files /\ files \subseteq files'
         /\ \E f \in Files :
              /\ files' = files \cup {f} /\ Name(f) = <<p, NextId(p)>>
              /\ f.proc = p /\ f.age = proc[p].time
              /\ f.exclusive = proc[p].exclusive
<1> DEFINE f == [proc |-> p, id |-> NextId(p), age |-> proc[p].time,
                 exclusive |-> proc[p].exclusive]
<1>1. NextId(p) \in FreshIds(p) /\ files' = files \cup {f}
  BY DEF createLock
<1>2. /\ NextId(p) \in Ids /\ NextId(p) # proc[p].lockID
      /\ ~Exists(p, NextId(p))
      /\ \A q \in Procs : <<p, NextId(p)>> \notin proc[q].seen
  BY <1>1 DEF FreshIds
<1>3. proc[p].time \in 0 .. StaleTimeout + 1 /\ proc[p].exclusive \in BOOLEAN
  BY DEF TypeOK, Process
<1>4. f \in Files
  BY <1>2, <1>3 DEF Files
<1>5. QED
  BY <1>1, <1>2, <1>4 DEF TypeOK, Name

-----------------------------------------------------------------------------
(* Type correctness. *)

LEMMA IdleType == Idle \in Process
BY BoundAssumption, Times DEF Idle, Process, Points, Refreshers, Monitors

LEMMA SetType ==
  ASSUME TypeOK, NEW p \in Procs, NEW s \in Process, Set(p, s),
         files' \subseteq Files, faults' \in 0 .. MaxFaults
  PROVE  TypeOK'
BY DEF TypeOK, Set

LEMMA FaultType ==
  ASSUME TypeOK, Fault
  PROVE  faults' \in 0 .. MaxFaults
BY BoundAssumption DEF TypeOK, Fault

LEMMA RemovalType ==
  ASSUME TypeOK, NEW p, NEW id, Removed(p, id) \/ NotRemoved(p, id)
  PROVE  files' \subseteq Files /\ faults' \in 0 .. MaxFaults
BY FaultType DEF TypeOK, Removed, NotRemoved, Without

LEMMA Zeros ==
  /\ 0 \in 0 .. StaleTimeout + 1 /\ 0 \in 0 .. RefreshInterval
  /\ 0 \in 0 .. RefreshTimeout /\ 0 \in 0 .. RefreshTimeout + 1
BY Times

LEMMA SinceType ==
  ASSUME NEW s \in Process
  PROVE  AtMost(s.time, RefreshTimeout + 1) \in 0 .. RefreshTimeout + 1
<1>1. s.time \in 0 .. StaleTimeout + 1
  BY DEF Process
<1>2. s.time \in Nat /\ RefreshTimeout + 1 \in Nat
  BY <1>1, Times
<1>3. QED
  BY <1>2, AtMostType

LEMMA TypeAcquiring ==
  ASSUME TypeOK, NEW p \in Procs,
         \/ \E exclusive \in BOOLEAN : NewLock(p, exclusive)
         \/ Acquiring(p) \/ Cancel(p)
  PROVE  TypeOK'
<1> DEFINE s == proc[p]
<1>s. /\ s \in Process /\ files \subseteq Files /\ faults \in 0 .. MaxFaults
  BY DEF TypeOK
<1> USE DEF Points, Refreshers, Monitors
<1>1. ASSUME NEW exclusive \in BOOLEAN, NewLock(p, exclusive) PROVE TypeOK'
  <2>1. [Idle EXCEPT !.pc = "list1", !.exclusive = exclusive] \in Process
    BY IdleType DEF Process
  <2>2. QED
    BY <1>1, <1>s, <2>1, SetType DEF NewLock
<1>2. CASE ListLocks(p)
  <2>1. ASSUME NEW x \in {"load1", "load2"}
        PROVE  [s EXCEPT !.pc = x, !.seen = Names \ {<<p, s.lockID>>}]
                 \in Process
    BY <1>s, NamesType DEF Process
  <2>2. QED
    BY <1>2, <1>s, <2>1, SetType, ZenonT(60) DEF ListLocks
<1>3. CASE LoadLocks(p)
  <2>1. ASSUME NEW x \in Points, NEW n \in 0 .. MaxTries
        PROVE  [s EXCEPT !.pc = x, !.seen = {}, !.tries = n] \in Process
    BY <1>s, ZenonT(60) DEF Process
  <2>2. /\ 0 \in 0 .. MaxTries
        /\ TriesLeft(p) => s.tries + 1 \in 0 .. MaxTries
    <3>1. s.tries \in 0 .. MaxTries
      BY <1>s DEF Process
    <3>2. QED
      BY <3>1, BoundAssumption DEF TriesLeft
  <2>3. QED
    BY <1>3, <1>s, <2>1, <2>2, SetType DEF LoadLocks
<1>4. CASE NewLockFails(p)
  <2>1. files' \subseteq Files /\ faults' \in 0 .. MaxFaults /\ Set(p, Idle)
    BY <1>4, <1>s, FaultType, RemovalType DEF NewLockFails
  <2>2. QED
    BY <2>1, IdleType, SetType
<1>5. CASE CreateLock(p)
  <2>1. /\ createLock(p, NextId(p)) /\ faults' = faults
        /\ Set(p, [s EXCEPT !.pc = "list2", !.lockID = NextId(p)])
    BY <1>5 DEF CreateLock
  <2>2. NextId(p) \in Ids /\ files' \subseteq Files
    BY <2>1, CreateType
  <2>3. [s EXCEPT !.pc = "list2", !.lockID = NextId(p)] \in Process
    BY <1>s, <2>2 DEF Process
  <2>4. QED
    BY <1>s, <2>1, <2>2, <2>3, SetType
<1>6. CASE StartGoroutines(p)
  <2>1. ASSUME NEW n \in 0 .. RefreshTimeout + 1
        PROVE  [s EXCEPT
                  !.pc = "held", !.refresher = "select", !.monitor = "select",
                  !.ticker = 0, !.time = 0, !.monitored = 0,
                  !.lastRefresh = n] \in Process
    BY <1>s, Zeros, ZenonT(60) DEF Process
  <2>2. QED
    BY <1>6, <1>s, <2>1, SinceType, SetType DEF StartGoroutines
<1>7. CASE Unlocked(p)
  BY <1>7, <1>s, IdleType, SetType DEF Unlocked
<1>8. CASE Cancel(p)
  <2>1. [s EXCEPT !.pc = "closing"] \in Process
    BY <1>s DEF Process
  <2>2. QED
    BY <1>8, <1>s, <2>1, SetType DEF Cancel
<1>9. QED
  BY <1>1, <1>2, <1>3, <1>4, <1>5, <1>6, <1>7, <1>8 DEF Acquiring

LEMMA FailedType ==
  ASSUME TypeOK, NEW p \in Procs
  PROVE  /\ ForcedRefreshFailed(p) \in Process
         /\ \A id \in Ids \cup {NoId} :
              [ForcedRefreshFailed(p) EXCEPT !.lockID = id] \in Process
<1> DEFINE s == proc[p]
<1>1. s \in Process
  BY DEF TypeOK
<1>2. ForcedRefreshFailed(p) =
        [s EXCEPT !.pc = "closing", !.refresher = "select",
                  !.newID = NoId, !.time = 0]
  BY DEF ForcedRefreshFailed
<1> HIDE DEF s
<1>3. ForcedRefreshFailed(p) \in Process
  BY <1>1, <1>2, Zeros, ZenonT(60) DEF Process, Points, Refreshers
<1>4. QED
  BY <1>3 DEF Process

LEMMA TypeRefreshing ==
  ASSUME TypeOK, NEW p \in Procs, Refreshing(p) \/ Monitoring(p)
  PROVE  TypeOK'
<1> DEFINE s == proc[p]
<1>s. /\ s \in Process /\ files \subseteq Files /\ faults \in 0 .. MaxFaults
  BY DEF TypeOK
<1>f. ForcedRefreshFailed(p) \in Process
  BY FailedType
<1>i. s.lockID \in Ids \cup {NoId} /\ s.newID \in Ids \cup {NoId}
  BY <1>s DEF Process
<1> USE DEF Points, Refreshers, Monitors
<1>1. CASE RefreshTick(p)
  <2>1. /\ [s EXCEPT !.ticker = 0] \in Process
        /\ [s EXCEPT !.ticker = 0, !.time = 0, !.refresher = "create"]
             \in Process
    BY <1>s, Zeros, ZenonT(60) DEF Process
  <2>2. QED
    BY <1>1, <1>s, <2>1, SetType DEF RefreshTick
<1>2. CASE RefreshCreate(p)
  <2>1. CASE /\ createLock(p, NextId(p)) /\ faults' = faults
             /\ Set(p, [s EXCEPT !.refresher = "remove", !.newID = NextId(p)])
    <3>1. NextId(p) \in Ids /\ files' \subseteq Files
      BY <2>1, CreateType
    <3>2. [s EXCEPT !.refresher = "remove", !.newID = NextId(p)] \in Process
      BY <1>s, <3>1 DEF Process
    <3>3. QED
      BY <1>s, <2>1, <3>1, <3>2, SetType
  <2>2. CASE /\ Fault /\ files' = files
             /\ Set(p, [s EXCEPT !.refresher = "select", !.time = 0])
    <3>1. [s EXCEPT !.refresher = "select", !.time = 0] \in Process
      BY <1>s, Zeros DEF Process
    <3>2. QED
      BY <1>s, <2>2, <3>1, FaultType, SetType
  <2>3. QED
    BY <1>2, <2>1, <2>2 DEF RefreshCreate
<1>3. CASE RefreshRemove(p)
  <2> DEFINE w == [s EXCEPT !.lockID = s.newID, !.newID = NoId, !.time = 0]
  <2>1. w \in Process
    BY <1>s, <1>i, Zeros DEF Process
  <2>2. \/ /\ Removed(p, s.lockID)
           /\ Set(p, [w EXCEPT !.refresher = "notify",
                               !.lastRefresh = AtMost(s.time, RefreshTimeout + 1)])
        \/ NotRemoved(p, s.lockID) /\ Set(p, [w EXCEPT !.refresher = "select"])
    BY <1>3 DEF RefreshRemove
  <2> HIDE DEF w
  <2>3. ASSUME NEW n \in 0 .. RefreshTimeout + 1
        PROVE  /\ [w EXCEPT !.refresher = "notify", !.lastRefresh = n] \in Process
               /\ [w EXCEPT !.refresher = "select"] \in Process
    BY <2>1, ZenonT(60) DEF Process
  <2>4. QED
    BY <1>s, <2>2, <2>3, SinceType, RemovalType, SetType
<1>4. CASE Refreshed(p)
  <2>1. /\ [s EXCEPT !.refresher = "select", !.monitored = 0] \in Process
        /\ [s EXCEPT !.refresher = "select"] \in Process
    BY <1>s, Zeros, ZenonT(60) DEF Process
  <2>2. QED
    BY <1>4, <1>s, <2>1, SetType DEF Refreshed
<1>5. CASE RefresherExits(p)
  <2>1. [s EXCEPT !.refresher = "off"] \in Process
    BY <1>s DEF Process
  <2>2. QED
    BY <1>5, <1>s, <2>1, RemovalType, SetType DEF RefresherExits
<1>6. CASE ForceRefresh(p)
  <2>1. [s EXCEPT !.refresher = "exists1", !.monitor = "waiting"] \in Process
    BY <1>s, ZenonT(60) DEF Process
  <2>2. QED
    BY <1>6, <1>s, <2>1, SetType DEF ForceRefresh
<1>7. CASE CheckExistence(p)
  <2>1. [s EXCEPT !.refresher = "replace", !.time = 0] \in Process
    BY <1>s, Zeros DEF Process
  <2>2. files' \subseteq Files /\ faults' \in 0 .. MaxFaults
    BY <1>7, <1>s, FaultType DEF CheckExistence
  <2>3. QED
    BY <1>7, <1>f, <2>1, <2>2, SetType DEF CheckExistence
<1>8. CASE ReplaceLock(p)
  <2>1. CASE /\ createLock(p, NextId(p)) /\ faults' = faults
             /\ Set(p, [s EXCEPT !.refresher = "exists2", !.newID = NextId(p)])
    <3>1. NextId(p) \in Ids /\ files' \subseteq Files
      BY <2>1, CreateType
    <3>2. [s EXCEPT !.refresher = "exists2", !.newID = NextId(p)] \in Process
      BY <1>s, <3>1 DEF Process
    <3>3. QED
      BY <1>s, <2>1, <3>1, <3>2, SetType
  <2>2. CASE Fault /\ files' = files /\ Set(p, ForcedRefreshFailed(p))
    BY <1>s, <1>f, <2>2, FaultType, SetType
  <2>3. QED
    BY <1>8, <2>1, <2>2 DEF ReplaceLock
<1>9. CASE CheckExistenceAgain(p)
  <2>1. [s EXCEPT !.refresher = "commit"] \in Process
    BY <1>s DEF Process
  <2>2. files' \subseteq Files /\ faults' \in 0 .. MaxFaults
    BY <1>9, <1>s, FaultType, RemovalType DEF CheckExistenceAgain, Without
  <2>3. QED
    BY <1>9, <1>f, <2>1, <2>2, SetType DEF CheckExistenceAgain
<1>10. CASE CommitLock(p)
  <2>1. ASSUME NEW n \in 0 .. RefreshTimeout + 1, NEW m \in Monitors
        PROVE  [s EXCEPT !.lockID = s.newID, !.newID = NoId,
                         !.lastRefresh = n, !.time = 0,
                         !.refresher = "select", !.monitor = m,
                         !.monitored = 0] \in Process
    BY <1>s, <1>i, Zeros, ZenonT(60) DEF Process
  <2>2. s.monitor \in Monitors
    BY <1>s DEF Process
  <2>3. [ForcedRefreshFailed(p) EXCEPT !.lockID = s.newID] \in Process
    BY <1>i, FailedType
  <2>4. files' \subseteq Files /\ faults' \in 0 .. MaxFaults
    BY <1>10, RemovalType DEF CommitLock
  <2>5. QED
    BY <1>10, <1>s, <2>1, <2>2, <2>3, <2>4, SinceType, SetType DEF CommitLock
<1>11. CASE Monitoring(p)
  <2>1. /\ [s EXCEPT !.monitor = "sending"] \in Process
        /\ [s EXCEPT !.monitor = "off", !.monitored = 0] \in Process
    BY <1>s, Zeros DEF Process
  <2>2. QED
    BY <1>11, <1>s, <2>1, SetType DEF Monitoring, MonitorExpires, MonitorExits
<1>12. QED
  BY <1>1, <1>2, <1>3, <1>4, <1>5, <1>6, <1>7, <1>8, <1>9, <1>10, <1>11
     DEF Refreshing

LEMMA AgedType ==
  ASSUME NEW s \in Process
  PROVE  /\ Aged(s) \in Process
         /\ Aged(s).pc = s.pc /\ Aged(s).exclusive = s.exclusive
         /\ Aged(s).seen = s.seen
         /\ Aged(s).lockID = s.lockID /\ Aged(s).newID = s.newID
         /\ Aged(s).refresher = s.refresher /\ Aged(s).monitor = s.monitor
         /\ Aged(s).asleep = s.asleep
         /\ s.pc \in {"idle", "held"} /\ s.refresher \in {"off", "select", "exists1"}
              => Aged(s).time = s.time
         /\ s.monitor # "off" /\ Aged(s).monitored < RefreshTimeout =>
              Aged(s).monitored = s.monitored + 1
<1> DEFINE t == IF s.pc \notin {"idle", "held"} \/ s.refresher \notin
                     {"off", "select", "notify", "exists1"}
                THEN AtMost(s.time + 1, StaleTimeout + 1) ELSE s.time
           m == IF s.monitor = "off" THEN s.monitored
                ELSE AtMost(s.monitored + 1, RefreshTimeout)
           k == IF s.refresher = "off" \/ s.asleep THEN s.ticker
                ELSE AtMost(s.ticker + 1, RefreshInterval)
           l == IF s.refresher = "off" \/ s.asleep THEN s.lastRefresh
                ELSE AtMost(s.lastRefresh + 1, RefreshTimeout + 1)
<1>1. /\ s.time \in 0 .. StaleTimeout + 1 /\ s.monitored \in 0 .. RefreshTimeout
      /\ s.ticker \in 0 .. RefreshInterval
      /\ s.lastRefresh \in 0 .. RefreshTimeout + 1
  BY DEF Process
<1>2. t \in 0 .. StaleTimeout + 1
  BY <1>1, Times DEF AtMost
<1>3. /\ m \in 0 .. RefreshTimeout
      /\ s.monitor # "off" /\ m < RefreshTimeout => m = s.monitored + 1
  BY <1>1, Times DEF AtMost
<1>4. k \in 0 .. RefreshInterval
  BY <1>1, Times DEF AtMost
<1>5. l \in 0 .. RefreshTimeout + 1
  BY <1>1, Times DEF AtMost
<1>6. /\ s.pc \in {"idle", "held"} /\ s.refresher \in {"off", "select", "exists1"}
           => t = s.time
  OBVIOUS
<1>7. Aged(s) = [s EXCEPT !.time = t, !.monitored = m, !.ticker = k,
                          !.lastRefresh = l]
  BY DEF Aged, Process
<1> HIDE DEF t, m, k, l
<1>8. QED
  BY <1>2, <1>3, <1>4, <1>5, <1>6, <1>7, ZenonT(60) DEF Process

LEMMA OlderType ==
  ASSUME NEW f \in Files
  PROVE  LET g == [f EXCEPT !.age = AtMost(@ + 1, StaleTimeout + 1)]
         IN /\ g \in Files /\ Name(g) = Name(f) /\ g.proc = f.proc
            /\ g.exclusive = f.exclusive /\ g.age <= f.age + 1
<1> DEFINE a == AtMost(f.age + 1, StaleTimeout + 1)
<1>1. f.age \in 0 .. StaleTimeout + 1
  BY DEF Files
<1>2. a \in 0 .. StaleTimeout + 1 /\ a <= f.age + 1
  BY <1>1, Times DEF AtMost
<1>3. [f EXCEPT !.age = AtMost(@ + 1, StaleTimeout + 1)] = [f EXCEPT !.age = a]
  BY DEF Files
<1> HIDE DEF a
<1>4. QED
  BY <1>2, <1>3 DEF Files, Name

LEMMA TypeWorld ==
  ASSUME TypeOK,
         \/ \E p \in Procs : Crash(p) \/ Sleep(p) \/ Wake(p)
         \/ \E f \in files : RemoveStaleLock(f)
         \/ Tick
  PROVE  TypeOK'
<1>1. ASSUME NEW p \in Procs, Crash(p) \/ Sleep(p) \/ Wake(p) PROVE TypeOK'
  <2> DEFINE s == proc[p]
  <2>1. s \in Process /\ files \subseteq Files /\ faults \in 0 .. MaxFaults
    BY DEF TypeOK
  <2>2. [s EXCEPT !.asleep = TRUE] \in Process
        /\ [s EXCEPT !.asleep = FALSE] \in Process
    BY <2>1 DEF Process
  <2>3. QED
    BY <1>1, <2>1, <2>2, IdleType, FaultType, SetType DEF Crash, Sleep, Wake
<1>2. CASE \E f \in files : RemoveStaleLock(f)
  BY <1>2 DEF RemoveStaleLock, TypeOK
<1>3. CASE Tick
  <2>1. files' \subseteq Files
    BY <1>3, OlderType DEF Tick, TypeOK
  <2>2. proc' \in [Procs -> Process]
    BY <1>3, AgedType DEF Tick, TypeOK
  <2>3. QED
    BY <1>3, <2>1, <2>2 DEF Tick, TypeOK
<1>4. QED
  BY <1>1, <1>2, <1>3

LEMMA TypeStep == TypeOK /\ [Next]_vars => TypeOK'
<1> SUFFICES ASSUME TypeOK, [Next]_vars PROVE TypeOK'
  OBVIOUS
<1>1. CASE Next
  BY <1>1, TypeAcquiring, TypeRefreshing, TypeWorld DEF Next
<1>2. CASE UNCHANGED vars
  BY <1>2 DEF vars, TypeOK
<1>3. QED
  BY <1>1, <1>2

(* Every variable has its type, for every standby and every failure: in    *)
(* particular no clock runs past the point where the code stops telling    *)
(* times apart.                                                            *)
THEOREM TypeCorrect == Spec => []TypeOK
<1>1. Init => TypeOK
  BY IdleType, BoundAssumption DEF Init, TypeOK
<1>2. QED
  BY <1>1, TypeStep, PTL DEF Spec

-----------------------------------------------------------------------------
(* A file that is young stays. *)

\* Only files of p come or go.
Local(p) == \A f : f.proc # p => (f \in files' <=> f \in files)

LEMMA OthersFrame ==
  ASSUME NEW p \in Procs, NEW q \in Procs \ {p}, Local(p),
         proc'[q] = proc[q], ProcInv(q)
  PROVE  ProcInv(q)'
<1>1. \A f : Name(f) = <<q, f.id>> => (f \in files' <=> f \in files)
  BY DEF Local, Name
<1>2. FlagInv(q)'
  BY <1>1 DEF ProcInv, FlagInv, Name
<1>3. \A id, a : Young(q, id, a)' <=> Young(q, id, a)
  BY <1>1 DEF Young, Name
<1>4. PromptInv(q)'
  BY <1>3 DEF ProcInv, PromptInv
<1>5. HeldInv(q)'
  BY <1>3 DEF ProcInv, HeldInv, Frozen
<1>6. QED
  BY <1>2, <1>4, <1>5 DEF ProcInv

LEMMA FlagIdle ==
  ASSUME TypeOK', NEW p \in Procs, proc'[p].lockID = NoId, proc'[p].newID = NoId
  PROVE  FlagInv(p)'
BY IdAssumption DEF TypeOK, Files, FlagInv, Name

LEMMA FlagShrinks ==
  ASSUME TypeOK, NEW p \in Procs, FlagInv(p), files' \subseteq files,
         {proc'[p].lockID, proc'[p].newID}
           \subseteq {proc[p].lockID, proc[p].newID, NoId},
         proc'[p].exclusive = proc[p].exclusive
  PROVE  FlagInv(p)'
<1>1. \A f \in files : Name(f) # <<p, NoId>>
  BY IdAssumption DEF TypeOK, Files, Name
<1>2. QED
  BY <1>1 DEF FlagInv

LEMMA FlagCreates ==
  ASSUME TypeOK, NEW p \in Procs, FlagInv(p), createLock(p, NextId(p)),
         {proc'[p].lockID, proc'[p].newID}
           \subseteq {proc[p].lockID, proc[p].newID, NextId(p)},
         proc'[p].exclusive = proc[p].exclusive
  PROVE  FlagInv(p)'
<1>1. PICK f \in Files :
             /\ files' = files \cup {f} /\ Name(f) = <<p, NextId(p)>>
             /\ f.exclusive = proc[p].exclusive
  BY CreateType
<1>2. \A g \in files : Name(g) # <<p, NextId(p)>>
  BY CreateType DEF Exists, Names
<1>3. QED
  BY <1>1, <1>2 DEF FlagInv

LEMMA YoungCreated ==
  ASSUME TypeOK, NEW p \in Procs, createLock(p, NextId(p))
  PROVE  /\ Local(p)
         /\ \A id, a : Young(p, id, a) => Young(p, id, a)'
         /\ proc[p].time = 0 => \A id \in {NextId(p)} : Young(p, id, 0)'
<1>1. PICK f \in Files :
             /\ files' = files \cup {f} /\ Name(f) = <<p, NextId(p)>>
             /\ f.proc = p /\ f.age = proc[p].time
  BY CreateType
<1>2. Local(p)
  BY <1>1 DEF Local
<1>3. \A id, a : Young(p, id, a) => Young(p, id, a)'
  BY <1>1 DEF Young
<1>4. ASSUME proc[p].time = 0, NEW id \in {NextId(p)} PROVE Young(p, id, 0)'
  <2>1. f \in files' /\ Name(f) = <<p, id>> /\ f.age <= 0
    BY <1>1, <1>4
  <2>2. QED
    BY <2>1 DEF Young
<1>5. QED
  BY <1>2, <1>3, <1>4

LEMMA YoungWithout ==
  ASSUME NEW p, NEW id, files' \in {files, Without(p, id)}
  PROVE  /\ Local(p) /\ files' \subseteq files
         /\ \A i, a : i # id /\ Young(p, i, a) => Young(p, i, a)'
<1>1. \A f : f.proc # p => Name(f) # <<p, id>>
  BY DEF Name
<1>2. QED
  BY <1>1 DEF Local, Young, Without

LEMMA RemovalEffect ==
  ASSUME NEW p, NEW id, Removed(p, id) \/ NotRemoved(p, id)
  PROVE  files' \in {files, Without(p, id)}
BY DEF Removed, NotRemoved

LEMMA SameFiles ==
  ASSUME files' = files
  PROVE  /\ \A p : Local(p)
         /\ \A p, id, a : Young(p, id, a)' <=> Young(p, id, a)
BY DEF Local, Young

\* p is idle again.
LEMMA IdleInv ==
  ASSUME TypeOK, TypeOK', NEW p \in Procs, Set(p, Idle)
  PROVE  ProcInv(p)'
<1>1. proc'[p] = Idle
  BY DEF TypeOK, Set
<1>2. /\ proc'[p].lockID = NoId /\ proc'[p].newID = NoId
      /\ proc'[p].pc = "idle" /\ ~proc'[p].asleep
      /\ proc'[p].refresher = "off" /\ proc'[p].monitor = "off"
  BY <1>1 DEF Idle
<1>3. FlagInv(p)'
  BY <1>2, FlagIdle
<1>4. PromptInv(p)' /\ HeldInv(p)'
  BY <1>2 DEF PromptInv, HeldInv
<1>5. QED
  BY <1>3, <1>4 DEF ProcInv

(* The steps of NewLock take no time.                                      *)
LEMMA ClockAcquiring ==
  ASSUME TypeOK, TypeOK', NEW p \in Procs, ProcInv(p),
         \/ \E exclusive \in BOOLEAN : NewLock(p, exclusive)
         \/ Acquiring(p) \/ Cancel(p)
  PROVE  Local(p) /\ ProcInv(p)'
<1> DEFINE s == proc[p]
<1>s. s \in Process /\ \A r : Set(p, r) => proc'[p] = r
  BY DEF TypeOK, Set
<1>i. FlagInv(p) /\ PromptInv(p) /\ HeldInv(p)
  BY DEF ProcInv
<1>1. ASSUME NEW exclusive \in BOOLEAN, NewLock(p, exclusive)
      PROVE  Local(p) /\ ProcInv(p)'
  <2>1. proc'[p] = [Idle EXCEPT !.pc = "list1", !.exclusive = exclusive]
        /\ files' = files
    BY <1>1, <1>s DEF NewLock
  <2>2. /\ proc'[p].lockID = NoId /\ proc'[p].newID = NoId
        /\ proc'[p].pc = "list1" /\ ~proc'[p].asleep /\ proc'[p].time = 0
        /\ proc'[p].refresher = "off" /\ proc'[p].monitor = "off"
    BY <2>1 DEF Idle
  <2>3. PromptInv(p)' /\ HeldInv(p)'
    BY <2>2 DEF PromptInv, HeldInv
  <2>4. QED
    BY <2>1, <2>2, <2>3, FlagIdle, SameFiles DEF ProcInv
<1>2. CASE ListLocks(p) \/ LoadLocks(p)
  <2>1. /\ files' = files /\ ~s.asleep
        /\ \/ s.pc = "list1" /\ proc'[p].pc = "load1"
           \/ s.pc = "load1" /\ proc'[p].pc \in {"list1", "create"}
           \/ s.pc = "list2" /\ proc'[p].pc = "load2"
           \/ s.pc = "load2" /\ proc'[p].pc \in {"list2", "start"}
        /\ proc'[p].exclusive = s.exclusive /\ proc'[p].time = s.time
        /\ proc'[p].lockID = s.lockID /\ proc'[p].newID = s.newID
        /\ proc'[p].refresher = s.refresher /\ proc'[p].monitor = s.monitor
        /\ proc'[p].asleep = s.asleep
    <3>1. CASE ListLocks(p)
      <4>1. PICK pc, seen :
              /\ files' = files /\ ~s.asleep
              /\ \/ s.pc = "list1" /\ pc = "load1"
                 \/ s.pc = "list2" /\ pc = "load2"
              /\ proc'[p] = [s EXCEPT !.pc = pc, !.seen = seen]
        BY <1>s, <3>1 DEF ListLocks, At, Awake
      <4>2. QED
        BY <1>s, <4>1 DEF Process
    <3>2. CASE LoadLocks(p)
      <4>1. PICK pc, tries :
              /\ files' = files /\ ~s.asleep
              /\ \/ s.pc = "load1" /\ pc \in {"list1", "create"}
                 \/ s.pc = "load2" /\ pc \in {"list2", "start"}
              /\ proc'[p] = [s EXCEPT !.pc = pc, !.seen = {}, !.tries = tries]
        BY <1>s, <3>2 DEF LoadLocks, At, Awake
      <4>2. QED
        BY <1>s, <4>1 DEF Process
    <3>3. QED
      BY <1>2, <3>1, <3>2
  <2>2. FlagInv(p)'
    BY <1>i, <2>1, FlagShrinks
  <2>3. PromptInv(p)' /\ HeldInv(p)'
    BY <1>i, <2>1, SameFiles DEF PromptInv, HeldInv
  <2>4. QED
    BY <2>1, <2>2, <2>3, SameFiles DEF ProcInv
<1>3. CASE NewLockFails(p) \/ Unlocked(p)
  <2>1. Set(p, Idle) /\ files' \in {files, Without(p, s.lockID)}
    BY <1>3, RemovalEffect DEF NewLockFails, Unlocked
  <2>2. QED
    BY <2>1, IdleInv, YoungWithout
<1>4. CASE CreateLock(p)
  <2>1. /\ createLock(p, NextId(p)) /\ s.pc = "create" /\ ~s.asleep
        /\ proc'[p] = [s EXCEPT !.pc = "list2", !.lockID = NextId(p)]
    BY <1>4, <1>s DEF CreateLock, At, Awake
  <2>2. /\ proc'[p].pc = "list2" /\ proc'[p].lockID = NextId(p)
        /\ proc'[p].newID = s.newID /\ proc'[p].exclusive = s.exclusive
        /\ proc'[p].refresher = s.refresher /\ proc'[p].monitor = s.monitor
        /\ ~proc'[p].asleep
    BY <1>s, <2>1 DEF Process
  <2>3. FlagInv(p)'
    BY <1>i, <2>1, <2>2, FlagCreates
  <2>4. \A id \in {NextId(p)} : Young(p, id, 0)'
    BY <1>i, <2>1, YoungCreated DEF PromptInv
  <2>5. PromptInv(p)' /\ HeldInv(p)'
    BY <1>i, <2>1, <2>2, <2>4 DEF PromptInv, HeldInv
  <2>6. QED
    BY <2>1, <2>3, <2>5, YoungCreated DEF ProcInv
<1>5. CASE StartGoroutines(p)
  <2>1. /\ files' = files /\ s.pc = "start" /\ ~s.asleep
        /\ proc'[p] = [s EXCEPT
                         !.pc = "held", !.refresher = "select",
                         !.monitor = "select",
                         !.ticker = 0, !.time = 0, !.monitored = 0,
                         !.lastRefresh = AtMost(s.time, RefreshTimeout + 1)]
    BY <1>5, <1>s DEF StartGoroutines, At, Awake
  <2>2. /\ proc'[p].pc = "held" /\ proc'[p].lockID = s.lockID
        /\ proc'[p].newID = s.newID /\ proc'[p].exclusive = s.exclusive
        /\ proc'[p].refresher = "select" /\ proc'[p].monitor = "select"
        /\ ~proc'[p].asleep /\ proc'[p].monitored = 0
    BY <1>s, <2>1 DEF Process
  <2>3. FlagInv(p)'
    BY <1>i, <2>1, <2>2, FlagShrinks
  <2>4. PromptInv(p)' /\ HeldInv(p)'
    BY <1>i, <2>1, <2>2, SameFiles DEF PromptInv, HeldInv, Frozen
  <2>5. QED
    BY <2>1, <2>3, <2>4, SameFiles DEF ProcInv
<1>6. CASE Cancel(p)
  <2>1. /\ files' = files /\ ~s.asleep /\ proc'[p] = [s EXCEPT !.pc = "closing"]
    BY <1>6, <1>s DEF Cancel, At, Awake
  <2>2. /\ proc'[p].pc = "closing" /\ proc'[p].lockID = s.lockID
        /\ proc'[p].newID = s.newID /\ proc'[p].exclusive = s.exclusive
        /\ ~proc'[p].asleep
    BY <1>s, <2>1 DEF Process
  <2>3. FlagInv(p)'
    BY <1>i, <2>1, <2>2, FlagShrinks
  <2>4. PromptInv(p)' /\ HeldInv(p)'
    BY <2>2 DEF PromptInv, HeldInv
  <2>5. QED
    BY <2>1, <2>3, <2>4, SameFiles DEF ProcInv
<1>7. QED
  BY <1>1, <1>2, <1>3, <1>4, <1>5, <1>6 DEF Acquiring

LEMMA ClosingInv ==
  ASSUME NEW p \in Procs, proc'[p].pc = "closing", ~proc'[p].asleep
  PROVE  PromptInv(p)' /\ HeldInv(p)'
BY DEF PromptInv, HeldInv

LEMMA FailedFields ==
  ASSUME TypeOK, NEW p \in Procs, Set(p, ForcedRefreshFailed(p))
  PROVE  /\ proc'[p].pc = "closing" /\ proc'[p].lockID = proc[p].lockID
         /\ proc'[p].newID = NoId /\ proc'[p].exclusive = proc[p].exclusive
         /\ proc'[p].asleep = proc[p].asleep
<1>1. proc[p] \in Process /\ proc'[p] = ForcedRefreshFailed(p)
  BY DEF TypeOK, Set
<1>2. QED
  BY <1>1 DEF ForcedRefreshFailed, Process

LEMMA Younger ==
  ASSUME TypeOK', NEW p, NEW id, NEW a \in Nat, Young(p, id, 0)'
  PROVE  Young(p, id, a)'
<1>1. \A f \in files' : f.age \in Nat
  BY Times DEF TypeOK, Files
<1>2. QED
  BY <1>1 DEF Young

\* p gives up, whatever happens to its file.
LEMMA FailedInv ==
  ASSUME TypeOK, NEW p \in Procs, NEW id, ProcInv(p), Awake(p),
         Set(p, ForcedRefreshFailed(p)), files' \in {files, Without(p, id)}
  PROVE  Local(p) /\ ProcInv(p)'
<1>1. PromptInv(p)' /\ HeldInv(p)'
  BY FailedFields, ClosingInv DEF Awake
<1>2. FlagInv(p)'
  BY FailedFields, YoungWithout, FlagShrinks DEF ProcInv
<1>3. QED
  BY <1>1, <1>2, YoungWithout DEF ProcInv

(* A refresh makes its file before it removes the old one, and the monitor *)
(* hears of it before its time is over.                                    *)
LEMMA ClockTicking ==
  ASSUME Undisturbed, TypeOK, TypeOK', NEW p \in Procs, ProcInv(p),
         \/ RefreshTick(p) \/ RefreshCreate(p) \/ RefreshRemove(p)
         \/ Refreshed(p) \/ RefresherExits(p)
  PROVE  Local(p) /\ ProcInv(p)'
<1> DEFINE s == proc[p]
<1>s. /\ s \in Process /\ \A r : Set(p, r) => proc'[p] = r
      /\ s.monitored \in Nat /\ RefreshTimeout \in Nat
  BY Times DEF TypeOK, Set, Process
<1>i. FlagInv(p) /\ PromptInv(p) /\ HeldInv(p)
  BY DEF ProcInv
<1>r. ~s.asleep /\ s.refresher # "off"
  BY DEF RefreshTick, RefreshCreate, RefreshRemove, Refreshed, RefresherExits,
         Refresher, Awake
<1>p. s.pc \in {"held", "closing"}
  BY <1>i, <1>r DEF PromptInv
<1>1. CASE RefreshTick(p)
  <2>1. /\ files' = files /\ s.refresher = "select"
        /\ ~(s.pc = "held" /\ s.monitor = "select"
               /\ s.monitored >= RefreshTimeout)
        /\ s.monitor # "sending"
        /\ \/ proc'[p] = [s EXCEPT !.ticker = 0]
           \/ proc'[p] = [s EXCEPT !.ticker = 0, !.time = 0,
                                   !.refresher = "create"]
    BY <1>1, <1>s DEF RefreshTick, Refresher, Live, MonitorDue, Undisturbed
  <2>2. /\ proc'[p].pc = s.pc /\ proc'[p].lockID = s.lockID
        /\ proc'[p].newID = s.newID /\ proc'[p].exclusive = s.exclusive
        /\ proc'[p].asleep = s.asleep /\ proc'[p].monitor = s.monitor
        /\ proc'[p].monitored = s.monitored
        /\ \/ proc'[p].refresher = "select"
           \/ proc'[p].refresher = "create" /\ proc'[p].time = 0
    BY <1>s, <2>1 DEF Process
  <2>3. FlagInv(p)'
    BY <1>i, <2>1, <2>2, FlagShrinks
  <2>4. PromptInv(p)'
    BY <1>p, <1>r, <2>2 DEF PromptInv
  <2>5. s.pc = "held" => s.monitor = "select" /\ s.monitored < RefreshTimeout
    BY <1>i, <1>s, <2>1 DEF HeldInv
  <2>6. HeldInv(p)'
    BY <1>i, <2>1, <2>2, <2>5, SameFiles DEF HeldInv, Frozen
  <2>7. QED
    BY <2>1, <2>3, <2>4, <2>6, SameFiles DEF ProcInv
<1>2. CASE RefreshCreate(p)
  <2>1. CASE /\ createLock(p, NextId(p))
             /\ Set(p, [s EXCEPT !.refresher = "remove", !.newID = NextId(p)])
    <3>1. /\ proc'[p].pc = s.pc /\ proc'[p].lockID = s.lockID
          /\ proc'[p].newID = NextId(p) /\ proc'[p].exclusive = s.exclusive
          /\ proc'[p].asleep = s.asleep /\ proc'[p].monitor = s.monitor
          /\ proc'[p].monitored = s.monitored /\ proc'[p].refresher = "remove"
      BY <1>s, <2>1 DEF Process
    <3>2. FlagInv(p)'
      BY <1>i, <2>1, <3>1, FlagCreates
    <3>3. PromptInv(p)'
      BY <1>p, <1>r, <3>1 DEF PromptInv
    <3>4. s.refresher = "create" /\ NextId(p) # s.lockID
      BY <1>2, <2>1, CreateType DEF RefreshCreate, Refresher
    <3>5. s.pc = "held" => \A id \in {NextId(p)} : Young(p, id, 0)'
      BY <1>i, <2>1, <3>4, YoungCreated DEF HeldInv
    <3>6. \A id, a : Young(p, id, a) => Young(p, id, a)'
      BY <2>1, YoungCreated
    <3>7. HeldInv(p)'
      BY <1>i, <3>1, <3>4, <3>5, <3>6 DEF HeldInv, Frozen
    <3>8. QED
      BY <2>1, <3>2, <3>3, <3>7, YoungCreated DEF ProcInv
  <2>2. CASE /\ files' = files
             /\ Set(p, [s EXCEPT !.refresher = "select", !.time = 0])
    <3>1. /\ proc'[p].pc = s.pc /\ proc'[p].lockID = s.lockID
          /\ proc'[p].newID = s.newID /\ proc'[p].exclusive = s.exclusive
          /\ proc'[p].asleep = s.asleep /\ proc'[p].monitor = s.monitor
          /\ proc'[p].monitored = s.monitored /\ proc'[p].refresher = "select"
      BY <1>s, <2>2 DEF Process
    <3>2. FlagInv(p)'
      BY <1>i, <2>2, <3>1, FlagShrinks
    <3>3. PromptInv(p)'
      BY <1>p, <1>r, <3>1 DEF PromptInv
    <3>4. s.refresher = "create"
      BY <1>2 DEF RefreshCreate, Refresher
    <3>5. HeldInv(p)'
      BY <1>i, <2>2, <3>1, <3>4, SameFiles DEF HeldInv, Frozen
    <3>6. QED
      BY <2>2, <3>2, <3>3, <3>5, SameFiles DEF ProcInv
  <2>3. QED
    BY <1>2, <2>1, <2>2 DEF RefreshCreate
<1>3. CASE RefreshRemove(p)
  <2> DEFINE w == [s EXCEPT !.lockID = s.newID, !.newID = NoId, !.time = 0]
  <2>1. /\ s.refresher = "remove" /\ files' \in {files, Without(p, s.lockID)}
        /\ \/ Set(p, [w EXCEPT !.refresher = "notify",
                               !.lastRefresh = AtMost(s.time, RefreshTimeout + 1)])
           \/ Set(p, [w EXCEPT !.refresher = "select"])
    BY <1>3, RemovalEffect DEF RefreshRemove, Refresher
  <2>w. /\ w \in Process /\ w.pc = s.pc /\ w.lockID = s.newID /\ w.newID = NoId
        /\ w.exclusive = s.exclusive /\ w.asleep = s.asleep
        /\ w.monitor = s.monitor /\ w.monitored = s.monitored
    BY <1>s, Zeros DEF Process
  <2> HIDE DEF w
  <2>2. /\ proc'[p].pc = s.pc /\ proc'[p].lockID = s.newID
        /\ proc'[p].newID = NoId /\ proc'[p].exclusive = s.exclusive
        /\ proc'[p].asleep = s.asleep /\ proc'[p].monitor = s.monitor
        /\ proc'[p].monitored = s.monitored
        /\ proc'[p].refresher \in {"notify", "select"}
    BY <1>s, <2>1, <2>w DEF Process
  <2>3. FlagInv(p)'
    BY <1>i, <2>1, <2>2, YoungWithout, FlagShrinks
  <2>4. PromptInv(p)'
    BY <1>p, <1>r, <2>2 DEF PromptInv
  <2>5. s.pc = "held" => \A id \in {s.newID} : Young(p, id, 0)'
    <3>1. s.pc = "held" => Young(p, s.newID, 0) /\ s.newID # s.lockID
      BY <1>i, <2>1 DEF HeldInv
    <3>2. ASSUME NEW i, NEW a, i # s.lockID, Young(p, i, a)
          PROVE  Young(p, i, a)'
      BY <2>1, <3>2 DEF Young, Without
    <3>3. QED
      BY <3>1, <3>2
  <2>6. HeldInv(p)'
    <3>1. s.pc = "held" => \A id \in {s.newID} : Young(p, id, s.monitored)'
      BY <1>s, <2>2, <2>5, Younger
    <3>2. QED
      BY <1>i, <2>1, <2>2, <2>5, <3>1 DEF HeldInv, Frozen
  <2>7. QED
    BY <2>1, <2>3, <2>4, <2>6, YoungWithout DEF ProcInv
<1>4. CASE Refreshed(p)
  <2>1. /\ files' = files /\ s.refresher = "notify"
        /\ \/ s.monitor = "select"
              /\ Set(p, [s EXCEPT !.refresher = "select", !.monitored = 0])
           \/ (s.monitor = "waiting" \/ s.pc # "held")
              /\ Set(p, [s EXCEPT !.refresher = "select"])
    BY <1>4 DEF Refreshed, Refresher, Live
  <2>2. /\ proc'[p].pc = s.pc /\ proc'[p].lockID = s.lockID
        /\ proc'[p].newID = s.newID /\ proc'[p].exclusive = s.exclusive
        /\ proc'[p].asleep = s.asleep /\ proc'[p].monitor = s.monitor
        /\ proc'[p].refresher = "select"
        /\ s.pc = "held" /\ s.monitor = "select" => proc'[p].monitored = 0
    BY <1>s, <2>1, ZenonT(60) DEF Process
  <2>3. FlagInv(p)'
    BY <1>i, <2>1, <2>2, FlagShrinks
  <2>4. PromptInv(p)'
    BY <1>p, <1>r, <2>2 DEF PromptInv
  <2>5. HeldInv(p)'
    BY <1>i, <2>1, <2>2, SameFiles DEF HeldInv, Frozen
  <2>6. QED
    BY <2>1, <2>3, <2>4, <2>5, SameFiles DEF ProcInv
<1>5. CASE RefresherExits(p)
  <2>1. /\ s.pc # "held" /\ files' \in {files, Without(p, s.lockID)}
        /\ Set(p, [s EXCEPT !.refresher = "off"])
    BY <1>5, RemovalEffect DEF RefresherExits, Live
  <2>2. /\ proc'[p].pc = "closing" /\ proc'[p].lockID = s.lockID
        /\ proc'[p].newID = s.newID /\ proc'[p].exclusive = s.exclusive
        /\ proc'[p].asleep = s.asleep
    BY <1>s, <1>p, <2>1 DEF Process
  <2>3. FlagInv(p)'
    BY <1>i, <2>1, <2>2, YoungWithout, FlagShrinks
  <2>4. QED
    BY <1>r, <2>1, <2>2, <2>3, ClosingInv, YoungWithout DEF ProcInv
<1>6. QED
  BY <1>1, <1>2, <1>3, <1>4, <1>5

(* A forced refresh starts when the file may be old, and ends with a new   *)
(* file or with the work cancelled.                                        *)
LEMMA ClockForced ==
  ASSUME TypeOK, TypeOK', NEW p \in Procs, ProcInv(p),
         \/ ForceRefresh(p) \/ CheckExistence(p) \/ ReplaceLock(p)
         \/ CheckExistenceAgain(p) \/ CommitLock(p) \/ Monitoring(p)
  PROVE  Local(p) /\ ProcInv(p)'
<1> DEFINE s == proc[p]
<1>s. /\ s \in Process /\ \A r : Set(p, r) => proc'[p] = r
      /\ s.monitored \in Nat /\ RefreshTimeout \in Nat
      /\ s.refresher \in Refreshers /\ s.pc \in Points
  BY Times DEF TypeOK, Set, Process
<1>i. FlagInv(p) /\ PromptInv(p) /\ HeldInv(p)
  BY DEF ProcInv
<1>r. ~s.asleep /\ (s.refresher # "off" \/ s.monitor # "off")
  BY DEF ForceRefresh, CheckExistence, ReplaceLock, CheckExistenceAgain,
         CommitLock, Monitoring, MonitorExpires, MonitorExits, MonitorDue,
         Refresher, Awake
<1>p. s.pc \in {"held", "closing"}
  BY <1>i, <1>r DEF PromptInv
<1>f. ASSUME Set(p, ForcedRefreshFailed(p)), NEW id,
             files' \in {files, Without(p, id)}
      PROVE  Local(p) /\ ProcInv(p)'
  BY <1>f, <1>r, FailedInv DEF Awake
<1>1. CASE ForceRefresh(p)
  <2>1. /\ files' = files
        /\ proc'[p] = [s EXCEPT !.refresher = "exists1", !.monitor = "waiting"]
    BY <1>1, <1>s DEF ForceRefresh
  <2>2. /\ proc'[p].pc = s.pc /\ proc'[p].lockID = s.lockID
        /\ proc'[p].newID = s.newID /\ proc'[p].exclusive = s.exclusive
        /\ proc'[p].asleep = s.asleep
        /\ proc'[p].refresher = "exists1" /\ proc'[p].monitor = "waiting"
    BY <1>s, <2>1 DEF Process
  <2>3. FlagInv(p)'
    BY <1>i, <2>1, <2>2, FlagShrinks
  <2>4. PromptInv(p)' /\ HeldInv(p)'
    BY <1>p, <1>r, <2>2 DEF PromptInv, HeldInv
  <2>5. QED
    BY <2>1, <2>3, <2>4, SameFiles DEF ProcInv
<1>2. CASE CheckExistence(p)
  <2>1. CASE Set(p, [s EXCEPT !.refresher = "replace", !.time = 0])
    <3>1. files' = files /\ s.refresher = "exists1"
      BY <1>2 DEF CheckExistence, Refresher
    <3>2. /\ proc'[p].pc = s.pc /\ proc'[p].lockID = s.lockID
          /\ proc'[p].newID = s.newID /\ proc'[p].exclusive = s.exclusive
          /\ proc'[p].asleep = s.asleep /\ proc'[p].monitor = s.monitor
          /\ proc'[p].refresher = "replace" /\ proc'[p].time = 0
      BY <1>s, <2>1 DEF Process
    <3>3. FlagInv(p)'
      BY <1>i, <3>1, <3>2, FlagShrinks
    <3>4. PromptInv(p)' /\ HeldInv(p)'
      BY <1>i, <1>p, <1>r, <3>1, <3>2 DEF PromptInv, HeldInv, Frozen
    <3>5. QED
      BY <3>1, <3>3, <3>4, SameFiles DEF ProcInv
  <2>2. QED
    BY <1>2, <1>f, <2>1 DEF CheckExistence
<1>3. CASE ReplaceLock(p)
  <2>1. CASE /\ createLock(p, NextId(p))
             /\ Set(p, [s EXCEPT !.refresher = "exists2", !.newID = NextId(p)])
    <3>1. /\ proc'[p].pc = s.pc /\ proc'[p].lockID = s.lockID
          /\ proc'[p].newID = NextId(p) /\ proc'[p].exclusive = s.exclusive
          /\ proc'[p].asleep = s.asleep /\ proc'[p].monitor = s.monitor
          /\ proc'[p].refresher = "exists2"
      BY <1>s, <2>1 DEF Process
    <3>2. FlagInv(p)'
      BY <1>i, <2>1, <3>1, FlagCreates
    <3>3. PromptInv(p)'
      BY <1>p, <1>r, <3>1 DEF PromptInv
    <3>4. s.refresher = "replace" /\ NextId(p) # s.lockID
      BY <1>3, <2>1, CreateType DEF ReplaceLock, Refresher
    <3>5. s.pc = "held" => \A id \in {NextId(p)} : Young(p, id, 0)'
      BY <1>i, <2>1, <3>4, YoungCreated DEF HeldInv
    <3>6. HeldInv(p)'
      BY <1>i, <3>1, <3>4, <3>5 DEF HeldInv, Frozen
    <3>7. QED
      BY <2>1, <3>2, <3>3, <3>6, YoungCreated DEF ProcInv
  <2>2. CASE files' = files /\ Set(p, ForcedRefreshFailed(p))
    BY <1>f, <2>2
  <2>3. QED
    BY <1>3, <2>1, <2>2 DEF ReplaceLock
<1>4. CASE CheckExistenceAgain(p)
  <2>1. CASE files' = files /\ Set(p, [s EXCEPT !.refresher = "commit"])
    <3>1. s.refresher = "exists2"
      BY <1>4 DEF CheckExistenceAgain, Refresher
    <3>2. /\ proc'[p].pc = s.pc /\ proc'[p].lockID = s.lockID
          /\ proc'[p].newID = s.newID /\ proc'[p].exclusive = s.exclusive
          /\ proc'[p].asleep = s.asleep /\ proc'[p].monitor = s.monitor
          /\ proc'[p].refresher = "commit"
      BY <1>s, <2>1 DEF Process
    <3>3. FlagInv(p)'
      BY <1>i, <2>1, <3>2, FlagShrinks
    <3>4. PromptInv(p)' /\ HeldInv(p)'
      BY <1>i, <1>p, <1>r, <2>1, <3>1, <3>2, SameFiles
         DEF PromptInv, HeldInv, Frozen
    <3>5. QED
      BY <2>1, <3>3, <3>4, SameFiles DEF ProcInv
  <2>2. CASE /\ files' \in {files, Without(p, s.newID)}
             /\ Set(p, ForcedRefreshFailed(p))
    BY <1>f, <2>2
  <2>3. QED
    BY <1>4, <2>1, <2>2, RemovalEffect DEF CheckExistenceAgain
<1>5. CASE CommitLock(p)
  <2>1. /\ s.refresher = "commit" /\ files' \in {files, Without(p, s.lockID)}
    BY <1>5, RemovalEffect DEF CommitLock, Refresher
  <2>2. CASE Set(p, [s EXCEPT
                       !.lockID = s.newID, !.newID = NoId,
                       !.lastRefresh = AtMost(s.time, RefreshTimeout + 1),
                       !.time = 0, !.refresher = "select",
                       !.monitor = IF Live(p) THEN "select" ELSE @,
                       !.monitored = 0])
    <3>1. /\ proc'[p].pc = s.pc /\ proc'[p].lockID = s.newID
          /\ proc'[p].newID = NoId /\ proc'[p].exclusive = s.exclusive
          /\ proc'[p].asleep = s.asleep /\ proc'[p].refresher = "select"
          /\ s.pc = "held" => proc'[p].monitor = "select"
          /\ proc'[p].monitored = 0
      <4> DEFINE n == AtMost(s.time, RefreshTimeout + 1)
                 m == IF Live(p) THEN "select" ELSE s.monitor
      <4>1. proc'[p] = [s EXCEPT
                          !.lockID = s.newID, !.newID = NoId,
                          !.lastRefresh = n, !.time = 0,
                          !.refresher = "select", !.monitor = m,
                          !.monitored = 0]
        BY <1>s, <2>2
      <4>2. s.pc = "held" => m = "select"
        BY DEF Live
      <4> HIDE DEF n, m
      <4>3. QED
        BY <1>s, <4>1, <4>2 DEF Process
    <3>2. FlagInv(p)'
      BY <1>i, <2>1, <3>1, YoungWithout, FlagShrinks
    <3>3. PromptInv(p)'
      BY <1>p, <1>r, <3>1 DEF PromptInv
    <3>4. s.pc = "held" => \A id \in {s.newID} : Young(p, id, 0)'
      <4>1. s.pc = "held" => Young(p, s.newID, 0) /\ s.newID # s.lockID
        BY <1>i, <2>1 DEF HeldInv
      <4>2. ASSUME NEW i, NEW a, i # s.lockID, Young(p, i, a)
            PROVE  Young(p, i, a)'
        BY <2>1, <4>2 DEF Young, Without
      <4>3. QED
        BY <4>1, <4>2
    <3>5. HeldInv(p)'
      BY <3>1, <3>4 DEF HeldInv, Frozen
    <3>6. QED
      BY <2>1, <3>2, <3>3, <3>5, YoungWithout DEF ProcInv
  <2>3. CASE Set(p, [ForcedRefreshFailed(p) EXCEPT !.lockID = s.newID])
    <3>1. ForcedRefreshFailed(p) =
            [s EXCEPT !.pc = "closing", !.refresher = "select",
                      !.newID = NoId, !.time = 0]
      BY DEF ForcedRefreshFailed
    <3>2. /\ ForcedRefreshFailed(p) \in Process
          /\ ForcedRefreshFailed(p).pc = "closing"
          /\ ForcedRefreshFailed(p).newID = NoId
          /\ ForcedRefreshFailed(p).exclusive = s.exclusive
          /\ ForcedRefreshFailed(p).asleep = s.asleep
      BY <1>s, <3>1, FailedType DEF Process
    <3>3. proc'[p] = [ForcedRefreshFailed(p) EXCEPT !.lockID = s.newID]
      BY <1>s, <2>3
    <3>4. /\ proc'[p].pc = "closing" /\ proc'[p].lockID = s.newID
          /\ proc'[p].newID = NoId /\ proc'[p].exclusive = s.exclusive
          /\ proc'[p].asleep = s.asleep
      BY <3>2, <3>3 DEF Process
    <3>5. FlagInv(p)'
      BY <1>i, <2>1, <3>4, YoungWithout, FlagShrinks
    <3>6. QED
      BY <1>r, <2>1, <3>4, <3>5, ClosingInv, YoungWithout DEF ProcInv
  <2>4. QED
    BY <1>5, <2>2, <2>3 DEF CommitLock
<1>6. CASE MonitorExpires(p)
  <2>1. /\ files' = files /\ s.pc = "held" /\ s.monitor = "select"
        /\ s.monitored >= RefreshTimeout
        /\ proc'[p] = [s EXCEPT !.monitor = "sending"]
    BY <1>6, <1>s DEF MonitorExpires, Live, MonitorDue
  <2>2. s.refresher = "select"
    BY <1>i, <1>s, <2>1 DEF HeldInv, Frozen, Refreshers
  <2>3. /\ proc'[p].pc = s.pc /\ proc'[p].lockID = s.lockID
        /\ proc'[p].newID = s.newID /\ proc'[p].exclusive = s.exclusive
        /\ proc'[p].asleep = s.asleep
        /\ proc'[p].refresher = "select" /\ proc'[p].monitor = "sending"
    BY <1>s, <2>1, <2>2 DEF Process
  <2>4. FlagInv(p)'
    BY <1>i, <2>1, <2>3, FlagShrinks
  <2>5. PromptInv(p)' /\ HeldInv(p)'
    BY <1>p, <1>r, <2>3 DEF PromptInv, HeldInv, Frozen
  <2>6. QED
    BY <2>1, <2>4, <2>5, SameFiles DEF ProcInv
<1>7. CASE MonitorExits(p)
  <2>1. /\ files' = files /\ s.pc # "held"
        /\ proc'[p] = [s EXCEPT !.monitor = "off", !.monitored = 0]
    BY <1>7, <1>s DEF MonitorExits, Live
  <2>2. /\ proc'[p].pc = "closing" /\ proc'[p].lockID = s.lockID
        /\ proc'[p].newID = s.newID /\ proc'[p].exclusive = s.exclusive
        /\ proc'[p].asleep = s.asleep
    BY <1>s, <1>p, <2>1 DEF Process
  <2>3. FlagInv(p)'
    BY <1>i, <2>1, <2>2, FlagShrinks
  <2>4. QED
    BY <1>r, <2>1, <2>2, <2>3, ClosingInv, SameFiles DEF ProcInv
<1>8. QED
  BY <1>1, <1>2, <1>3, <1>4, <1>5, <1>6, <1>7 DEF Monitoring

LEMMA ClockStandby ==
  ASSUME Undisturbed, TypeOK, TypeOK', NEW p \in Procs, ProcInv(p),
         Crash(p) \/ Sleep(p) \/ Wake(p)
  PROVE  Local(p) /\ ProcInv(p)'
<1> DEFINE s == proc[p]
<1>s. /\ s \in Process /\ \A r : Set(p, r) => proc'[p] = r
  BY DEF TypeOK, Set
<1>i. FlagInv(p) /\ PromptInv(p) /\ HeldInv(p)
  BY DEF ProcInv
<1>f. files' = files
  BY DEF Crash, Sleep, Wake
<1>1. CASE Crash(p)
  BY <1>1, <1>f, IdleInv, SameFiles DEF Crash
<1>2. CASE Sleep(p) \/ Wake(p)
  <2>1. \/ proc'[p] = [s EXCEPT !.asleep = TRUE]
        \/ proc'[p] = [s EXCEPT !.asleep = FALSE]
    BY <1>2, <1>s DEF Sleep, Wake
  <2>2. /\ proc'[p].pc = s.pc /\ proc'[p].lockID = s.lockID
        /\ proc'[p].newID = s.newID /\ proc'[p].exclusive = s.exclusive
        /\ proc'[p].monitor = s.monitor /\ proc'[p].monitored = s.monitored
        /\ proc'[p].refresher = s.refresher /\ proc'[p].time = s.time
    BY <1>s, <2>1 DEF Process
  <2>3. s.pc = "held" /\ s.refresher \in {"select", "exists1"}
    <3>1. CASE Sleep(p)
      <4>1. ControlPoint(p) \in {"select", "exists1"}
        BY <3>1 DEF Sleep, Undisturbed
      <4>2. s.pc \in Points /\ s.refresher \in Refreshers
        BY <1>s DEF Process
      <4>3. QED
        BY <4>1, <4>2 DEF ControlPoint, Points, Refreshers
    <3>2. CASE Wake(p)
      BY <1>i, <3>2 DEF Wake, PromptInv
    <3>3. QED
      BY <1>2, <3>1, <3>2
  <2>4. FlagInv(p)'
    BY <1>f, <1>i, <2>2, FlagShrinks
  <2>5. PromptInv(p)'
    BY <2>2, <2>3 DEF PromptInv
  <2>6. HeldInv(p)'
    BY <1>f, <1>i, <2>2, SameFiles DEF HeldInv, Frozen
  <2>7. QED
    BY <1>f, <2>4, <2>5, <2>6, SameFiles DEF ProcInv
<1>3. QED
  BY <1>1, <1>2

\* What others remove is older than any file a process counts on.
LEMMA ClockStale ==
  ASSUME TypeOK, NEW f \in files, RemoveStaleLock(f), NEW p \in Procs,
         ProcInv(p)
  PROVE  ProcInv(p)'
<1>1. /\ files' = files \ {f} /\ proc' = proc /\ f.age > StaleTimeout
  BY DEF RemoveStaleLock, Stale
<1>2. ASSUME NEW id, NEW a \in 0 .. StaleTimeout, Young(p, id, a)
      PROVE  Young(p, id, a)'
  <2>1. PICK g \in files : Name(g) = <<p, id>> /\ g.age <= a
    BY <1>2 DEF Young
  <2>2. g.age \in Nat /\ f.age \in Nat /\ StaleTimeout \in Nat /\ a \in Nat
    BY Times, <1>2 DEF TypeOK, Files
  <2>3. g # f
    BY <1>1, <1>2, <2>1, <2>2
  <2>4. QED
    BY <1>1, <2>1, <2>3 DEF Young
<1>3. /\ 0 \in 0 .. StaleTimeout
      /\ proc[p].monitored \in 0 .. StaleTimeout
  BY Times DEF TypeOK, Process
<1>4. FlagInv(p)'
  BY <1>1, FlagShrinks DEF ProcInv
<1>5. PromptInv(p)'
  BY <1>1, <1>2, <1>3 DEF ProcInv, PromptInv
<1>6. HeldInv(p)'
  BY <1>1, <1>2, <1>3 DEF ProcInv, HeldInv, Frozen
<1>7. QED
  BY <1>4, <1>5, <1>6 DEF ProcInv

\* Time passes only where nothing is to be done.
LEMMA ClockTick ==
  ASSUME TypeOK, Tick, NEW p \in Procs, ProcInv(p)
  PROVE  ProcInv(p)'
<1> DEFINE s == proc[p]
           Older(f) == [f EXCEPT !.age = AtMost(@ + 1, StaleTimeout + 1)]
<1>1. /\ s \in Process /\ proc'[p] = Aged(s) /\ ~Busy(p)
      /\ files' = {Older(f) : f \in files}
  BY DEF TypeOK, Tick
<1>2. /\ proc'[p].pc = s.pc /\ proc'[p].lockID = s.lockID
      /\ proc'[p].newID = s.newID /\ proc'[p].exclusive = s.exclusive
      /\ proc'[p].monitor = s.monitor /\ proc'[p].refresher = s.refresher
      /\ proc'[p].asleep = s.asleep
      /\ s.monitor # "off" /\ proc'[p].monitored < RefreshTimeout =>
              proc'[p].monitored = s.monitored + 1
  BY <1>1, AgedType
<1>3. \A f \in files : /\ Name(Older(f)) = Name(f)
                       /\ Older(f).exclusive = f.exclusive
                       /\ Older(f).age <= f.age + 1
                       /\ Older(f).age \in Nat /\ f.age \in Nat
  <2>1. \A f \in files : f \in Files
    BY DEF TypeOK
  <2>2. \A f \in Files : f.age \in Nat
    BY Times DEF Files
  <2>3. QED
    BY <2>1, <2>2, OlderType
<1> HIDE DEF Older
<1>i. FlagInv(p) /\ PromptInv(p) /\ HeldInv(p)
  BY DEF ProcInv
<1>4. FlagInv(p)'
  BY <1>1, <1>2, <1>3, <1>i DEF FlagInv
<1>5. ASSUME NEW id, NEW a \in Nat, Young(p, id, a)
      PROVE  Young(p, id, a + 1)'
  <2>1. PICK f \in files : Name(f) = <<p, id>> /\ f.age <= a
    BY <1>5 DEF Young
  <2>2. /\ Older(f) \in files' /\ Name(Older(f)) = <<p, id>>
        /\ Older(f).age <= a + 1
    BY <1>1, <1>3, <1>5, <2>1
  <2>3. QED
    BY <2>2 DEF Young
<1>6. \/ s.pc = "idle"
      \/ s.pc = "held" /\ s.refresher \in {"select", "exists1"}
  <2>1. s.refresher \in Refreshers
    BY <1>1 DEF Process
  <2>2. QED
    BY <1>1, <1>i, <2>1 DEF Busy, Awake, Live, PromptInv, HeldInv, Refreshers
<1>7. PromptInv(p)'
  BY <1>2, <1>6, <1>i DEF PromptInv
<1>8. HeldInv(p)'
  <2>1. ASSUME s.pc = "held", s.monitor = "select",
               proc'[p].monitored < RefreshTimeout
        PROVE  \A id \in {s.lockID}, a \in {s.monitored + 1} : Young(p, id, a)'
    <3>1. /\ s.monitored \in Nat /\ RefreshTimeout \in Nat
          /\ s.monitored < RefreshTimeout
      BY <1>1, <1>2, <2>1, Times DEF Process
    <3>2. Young(p, s.lockID, s.monitored)
      BY <1>i, <2>1, <3>1 DEF HeldInv
    <3>3. QED
      BY <1>5, <3>1, <3>2
  <2>2. QED
    BY <1>2, <1>6, <1>i, <2>1 DEF HeldInv, Frozen
<1>9. QED
  BY <1>4, <1>7, <1>8 DEF ProcInv

\* A step of a process is a step of the world to the others.
LEMMA OneMoves ==
  ASSUME NEW p \in Procs, NEW q \in Procs \ {p}, TypeOK,
         \/ \E exclusive \in BOOLEAN : NewLock(p, exclusive)
         \/ Acquiring(p) \/ Cancel(p) \/ Refreshing(p) \/ Monitoring(p)
         \/ Crash(p) \/ Sleep(p) \/ Wake(p)
  PROVE  proc'[q] = proc[q]
<1>1. \E r : Set(p, r)
  BY Zenon DEF NewLock, Acquiring, ListLocks, LoadLocks, NewLockFails,
         CreateLock, StartGoroutines, Unlocked, Cancel, Refreshing,
         RefreshTick, RefreshCreate, RefreshRemove, Refreshed, RefresherExits,
         ForceRefresh, CheckExistence, ReplaceLock, CheckExistenceAgain,
         CommitLock, Monitoring, MonitorExpires, MonitorExits, Crash, Sleep,
         Wake
<1>2. QED
  BY <1>1 DEF Set, TypeOK

LEMMA ClockStep ==
  ASSUME Undisturbed, TypeOK, TypeOK', ClockInv, [Next]_vars
  PROVE  ClockInv'
<1>1. ASSUME NEW p \in Procs,
             \/ \E exclusive \in BOOLEAN : NewLock(p, exclusive)
             \/ Acquiring(p) \/ Cancel(p) \/ Refreshing(p) \/ Monitoring(p)
             \/ Crash(p) \/ Sleep(p) \/ Wake(p)
      PROVE  ClockInv'
  <2>1. Local(p) /\ ProcInv(p)'
    BY <1>1, ClockAcquiring, ClockTicking, ClockForced, ClockStandby
       DEF ClockInv, Refreshing
  <2>2. \A q \in Procs \ {p} : ProcInv(q)'
    BY <1>1, <2>1, OneMoves, OthersFrame DEF ClockInv
  <2>3. QED
    BY <2>1, <2>2 DEF ClockInv
<1>2. CASE \E f \in files : RemoveStaleLock(f)
  BY <1>2, ClockStale DEF ClockInv
<1>3. CASE Tick
  BY <1>3, ClockTick DEF ClockInv
<1>4. CASE UNCHANGED vars
  <2>1. files' = files /\ proc' = proc
    BY <1>4 DEF vars
  <2>2. QED
    BY <2>1, SameFiles
       DEF ClockInv, ProcInv, FlagInv, PromptInv, HeldInv, Frozen
<1>5. QED
  BY <1>1, <1>2, <1>3, <1>4 DEF Next

LEMMA ClockInvariant ==
  ASSUME Undisturbed
  PROVE  Spec => [](TypeOK /\ ClockInv)
<1>1. Init => ClockInv
  <2> SUFFICES ASSUME Init, NEW p \in Procs PROVE ProcInv(p)
    BY DEF ClockInv
  <2>1. files = {} /\ proc[p] = Idle
    BY DEF Init
  <2>2. /\ proc[p].pc = "idle" /\ ~proc[p].asleep
        /\ proc[p].refresher = "off" /\ proc[p].monitor = "off"
    BY <2>1 DEF Idle
  <2>3. QED
    BY <2>1, <2>2 DEF ProcInv, FlagInv, PromptInv, HeldInv
<1>2. TypeOK /\ ClockInv /\ [Next]_vars => ClockInv'
  BY TypeStep, ClockStep
<1>3. QED
  BY <1>1, <1>2, TypeCorrect, TypeStep, PTL DEF Spec

LEMMA WorkersYoung ==
  ASSUME TypeOK, ClockInv, NEW p \in Procs, Working(p)
  PROVE  /\ proc[p].pc = "held" /\ proc[p].monitored < RefreshTimeout
         /\ Young(p, proc[p].lockID, proc[p].monitored)
<1> DEFINE s == proc[p]
<1>1. /\ s.pc = "held" /\ ~Frozen(p)
      /\ ~(s.monitor = "select" /\ s.monitored >= RefreshTimeout)
      /\ ~(s.monitor = "sending" /\ s.refresher = "select")
  BY DEF Working, Live, MonitorDue
<1>2. /\ s.monitored \in 0 .. RefreshTimeout /\ s.refresher \in Refreshers
      /\ HeldInv(p)
  BY DEF TypeOK, Process, ClockInv, ProcInv
<1>3. s.monitor = "select" /\ s.monitored < RefreshTimeout
  BY <1>1, <1>2, Times DEF HeldInv, Frozen, Refreshers
<1>4. QED
  BY <1>1, <1>2, <1>3 DEF HeldInv

(* If a standby begins only between two refreshes, with no tick of the     *)
(* ticker pending, or before a forced one, and no tick is handled in the   *)
(* second of the monitor's deadline, a process that works has a lock file  *)
(* that nobody may call stale, whatever fails or crashes, and however long *)
(* it stands by.  Without either hypothesis the code lets it work under a  *)
(* stale or a removed lock.                                                *)
THEOREM WorkersAreLocked ==
  ASSUME Undisturbed
  PROVE  Spec => []WorkerHoldsFreshLock
<1>1. TypeOK /\ ClockInv => WorkerHoldsFreshLock
  <2> SUFFICES ASSUME TypeOK, ClockInv, NEW p \in Procs, Working(p)
               PROVE  \E f \in files :
                        /\ f.proc = p /\ ~Stale(f)
                        /\ f.id \in {proc[p].lockID, proc[p].newID}
                        /\ f.exclusive = proc[p].exclusive
    BY DEF WorkerHoldsFreshLock
  <2> DEFINE s == proc[p]
  <2>1. s.monitored \in 0 .. RefreshTimeout /\ FlagInv(p)
    BY DEF TypeOK, Process, ClockInv, ProcInv
  <2>2. PICK f \in files : Name(f) = <<p, s.lockID>> /\ f.age <= s.monitored
    BY WorkersYoung DEF Young
  <2>3. f.age \in Nat /\ s.monitored \in Nat /\ s.monitored < RefreshTimeout
    BY <2>1, Times, WorkersYoung DEF TypeOK, Files
  <2>4. ~Stale(f)
    BY <2>2, <2>3, Times DEF Stale
  <2>5. f.proc = p /\ f.id = s.lockID /\ f.exclusive = s.exclusive
    BY <2>1, <2>2 DEF FlagInv, Name
  <2>6. QED
    BY <2>4, <2>5
<1>2. QED
  BY <1>1, ClockInvariant, PTL

-----------------------------------------------------------------------------
(* Who has the lock, and who is about to. *)

\* p stays among those that have created their file and listed the others:
\* it goes on with its check or passes it, and gets the lock only by that.
Kept(p) ==
  /\ Listed(p)
  /\ proc'[p].exclusive = proc[p].exclusive
  /\ proc[p].pc = "load2" =>
       \/ proc'[p].pc = "load2" /\ proc'[p].seen = proc[p].seen
       \/ ~Conflict(p) /\ ~Unclear(p)
  /\ Has(p)' => Has(p) \/ StartGoroutines(p)

\* p joins them.
Lists(p) ==
  /\ files' = files
  /\ proc[p].pc = "list2" /\ proc'[p].pc = "load2"
  /\ proc'[p].seen = Names \ {<<p, proc[p].lockID>>}
  /\ proc'[p].exclusive = proc[p].exclusive

LEMMA YoungExists ==
  ASSUME NEW p, NEW id, NEW a, Young(p, id, a)
  PROVE  Exists(p, id)
BY DEF Young, Exists, Names

\* A refresh gives nobody a lock that had none.
LEMMA HasRefreshing ==
  ASSUME TypeOK, NEW p \in Procs, ProcInv(p), Refreshing(p) \/ Monitoring(p)
  PROVE  /\ Has(p)' => Has(p)
         /\ Listed(p)' => Has(p)'
         /\ proc'[p].exclusive = proc[p].exclusive
<1> DEFINE s == proc[p]
<1>s. /\ s \in Process /\ \A r : Set(p, r) => proc'[p] = r
      /\ s.monitored \in Nat /\ RefreshTimeout \in Nat
  BY Times DEF TypeOK, Set, Process
<1>i. FlagInv(p) /\ PromptInv(p) /\ HeldInv(p)
  BY DEF ProcInv
<1>r. ~s.asleep /\ (s.refresher # "off" \/ s.monitor # "off" \/ s.pc = "held")
  BY DEF Refreshing, RefreshTick, RefreshCreate, RefreshRemove, Refreshed,
         RefresherExits, ForceRefresh, CheckExistence, ReplaceLock,
         CheckExistenceAgain, CommitLock, Monitoring, MonitorExpires,
         MonitorExits, Live, Refresher, Awake
<1>p. s.pc \in {"held", "closing"}
  BY <1>i, <1>r DEF PromptInv
<1>h. s.pc = "held" /\ s.refresher \in {"create", "remove", "notify"} => Has(p)
  <2>1. ASSUME s.pc = "held", s.refresher \in {"create", "remove", "notify"}
        PROVE  Young(p, s.lockID, s.monitored)
    BY <1>i, <2>1 DEF HeldInv
  <2>2. QED
    BY <2>1, YoungExists DEF Has, Live
<1>c. s.pc = "held" /\ s.refresher = "commit" => Has(p)
  BY <1>i, YoungExists DEF HeldInv, Has, Live
<1>q. ASSUME /\ proc'[p].pc \in {s.pc, "closing"}
             /\ proc'[p].exclusive = s.exclusive
             /\ proc'[p].pc = "held" =>
                  \/ Has(p)
                  \/ /\ proc'[p].lockID = s.lockID
                     /\ proc'[p].refresher # "commit"
                     /\ <<p, s.lockID>> \in Names' => <<p, s.lockID>> \in Names
      PROVE  /\ Has(p)' => Has(p)
             /\ Listed(p)' => Has(p)'
             /\ proc'[p].exclusive = proc[p].exclusive
  <2>1. Listed(p)' => Has(p)'
    BY <1>p, <1>q DEF Listed
  <2>2. Has(p)' => Has(p)
    BY <1>p, <1>q DEF Has, Live, Exists
  <2>3. QED
    BY <1>q, <2>1, <2>2
<1>n. files' = files => Names' = Names
  BY DEF Names
<1>1. CASE RefreshTick(p)
  <2>1. /\ files' = files /\ s.refresher = "select"
        /\ \/ proc'[p] = [s EXCEPT !.ticker = 0]
           \/ proc'[p] = [s EXCEPT !.ticker = 0, !.time = 0,
                                   !.refresher = "create"]
    BY <1>1, <1>s DEF RefreshTick, Refresher
  <2>2. /\ proc'[p].pc = s.pc /\ proc'[p].lockID = s.lockID
        /\ proc'[p].exclusive = s.exclusive
        /\ proc'[p].refresher \in {"select", "create"}
    BY <1>s, <2>1 DEF Process
  <2>3. QED
    BY <1>q, <1>n, <2>1, <2>2
<1>2. CASE RefreshCreate(p)
  <2>1. s.refresher = "create"
    BY <1>2 DEF RefreshCreate, Refresher
  <2>2. \/ \E id : proc'[p] = [s EXCEPT !.refresher = "remove", !.newID = id]
        \/ proc'[p] = [s EXCEPT !.refresher = "select", !.time = 0]
    BY <1>2, <1>s DEF RefreshCreate
  <2>3. proc'[p].pc = s.pc /\ proc'[p].exclusive = s.exclusive
    BY <1>s, <2>2 DEF Process
  <2>4. QED
    BY <1>h, <1>q, <2>1, <2>3
<1>3. CASE RefreshRemove(p)
  <2> DEFINE w == [s EXCEPT !.lockID = s.newID, !.newID = NoId, !.time = 0]
  <2>1. /\ s.refresher = "remove"
        /\ \/ proc'[p] = [w EXCEPT !.refresher = "notify",
                            !.lastRefresh = AtMost(s.time, RefreshTimeout + 1)]
           \/ proc'[p] = [w EXCEPT !.refresher = "select"]
    BY <1>3, <1>s DEF RefreshRemove, Refresher
  <2>2. w \in Process /\ w.pc = s.pc /\ w.exclusive = s.exclusive
    BY <1>s, Zeros DEF Process
  <2> HIDE DEF w
  <2>3. proc'[p].pc = s.pc /\ proc'[p].exclusive = s.exclusive
    BY <2>1, <2>2 DEF Process
  <2>4. QED
    BY <1>h, <1>q, <2>1, <2>3
<1>4. CASE Refreshed(p)
  <2>1. /\ s.refresher = "notify"
        /\ \/ proc'[p] = [s EXCEPT !.refresher = "select", !.monitored = 0]
           \/ proc'[p] = [s EXCEPT !.refresher = "select"]
    BY <1>4, <1>s DEF Refreshed, Refresher
  <2>2. proc'[p].pc = s.pc /\ proc'[p].exclusive = s.exclusive
    BY <1>s, <2>1 DEF Process
  <2>3. QED
    BY <1>h, <1>q, <2>1, <2>2
<1>5. CASE RefresherExits(p)
  <2>1. s.pc # "held" /\ proc'[p] = [s EXCEPT !.refresher = "off"]
    BY <1>5, <1>s DEF RefresherExits, Live
  <2>2. proc'[p].pc = s.pc /\ proc'[p].exclusive = s.exclusive
    BY <1>s, <2>1 DEF Process
  <2>3. QED
    BY <1>q, <2>1, <2>2
<1>6. CASE ForceRefresh(p)
  <2>1. /\ files' = files
        /\ proc'[p] = [s EXCEPT !.refresher = "exists1", !.monitor = "waiting"]
    BY <1>6, <1>s DEF ForceRefresh
  <2>2. /\ proc'[p].pc = s.pc /\ proc'[p].lockID = s.lockID
        /\ proc'[p].exclusive = s.exclusive /\ proc'[p].refresher = "exists1"
    BY <1>s, <2>1 DEF Process
  <2>3. QED
    BY <1>q, <1>n, <2>1, <2>2
<1>f. ASSUME Set(p, ForcedRefreshFailed(p))
      PROVE  /\ Has(p)' => Has(p)
             /\ Listed(p)' => Has(p)'
             /\ proc'[p].exclusive = proc[p].exclusive
  BY <1>f, <1>q, FailedFields
<1>7. CASE CheckExistence(p)
  <2>1. CASE Set(p, [s EXCEPT !.refresher = "replace", !.time = 0])
    <3>1. files' = files
      BY <1>7 DEF CheckExistence
    <3>2. /\ proc'[p].pc = s.pc /\ proc'[p].lockID = s.lockID
          /\ proc'[p].exclusive = s.exclusive /\ proc'[p].refresher = "replace"
      BY <1>s, <2>1 DEF Process
    <3>3. QED
      BY <1>q, <1>n, <3>1, <3>2
  <2>2. QED
    BY <1>7, <1>f, <2>1 DEF CheckExistence
<1>8. CASE ReplaceLock(p)
  <2>1. CASE /\ createLock(p, NextId(p))
             /\ Set(p, [s EXCEPT !.refresher = "exists2", !.newID = NextId(p)])
    <3>1. /\ proc'[p].pc = s.pc /\ proc'[p].lockID = s.lockID
          /\ proc'[p].exclusive = s.exclusive /\ proc'[p].refresher = "exists2"
      BY <1>s, <2>1 DEF Process
    <3>2. PICK f \in Files : /\ files' = files \cup {f}
                             /\ Name(f) = <<p, NextId(p)>>
      BY <2>1, CreateType
    <3>3. NextId(p) # s.lockID
      BY <2>1, CreateType
    <3>4. <<p, s.lockID>> \in Names' => <<p, s.lockID>> \in Names
      BY <3>2, <3>3 DEF Names
    <3>5. QED
      BY <1>q, <3>1, <3>4
  <2>2. QED
    BY <1>8, <1>f, <2>1 DEF ReplaceLock
<1>9. CASE CheckExistenceAgain(p)
  <2>1. CASE StillThere(p) /\ Set(p, [s EXCEPT !.refresher = "commit"])
    <3>1. s.pc = "held" => Has(p)
      BY <2>1 DEF StillThere, Has, Live
    <3>2. proc'[p].pc = s.pc /\ proc'[p].exclusive = s.exclusive
      BY <1>s, <2>1 DEF Process
    <3>3. QED
      BY <1>q, <3>1, <3>2
  <2>2. QED
    BY <1>9, <1>f, <2>1 DEF CheckExistenceAgain
<1>10. CASE CommitLock(p)
  <2>1. s.refresher = "commit"
    BY <1>10 DEF CommitLock, Refresher
  <2>2. ASSUME NEW n, NEW m,
               proc'[p] = [s EXCEPT
                             !.lockID = s.newID, !.newID = NoId,
                             !.lastRefresh = n, !.time = 0,
                             !.refresher = "select", !.monitor = m,
                             !.monitored = 0]
        PROVE  proc'[p].pc = s.pc /\ proc'[p].exclusive = s.exclusive
    BY <1>s, <2>2 DEF Process
  <2>3. ASSUME Set(p, [ForcedRefreshFailed(p) EXCEPT !.lockID = s.newID])
        PROVE  proc'[p].pc = "closing" /\ proc'[p].exclusive = s.exclusive
    <3>1. /\ ForcedRefreshFailed(p) \in Process
          /\ ForcedRefreshFailed(p).pc = "closing"
          /\ ForcedRefreshFailed(p).exclusive = s.exclusive
      BY <1>s, FailedType DEF ForcedRefreshFailed, Process
    <3>2. proc'[p] = [ForcedRefreshFailed(p) EXCEPT !.lockID = s.newID]
      BY <1>s, <2>3
    <3>3. QED
      BY <3>1, <3>2 DEF Process
  <2>4. proc'[p].pc \in {s.pc, "closing"} /\ proc'[p].exclusive = s.exclusive
    BY <1>10, <1>s, <2>2, <2>3 DEF CommitLock
  <2>5. QED
    BY <1>c, <1>q, <2>1, <2>4
<1>11. CASE Monitoring(p)
  <2>1. /\ files' = files
        /\ \/ proc'[p] = [s EXCEPT !.monitor = "sending"]
           \/ s.pc # "held"
              /\ proc'[p] = [s EXCEPT !.monitor = "off", !.monitored = 0]
    BY <1>11, <1>s DEF Monitoring, MonitorExpires, MonitorExits, Live
  <2>2. /\ proc'[p].pc = s.pc /\ proc'[p].lockID = s.lockID
        /\ proc'[p].exclusive = s.exclusive
        /\ proc'[p].refresher = s.refresher
    BY <1>s, <2>1 DEF Process
  <2>3. QED
    BY <1>q, <1>n, <1>c, <2>1, <2>2
<1>12. QED
  BY <1>1, <1>2, <1>3, <1>4, <1>5, <1>6, <1>7, <1>8, <1>9, <1>10, <1>11
     DEF Refreshing

LEMMA ListedOwn ==
  ASSUME TypeOK, NEW p \in Procs, ProcInv(p), Listed(p)',
         \/ \E exclusive \in BOOLEAN : NewLock(p, exclusive)
         \/ Acquiring(p) \/ Cancel(p) \/ Refreshing(p) \/ Monitoring(p)
         \/ Crash(p) \/ Sleep(p) \/ Wake(p)
  PROVE  Kept(p) \/ Lists(p)
<1> DEFINE s == proc[p]
<1>s. s \in Process /\ \A r : Set(p, r) => proc'[p] = r
  BY DEF TypeOK, Set
<1>l. proc'[p].pc \in {"load2", "start", "held"}
  BY DEF Listed, Has, Live
<1>1. ASSUME NEW exclusive \in BOOLEAN, NewLock(p, exclusive) PROVE FALSE
  <2>1. proc'[p] = [Idle EXCEPT !.pc = "list1", !.exclusive = exclusive]
    BY <1>1, <1>s DEF NewLock
  <2>2. proc'[p].pc = "list1"
    BY <2>1 DEF Idle
  <2>3. QED
    BY <1>l, <2>2
<1>2. CASE NewLockFails(p) \/ Unlocked(p) \/ Crash(p)
  BY <1>2, <1>l, <1>s DEF NewLockFails, Unlocked, Crash, Idle
<1>3. CASE CreateLock(p) \/ Cancel(p)
  <2>1. \/ \E id : proc'[p] = [s EXCEPT !.pc = "list2", !.lockID = id]
        \/ proc'[p] = [s EXCEPT !.pc = "closing"]
    BY <1>3, <1>s DEF CreateLock, Cancel
  <2>2. proc'[p].pc \in {"list2", "closing"}
    BY <1>s, <2>1 DEF Process
  <2>3. QED
    BY <1>l, <2>2
<1>4. CASE ListLocks(p)
  BY <1>4, <1>l, <1>s DEF ListLocks, At, Lists, Process
<1>5. CASE LoadLocks(p)
  <2>1. /\ s.pc = "load2" /\ proc'[p].pc = "start"
        /\ ~Conflict(p) /\ ~Unclear(p)
        /\ proc'[p].exclusive = s.exclusive
    BY <1>5, <1>l, <1>s, ZenonT(60) DEF LoadLocks, At, Process
  <2>2. QED
    BY <2>1 DEF Kept, Listed, Has, Live
<1>6. CASE StartGoroutines(p)
  <2>1. s.pc = "start"
    BY <1>6 DEF StartGoroutines, At
  <2>2. proc'[p].exclusive = s.exclusive
    BY <1>6, <1>s DEF StartGoroutines, Process
  <2>3. QED
    BY <1>6, <2>1, <2>2 DEF Kept, Listed
<1>7. CASE Refreshing(p) \/ Monitoring(p)
  <2>1. Has(p) /\ proc'[p].exclusive = s.exclusive
    BY <1>7, HasRefreshing
  <2>2. QED
    BY <2>1 DEF Kept, Listed, Has, Live
<1>8. CASE Sleep(p) \/ Wake(p)
  <2>1. /\ files' = files
        /\ \/ proc'[p] = [s EXCEPT !.asleep = TRUE]
           \/ proc'[p] = [s EXCEPT !.asleep = FALSE]
    BY <1>8, <1>s DEF Sleep, Wake
  <2>2. /\ proc'[p].pc = s.pc /\ proc'[p].lockID = s.lockID
        /\ proc'[p].newID = s.newID /\ proc'[p].exclusive = s.exclusive
        /\ proc'[p].refresher = s.refresher /\ proc'[p].seen = s.seen
    BY <1>s, <2>1 DEF Process
  <2>3. Has(p)' <=> Has(p)
    BY <2>1, <2>2 DEF Has, Live, Exists, Names
  <2>4. QED
    BY <2>2, <2>3 DEF Kept, Listed
<1>9. QED
  BY <1>1, <1>2, <1>3, <1>4, <1>5, <1>6, <1>7, <1>8 DEF Acquiring

\* p is passed by: its control state is as before and no file of that name
\* appears.
LEMMA ListedOther ==
  ASSUME NEW p \in Procs, Listed(p)',
         proc'[p].pc = proc[p].pc, proc'[p].exclusive = proc[p].exclusive,
         proc'[p].lockID = proc[p].lockID, proc'[p].newID = proc[p].newID,
         proc'[p].refresher = proc[p].refresher, proc'[p].seen = proc[p].seen,
         \A id : <<p, id>> \in Names' => <<p, id>> \in Names
  PROVE  Kept(p)
<1>1. Has(p)' => Has(p)
  BY DEF Has, Live, Exists
<1>2. QED
  BY <1>1 DEF Kept, Listed

LEMMA OlderNames ==
  ASSUME TypeOK, Tick
  PROVE  \A f \in files' :
           \E g \in files : Name(g) = Name(f) /\ g.exclusive = f.exclusive
<1> DEFINE Older(g) == [g EXCEPT !.age = AtMost(@ + 1, StaleTimeout + 1)]
<1>1. \A g \in files : g \in Files
  BY DEF TypeOK
<1>2. files' = {Older(g) : g \in files}
  BY DEF Tick
<1>3. \A g \in files : /\ Name(Older(g)) = Name(g)
                       /\ Older(g).exclusive = g.exclusive
  BY <1>1, OlderType
<1> HIDE DEF Older
<1>4. QED
  BY <1>2, <1>3

LEMMA ListedStep ==
  ASSUME Undisturbed, TypeOK, TypeOK', ClockInv, [Next]_vars,
         NEW p \in Procs, Listed(p)'
  PROVE  Kept(p) \/ Lists(p)
<1>1. ASSUME NEW q \in Procs,
             \/ \E exclusive \in BOOLEAN : NewLock(q, exclusive)
             \/ Acquiring(q) \/ Cancel(q) \/ Refreshing(q) \/ Monitoring(q)
             \/ Crash(q) \/ Sleep(q) \/ Wake(q)
      PROVE  Kept(p) \/ Lists(p)
  <2>1. CASE p = q
    BY <1>1, <2>1, ListedOwn DEF ClockInv
  <2>2. CASE p # q
    <3>1. Local(q) /\ proc'[p] = proc[p]
      BY <1>1, <2>2, OneMoves, ClockAcquiring, ClockTicking, ClockForced,
         ClockStandby DEF ClockInv, Refreshing
    <3>2. \A id : <<p, id>> \in Names' => <<p, id>> \in Names
      BY <2>2, <3>1 DEF Local, Names, Name
    <3>3. QED
      BY <3>1, <3>2, ListedOther
  <2>3. QED
    BY <2>1, <2>2
<1>2. CASE \E f \in files : RemoveStaleLock(f)
  <2>1. files' \subseteq files /\ proc' = proc
    BY <1>2 DEF RemoveStaleLock
  <2>2. QED
    BY <2>1, ListedOther DEF Names
<1>3. CASE Tick
  <2>1. proc[p] \in Process /\ proc'[p] = Aged(proc[p])
    BY <1>3 DEF TypeOK, Tick
  <2>2. \A id : <<p, id>> \in Names' => <<p, id>> \in Names
    BY <1>3, OlderNames DEF Names
  <2>3. QED
    BY <2>1, <2>2, AgedType, ListedOther
<1>4. CASE UNCHANGED vars
  <2>1. files' = files /\ proc' = proc
    BY <1>4 DEF vars
  <2>2. QED
    BY <2>1, ListedOther DEF Names
<1>5. QED
  BY <1>1, <1>2, <1>3, <1>4 DEF Next

\* Whoever creates a file, it is one of his own.
LEMMA FilesStep ==
  ASSUME [Next]_vars
  PROVE  \/ files' \subseteq files \/ Tick
         \/ \E p \in Procs : /\ createLock(p, NextId(p))
                             /\ \/ CreateLock(p) \/ RefreshCreate(p)
                                \/ ReplaceLock(p)
<1>1. CASE \E p \in Procs : Acquiring(p) \/ Cancel(p) \/ Monitoring(p)
  BY <1>1 DEF Acquiring, ListLocks, LoadLocks, NewLockFails, CreateLock,
       StartGoroutines, Unlocked, Cancel, Monitoring, MonitorExpires,
       MonitorExits, Removed, NotRemoved, Without
<1>2. CASE \E p \in Procs : Refreshing(p)
  BY <1>2 DEF Refreshing, RefreshTick, RefreshCreate, RefreshRemove,
       Refreshed, RefresherExits, ForceRefresh, CheckExistence, ReplaceLock,
       CheckExistenceAgain, CommitLock, Removed, NotRemoved, Without
<1>3. CASE \/ \E p \in Procs :
                \/ \E exclusive \in BOOLEAN : NewLock(p, exclusive)
                \/ Crash(p) \/ Sleep(p) \/ Wake(p)
           \/ \E f \in files : RemoveStaleLock(f)
           \/ Tick \/ UNCHANGED vars
  BY <1>3 DEF NewLock, Crash, Sleep, Wake, RemoveStaleLock, vars
<1>4. QED
  BY <1>1, <1>2, <1>3 DEF Next

\* A name that somebody remembers is not given to another file.
LEMMA SeenFrame ==
  ASSUME TypeOK, [Next]_vars
  PROVE  \A f \in files' :
           \/ \E g \in files : Name(g) = Name(f) /\ g.exclusive = f.exclusive
           \/ \A r \in Procs : Name(f) \notin proc[r].seen
<1>1. CASE files' \subseteq files
  BY <1>1
<1>2. CASE Tick
  BY <1>2, OlderNames
<1>3. ASSUME NEW p \in Procs, createLock(p, NextId(p))
      PROVE  \A f \in files' :
               \/ f \in files
               \/ \A r \in Procs : Name(f) \notin proc[r].seen
  <2>1. PICK g \in Files : /\ files' = files \cup {g}
                           /\ Name(g) = <<p, NextId(p)>>
    BY <1>3, CreateType
  <2>2. \A r \in Procs : <<p, NextId(p)>> \notin proc[r].seen
    BY <1>3, CreateType
  <2>3. QED
    BY <2>1, <2>2
<1>4. QED
  BY <1>1, <1>2, <1>3, FilesStep

\* Who has listed the locks has a file with what it wants written in it.
LEMMA OwnFile ==
  ASSUME TypeOK, NEW q \in Procs, ProcInv(q), Listed(q) \/ proc[q].pc = "list2"
  PROVE  \E id \in Ids :
           /\ <<q, id>> \in Names
           /\ \A f \in files : Name(f) = <<q, id>> =>
                                 f.exclusive = proc[q].exclusive
<1>1. \/ <<q, proc[q].lockID>> \in Names
      \/ <<q, proc[q].newID>> \in Names
  <2>1. CASE proc[q].pc \in {"list2", "load2", "start"}
    BY <2>1, YoungExists DEF ProcInv, PromptInv, Exists
  <2>2. CASE Has(q)
    BY <2>2 DEF Has, Exists
  <2>3. QED
    BY <2>1, <2>2 DEF Listed
<1>2. QED
  BY <1>1, NamesType DEF ProcInv, FlagInv

LEMMA PairStep ==
  ASSUME Undisturbed, TypeOK, TypeOK', ClockInv, PairInv, [Next]_vars
  PROVE  PairInv'
<1>1. ASSUME NEW p \in Procs, NEW q \in Procs, p # q, Lists(p),
             Listed(q)'
      PROVE  Sees(p, q)'
  <2>1. /\ Listed(q) \/ proc[q].pc = "list2"
        /\ proc'[q].exclusive = proc[q].exclusive
    BY <1>1, ListedStep DEF Kept, Lists
  <2>2. PICK id \in Ids :
               /\ <<q, id>> \in Names
               /\ \A f \in files : Name(f) = <<q, id>> =>
                                     f.exclusive = proc[q].exclusive
    BY <2>1, OwnFile DEF ClockInv
  <2>3. <<q, id>> \in proc'[p].seen
    BY <1>1, <2>2 DEF Lists
  <2>4. QED
    BY <1>1, <2>1, <2>2, <2>3 DEF Lists, Sees
<1>2. ASSUME NEW p \in Procs, NEW q \in Procs, p # q, Kept(p), Kept(q),
             Listed(p)', Sees(p, q)
      PROVE  Sees(p, q)' \/ Agree(p, q)'
  <2>1. PICK id \in Ids :
               /\ <<q, id>> \in proc[p].seen
               /\ \A f \in files : Name(f) = <<q, id>> =>
                                     f.exclusive = proc[q].exclusive
    BY <1>2 DEF Sees
  <2>2. /\ proc'[p].exclusive = proc[p].exclusive
        /\ proc'[q].exclusive = proc[q].exclusive
    BY <1>2 DEF Kept
  <2>3. CASE proc'[p].pc = "load2" /\ proc'[p].seen = proc[p].seen
    <3>1. \A f \in files' : Name(f) = <<q, id>> =>
                              f.exclusive = proc[q].exclusive
      BY <2>1, SeenFrame
    <3>2. QED
      BY <2>1, <2>2, <2>3, <3>1 DEF Sees
  <2>4. CASE ~Conflict(p) /\ ~Unclear(p)
    <3>1. <<q, id>> \in Names
      BY <2>1, <2>4 DEF Unclear
    <3>2. PICK f \in files : Name(f) = <<q, id>>
      BY <3>1 DEF Names
    <3>3. ~proc[p].exclusive /\ ~f.exclusive
      BY <2>1, <2>4, <3>2 DEF Conflict
    <3>4. QED
      BY <2>1, <2>2, <3>2, <3>3 DEF Agree
  <2>5. QED
    BY <1>2, <2>3, <2>4 DEF Kept, Sees
<1>3. ASSUME NEW p \in Procs, NEW q \in Procs, p # q, Listed(p)', Listed(q)'
      PROVE  Agree(p, q)' \/ Sees(p, q)' \/ Sees(q, p)'
  <2>1. CASE Lists(p) \/ Lists(q)
    BY <1>1, <1>3, <2>1
  <2>2. CASE Kept(p) /\ Kept(q)
    <3>1. Agree(p, q) \/ Sees(p, q) \/ Sees(q, p)
      BY <1>3, <2>2 DEF Kept, PairInv
    <3>2. CASE Agree(p, q)
      BY <2>2, <3>2 DEF Agree, Kept
    <3>3. CASE Sees(p, q)
      BY <1>2, <1>3, <2>2, <3>3
    <3>4. CASE Sees(q, p)
      <4>1. Sees(q, p)' \/ Agree(q, p)'
        BY <1>2, <1>3, <2>2, <3>4
      <4>2. QED
        BY <4>1 DEF Agree
    <3>5. QED
      BY <3>1, <3>2, <3>3, <3>4
  <2>3. QED
    BY <1>3, <2>1, <2>2, ListedStep
<1>4. QED
  BY <1>3 DEF PairInv

LEMMA LockInvariant ==
  ASSUME Undisturbed
  PROVE  Spec => [](TypeOK /\ ClockInv /\ PairInv)
<1>1. Init => PairInv
  <2> SUFFICES ASSUME Init, NEW p \in Procs PROVE ~Listed(p)
    BY DEF PairInv
  <2>1. proc[p].pc = "idle"
    BY DEF Init, Idle
  <2>2. QED
    BY <2>1 DEF Listed, Has, Live
<1>2. TypeOK /\ ClockInv /\ PairInv /\ [Next]_vars => PairInv'
  BY PairStep, TypeStep
<1>3. QED
  BY <1>1, <1>2, ClockInvariant, PTL DEF Spec

\* Only the end of NewLock gives a process the lock.
LEMMA HasStep ==
  ASSUME Undisturbed, TypeOK, TypeOK', ClockInv, [Next]_vars,
         NEW p \in Procs, Has(p)'
  PROVE  /\ Has(p) \/ StartGoroutines(p)
         /\ proc'[p].exclusive = proc[p].exclusive
<1>1. Listed(p)' /\ proc'[p].pc = "held"
  BY DEF Listed, Has, Live
<1>2. Kept(p)
  BY <1>1, ListedStep DEF Lists
<1>3. QED
  BY <1>2 DEF Kept

\* No name of p appears while p is neither acquiring nor refreshing on time,
\* except that of a replacement.
LEMMA NoNameAppears ==
  ASSUME TypeOK, [Next]_vars, NEW p \in Procs, Live(p),
         Frozen(p) \/ proc[p].refresher = "select"
  PROVE  \A id : <<p, id>> \in Names' =>
           \/ <<p, id>> \in Names
           \/ proc[p].refresher = "replace" /\ id # proc[p].lockID
<1>1. CASE files' \subseteq files
  BY <1>1 DEF Names
<1>2. CASE Tick
  BY <1>2, OlderNames DEF Names
<1>3. ASSUME NEW q \in Procs, createLock(q, NextId(q)),
             CreateLock(q) \/ RefreshCreate(q) \/ ReplaceLock(q)
      PROVE  \A id : <<p, id>> \in Names' =>
               \/ <<p, id>> \in Names
               \/ proc[p].refresher = "replace" /\ id # proc[p].lockID
  <2>1. PICK f \in Files : /\ files' = files \cup {f}
                           /\ Name(f) = <<q, NextId(q)>>
    BY <1>3, CreateType
  <2>2. NextId(q) # proc[q].lockID
    BY <1>3, CreateType
  <2>3. q = p => proc[p].refresher = "replace"
    BY <1>3 DEF CreateLock, At, Live, RefreshCreate, ReplaceLock, Refresher,
                Frozen
  <2>4. QED
    BY <2>1, <2>2, <2>3 DEF Names
<1>4. QED
  BY <1>1, <1>2, <1>3, FilesStep

\* What such a process makes of its lock.
LEMMA ForcedStep ==
  ASSUME TypeOK, NEW p \in Procs, Live(p), ~Has(p),
         Frozen(p) \/ proc[p].refresher = "select",
         \/ \E exclusive \in BOOLEAN : NewLock(p, exclusive)
         \/ Acquiring(p) \/ Cancel(p) \/ Refreshing(p) \/ Monitoring(p)
         \/ Crash(p) \/ Sleep(p) \/ Wake(p)
  PROVE  proc'[p].pc = "held" =>
           /\ \/ proc'[p].lockID = proc[p].lockID
              \/ /\ proc[p].refresher = "commit"
                 /\ proc'[p].lockID = proc[p].newID
           /\ proc'[p].refresher = "commit" =>
                proc[p].refresher = "commit" /\ proc'[p].newID = proc[p].newID
<1> DEFINE s == proc[p]
           Goal == proc'[p].pc = "held" =>
                     /\ \/ proc'[p].lockID = s.lockID
                        \/ s.refresher = "commit" /\ proc'[p].lockID = s.newID
                     /\ proc'[p].refresher = "commit" =>
                          s.refresher = "commit" /\ proc'[p].newID = s.newID
<1> SUFFICES Goal
  OBVIOUS
<1>s. s \in Process /\ \A r : Set(p, r) => proc'[p] = r
  BY DEF TypeOK, Set
<1>h. /\ s.pc = "held"
      /\ s.refresher \in {"select", "exists1", "replace", "exists2", "commit"}
      /\ ~StillThere(p)
  BY DEF Live, Frozen, Has, StillThere
<1>1. CASE \/ \E exclusive \in BOOLEAN : NewLock(p, exclusive)
           \/ Acquiring(p)
  BY <1>1, <1>h DEF NewLock, Acquiring, ListLocks, LoadLocks, NewLockFails,
     CreateLock, StartGoroutines, Unlocked, At
<1>2. CASE Crash(p)
  BY <1>2, <1>s DEF Crash, Idle
<1>3. CASE Cancel(p)
  <2>1. proc'[p] = [s EXCEPT !.pc = "closing"]
    BY <1>3, <1>s DEF Cancel
  <2>2. QED
    BY <1>s, <2>1 DEF Process
<1>4. CASE Sleep(p) \/ Wake(p) \/ Monitoring(p)
  <2>1. \/ proc'[p] = [s EXCEPT !.asleep = TRUE]
        \/ proc'[p] = [s EXCEPT !.asleep = FALSE]
        \/ proc'[p] = [s EXCEPT !.monitor = "sending"]
        \/ proc'[p] = [s EXCEPT !.monitor = "off", !.monitored = 0]
    BY <1>4, <1>s DEF Sleep, Wake, Monitoring, MonitorExpires, MonitorExits
  <2>2. QED
    BY <1>s, <2>1 DEF Process
<1>5. CASE RefreshTick(p)
  <2>1. \/ proc'[p] = [s EXCEPT !.ticker = 0]
        \/ proc'[p] = [s EXCEPT !.ticker = 0, !.time = 0,
                                !.refresher = "create"]
    BY <1>5, <1>s DEF RefreshTick
  <2>2. s.refresher = "select"
    BY <1>5 DEF RefreshTick, Refresher
  <2>3. QED
    BY <1>s, <2>1, <2>2 DEF Process
<1>6. CASE RefreshCreate(p) \/ RefreshRemove(p) \/ Refreshed(p)
           \/ RefresherExits(p)
  BY <1>6, <1>h DEF RefreshCreate, RefreshRemove, Refreshed, RefresherExits,
     Refresher, Live
<1>7. CASE ForceRefresh(p)
  <2>1. proc'[p] = [s EXCEPT !.refresher = "exists1", !.monitor = "waiting"]
    BY <1>7, <1>s DEF ForceRefresh
  <2>2. QED
    BY <1>s, <2>1 DEF Process
<1>f. ASSUME Set(p, ForcedRefreshFailed(p)) PROVE Goal
  BY <1>f, FailedFields
<1>8. CASE CheckExistence(p) \/ CheckExistenceAgain(p)
  BY <1>8, <1>f, <1>h DEF CheckExistence, CheckExistenceAgain
<1>9. CASE ReplaceLock(p)
  <2>1. CASE \E id : Set(p, [s EXCEPT !.refresher = "exists2", !.newID = id])
    BY <1>s, <2>1 DEF Process
  <2>2. QED
    BY <1>9, <1>f, <2>1 DEF ReplaceLock
<1>10. CASE CommitLock(p)
  <2>1. s.refresher = "commit"
    BY <1>10 DEF CommitLock, Refresher
  <2>2. ASSUME NEW n, NEW m,
               proc'[p] = [s EXCEPT
                             !.lockID = s.newID, !.newID = NoId,
                             !.lastRefresh = n, !.time = 0,
                             !.refresher = "select", !.monitor = m,
                             !.monitored = 0]
        PROVE  proc'[p].lockID = s.newID /\ proc'[p].refresher = "select"
    BY <1>s, <2>2 DEF Process
  <2>3. ASSUME Set(p, [ForcedRefreshFailed(p) EXCEPT !.lockID = s.newID])
        PROVE  proc'[p].pc = "closing"
    <3>1. /\ ForcedRefreshFailed(p) \in Process
          /\ ForcedRefreshFailed(p).pc = "closing"
      BY <1>s, FailedType DEF ForcedRefreshFailed, Process
    <3>2. proc'[p] = [ForcedRefreshFailed(p) EXCEPT !.lockID = s.newID]
      BY <1>s, <2>3
    <3>3. QED
      BY <3>1, <3>2 DEF Process
  <2>4. \/ proc'[p].lockID = s.newID /\ proc'[p].refresher = "select"
        \/ proc'[p].pc = "closing"
    BY <1>10, <1>s, <2>2, <2>3 DEF CommitLock
  <2>5. QED
    BY <2>1, <2>4
<1>11. QED
  BY <1>1, <1>2, <1>3, <1>4, <1>5, <1>6, <1>7, <1>8, <1>9, <1>10
     DEF Refreshing

(* A process whose lock file others have removed does not get the lock     *)
(* back while it waits for its next refresh or makes a forced one,         *)
(* whatever the timeouts, standbys, failures and the order in which ticker *)
(* and monitor are served.  No hypothesis is needed: the two checks around *)
(* the replacement (internal/restic/lock.go:333-385) are enough.           *)
THEOREM ForcedRefreshesAreHonest == Spec => ForcedRefreshIsHonest
<1> DEFINE A == \A p \in Procs :
                  Live(p) /\ ~Has(p)
                    /\ (Frozen(p) \/ proc[p].refresher = "select") => ~Has(p)'
<1>1. TypeOK /\ [Next]_vars => A
  <2> SUFFICES ASSUME TypeOK, [Next]_vars, NEW p \in Procs, Live(p), ~Has(p),
                      Frozen(p) \/ proc[p].refresher = "select"
               PROVE  ~Has(p)'
    OBVIOUS
  <2>1. proc'[p].pc = "held" =>
          /\ \/ proc'[p].lockID = proc[p].lockID
             \/ /\ proc[p].refresher = "commit"
                /\ proc'[p].lockID = proc[p].newID
          /\ proc'[p].refresher = "commit" =>
               proc[p].refresher = "commit" /\ proc'[p].newID = proc[p].newID
    <3>1. ASSUME NEW q \in Procs,
                 \/ \E exclusive \in BOOLEAN : NewLock(q, exclusive)
                 \/ Acquiring(q) \/ Cancel(q) \/ Refreshing(q) \/ Monitoring(q)
                 \/ Crash(q) \/ Sleep(q) \/ Wake(q)
          PROVE  \/ proc'[p] = proc[p]
                 \/ proc'[p].pc = "held" =>
                      /\ \/ proc'[p].lockID = proc[p].lockID
                         \/ /\ proc[p].refresher = "commit"
                            /\ proc'[p].lockID = proc[p].newID
                      /\ proc'[p].refresher = "commit" =>
                           /\ proc[p].refresher = "commit"
                           /\ proc'[p].newID = proc[p].newID
      <4>1. CASE p = q
        BY <3>1, <4>1, ForcedStep
      <4>2. CASE p # q
        BY <3>1, <4>2, OneMoves
      <4>3. QED
        BY <4>1, <4>2
    <3>2. CASE Tick
      <4>1. proc[p] \in Process /\ proc'[p] = Aged(proc[p])
        BY <3>2 DEF TypeOK, Tick
      <4>2. QED
        BY <4>1, AgedType
    <3>3. CASE \/ \E f \in files : RemoveStaleLock(f)
               \/ UNCHANGED vars
      BY <3>3 DEF RemoveStaleLock, vars
    <3>4. QED
      BY <3>1, <3>2, <3>3 DEF Next
  <2>2. \A id : <<p, id>> \in Names' =>
          \/ <<p, id>> \in Names
          \/ proc[p].refresher = "replace" /\ id # proc[p].lockID
    BY NoNameAppears
  <2>3. QED
    BY <2>1, <2>2 DEF Has, Live, Exists
<1>2. QED
  BY <1>1, TypeCorrect, PTL DEF Spec, ForcedRefreshIsHonest

-----------------------------------------------------------------------------
(* The refinement of the abstract lock. *)

LEMMA HeldValue ==
  ASSUME NEW p \in Procs
  PROVE  /\ held[p] = IF ~Has(p) THEN "none"
                      ELSE IF proc[p].exclusive THEN "exclusive"
                      ELSE "shared"
         /\ held'[p] = IF ~Has(p)' THEN "none"
                       ELSE IF proc'[p].exclusive THEN "exclusive"
                       ELSE "shared"
BY DEF held

\* The one that gets the lock has agreed with all that have it.
LEMMA AcquireStep ==
  ASSUME Undisturbed, TypeOK, TypeOK', ClockInv, PairInv, [Next]_vars,
         NEW p \in Procs, StartGoroutines(p)
  PROVE  \E mode \in Abstract!Modes : Abstract!Acquire(p, mode)
<1> DEFINE s == proc[p]
           mode == IF s.exclusive THEN "exclusive" ELSE "shared"
<1>1. /\ s \in Process /\ s.pc = "start" /\ files' = files
      /\ \A q \in Procs \ {p} : proc'[q] = proc[q]
  BY DEF StartGoroutines, At, Set, TypeOK
<1>2. proc'[p].pc = "held" /\ proc'[p].lockID = s.lockID
      /\ proc'[p].exclusive = s.exclusive
  <2> DEFINE n == AtMost(s.time, RefreshTimeout + 1)
  <2>1. proc'[p] = [s EXCEPT
               !.pc = "held", !.refresher = "select", !.monitor = "select",
               !.ticker = 0, !.time = 0, !.monitored = 0,
               !.lastRefresh = n]
    BY DEF StartGoroutines, Set, TypeOK
  <2> HIDE DEF n
  <2>2. QED
    BY <1>1, <2>1 DEF Process
<1>3. ~Has(p)
  BY <1>1 DEF Has, Live
<1>4. Has(p)'
  <2>1. Exists(p, s.lockID)
    BY <1>1, YoungExists DEF ClockInv, ProcInv, PromptInv
  <2>2. QED
    BY <1>1, <1>2, <2>1 DEF Has, Live, Exists, Names
<1>5. \A q \in Procs \ {p} : held'[q] = held[q]
  <2>1. ASSUME NEW q \in Procs \ {p} PROVE Has(q)' <=> Has(q)
    BY <1>1, <2>1 DEF Has, Live, Exists, Names
  <2>2. QED
    BY <1>1, <2>1, HeldValue
<1>6. held[p] = "none" /\ held'[p] = mode
  BY <1>2, <1>3, <1>4, HeldValue
<1>7. held' = [held EXCEPT ![p] = mode]
  <2>1. /\ held = [q \in Procs |-> held[q]]
        /\ held' = [q \in Procs |-> held'[q]]
    BY DEF held
  <2>2. QED
    BY <1>5, <1>6, <2>1
<1>8. Abstract!Compatible(p, mode)
  <2> SUFFICES ASSUME NEW q \in Procs \ {p}, Has(q)
               PROVE  held[q] = "shared" /\ mode = "shared"
    BY HeldValue DEF Abstract!Compatible
  <2>1. Listed(p) /\ Listed(q) /\ proc[q].pc = "held"
    BY <1>1 DEF Listed, Has, Live
  <2>2. Agree(p, q)
    BY <1>1, <2>1 DEF PairInv, Sees
  <2>3. QED
    BY <2>2, HeldValue DEF Agree
<1>9. mode \in Abstract!Modes
  BY DEF Abstract!Modes
<1>10. QED
  BY <1>6, <1>7, <1>8, <1>9 DEF Abstract!Acquire

LEMMA ReleaseStep ==
  ASSUME Undisturbed, TypeOK, TypeOK', ClockInv, [Next]_vars,
         ~ \E p \in Procs : StartGoroutines(p)
  PROVE  \E S \in SUBSET Procs : Abstract!Release(S)
<1> DEFINE S == {p \in Procs : Has(p) /\ ~Has(p)'}
<1>1. \A p \in S : held[p] # "none"
  BY HeldValue
<1>2. \A p \in Procs : held'[p] = IF p \in S THEN "none" ELSE held[p]
  <2> SUFFICES ASSUME NEW p \in Procs
               PROVE  held'[p] = IF p \in S THEN "none" ELSE held[p]
    OBVIOUS
  <2>1. Has(p)' => Has(p) /\ proc'[p].exclusive = proc[p].exclusive
    BY HasStep
  <2>2. QED
    BY <2>1, HeldValue
<1>3. held' = [p \in Procs |-> held'[p]]
  BY DEF held
<1>4. held' = [p \in Procs |-> IF p \in S THEN "none" ELSE held[p]]
  BY <1>2, <1>3
<1>5. QED
  BY <1>1, <1>4 DEF Abstract!Release

(* Lock files implement a shared/exclusive lock, for any number of         *)
(* processes that race for it, crash or lose their files, if a standby     *)
(* begins only between two refreshes, with no tick of the ticker pending,  *)
(* or before a forced one, and no tick is handled in the second of the     *)
(* monitor's deadline.                                                     *)
THEOREM RefinesRepositoryLock ==
  ASSUME Undisturbed
  PROVE  Spec => ImplementsRepositoryLock
<1>1. Init => Abstract!Init
  <2> SUFFICES ASSUME Init PROVE Abstract!Init
    OBVIOUS
  <2>1. \A p \in Procs : ~Has(p)
    BY DEF Init, Idle, Has, Live
  <2>2. QED
    BY <2>1 DEF held, Abstract!Init
<1>2. TypeOK /\ TypeOK' /\ ClockInv /\ PairInv /\ [Next]_vars
        => [Abstract!Next]_held
  BY AcquireStep, ReleaseStep DEF Abstract!Next
<1>3. QED
  BY <1>1, <1>2, LockInvariant, PTL
     DEF Spec, ImplementsRepositoryLock, Abstract!Spec
=============================================================================
