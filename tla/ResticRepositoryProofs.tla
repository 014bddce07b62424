----------------------- MODULE ResticRepositoryProofs -----------------------
(***************************************************************************)
(* Proofs about ResticRepository, for any number of processes, blobs and   *)
(* file names.                                                             *)
(***************************************************************************)
EXTENDS ResticRepository, TLAPS

-----------------------------------------------------------------------------
(* What the operators on packs and indexes return. *)

(* A blob is in a set of packs if it is in one of them.                    *)
LEMMA BlobsOfDef ==
  ASSUME NEW S, NEW b
  PROVE  b \in BlobsOf(S) <=> \E pk \in S : b \in pk.blobs
BY DEF BlobsOf

LEMMA BlobsOfMonotone ==
  ASSUME NEW S, NEW T, S \subseteq T
  PROVE  BlobsOf(S) \subseteq BlobsOf(T)
BY DEF BlobsOf

LEMMA BlobsOfUnion ==
  ASSUME NEW S, NEW T
  PROVE  BlobsOf(S \cup T) = BlobsOf(S) \cup BlobsOf(T)
BY DEF BlobsOf

(* A pack is described by a set of index files if it is in one of them.    *)
LEMMA DescribedDef ==
  ASSUME NEW I, NEW pk
  PROVE  pk \in Described(I) <=> \E ix \in I : pk \in ix.packs
BY DEF Described

LEMMA DescribedMonotone ==
  ASSUME NEW I, NEW J, I \subseteq J
  PROVE  Described(I) \subseteq Described(J)
BY DEF Described

LEMMA DescribedUnion ==
  ASSUME NEW I, NEW J
  PROVE  Described(I \cup J) = Described(I) \cup Described(J)
BY DEF Described

LEMMA DescribedOne ==
  ASSUME NEW ix
  PROVE  Described({ix}) = ix.packs
BY DEF Described

LEMMA DescribedNone == Described({}) = {}
BY DEF Described

LEMMA DescribedType ==
  ASSUME indexes \subseteq Indexes
  PROVE  Described(indexes) \subseteq Packs
BY DEF Described, Indexes

(* A new file has a name that no known file has.                           *)
LEMMA NewPack ==
  ASSUME FreshPackIds # {}, NEW blobs \in SUBSET Blobs
  PROVE  /\ newPack(blobs) \in Packs
         /\ newPack(blobs).blobs = blobs
         /\ newPack(blobs) \notin packs
         /\ newPack(blobs) \notin Described(indexes)
<1> DEFINE id == CHOOSE id \in FreshPackIds : TRUE
<1>1. id \in FreshPackIds
  OBVIOUS
<1>2. newPack(blobs) = [id |-> id, blobs |-> blobs]
  BY DEF newPack
<1> HIDE DEF id
<1>3. id \in PackIds /\ \A pk \in KnownPacks : pk.id # id
  BY <1>1 DEF FreshPackIds
<1>4. newPack(blobs).id = id /\ newPack(blobs) \notin KnownPacks
  BY <1>2, <1>3
<1>5. QED
  BY <1>2, <1>3, <1>4 DEF Packs, KnownPacks

LEMMA NewIndex ==
  ASSUME FreshIndexIds # {}, NEW S \in SUBSET Packs
  PROVE  /\ newIndex(S) \in Indexes
         /\ newIndex(S).packs = S
         /\ newIndex(S).id \in IndexIds
         /\ \A ix \in indexes : ix.id # newIndex(S).id
<1> DEFINE id == CHOOSE id \in FreshIndexIds : TRUE
<1>1. id \in FreshIndexIds
  OBVIOUS
<1>2. newIndex(S) = [id |-> id, packs |-> S]
  BY DEF newIndex
<1> HIDE DEF id
<1>3. id \in IndexIds /\ \A ix \in indexes : ix.id # id
  BY <1>1 DEF FreshIndexIds
<1>4. QED
  BY <1>2, <1>3 DEF Indexes

-----------------------------------------------------------------------------
(* Types. *)

LEMMA IdleType == Idle \in Process
BY DEF Idle, Process, Points, Commands

(* A step of one process leaves the memory of the others alone.            *)
LEMMA SetEffect ==
  ASSUME proc \in [Procs -> Process], NEW p \in Procs, NEW r, Set(p, r)
  PROVE  /\ proc'[p] = r
         /\ \A q \in Procs \ {p} : proc'[q] = proc[q]
         /\ r \in Process => proc' \in [Procs -> Process]
BY DEF Set

LEMMA ReleaseEffect ==
  ASSUME held \in [Procs -> {"none", "shared", "exclusive"}],
         NEW p \in Procs, Lock!Release({p})
  PROVE  /\ held'[p] = "none"
         /\ \A q \in Procs \ {p} : held'[q] = held[q]
         /\ held' \in [Procs -> {"none", "shared", "exclusive"}]
BY DEF Lock!Release

LEMMA AcquireEffect ==
  ASSUME held \in [Procs -> {"none", "shared", "exclusive"}],
         NEW p \in Procs, NEW mode \in {"shared", "exclusive"},
         Lock!Acquire(p, mode)
  PROVE  /\ held'[p] = mode
         /\ \A q \in Procs \ {p} : held'[q] = held[q]
         /\ held' \in [Procs -> {"none", "shared", "exclusive"}]
         /\ \A q \in Procs \ {p} :
              held[q] = "none" \/ (held[q] = "shared" /\ mode = "shared")
BY DEF Lock!Acquire, Lock!Compatible

(* What each command does to the process that runs it and, where it does   *)
(* anything, to the repository.                                            *)
LEMMA ReturnEffect ==
  ASSUME TypeOK, NEW p \in Procs, Return(p)
  PROVE  /\ proc'[p] = Idle /\ held'[p] = "none"
         /\ \A q \in Procs \ {p} : proc'[q] = proc[q] /\ held'[q] = held[q]
         /\ proc' \in [Procs -> Process]
         /\ held' \in [Procs -> {"none", "shared", "exclusive"}]
BY SetEffect, ReleaseEffect, IdleType DEF Return, TypeOK

LEMMA OpenEffect ==
  ASSUME TypeOK, NEW p \in Procs, NEW cmd \in Commands,
         NEW target \in SUBSET Blobs, Open(p, cmd, target)
  PROVE  LET r == proc'[p]
         IN /\ r \in Process
            /\ r.cmd = cmd /\ r.target = target
            /\ r.pc = IF cmd = "forget" THEN "forget" ELSE "load"
            /\ r.unsaved = {} /\ r.failed = FALSE
<1> DEFINE r == [Idle EXCEPT !.cmd = cmd, !.target = target,
                             !.pc = IF cmd = "forget" THEN cmd ELSE "load"]
<1>1. Set(p, r)
  BY DEF Open
<1>2. /\ r \in Process /\ r.cmd = cmd /\ r.target = target
      /\ r.pc = IF cmd = "forget" THEN "forget" ELSE "load"
      /\ r.unsaved = {} /\ r.failed = FALSE
  BY IdleType DEF Idle, Process, Points
<1> HIDE DEF r
<1>3. QED
  BY <1>1, <1>2, SetEffect DEF TypeOK

LEMMA LoadIndexEffect ==
  ASSUME TypeOK, NEW p \in Procs, LoadIndex(p)
  PROVE  LET r == proc'[p]
         IN /\ r \in Process
            /\ r.cmd = proc[p].cmd /\ r.target = proc[p].target
            /\ r.unsaved = proc[p].unsaved /\ r.failed = proc[p].failed
            /\ proc[p].cmd = "backup" =>
                 /\ r.pc = "saving"
                 /\ r.missing = proc[p].target \ BlobsOf(Described(indexes))
            /\ proc[p].cmd # "backup" =>
                 /\ r.pc = IF proc[p].cmd = "restore" THEN "reading" ELSE "plan"
                 /\ r.index = Described(indexes)
                 /\ r.loaded = {ix.id : ix \in indexes}
<1> DEFINE index == Described(indexes)
           back == [proc[p] EXCEPT !.pc = "saving",
                                   !.missing = proc[p].target \ BlobsOf(index)]
           read == [proc[p] EXCEPT
                      !.pc = IF proc[p].cmd = "restore" THEN "reading" ELSE "plan",
                      !.index = index,
                      !.loaded = {ix.id : ix \in indexes}]
<1>1. proc[p] \in Process
  BY DEF TypeOK
<1>2. index \in SUBSET Packs
  BY DescribedType DEF TypeOK
<1>3. {ix.id : ix \in indexes} \in SUBSET IndexIds
  BY DEF TypeOK, Indexes
<1> HIDE DEF index
<1>4. proc[p].target \ BlobsOf(index) \in SUBSET Blobs
  BY <1>1 DEF Process
<1>5. CASE proc[p].cmd = "backup"
  <2>1. /\ back \in Process /\ back.cmd = proc[p].cmd
        /\ back.target = proc[p].target /\ back.unsaved = proc[p].unsaved
        /\ back.failed = proc[p].failed /\ back.pc = "saving"
        /\ back.missing = proc[p].target \ BlobsOf(index)
    BY <1>1, <1>4 DEF Process, Points
  <2>2. Set(p, back)
    BY <1>5 DEF LoadIndex, index
  <2> HIDE DEF back
  <2>3. proc'[p] = back
    BY <2>2, SetEffect DEF TypeOK
  <2>4. QED
    BY <1>5, <2>1, <2>3 DEF index
<1>6. CASE proc[p].cmd # "backup"
  <2> DEFINE ids == {ix.id : ix \in indexes}
             stage == IF proc[p].cmd = "restore" THEN "reading" ELSE "plan"
  <2>1. stage \in Points
    BY DEF Points
  <2>2. ids \in SUBSET IndexIds
    BY <1>3
  <2>3. read = [proc[p] EXCEPT !.pc = stage, !.index = index, !.loaded = ids]
    OBVIOUS
  <2>4. Set(p, read)
    BY <1>6 DEF LoadIndex, index
  <2>5. proc'[p] = read
    <3> HIDE DEF read
    <3>1. QED
      BY <2>4, SetEffect DEF TypeOK
  <2> HIDE DEF read, stage, ids
  <2>6. /\ read \in Process /\ read.cmd = proc[p].cmd
        /\ read.target = proc[p].target /\ read.unsaved = proc[p].unsaved
        /\ read.failed = proc[p].failed
        /\ read.pc = stage /\ read.index = index /\ read.loaded = ids
    BY <1>1, <1>2, <2>1, <2>2, <2>3 DEF Process
  <2>7. QED
    BY <1>6, <2>5, <2>6 DEF index, stage, ids
<1>7. QED
  BY <1>5, <1>6

SameCommand(r, s) == r.pc = s.pc /\ r.cmd = s.cmd /\ r.target = s.target

SamePlan(r, s) ==
  /\ r.removePacksFirst = s.removePacksFirst /\ r.repackPacks = s.repackPacks
  /\ r.removePacks = s.removePacks /\ r.ignorePacks = s.ignorePacks
  /\ r.failed = s.failed

SavesPack(p, blobs) == \E full \in BOOLEAN : SavePack(p, blobs, full)

\* the step saves the blobs as pack pk, and perhaps the index
PackSaved(p, blobs, pk) ==
  LET r == proc'[p] IN
  /\ pk.blobs = blobs /\ pk \notin packs /\ pk \notin Described(indexes)
  /\ packs' = packs \cup {pk}
  /\ SameCommand(r, proc[p]) /\ SamePlan(r, proc[p])
  /\ r.missing = proc[p].missing \ blobs
  /\ r \in Process
  /\ \/ /\ indexes' = indexes
        /\ r.unsaved = proc[p].unsaved \cup {pk}
        /\ r.loaded = proc[p].loaded
     \/ \E ix \in Indexes :
          /\ ix.packs = proc[p].unsaved \cup {pk}
          /\ \A jx \in indexes : jx.id # ix.id
          /\ indexes' = indexes \cup {ix}
          /\ r.unsaved = {} /\ r.loaded = proc[p].loaded \cup {ix.id}

LEMMA SavePackEffect ==
  ASSUME TypeOK, NEW p \in Procs, NEW blobs \in SUBSET Blobs,
         SavesPack(p, blobs)
  PROVE  \E pk \in Packs : PackSaved(p, blobs, pk)
<1> PICK full \in BOOLEAN : SavePack(p, blobs, full)
  BY Zenon DEF SavesPack
<1> DEFINE pk == newPack(blobs)
           unsaved == proc[p].unsaved \cup {pk}
           ix == newIndex(unsaved)
<1>1. proc[p] \in Process
  BY DEF TypeOK
<1>2. pk \in Packs /\ pk.blobs = blobs /\ pk \notin packs /\ pk \notin Described(indexes)
  BY NewPack DEF SavePack
<1> HIDE DEF pk
<1>3. unsaved \in SUBSET Packs
  BY <1>1, <1>2 DEF Process
<1>4. packs' = packs \cup {pk}
  BY DEF SavePack, pk
<1>5. CASE full = FALSE
  <2> DEFINE r == [proc[p] EXCEPT !.missing = @ \ blobs, !.unsaved = unsaved]
  <2>1. indexes' = indexes /\ Set(p, r)
    <3>1. [proc[p] EXCEPT !.missing = @ \ blobs, !.unsaved = unsaved,
                          !.loaded = @] = r
      BY <1>1 DEF Process
    <3>2. QED
      BY <1>5, <3>1 DEF SavePack, pk
  <2>2. /\ r \in Process /\ r.unsaved = unsaved /\ r.loaded = proc[p].loaded
        /\ SameCommand(r, proc[p]) /\ SamePlan(r, proc[p])
        /\ r.missing = proc[p].missing \ blobs
    BY <1>1, <1>3 DEF Process, SameCommand, SamePlan
  <2> HIDE DEF r
  <2>3. proc'[p] = r
    BY <2>1, SetEffect DEF TypeOK
  <2>4. QED
    BY <1>2, <1>4, <2>1, <2>2, <2>3 DEF PackSaved
<1>6. CASE full = TRUE
  <2>1. ix \in Indexes /\ ix.packs = unsaved /\ ix.id \in IndexIds
        /\ \A jx \in indexes : jx.id # ix.id
    BY <1>3, <1>6, NewIndex DEF SavePack
  <2> DEFINE r == [proc[p] EXCEPT !.missing = @ \ blobs, !.unsaved = {},
                                  !.loaded = @ \cup {ix.id}]
  <2>2. indexes' = indexes \cup {ix} /\ Set(p, r)
    BY <1>6 DEF SavePack, pk
  <2> HIDE DEF ix
  <2>3. /\ r \in Process /\ r.unsaved = {} /\ r.loaded = proc[p].loaded \cup {ix.id}
        /\ SameCommand(r, proc[p]) /\ SamePlan(r, proc[p])
        /\ r.missing = proc[p].missing \ blobs
    BY <1>1, <2>1 DEF Process, SameCommand, SamePlan
  <2> HIDE DEF r
  <2>4. proc'[p] = r
    BY <2>2, SetEffect DEF TypeOK
  <2>5. QED
    BY <1>2, <1>4, <2>1, <2>2, <2>3, <2>4 DEF PackSaved
<1>7. QED
  BY <1>5, <1>6

LEMMA FlushEffect ==
  ASSUME TypeOK, NEW p \in Procs, Flush(p)
  PROVE  LET r == proc'[p] IN
         /\ r \in Process /\ r.cmd = proc[p].cmd /\ r.target = proc[p].target
         /\ r.unsaved = {} /\ r.missing = proc[p].missing /\ r.missing = {}
         /\ r.failed = proc[p].failed
         /\ At(p, "saving") => r.pc = "snapshot"
         /\ ~At(p, "saving") =>
              /\ r.pc = "rewrite"
              /\ r.removePacks = proc[p].removePacks \cup proc[p].repackPacks
              /\ r.ignorePacks = proc[p].ignorePacks \cup proc[p].repackPacks
         /\ \/ /\ indexes' = indexes /\ proc[p].unsaved = {}
               /\ r.loaded = proc[p].loaded
            \/ \E ix \in Indexes :
                 /\ ix.packs = proc[p].unsaved
                 /\ \A jx \in indexes : jx.id # ix.id
                 /\ indexes' = indexes \cup {ix}
                 /\ r.loaded = proc[p].loaded \cup {ix.id}
<1> DEFINE ix == newIndex(proc[p].unsaved)
           written == IF proc[p].unsaved = {} THEN {} ELSE {ix}
           loaded == proc[p].loaded \cup {jx.id : jx \in written}
           saved == [proc[p] EXCEPT !.unsaved = {}, !.loaded = loaded,
                                    !.pc = "snapshot"]
           pruned == [proc[p] EXCEPT !.unsaved = {}, !.loaded = loaded,
                        !.pc = "rewrite", !.repackPacks = {},
                        !.removePacks = @ \cup proc[p].repackPacks,
                        !.ignorePacks = @ \cup proc[p].repackPacks]
<1>1. proc[p] \in Process /\ proc[p].missing = {} /\ indexes' = indexes \cup written
  BY DEF TypeOK, Flush
<1>2. proc[p].unsaved # {} =>
        /\ ix \in Indexes /\ ix.packs = proc[p].unsaved /\ ix.id \in IndexIds
        /\ \A jx \in indexes : jx.id # ix.id
  <2>1. proc[p].unsaved \in SUBSET Packs
    BY <1>1 DEF Process
  <2>2. QED
    BY <2>1, NewIndex DEF Flush
<1>3. Set(p, IF At(p, "saving") THEN saved ELSE pruned)
  <2>1. /\ saved = [[proc[p] EXCEPT !.unsaved = {}, !.loaded = loaded]
                      EXCEPT !.pc = "snapshot"]
        /\ pruned = [[proc[p] EXCEPT !.unsaved = {}, !.loaded = loaded] EXCEPT
                        !.pc = "rewrite", !.repackPacks = {},
                        !.removePacks = @ \cup proc[p].repackPacks,
                        !.ignorePacks = @ \cup proc[p].repackPacks]
    <3> HIDE DEF loaded
    <3>1. QED
      BY <1>1 DEF Process
  <2>2. QED
    BY <2>1 DEF Flush
<1> HIDE DEF ix
<1>4. \/ proc[p].unsaved = {} /\ written = {} /\ loaded = proc[p].loaded
      \/ proc[p].unsaved # {} /\ written = {ix} /\ loaded = proc[p].loaded \cup {ix.id}
  OBVIOUS
<1>5. loaded \in SUBSET IndexIds
  BY <1>1, <1>2, <1>4 DEF Process
<1> HIDE DEF written, loaded
<1>6. /\ saved \in Process /\ saved.cmd = proc[p].cmd
      /\ saved.target = proc[p].target /\ saved.unsaved = {}
      /\ saved.missing = proc[p].missing
      /\ saved.failed = proc[p].failed /\ saved.pc = "snapshot"
      /\ saved.loaded = loaded
  BY <1>1, <1>5 DEF Process, Points
<1>7. /\ pruned \in Process /\ pruned.cmd = proc[p].cmd
      /\ pruned.target = proc[p].target /\ pruned.unsaved = {}
      /\ pruned.missing = proc[p].missing
      /\ pruned.failed = proc[p].failed /\ pruned.pc = "rewrite"
      /\ pruned.removePacks = proc[p].removePacks \cup proc[p].repackPacks
      /\ pruned.ignorePacks = proc[p].ignorePacks \cup proc[p].repackPacks
      /\ pruned.loaded = loaded
  BY <1>1, <1>5 DEF Process, Points
<1>8. /\ At(p, "saving") => proc'[p] = saved
      /\ ~At(p, "saving") => proc'[p] = pruned
  <2> HIDE DEF saved, pruned
  <2>1. QED
    BY <1>3, SetEffect DEF TypeOK
<1> HIDE DEF saved, pruned
<1>9. \/ /\ indexes' = indexes /\ proc[p].unsaved = {}
         /\ loaded = proc[p].loaded
      \/ /\ ix \in Indexes /\ ix.packs = proc[p].unsaved
         /\ \A jx \in indexes : jx.id # ix.id
         /\ indexes' = indexes \cup {ix}
         /\ loaded = proc[p].loaded \cup {ix.id}
  BY <1>1, <1>2, <1>4
<1>10. QED
  BY <1>1, <1>6, <1>7, <1>8, <1>9

LEMMA UsedBlobsType ==
  ASSUME TypeOK
  PROVE  UsedBlobs \subseteq Blobs
BY DEF TypeOK, UsedBlobs

\* the step selects the packs `used`, and of them `again` to be repacked
Planned(p, used, again) ==
  LET r == proc'[p] IN
  /\ used \subseteq packs
  /\ UsedBlobs \subseteq BlobsOf(used)
  /\ \A pk \in used : pk.blobs \cap UsedBlobs # {}
  /\ r \in Process /\ r.cmd = proc[p].cmd
  /\ r.pc = "repack" /\ r.repackPacks = again
  /\ r.loaded = proc[p].loaded /\ r.unsaved = proc[p].unsaved
  /\ r.failed = proc[p].failed
  /\ r.removePacksFirst = packs \ proc[p].index
  /\ r.removePacks = (proc[p].index \ used) \cap packs
  /\ r.ignorePacks = proc[p].index \ used
  /\ r.missing = IF again = {} THEN {}
                 ELSE UsedBlobs \
                        BlobsOf(proc[p].index \ (r.removePacks \cup again))

(* The packs that prune selects hold every used blob, and each holds one.  *)
LEMMA PlanPruneEffect ==
  ASSUME TypeOK, NEW p \in Procs, PlanPrune(p)
  PROVE  \E used \in SUBSET proc[p].index : \E again \in SUBSET used :
           Planned(p, used, again)
<1>1. proc[p] \in Process /\ packs \subseteq Packs
  BY DEF TypeOK
<1>2. PICK chosen \in Selections(proc[p].index) :
        LET used == {chosen[b] : b \in UsedBlobs}
        IN /\ used \subseteq packs
           /\ \E repackPacks \in Repackable(used) :
                LET plan == decidePackAction(proc[p], used, repackPacks)
                IN Set(p, [plan EXCEPT !.pc = "repack", !.index = {},
                                       !.missing = keepBlobs(plan)])
  BY DEF PlanPrune
<1> DEFINE used == {chosen[b] : b \in UsedBlobs}
<1>3. used \subseteq packs
  BY <1>2
<1>4. PICK again \in Repackable(used) :
        LET plan == decidePackAction(proc[p], used, again)
        IN Set(p, [plan EXCEPT !.pc = "repack", !.index = {},
                               !.missing = keepBlobs(plan)])
  BY <1>2
<1>5. again \in SUBSET used
  BY <1>4 DEF Repackable
<1>6. \A b \in UsedBlobs : chosen[b] \in proc[p].index /\ b \in chosen[b].blobs
  BY DEF Selections, Copies
<1>7. /\ used \in SUBSET proc[p].index
      /\ UsedBlobs \subseteq BlobsOf(used)
      /\ \A pk \in used : pk.blobs \cap UsedBlobs # {}
  <2>1. used \in SUBSET proc[p].index
    BY <1>6
  <2>2. \A b \in UsedBlobs : b \in BlobsOf(used)
    BY <1>6 DEF BlobsOf
  <2>3. \A pk \in used : pk.blobs \cap UsedBlobs # {}
    BY <1>6
  <2>4. QED
    BY <2>1, <2>2, <2>3
<1> HIDE DEF used
<1> DEFINE plan == decidePackAction(proc[p], used, again)
<1>8. /\ plan \in Process /\ plan.index = proc[p].index /\ plan.cmd = proc[p].cmd
      /\ plan.loaded = proc[p].loaded /\ plan.unsaved = proc[p].unsaved
      /\ plan.failed = proc[p].failed /\ plan.repackPacks = again
      /\ plan.removePacksFirst = packs \ proc[p].index
      /\ plan.removePacks = (proc[p].index \ used) \cap packs
      /\ plan.ignorePacks = proc[p].index \ used
  BY <1>1, <1>3, <1>5, <1>7 DEF decidePackAction, Process
<1> DEFINE keep == keepBlobs(plan)
           r == [plan EXCEPT !.pc = "repack", !.index = {}, !.missing = keep]
<1>9. keep = IF again = {} THEN {}
             ELSE UsedBlobs \ BlobsOf(proc[p].index \ (plan.removePacks \cup again))
  <2> HIDE DEF plan
  <2>1. QED
    BY <1>8 DEF keepBlobs
<1>10. Set(p, r)
  BY <1>4
<1>11. keep \in SUBSET Blobs
  <2> HIDE DEF keep
  <2>1. QED
    BY <1>9, UsedBlobsType
<1> HIDE DEF plan, keep
<1>12. /\ r \in Process /\ r.cmd = plan.cmd /\ r.pc = "repack"
       /\ r.repackPacks = plan.repackPacks /\ r.loaded = plan.loaded
       /\ r.unsaved = plan.unsaved /\ r.failed = plan.failed
       /\ r.removePacksFirst = plan.removePacksFirst
       /\ r.removePacks = plan.removePacks /\ r.ignorePacks = plan.ignorePacks
       /\ r.missing = keep
  BY <1>8, <1>11 DEF Process, Points
<1> HIDE DEF r
<1>13. proc'[p] = r
  BY <1>10, SetEffect DEF TypeOK
<1>14. /\ proc'[p].removePacks = (proc[p].index \ used) \cap packs
       /\ proc'[p].missing = IF again = {} THEN {}
            ELSE UsedBlobs \ BlobsOf(proc[p].index \ (proc'[p].removePacks \cup again))
  BY <1>8, <1>9, <1>12, <1>13
<1> used \in SUBSET proc[p].index /\ again \in SUBSET used
  BY <1>5, <1>7
<1>15. WITNESS used \in SUBSET proc[p].index
<1>16. WITNESS again \in SUBSET used
<1>17. QED
  BY <1>3, <1>7, <1>8, <1>12, <1>13, <1>14 DEF Planned

(* A file is deleted, or cannot be; either way it is crossed off.          *)
LEMMA DeletePackEffect ==
  ASSUME TypeOK, NEW p \in Procs, NEW pk, NEW rest,
         DeletePack(p, pk, rest)
  PROVE  \/ packs' = packs \ {pk} /\ proc'[p] = rest
         \/ packs' = packs /\ proc'[p] = [rest EXCEPT !.failed = TRUE]
<1> DEFINE bad == [rest EXCEPT !.failed = TRUE]
<1>1. \/ packs' = packs \ {pk} /\ Set(p, rest)
      \/ packs' = packs /\ Set(p, bad)
  BY DEF DeletePack
<1> HIDE DEF bad
<1>2. \/ packs' = packs \ {pk} /\ proc'[p] = rest
      \/ packs' = packs /\ proc'[p] = bad
  BY <1>1, SetEffect DEF TypeOK
<1>3. QED
  BY <1>2 DEF bad

\* the step decides which index files stay and which are to be replaced
Rewritten(p, kept, obsolete) ==
  LET r == proc'[p]
      old == {ix \in indexes : ix.id \in proc[p].loaded} IN
  /\ kept \subseteq old
  /\ \A ix \in kept : ix.packs \cap proc[p].ignorePacks = {}
  /\ obsolete = IF proc[p].ignorePacks = {} THEN {} ELSE old \ kept
  /\ r \in Process /\ r.cmd = proc[p].cmd /\ r.pc = "remove"
  /\ r.ignorePacks = proc[p].ignorePacks
  /\ r.removePacks = proc[p].removePacks
  /\ r.failed = proc[p].failed
  /\ r.obsolete = {ix.id : ix \in obsolete}
  /\ r.entries = Described(obsolete) \
                   (proc[p].ignorePacks \cup Described(kept))

LEMMA RewriteIndexEffect ==
  ASSUME TypeOK, NEW p \in Procs, RewriteIndex(p)
  PROVE  \E kept, obsolete \in SUBSET indexes : Rewritten(p, kept, obsolete)
<1>1. proc[p] \in Process /\ indexes \subseteq Indexes
  BY DEF TypeOK
<1> DEFINE old == {ix \in indexes : ix.id \in proc[p].loaded}
<1>2. PICK kept \in SUBSET {ix \in old : ix.packs \cap proc[p].ignorePacks = {}} :
        LET obsolete == IF proc[p].ignorePacks = {} THEN {} ELSE old \ kept
        IN Set(p, [proc[p] EXCEPT
                     !.pc = "remove",
                     !.obsolete = {ix.id : ix \in obsolete},
                     !.entries = Described(obsolete) \
                                   (proc[p].ignorePacks \cup Described(kept))])
  BY DEF RewriteIndex
<1> DEFINE obsolete == IF proc[p].ignorePacks = {} THEN {} ELSE old \ kept
           names == {ix.id : ix \in obsolete}
           rest == Described(obsolete) \ (proc[p].ignorePacks \cup Described(kept))
           r == [proc[p] EXCEPT !.pc = "remove", !.obsolete = names, !.entries = rest]
<1>3. Set(p, r)
  BY <1>2
<1>4. old \in SUBSET indexes /\ kept \in SUBSET old /\ obsolete \in SUBSET old
  OBVIOUS
<1>5. \A ix \in kept : ix.packs \cap proc[p].ignorePacks = {}
  OBVIOUS
<1>6. names \in SUBSET IndexIds
  BY <1>1, <1>4 DEF Indexes
<1>7. rest \in SUBSET Packs
  BY <1>1, <1>4, DescribedType, DescribedMonotone
<1>8. proc'[p] = r
  <2> HIDE DEF r
  <2>1. QED
    BY <1>3, SetEffect DEF TypeOK
<1> HIDE DEF names, rest
<1>9. /\ r \in Process /\ r.cmd = proc[p].cmd /\ r.pc = "remove"
      /\ r.ignorePacks = proc[p].ignorePacks
      /\ r.removePacks = proc[p].removePacks
      /\ r.failed = proc[p].failed
      /\ r.obsolete = names /\ r.entries = rest
  BY <1>1, <1>6, <1>7 DEF Process, Points
<1> HIDE DEF r
<1>10. Rewritten(p, kept, obsolete)
  BY <1>4, <1>5, <1>8, <1>9 DEF Rewritten, names, rest
<1>11. kept \in SUBSET indexes /\ obsolete \in SUBSET indexes
  BY <1>4
<1> HIDE DEF obsolete
<1>12. QED
  BY <1>10, <1>11

LEMMA SaveRewrittenEffect ==
  ASSUME TypeOK, NEW p \in Procs, SaveRewritten(p)
  PROVE  \E ix \in Indexes : LET r == proc'[p] IN
           /\ ix.packs \subseteq proc[p].entries
           /\ \A jx \in indexes : jx.id # ix.id
           /\ indexes' = indexes \cup {ix}
           /\ r \in Process
           /\ SameCommand(r, proc[p]) /\ SamePlan(r, proc[p])
           /\ r.obsolete = proc[p].obsolete
           /\ r.entries = proc[p].entries \ ix.packs
<1>1. proc[p] \in Process /\ FreshIndexIds # {}
  BY DEF TypeOK, SaveRewritten
<1>2. PICK S \in SUBSET proc[p].entries :
        /\ indexes' = indexes \cup {newIndex(S)}
        /\ Set(p, [proc[p] EXCEPT !.entries = @ \ S])
  BY DEF SaveRewritten
<1> DEFINE ix == newIndex(S)
           r == [proc[p] EXCEPT !.entries = @ \ S]
<1>3. /\ ix \in Indexes /\ ix.packs = S /\ \A jx \in indexes : jx.id # ix.id
  BY <1>1, NewIndex DEF Process
<1>4. /\ r \in Process /\ r.entries = proc[p].entries \ S
      /\ SameCommand(r, proc[p]) /\ SamePlan(r, proc[p])
      /\ r.obsolete = proc[p].obsolete
  BY <1>1 DEF Process, SameCommand, SamePlan
<1>5. proc'[p] = r
  <2>1. Set(p, r)
    BY <1>2
  <2> HIDE DEF r
  <2>2. QED
    BY <2>1, SetEffect DEF TypeOK
<1> HIDE DEF ix
<1>6. QED
  BY <1>2, <1>3, <1>4, <1>5 DEF ix

LEMMA RemoveIndexEffect ==
  ASSUME TypeOK, NEW p \in Procs, RemoveIndex(p)
  PROVE  \E id \in proc[p].obsolete : LET r == proc'[p] IN
           /\ indexes' = {ix \in indexes : ix.id # id}
           /\ r \in Process
           /\ SameCommand(r, proc[p]) /\ SamePlan(r, proc[p])
           /\ r.entries = proc[p].entries
           /\ r.obsolete = proc[p].obsolete \ {id}
<1>1. proc[p] \in Process
  BY DEF TypeOK
<1>2. PICK id \in proc[p].obsolete :
        /\ indexes' = {ix \in indexes : ix.id # id}
        /\ Set(p, [proc[p] EXCEPT !.obsolete = @ \ {id}])
  BY DEF RemoveIndex
<1> DEFINE r == [proc[p] EXCEPT !.obsolete = @ \ {id}]
<1>3. /\ r \in Process /\ r.obsolete = proc[p].obsolete \ {id}
      /\ SameCommand(r, proc[p]) /\ SamePlan(r, proc[p])
      /\ r.entries = proc[p].entries
  BY <1>1 DEF Process, SameCommand, SamePlan
<1>4. proc'[p] = r
  <2>1. Set(p, r)
    BY <1>2
  <2> HIDE DEF r
  <2>2. QED
    BY <2>1, SetEffect DEF TypeOK
<1>5. QED
  BY <1>2, <1>3, <1>4

LEMMA RemoveUnreferencedEffect ==
  ASSUME TypeOK, NEW p \in Procs, RemoveUnreferenced(p)
  PROVE  \E pk \in proc[p].removePacksFirst : LET r == proc'[p] IN
           /\ r \in Process
           /\ SameCommand(r, proc[p])
           /\ r.removePacks = proc[p].removePacks
           /\ r.ignorePacks = proc[p].ignorePacks
           /\ r.repackPacks = proc[p].repackPacks
           /\ r.unsaved = proc[p].unsaved /\ r.missing = proc[p].missing
           /\ r.loaded = proc[p].loaded
           /\ r.removePacksFirst = proc[p].removePacksFirst \ {pk}
           /\ \/ packs' = packs \ {pk} /\ r.failed = proc[p].failed
              \/ packs' = packs /\ r.failed = TRUE
<1>1. proc[p] \in Process
  BY DEF TypeOK
<1>2. PICK pk \in proc[p].removePacksFirst :
        DeletePack(p, pk, [proc[p] EXCEPT !.removePacksFirst = @ \ {pk}])
  BY DEF RemoveUnreferenced
<1> DEFINE rest == [proc[p] EXCEPT !.removePacksFirst = @ \ {pk}]
           Fields(r) ==
             /\ SameCommand(r, proc[p])
             /\ r.removePacks = proc[p].removePacks
             /\ r.ignorePacks = proc[p].ignorePacks
             /\ r.repackPacks = proc[p].repackPacks
             /\ r.unsaved = proc[p].unsaved /\ r.missing = proc[p].missing
             /\ r.loaded = proc[p].loaded
             /\ r.removePacksFirst = proc[p].removePacksFirst \ {pk}
<1>3. rest \in Process /\ rest.failed = proc[p].failed
  BY <1>1 DEF Process
<1>4. DeletePack(p, pk, rest)
  BY <1>2
<1> DEFINE bad == [rest EXCEPT !.failed = TRUE]
<1>5. Fields(rest)
  BY <1>1 DEF Process, SameCommand
<1>6. bad \in Process /\ bad.failed = TRUE /\ Fields(bad)
  BY <1>1 DEF Process, SameCommand
<1>7. \/ packs' = packs \ {pk} /\ proc'[p] = rest
      \/ packs' = packs /\ proc'[p] = bad
  <2> HIDE DEF rest
  <2>1. QED
    BY <1>4, DeletePackEffect
<1> HIDE DEF rest, bad, Fields
<1>8. /\ Fields(proc'[p]) /\ proc'[p] \in Process
      /\ \/ packs' = packs \ {pk} /\ proc'[p].failed = proc[p].failed
         \/ packs' = packs /\ proc'[p].failed = TRUE
  BY <1>3, <1>5, <1>6, <1>7
<1>9. QED
  BY <1>8 DEF Fields

LEMMA RemovePackEffect ==
  ASSUME TypeOK, NEW p \in Procs, RemovePack(p)
  PROVE  \E pk \in proc[p].removePacks : LET r == proc'[p] IN
           /\ r \in Process
           /\ SameCommand(r, proc[p])
           /\ r.ignorePacks = proc[p].ignorePacks
           /\ r.entries = proc[p].entries /\ r.obsolete = proc[p].obsolete
           /\ r.removePacks = proc[p].removePacks \ {pk}
           /\ \/ packs' = packs \ {pk} /\ r.failed = proc[p].failed
              \/ packs' = packs /\ r.failed = TRUE
<1>1. proc[p] \in Process
  BY DEF TypeOK
<1>2. PICK pk \in proc[p].removePacks :
        DeletePack(p, pk, [proc[p] EXCEPT !.removePacks = @ \ {pk}])
  BY DEF RemovePack
<1> DEFINE rest == [proc[p] EXCEPT !.removePacks = @ \ {pk}]
           Fields(r) ==
             /\ SameCommand(r, proc[p])
             /\ r.ignorePacks = proc[p].ignorePacks
             /\ r.entries = proc[p].entries /\ r.obsolete = proc[p].obsolete
             /\ r.removePacks = proc[p].removePacks \ {pk}
<1>3. rest \in Process /\ rest.failed = proc[p].failed
  BY <1>1 DEF Process
<1>4. DeletePack(p, pk, rest)
  BY <1>2
<1> DEFINE bad == [rest EXCEPT !.failed = TRUE]
<1>5. Fields(rest)
  BY <1>1 DEF Process, SameCommand
<1>6. bad \in Process /\ bad.failed = TRUE /\ Fields(bad)
  BY <1>1 DEF Process, SameCommand
<1>7. \/ packs' = packs \ {pk} /\ proc'[p] = rest
      \/ packs' = packs /\ proc'[p] = bad
  <2> HIDE DEF rest
  <2>1. QED
    BY <1>4, DeletePackEffect
<1> HIDE DEF rest, bad, Fields
<1>8. /\ Fields(proc'[p]) /\ proc'[p] \in Process
      /\ \/ packs' = packs \ {pk} /\ proc'[p].failed = proc[p].failed
         \/ packs' = packs /\ proc'[p].failed = TRUE
  BY <1>3, <1>5, <1>6, <1>7
<1>9. QED
  BY <1>8 DEF Fields

(* Next is a step of one process.                                          *)
Step(p) ==
  \/ \E cmd \in Commands, target \in SUBSET Blobs : Open(p, cmd, target)
  \/ LoadIndex(p) \/ Abort(p)
  \/ \E blobs \in SUBSET Blobs : SavesPack(p, blobs)
  \/ Flush(p) \/ SaveSnapshot(p) \/ RestoreTo(p)
  \/ RemoveSnapshot(p) \/ ForgetDone(p)
  \/ PlanPrune(p) \/ RemoveUnreferenced(p) \/ RewriteIndex(p)
  \/ SaveRewritten(p) \/ RemoveIndex(p) \/ RemovePack(p) \/ PruneDone(p)

LEMMA NextIsStep == Next => \E p \in Procs : Step(p)
BY Zenon DEF Next, Step, SavesPack

(* A step sets the memory of its process and nothing of the others'; only  *)
(* Open and the end of a command change the lock.                          *)
LEMMA StepFrame ==
  ASSUME TypeOK, NEW p \in Procs, Step(p)
  PROVE  /\ \A q \in Procs \ {p} : proc'[q] = proc[q] /\ held'[q] = held[q]
         /\ proc'[p] \in Process => proc' \in [Procs -> Process]
         /\ held' \in [Procs -> {"none", "shared", "exclusive"}]
<1> DEFINE Goal == /\ \A q \in Procs \ {p} : proc'[q] = proc[q] /\ held'[q] = held[q]
                   /\ proc'[p] \in Process => proc' \in [Procs -> Process]
                   /\ held' \in [Procs -> {"none", "shared", "exclusive"}]
<1>1. /\ proc \in [Procs -> Process]
      /\ held \in [Procs -> {"none", "shared", "exclusive"}]
  BY DEF TypeOK
<1>2. ASSUME NEW r, Set(p, r), held' = held
      PROVE  Goal
  BY <1>1, <1>2, SetEffect
<1>3. ASSUME proc' = proc, held' = held
      PROVE  Goal
  BY <1>1, <1>3
<1>4. ASSUME Return(p)
      PROVE  Goal
  BY <1>4, ReturnEffect
<1>5. ASSUME NEW cmd \in Commands, NEW target \in SUBSET Blobs,
             Open(p, cmd, target)
      PROVE  Goal
  <2>1. PICK mode \in {"shared", "exclusive"} : Lock!Acquire(p, mode)
    BY <1>5 DEF Open
  <2>2. PICK r : Set(p, r)
    BY <1>5 DEF Open
  <2>3. QED
    BY <1>1, <2>1, <2>2, AcquireEffect, SetEffect
<1> HIDE DEF Goal
<1>6. LoadIndex(p) => Goal
  BY <1>2 DEF LoadIndex
<1>7. Abort(p) \/ SaveSnapshot(p) \/ RestoreTo(p) \/ ForgetDone(p) \/ PruneDone(p) => Goal
  BY <1>4 DEF Abort, SaveSnapshot, RestoreTo, ForgetDone, PruneDone
<1>8. ASSUME NEW blobs \in SUBSET Blobs, SavesPack(p, blobs)
      PROVE  Goal
  BY <1>2, <1>8 DEF SavesPack, SavePack
<1>9. Flush(p) => Goal
  BY <1>2 DEF Flush
<1>10. RemoveSnapshot(p) => Goal
  BY <1>3 DEF RemoveSnapshot
<1>11. PlanPrune(p) => Goal
  BY <1>2 DEF PlanPrune
<1>12. RemoveUnreferenced(p) \/ RemovePack(p) => Goal
  BY <1>2 DEF RemoveUnreferenced, RemovePack, DeletePack
<1>13. RewriteIndex(p) => Goal
  BY <1>2 DEF RewriteIndex
<1>14. SaveRewritten(p) => Goal
  BY <1>2 DEF SaveRewritten
<1>15. RemoveIndex(p) => Goal
  BY <1>2 DEF RemoveIndex
<1>16. Goal
  BY <1>5, <1>6, <1>7, <1>8, <1>9, <1>10, <1>11, <1>12, <1>13, <1>14, <1>15 DEF Step
<1>17. QED
  BY <1>16 DEF Goal

LEMMA TypeStep ==
  ASSUME TypeOK, NEW p \in Procs, Step(p)
  PROVE  TypeOK'
<1> DEFINE Goal == /\ packs' \subseteq Packs /\ indexes' \subseteq Indexes
                   /\ snapshots' \subseteq SUBSET Blobs
                   /\ proc'[p] \in Process
<1>1. /\ packs \subseteq Packs /\ indexes \subseteq Indexes
      /\ snapshots \subseteq SUBSET Blobs /\ proc[p] \in Process
  BY DEF TypeOK
<1>2. ASSUME NEW cmd \in Commands, NEW target \in SUBSET Blobs,
             Open(p, cmd, target)
      PROVE  Goal
  BY <1>1, <1>2, OpenEffect DEF Open, repo
<1>3. LoadIndex(p) => Goal
  BY <1>1, LoadIndexEffect DEF LoadIndex, repo
<1>4. Abort(p) \/ RestoreTo(p) \/ ForgetDone(p) \/ PruneDone(p) => Goal
  BY <1>1, ReturnEffect, IdleType DEF Abort, RestoreTo, ForgetDone, PruneDone, repo
<1>5. SaveSnapshot(p) => Goal
  BY <1>1, ReturnEffect, IdleType DEF SaveSnapshot, Process
<1>6. ASSUME NEW blobs \in SUBSET Blobs, SavesPack(p, blobs)
      PROVE  Goal
  <2>1. snapshots' = snapshots
    BY <1>6 DEF SavesPack, SavePack
  <2>2. \E pk \in Packs :
          /\ packs' = packs \cup {pk}
          /\ proc'[p] \in Process
          /\ indexes' = indexes \/ \E ix \in Indexes : indexes' = indexes \cup {ix}
    BY <1>6, SavePackEffect DEF PackSaved
  <2>3. QED
    BY <1>1, <2>1, <2>2
<1>7. Flush(p) => Goal
  BY <1>1, FlushEffect, ZenonT(60) DEF Flush
<1>8. RemoveSnapshot(p) => Goal
  BY <1>1 DEF RemoveSnapshot
<1>9. PlanPrune(p) => Goal
  BY <1>1, PlanPruneEffect DEF PlanPrune, Planned, repo
<1>10. RemoveUnreferenced(p) => Goal
  BY <1>1, RemoveUnreferencedEffect DEF RemoveUnreferenced
<1>11. RewriteIndex(p) => Goal
  BY <1>1, RewriteIndexEffect DEF RewriteIndex, Rewritten, repo
<1>12. SaveRewritten(p) => Goal
  BY <1>1, SaveRewrittenEffect DEF SaveRewritten
<1>13. RemoveIndex(p) => Goal
  BY <1>1, RemoveIndexEffect DEF RemoveIndex
<1>14. RemovePack(p) => Goal
  BY <1>1, RemovePackEffect DEF RemovePack
<1> HIDE DEF Goal
<1>15. Goal
  BY <1>2, <1>3, <1>4, <1>5, <1>6, <1>7, <1>8, <1>9, <1>10, <1>11, <1>12, <1>13,
     <1>14 DEF Step
<1>16. QED
  BY <1>15, StepFrame DEF TypeOK, Goal

(* The type invariant holds for any number of processes, blobs and files.  *)
THEOREM TypeCorrect == Spec => []TypeOK
<1>1. Init => TypeOK
  BY IdleType DEF Init, Lock!Init, TypeOK
<1>2. TypeOK /\ [Next]_vars => TypeOK'
  <2>1. TypeOK /\ Next => TypeOK'
    BY NextIsStep, TypeStep
  <2>2. TypeOK /\ UNCHANGED vars => TypeOK'
    BY DEF TypeOK, vars
  <2>3. QED
    BY <2>1, <2>2
<1>3. QED
  BY <1>1, <1>2, PTL DEF Spec

-----------------------------------------------------------------------------
(* Who works beside whom. *)

(* A process that is not idle runs under its command's lock.               *)
LEMMA Working ==
  ASSUME TypeOK, LockInv, NEW p \in Procs, ~At(p, "idle")
  PROVE  /\ proc[p].pc \in Stages(proc[p].cmd)
         /\ \/ proc[p].cmd \in {"backup", "restore"} /\ held[p] = "shared"
            \/ proc[p].cmd \in {"forget", "prune"} /\ held[p] = "exclusive"
<1>1. proc[p].cmd \in Commands
  BY DEF TypeOK, Process
<1>2. QED
  BY <1>1 DEF LockInv, Commands, At

(* Every step but Open is one of a process that is not idle.  A step that  *)
(* takes something away is taken under the exclusive lock.                 *)
LEMMA StepOfWorker ==
  ASSUME TypeOK, NEW p \in Procs, Step(p),
         ~ \E cmd \in Commands, target \in SUBSET Blobs : Open(p, cmd, target)
  PROVE  ~At(p, "idle")
<1>1. ASSUME NEW blobs \in SUBSET Blobs, SavesPack(p, blobs)
      PROVE  ~At(p, "idle")
  <2>1. Saving(p)
    BY <1>1, Zenon DEF SavesPack, SavePack
  <2>2. QED
    BY <2>1 DEF Saving, At
<1>2. LoadIndex(p) \/ Abort(p) => ~At(p, "idle")
  BY DEF LoadIndex, Abort, At
<1>3. Flush(p) \/ SaveSnapshot(p) \/ RestoreTo(p) => ~At(p, "idle")
  BY DEF Flush, Saving, SaveSnapshot, RestoreTo, At
<1>4. RemoveSnapshot(p) \/ ForgetDone(p) \/ PlanPrune(p) => ~At(p, "idle")
  BY DEF RemoveSnapshot, ForgetDone, PlanPrune, At
<1>5. RemoveUnreferenced(p) \/ RewriteIndex(p) \/ SaveRewritten(p)
        => ~At(p, "idle")
  BY DEF RemoveUnreferenced, RewriteIndex, SaveRewritten, At
<1>6. RemoveIndex(p) \/ RemovePack(p) \/ PruneDone(p) => ~At(p, "idle")
  BY DEF RemoveIndex, RemovePack, PruneDone, Unindexed, At
<1>7. QED
  BY <1>1, <1>2, <1>3, <1>4, <1>5, <1>6 DEF Step

Grows ==
  /\ packs \subseteq packs' /\ snapshots \subseteq snapshots'
  /\ Described(indexes) \subseteq Described(indexes')

LEMMA SharedStepGrows ==
  ASSUME TypeOK, LockInv, NEW p \in Procs, Step(p), held[p] # "exclusive"
  PROVE  Grows
<1>1. ASSUME NEW pt, At(p, pt), pt \in {"forget", "plan", "repack", "rewrite", "remove"}
      PROVE  FALSE
  BY <1>1, Working DEF At, Stages
<1>2. ASSUME NEW cmd \in Commands, NEW target \in SUBSET Blobs, Open(p, cmd, target)
      PROVE  Grows
  BY <1>2 DEF Open, repo, Grows
<1>3. LoadIndex(p) \/ Abort(p) \/ RestoreTo(p) => Grows
  BY DEF LoadIndex, Abort, RestoreTo, repo, Grows
<1>4. ASSUME NEW blobs \in SUBSET Blobs, SavesPack(p, blobs)
      PROVE  Grows
  <2>1. snapshots' = snapshots
    BY <1>4 DEF SavesPack, SavePack
  <2>2. \E pk \in Packs :
          /\ packs' = packs \cup {pk}
          /\ indexes' = indexes \/ \E ix \in Indexes : indexes' = indexes \cup {ix}
    BY <1>4, SavePackEffect DEF PackSaved
  <2>3. packs \subseteq packs' /\ indexes \subseteq indexes'
    BY <2>2
  <2>4. QED
    BY <2>1, <2>3, DescribedMonotone DEF Grows
<1>5. Flush(p) => Grows
  <2> SUFFICES ASSUME Flush(p) PROVE Grows
    OBVIOUS
  <2>1. indexes \subseteq indexes' /\ packs' = packs /\ snapshots' = snapshots
    BY DEF Flush
  <2>2. QED
    BY <2>1, DescribedMonotone DEF Grows
<1>6. SaveSnapshot(p) => Grows
  BY DEF SaveSnapshot, Grows
<1>7. ~ (RemoveSnapshot(p) \/ ForgetDone(p) \/ PlanPrune(p))
  BY <1>1 DEF RemoveSnapshot, ForgetDone, PlanPrune
<1>8. ~ (RemoveUnreferenced(p) \/ RewriteIndex(p) \/ SaveRewritten(p))
  BY <1>1 DEF RemoveUnreferenced, RewriteIndex, SaveRewritten
<1>9. ~ (RemoveIndex(p) \/ RemovePack(p) \/ PruneDone(p))
  BY <1>1 DEF RemoveIndex, RemovePack, PruneDone, Unindexed
<1>10. QED
  BY <1>2, <1>3, <1>4, <1>5, <1>6, <1>7, <1>8, <1>9 DEF Step

(* What a process relies on is not disturbed by the steps of another.      *)
LEMMA OthersUndisturbed ==
  ASSUME TypeOK, RepositoryInv, NEW p \in Procs, Step(p),
         NEW q \in Procs, q # p
  PROVE  ProcessInv(q)'
<1>1. proc'[q] = proc[q]
  BY StepFrame
<1>2. CASE At(q, "idle")
  BY <1>1, <1>2 DEF ProcessInv, StartInv, BackupInv, RestoreInv, PruneInv,
     ReclaimInv, At
<1>3. CASE ~At(q, "idle") /\ held[q] = "exclusive"
  <2>1. held[p] = "none"
    BY <1>3 DEF RepositoryInv, LockInv
  <2>2. At(p, "idle")
    BY <2>1, Working DEF RepositoryInv
  <2>3. PICK cmd \in Commands, target \in SUBSET Blobs : Open(p, cmd, target)
    BY <2>2, StepOfWorker
  <2>4. PICK mode \in {"shared", "exclusive"} : Lock!Acquire(p, mode)
    BY <2>3 DEF Open
  <2>5. held[q] = "none" \/ held[q] = "shared"
    BY <2>4, AcquireEffect DEF TypeOK
  <2>6. QED
    BY <1>3, <2>5
<1>4. CASE ~At(q, "idle") /\ held[q] = "shared"
  <2>1. held[p] # "exclusive"
    BY <1>4 DEF RepositoryInv, LockInv
  <2>2. /\ packs \subseteq packs' /\ UsedBlobs \subseteq UsedBlobs'
        /\ Described(indexes) \subseteq Described(indexes')
    BY <2>1, SharedStepGrows DEF RepositoryInv, Grows, UsedBlobs
  <2>3. BlobsOf(Described(indexes)) \subseteq BlobsOf(Described(indexes'))
    BY <2>2, BlobsOfMonotone
  <2>4. proc[q].pc \in {"load", "saving", "snapshot", "reading"}
    BY <1>4, Working DEF RepositoryInv, Stages
  <2>5. ProcessInv(q)
    BY DEF RepositoryInv
  <2>6. StartInv(q)' /\ PruneInv(q)' /\ ReclaimInv(q)'
    BY <1>1, <2>4, <2>5 DEF ProcessInv, StartInv, PruneInv, ReclaimInv, At
  <2>7. RestoreInv(q)'
    BY <1>1, <2>2, <2>5 DEF ProcessInv, RestoreInv, At
  <2>8. BackupInv(q)'
    BY <1>1, <2>2, <2>3, <2>5 DEF ProcessInv, BackupInv, At
  <2>9. QED
    BY <2>6, <2>7, <2>8 DEF ProcessInv
<1>5. QED
  BY <1>2, <1>3, <1>4, Working DEF RepositoryInv

(* As long as the index names no missing pack, a blob is available if the  *)
(* index names it.                                                         *)
LEMMA CompleteDef ==
  ASSUME IndexedPacksExist
  PROVE  SnapshotsComplete <=> UsedBlobs \subseteq BlobsOf(Described(indexes))
BY BlobsOfDef DEF SnapshotsComplete, Available, IndexedPacksExist

LEMMA CompletePrimeDef ==
  ASSUME IndexedPacksExist'
  PROVE  SnapshotsComplete' <=> UsedBlobs' \subseteq BlobsOf(Described(indexes'))
BY BlobsOfDef DEF SnapshotsComplete, Available, IndexedPacksExist

(* The lock part of the invariant.                                         *)
LEMMA LockStep ==
  ASSUME TypeOK, RepositoryInv, NEW p \in Procs, Step(p)
  PROVE  LockInv'
<1> DEFINE Mode(cmd) == IF cmd \in {"backup", "restore"} THEN "shared" ELSE "exclusive"
           Own == IF proc'[p].pc = "idle" THEN held'[p] = "none"
                  ELSE /\ proc'[p].pc \in Stages(proc'[p].cmd)
                       /\ held'[p] = Mode(proc'[p].cmd)
           Alone == \A q \in Procs \ {p} :
                      /\ held'[p] = "exclusive" => held[q] = "none"
                      /\ held[q] = "exclusive" => held'[p] = "none"
<1>1. LockInv
  BY DEF RepositoryInv
<1>2. \A q \in Procs \ {p} : proc'[q] = proc[q] /\ held'[q] = held[q]
  BY StepFrame
<1>3. Own /\ Alone => LockInv'
  BY <1>1, <1>2 DEF LockInv, At
<1>4. ASSUME held' = held, ~At(p, "idle"), proc'[p].cmd = proc[p].cmd,
             proc'[p].pc # "idle", proc'[p].pc \in Stages(proc[p].cmd)
      PROVE  Own /\ Alone
  BY <1>1, <1>4 DEF LockInv, At
<1>5. ASSUME Return(p)
      PROVE  Own /\ Alone
  BY <1>5, ReturnEffect DEF Idle
<1>6. ASSUME NEW cmd \in Commands, NEW target \in SUBSET Blobs, Open(p, cmd, target)
      PROVE  Own /\ Alone
  <2>1. Lock!Acquire(p, Mode(cmd)) /\ Mode(cmd) \in {"shared", "exclusive"}
    BY <1>6 DEF Open
  <2>2. /\ held'[p] = Mode(cmd)
        /\ \A q \in Procs \ {p} :
             held[q] = "none" \/ (held[q] = "shared" /\ Mode(cmd) = "shared")
    <3> HIDE DEF Mode
    <3>1. QED
      BY <2>1, AcquireEffect DEF TypeOK
  <2>3. /\ proc'[p].cmd = cmd
        /\ proc'[p].pc = IF cmd = "forget" THEN "forget" ELSE "load"
    BY <1>6, OpenEffect
  <2>4. QED
    BY <2>2, <2>3 DEF Commands, Stages
<1> HIDE DEF Own, Alone
<1>7. LoadIndex(p) => Own /\ Alone
  <2> SUFFICES ASSUME LoadIndex(p) PROVE Own /\ Alone
    OBVIOUS
  <2>1. held' = held /\ At(p, "load")
    BY DEF LoadIndex
  <2>2. /\ proc'[p].cmd = proc[p].cmd
        /\ proc'[p].pc = IF proc[p].cmd = "backup" THEN "saving"
                         ELSE IF proc[p].cmd = "restore" THEN "reading" ELSE "plan"
    BY LoadIndexEffect
  <2>3. proc[p].cmd \in {"backup", "restore", "prune"}
    BY <1>1, <2>1, Working DEF At, Stages
  <2>4. QED
    BY <1>4, <2>1, <2>2, <2>3 DEF At, Stages
<1>8. Abort(p) \/ SaveSnapshot(p) \/ RestoreTo(p) \/ ForgetDone(p) \/ PruneDone(p)
        => Own /\ Alone
  BY <1>5 DEF Abort, SaveSnapshot, RestoreTo, ForgetDone, PruneDone
<1>9. ASSUME NEW pt \in {"saving", "forget", "repack", "remove"}, At(p, pt), held' = held,
             proc'[p].pc = proc[p].pc, proc'[p].cmd = proc[p].cmd
      PROVE  Own /\ Alone
  BY <1>1, <1>4, <1>9, Working DEF At
<1>10. ASSUME NEW blobs \in SUBSET Blobs, SavesPack(p, blobs)
       PROVE  Own /\ Alone
  <2>1. held' = held /\ Saving(p)
    BY <1>10, Zenon DEF SavesPack, SavePack
  <2>2. SameCommand(proc'[p], proc[p])
    BY <1>10, SavePackEffect DEF PackSaved
  <2>3. proc'[p].pc = proc[p].pc /\ proc'[p].cmd = proc[p].cmd
    BY <2>2 DEF SameCommand
  <2>4. QED
    BY <1>9, <2>1, <2>3 DEF Saving
<1>11. Flush(p) => Own /\ Alone
  <2> SUFFICES ASSUME Flush(p) PROVE Own /\ Alone
    OBVIOUS
  <2>1. held' = held /\ Saving(p)
    BY DEF Flush
  <2>2. /\ proc'[p].cmd = proc[p].cmd
        /\ At(p, "saving") => proc'[p].pc = "snapshot"
        /\ ~At(p, "saving") => proc'[p].pc = "rewrite"
    BY FlushEffect
  <2>3. \/ At(p, "saving") /\ proc[p].cmd = "backup"
        \/ At(p, "repack") /\ proc[p].cmd = "prune"
    BY <1>1, <2>1, Working DEF At, Stages, Saving
  <2>4. QED
    BY <1>4, <2>1, <2>2, <2>3 DEF At, Stages
<1>12. RemoveSnapshot(p) => Own /\ Alone
  BY <1>9 DEF RemoveSnapshot
<1>13. ASSUME PlanPrune(p) \/ RewriteIndex(p)
       PROVE  Own /\ Alone
  <2>1. held' = held /\ (At(p, "plan") \/ At(p, "rewrite"))
    BY <1>13 DEF PlanPrune, RewriteIndex
  <2>2. proc'[p].cmd = proc[p].cmd /\ proc'[p].pc \in {"repack", "remove"}
    BY <1>13, PlanPruneEffect, RewriteIndexEffect DEF Planned, Rewritten
  <2>3. proc[p].cmd = "prune"
    BY <1>1, <2>1, Working DEF At, Stages
  <2>4. QED
    BY <1>4, <2>1, <2>2, <2>3 DEF At, Stages
<1>14. ASSUME RemoveUnreferenced(p) \/ RemovePack(p) \/ SaveRewritten(p) \/ RemoveIndex(p)
       PROVE  Own /\ Alone
  <2>1. held' = held /\ (At(p, "repack") \/ At(p, "remove"))
    BY <1>14 DEF RemoveUnreferenced, RemovePack, SaveRewritten, RemoveIndex, Unindexed
  <2>2. SameCommand(proc'[p], proc[p])
    BY <1>14, RemoveUnreferencedEffect, RemovePackEffect, SaveRewrittenEffect,
       RemoveIndexEffect, Zenon
  <2>3. proc'[p].pc = proc[p].pc /\ proc'[p].cmd = proc[p].cmd
    BY <2>2 DEF SameCommand
  <2>4. QED
    BY <1>9, <2>1, <2>3
<1>15. QED
  BY <1>3, <1>6, <1>7, <1>8, <1>10, <1>11, <1>12, <1>13, <1>14 DEF Step

-----------------------------------------------------------------------------
(* Each step keeps the files in order and what its own process relies on. *)

LEMMA FilesUnchanged ==
  ASSUME FilesInv, UNCHANGED repo
  PROVE  FilesInv'
BY DEF FilesInv, repo, IndexNames, IndexedPacksExist, SnapshotsComplete,
   Available, UsedBlobs

LEMMA IndexAdded ==
  ASSUME IndexNames, NEW ix, \A jx \in indexes : jx.id # ix.id,
         indexes' = indexes \cup {ix}
  PROVE  /\ IndexNames'
         /\ Described(indexes') = Described(indexes) \cup ix.packs
         /\ {jx.id : jx \in indexes'} = {jx.id : jx \in indexes} \cup {ix.id}
<1>1. IndexNames'
  BY DEF IndexNames
<1>2. Described(indexes') = Described(indexes) \cup ix.packs
  <2>1. Described(indexes \cup {ix}) = Described(indexes) \cup Described({ix})
    BY DescribedUnion
  <2>2. QED
    BY <2>1, DescribedOne
<1>3. QED
  BY <1>1, <1>2

LEMMA IdleKeeps ==
  ASSUME NEW p \in Procs, proc'[p].pc \in {"idle", "forget"}
  PROVE  ProcessInv(p)'
BY DEF ProcessInv, StartInv, BackupInv, RestoreInv, PruneInv, ReclaimInv, At

LEMMA ReturnKeeps ==
  ASSUME TypeOK, RepositoryInv, NEW p \in Procs, Return(p)
  PROVE  /\ ProcessInv(p)'
         /\ UNCHANGED repo => FilesInv'
<1>1. proc'[p].pc = "idle"
  BY ReturnEffect DEF Idle
<1>2. QED
  BY <1>1, IdleKeeps, FilesUnchanged DEF RepositoryInv

LEMMA OpenKeeps ==
  ASSUME TypeOK, RepositoryInv, NEW p \in Procs, NEW cmd \in Commands,
         NEW target \in SUBSET Blobs, Open(p, cmd, target)
  PROVE  ProcessInv(p)' /\ FilesInv'
<1>1. UNCHANGED repo /\ (cmd = "restore" => target \in snapshots)
  BY DEF Open
<1>2. FilesInv'
  BY <1>1, FilesUnchanged DEF RepositoryInv
<1>3. /\ proc'[p].cmd = cmd /\ proc'[p].target = target
      /\ proc'[p].pc = IF cmd = "forget" THEN "forget" ELSE "load"
      /\ proc'[p].unsaved = {} /\ proc'[p].failed = FALSE
  BY OpenEffect
<1>4. proc'[p].pc \in {"load", "forget"}
  BY <1>3
<1>5. StartInv(p)'
  BY <1>3, <1>4 DEF StartInv
<1>6. RestoreInv(p)'
  BY <1>1, <1>3, <1>4 DEF RestoreInv, At, UsedBlobs, repo
<1>7. BackupInv(p)' /\ PruneInv(p)' /\ ReclaimInv(p)'
  BY <1>4 DEF BackupInv, PruneInv, ReclaimInv, At
<1>8. QED
  BY <1>2, <1>5, <1>6, <1>7 DEF ProcessInv

LEMMA LoadIndexKeeps ==
  ASSUME TypeOK, RepositoryInv, NEW p \in Procs, LoadIndex(p)
  PROVE  ProcessInv(p)' /\ FilesInv'
<1>1. UNCHANGED repo /\ At(p, "load")
  BY DEF LoadIndex
<1>2. packs' = packs /\ indexes' = indexes /\ snapshots' = snapshots
  BY <1>1 DEF repo
<1>3. FilesInv'
  BY <1>1, FilesUnchanged DEF RepositoryInv
<1>4. proc[p].cmd \in {"backup", "restore", "prune"}
  BY <1>1, Working DEF RepositoryInv, At, Stages
<1>5. /\ proc'[p].cmd = proc[p].cmd /\ proc'[p].target = proc[p].target
      /\ proc'[p].unsaved = {} /\ proc'[p].failed = FALSE
  BY <1>1, LoadIndexEffect DEF RepositoryInv, ProcessInv, StartInv, At
<1>6. CASE proc[p].cmd = "backup"
  <2>1. /\ proc'[p].pc = "saving"
        /\ proc'[p].missing = proc[p].target \ BlobsOf(Described(indexes))
    BY <1>6, LoadIndexEffect
  <2>2. BackupInv(p)'
    BY <1>2, <1>5, <2>1 DEF BackupInv, At
  <2>3. StartInv(p)' /\ RestoreInv(p)' /\ PruneInv(p)' /\ ReclaimInv(p)'
    BY <2>1 DEF StartInv, RestoreInv, PruneInv, ReclaimInv, At
  <2>4. QED
    BY <1>3, <2>2, <2>3 DEF ProcessInv
<1>7. CASE proc[p].cmd = "restore"
  <2>1. proc'[p].pc = "reading" /\ proc'[p].index = Described(indexes)
    BY <1>7, LoadIndexEffect
  <2>2. proc[p].target \subseteq UsedBlobs
    BY <1>1, <1>7 DEF RepositoryInv, ProcessInv, RestoreInv
  <2>3. Described(indexes) \subseteq packs
    BY DEF RepositoryInv, FilesInv, IndexedPacksExist
  <2>4. UsedBlobs \subseteq BlobsOf(Described(indexes))
    BY CompleteDef DEF RepositoryInv, FilesInv
  <2>5. RestoreInv(p)'
    BY <1>2, <1>5, <2>1, <2>2, <2>3, <2>4 DEF RestoreInv, At
  <2>6. StartInv(p)' /\ BackupInv(p)' /\ PruneInv(p)' /\ ReclaimInv(p)'
    BY <2>1 DEF StartInv, BackupInv, PruneInv, ReclaimInv, At
  <2>7. QED
    BY <1>3, <2>5, <2>6 DEF ProcessInv
<1>8. CASE proc[p].cmd = "prune"
  <2>1. /\ proc'[p].pc = "plan" /\ proc'[p].index = Described(indexes)
        /\ proc'[p].loaded = {ix.id : ix \in indexes}
    BY <1>8, LoadIndexEffect
  <2>2. PruneInv(p)'
    BY <1>2, <2>1 DEF PruneInv, At
  <2>3. StartInv(p)' /\ BackupInv(p)' /\ RestoreInv(p)' /\ ReclaimInv(p)'
    BY <1>5, <2>1 DEF StartInv, BackupInv, RestoreInv, ReclaimInv, At
  <2>4. QED
    BY <1>3, <2>2, <2>3 DEF ProcessInv
<1>9. QED
  BY <1>4, <1>6, <1>7, <1>8

LEMMA SaveSnapshotKeeps ==
  ASSUME TypeOK, RepositoryInv, NEW p \in Procs, SaveSnapshot(p)
  PROVE  ProcessInv(p)' /\ FilesInv'
<1>1. /\ At(p, "snapshot") /\ Return(p) /\ packs' = packs /\ indexes' = indexes
      /\ snapshots' = snapshots \cup {proc[p].target}
  BY DEF SaveSnapshot
<1>2. IndexNames' /\ IndexedPacksExist'
  BY <1>1 DEF RepositoryInv, FilesInv, IndexNames, IndexedPacksExist
<1>3. proc[p].target \subseteq BlobsOf(Described(indexes))
  <2>1. \A b \in proc[p].target : \/ b \in BlobsOf(Described(indexes))
                                  \/ b \in BlobsOf({}) \/ b \in {}
    BY <1>1 DEF RepositoryInv, ProcessInv, BackupInv, At
  <2>2. BlobsOf({}) = {}
    BY DEF BlobsOf
  <2>3. QED
    BY <2>1, <2>2
<1>4. UsedBlobs' = UsedBlobs \cup proc[p].target
  BY <1>1 DEF UsedBlobs
<1>5. UsedBlobs \subseteq BlobsOf(Described(indexes))
  BY CompleteDef DEF RepositoryInv, FilesInv
<1>6. SnapshotsComplete'
  BY <1>1, <1>2, <1>3, <1>4, <1>5, CompletePrimeDef
<1>7. QED
  BY <1>1, <1>2, <1>6, ReturnKeeps DEF FilesInv

LEMMA RemoveSnapshotKeeps ==
  ASSUME TypeOK, RepositoryInv, NEW p \in Procs, RemoveSnapshot(p)
  PROVE  ProcessInv(p)' /\ FilesInv'
<1>1. /\ proc'[p].pc = "forget" /\ packs' = packs /\ indexes' = indexes
      /\ snapshots' \subseteq snapshots
  BY DEF RemoveSnapshot, At
<1>2. UsedBlobs' \subseteq UsedBlobs
  BY <1>1 DEF UsedBlobs
<1>3. FilesInv'
  BY <1>1, <1>2 DEF RepositoryInv, FilesInv, IndexNames, IndexedPacksExist,
     SnapshotsComplete, Available
<1>4. QED
  BY <1>1, <1>3, IdleKeeps

LEMMA SavePackKeeps ==
  ASSUME TypeOK, RepositoryInv, NEW p \in Procs, NEW blobs \in SUBSET Blobs,
         SavesPack(p, blobs)
  PROVE  ProcessInv(p)' /\ FilesInv'
<1> DEFINE old == proc[p]
           r == proc'[p]
           Names == {ix.id : ix \in indexes}
           Named == Described(indexes)
           Named2 == Described(indexes')
<1>1. /\ Saving(p) /\ snapshots' = snapshots
      /\ blobs # {} /\ blobs \subseteq old.missing
  BY Zenon DEF SavesPack, SavePack
<1>2. FilesInv /\ LockInv /\ ProcessInv(p)
  BY DEF RepositoryInv
<1> PICK pk \in Packs : PackSaved(p, blobs, pk)
  BY SavePackEffect
<1>3. /\ pk.blobs = blobs /\ pk \notin packs /\ pk \notin Described(indexes)
      /\ packs' = packs \cup {pk}
      /\ SameCommand(r, old) /\ SamePlan(r, old)
      /\ r.missing = old.missing \ blobs
      /\ \/ /\ indexes' = indexes
            /\ r.unsaved = old.unsaved \cup {pk}
            /\ r.loaded = old.loaded
         \/ \E ix \in Indexes :
              /\ ix.packs = old.unsaved \cup {pk}
              /\ \A jx \in indexes : jx.id # ix.id
              /\ indexes' = indexes \cup {ix}
              /\ r.unsaved = {} /\ r.loaded = old.loaded \cup {ix.id}
  BY DEF PackSaved
<1>4. /\ IndexNames'
      /\ Named2 \cup r.unsaved = Named \cup old.unsaved \cup {pk}
      /\ Named \subseteq Named2
      /\ r.unsaved \subseteq old.unsaved \cup {pk}
      /\ old.loaded = Names => r.loaded = {ix.id : ix \in indexes'}
  <2>1. CASE /\ indexes' = indexes
             /\ r.unsaved = old.unsaved \cup {pk}
             /\ r.loaded = old.loaded
    BY <1>2, <2>1 DEF FilesInv, IndexNames
  <2>2. ASSUME NEW ix \in Indexes,
               ix.packs = old.unsaved \cup {pk},
               \A jx \in indexes : jx.id # ix.id,
               indexes' = indexes \cup {ix},
               r.unsaved = {} /\ r.loaded = old.loaded \cup {ix.id}
        PROVE  <1>4!:
    <3>1. /\ IndexNames' /\ Named2 = Named \cup ix.packs
          /\ {jx.id : jx \in indexes'} = Names \cup {ix.id}
      BY <1>2, <2>2, IndexAdded DEF FilesInv
    <3> HIDE DEF old, r, Names, Named, Named2
    <3>2. QED
      BY <2>2, <3>1
  <2>3. QED
    BY <1>3, <2>1, <2>2
<1>5. UsedBlobs' = UsedBlobs
  BY <1>1 DEF UsedBlobs
<1>6. Named \subseteq packs /\ UsedBlobs \subseteq BlobsOf(Named)
  BY <1>2, CompleteDef DEF FilesInv, IndexedPacksExist
<1>7. old.unsaved \subseteq packs
  BY <1>1, <1>2 DEF Saving, ProcessInv, BackupInv, PruneInv, At
<1>8. IndexedPacksExist'
  <2> HIDE DEF old, r, Named
  <2>1. Named2 \subseteq packs'
    BY <1>3, <1>4, <1>6, <1>7
  <2>2. QED
    BY <2>1 DEF IndexedPacksExist
<1>9. FilesInv'
  <2>1. BlobsOf(Named) \subseteq BlobsOf(Named2)
    BY <1>4, BlobsOfMonotone
  <2>2. QED
    BY <1>4, <1>5, <1>6, <1>8, <2>1, CompletePrimeDef DEF FilesInv
<1>10. r.unsaved \subseteq packs'
  BY <1>3, <1>4, <1>7
<1>11. BlobsOf(Named2) \cup BlobsOf(r.unsaved)
         = BlobsOf(Named) \cup BlobsOf(old.unsaved) \cup blobs
  <2>1. BlobsOf({pk}) = blobs
    BY <1>3 DEF BlobsOf
  <2>2. BlobsOf(Named2 \cup r.unsaved) = BlobsOf(Named2) \cup BlobsOf(r.unsaved)
    BY BlobsOfUnion
  <2>3. BlobsOf(Named \cup old.unsaved \cup {pk})
          = BlobsOf(Named) \cup BlobsOf(old.unsaved) \cup BlobsOf({pk})
    <3> HIDE DEF Named, old
    <3>1. BlobsOf((Named \cup old.unsaved) \cup {pk})
            = BlobsOf(Named \cup old.unsaved) \cup BlobsOf({pk})
      BY BlobsOfUnion
    <3>2. QED
      BY <3>1, BlobsOfUnion
  <2>4. QED
    BY <1>4, <2>1, <2>2, <2>3
<1>12. r.pc = old.pc /\ r.cmd = old.cmd /\ r.target = old.target
  BY <1>3 DEF SameCommand
<1>13. CASE At(p, "saving")
  <2>1. BackupInv(p)'
    <3>1. r.pc = "saving"
      BY <1>12, <1>13 DEF At
    <3>2. \A b \in old.target : \/ b \in BlobsOf(Named)
                                \/ b \in BlobsOf(old.unsaved)
                                \/ b \in old.missing
      BY <1>2, <1>13 DEF ProcessInv, BackupInv, At
    <3>3. \A b \in r.target : \/ b \in BlobsOf(Named2)
                              \/ b \in BlobsOf(r.unsaved)
                              \/ b \in r.missing
      BY <1>3, <1>11, <1>12, <3>2
    <3>4. QED
      BY <1>10, <3>1, <3>3 DEF BackupInv, At
  <2>2. StartInv(p)' /\ RestoreInv(p)' /\ PruneInv(p)' /\ ReclaimInv(p)'
    BY <1>12, <1>13 DEF StartInv, RestoreInv, PruneInv, ReclaimInv, At
  <2>3. QED
    BY <1>9, <2>1, <2>2 DEF ProcessInv
<1>14. CASE At(p, "repack") /\ old.removePacksFirst = {}
  <2>1. r.pc = "repack" /\ old.pc = "repack"
    BY <1>12, <1>14 DEF At
  <2>2. /\ r.removePacksFirst = {} /\ r.repackPacks = old.repackPacks
        /\ r.removePacks = old.removePacks /\ r.ignorePacks = old.ignorePacks
        /\ r.failed = old.failed
    BY <1>3, <1>14 DEF SamePlan
  <2> DEFINE gone == old.ignorePacks \cup old.repackPacks
             stay == (Named \ gone) \cup old.unsaved
             stay2 == (Named2 \ gone) \cup r.unsaved
  <2>3. /\ old.loaded = Names
        /\ gone \subseteq Named
        /\ old.unsaved \cap gone = {}
        /\ old.missing \subseteq UsedBlobs
        /\ old.removePacks \subseteq old.ignorePacks
        /\ \A b \in UsedBlobs : b \in BlobsOf(stay) \/ b \in old.missing
    BY <1>2, <2>1 DEF ProcessInv, PruneInv, Surviving, At
  <2>4. stay2 = stay \cup {pk}
    <3> HIDE DEF old, r, Named, Named2
    <3>1. Named2 \cup r.unsaved = Named \cup old.unsaved \cup {pk}
      BY <1>4
    <3>2. pk \notin gone /\ r.unsaved \cap gone = {}
      BY <1>3, <1>4, <2>3 DEF Named
    <3> HIDE DEF gone
    <3>3. \A x : x \in stay2 <=> x \in stay \cup {pk}
      BY <3>1, <3>2, <2>3
    <3>4. QED
      BY <3>3
  <2>5. Surviving(p) = stay /\ Surviving(p)' = stay2
    BY <2>1, <2>2 DEF Surviving, At
  <2>6. BlobsOf(stay2) = BlobsOf(stay) \cup blobs
    <3>1. BlobsOf({pk}) = blobs
      BY <1>3 DEF BlobsOf
    <3> HIDE DEF stay, stay2
    <3>2. QED
      BY <2>4, <3>1, BlobsOfUnion
  <2>7. PruneInv(p)'
    <3>1. r.loaded = {ix.id : ix \in indexes'}
      BY <1>4, <2>3
    <3>2. gone \subseteq Named2 /\ r.unsaved \cap gone = {}
      <4> HIDE DEF old, r, Named, Named2, gone
      <4>1. QED
        BY <1>3, <1>4, <2>3 DEF Named
    <3>3. r.missing \subseteq UsedBlobs'
      BY <1>3, <1>5, <2>3
    <3>4. \A b \in UsedBlobs' : b \in BlobsOf(Surviving(p)') \/ b \in r.missing
      <4> HIDE DEF stay, stay2, old, r
      <4>1. QED
        BY <1>3, <1>5, <2>3, <2>5, <2>6
    <3>5. QED
      BY <1>10, <2>1, <2>2, <2>3, <3>1, <3>2, <3>3, <3>4 DEF PruneInv, At
  <2>8. ReclaimInv(p)'
    <3> SUFFICES ASSUME r.failed = FALSE
                 PROVE  /\ packs' \subseteq Surviving(p)' \cup r.removePacks
                              \cup (r.repackPacks \cup r.removePacksFirst)
                        /\ \A x \in Surviving(p)' : x.blobs \cap UsedBlobs' # {}
      BY <2>1 DEF ReclaimInv, At
    <3>1. /\ packs \subseteq stay \cup old.removePacks \cup old.repackPacks
          /\ \A x \in stay : x.blobs \cap UsedBlobs # {}
      BY <1>2, <1>14, <2>1, <2>2, <2>5 DEF ProcessInv, ReclaimInv, At
    <3>2. pk.blobs \cap UsedBlobs # {}
      BY <1>1, <1>3, <2>3
    <3> HIDE DEF stay, stay2, old, r
    <3>3. QED
      BY <1>3, <1>5, <2>2, <2>4, <2>5, <3>1, <3>2
  <2>9. StartInv(p)' /\ RestoreInv(p)' /\ BackupInv(p)'
    BY <2>1 DEF StartInv, RestoreInv, BackupInv, At
  <2>10. QED
    BY <1>9, <2>7, <2>8, <2>9 DEF ProcessInv
<1>15. QED
  BY <1>1, <1>13, <1>14 DEF Saving

LEMMA FlushKeeps ==
  ASSUME TypeOK, RepositoryInv, NEW p \in Procs, Flush(p)
  PROVE  ProcessInv(p)' /\ FilesInv'
<1> DEFINE old == proc[p]
           r == proc'[p]
           Names == {ix.id : ix \in indexes}
           Named == Described(indexes)
           Named2 == Described(indexes')
<1>1. /\ Saving(p) /\ snapshots' = snapshots /\ packs' = packs
      /\ old.missing = {} /\ r.missing = {} /\ r.unsaved = {}
      /\ r.cmd = old.cmd /\ r.target = old.target /\ r.failed = old.failed
  BY FlushEffect DEF Flush
<1>2. FilesInv /\ LockInv /\ ProcessInv(p)
  BY DEF RepositoryInv
<1>3. /\ IndexNames'
      /\ Named2 = Named \cup old.unsaved
      /\ old.loaded = Names => r.loaded = {ix.id : ix \in indexes'}
  <2>1. \/ /\ indexes' = indexes /\ old.unsaved = {}
           /\ r.loaded = old.loaded
        \/ \E ix \in Indexes :
             /\ ix.packs = old.unsaved
             /\ \A jx \in indexes : jx.id # ix.id
             /\ indexes' = indexes \cup {ix}
             /\ r.loaded = old.loaded \cup {ix.id}
    BY FlushEffect
  <2>2. CASE indexes' = indexes /\ old.unsaved = {} /\ r.loaded = old.loaded
    BY <1>2, <2>2 DEF FilesInv, IndexNames
  <2>3. ASSUME NEW ix \in Indexes,
               ix.packs = old.unsaved,
               \A jx \in indexes : jx.id # ix.id,
               indexes' = indexes \cup {ix},
               r.loaded = old.loaded \cup {ix.id}
        PROVE  <1>3!:
    <3>1. /\ IndexNames' /\ Named2 = Named \cup ix.packs
          /\ {jx.id : jx \in indexes'} = Names \cup {ix.id}
      BY <1>2, <2>3, IndexAdded DEF FilesInv
    <3> HIDE DEF old, r, Names, Named, Named2
    <3>2. QED
      BY <2>3, <3>1
  <2>4. QED
    BY <2>1, <2>2, <2>3
<1>4. UsedBlobs' = UsedBlobs
  BY <1>1 DEF UsedBlobs
<1>5. Named \subseteq packs /\ UsedBlobs \subseteq BlobsOf(Named)
  BY <1>2, CompleteDef DEF FilesInv, IndexedPacksExist
<1>6. old.unsaved \subseteq packs
  BY <1>1, <1>2 DEF Saving, ProcessInv, BackupInv, PruneInv, At
<1>7. IndexedPacksExist'
  BY <1>1, <1>3, <1>5, <1>6 DEF IndexedPacksExist
<1>8. BlobsOf(Named2) = BlobsOf(Named) \cup BlobsOf(old.unsaved)
  BY <1>3, BlobsOfUnion
<1>9. FilesInv'
  BY <1>3, <1>4, <1>5, <1>7, <1>8, CompletePrimeDef DEF FilesInv
<1>10. CASE At(p, "saving")
  <2>1. r.pc = "snapshot"
    BY <1>10, FlushEffect
  <2>2. BackupInv(p)'
    <3>1. \A b \in old.target : \/ b \in BlobsOf(Named)
                                \/ b \in BlobsOf(old.unsaved)
      BY <1>1, <1>2, <1>10 DEF ProcessInv, BackupInv, At
    <3>2. \A b \in r.target : b \in BlobsOf(Named2)
      BY <1>1, <1>8, <3>1
    <3>3. QED
      BY <1>1, <2>1, <3>2 DEF BackupInv, At
  <2>3. StartInv(p)' /\ RestoreInv(p)' /\ PruneInv(p)' /\ ReclaimInv(p)'
    BY <2>1 DEF StartInv, RestoreInv, PruneInv, ReclaimInv, At
  <2>4. QED
    BY <1>9, <2>2, <2>3 DEF ProcessInv
<1>11. CASE At(p, "repack") /\ old.removePacksFirst = {}
  <2>1. /\ r.pc = "rewrite" /\ old.pc = "repack"
        /\ r.removePacks = old.removePacks \cup old.repackPacks
        /\ r.ignorePacks = old.ignorePacks \cup old.repackPacks
    <3>1. ~At(p, "saving") /\ old.pc = "repack"
      BY <1>11 DEF At
    <3>2. QED
      BY <3>1, FlushEffect
  <2> DEFINE gone == old.ignorePacks \cup old.repackPacks
             stay == (Named \ gone) \cup old.unsaved
  <2>2. /\ old.loaded = Names
        /\ gone \subseteq Named
        /\ old.unsaved \cap gone = {}
        /\ old.removePacks \subseteq old.ignorePacks
        /\ \A b \in UsedBlobs : b \in BlobsOf(stay)
    BY <1>1, <1>2, <2>1 DEF ProcessInv, PruneInv, Surviving, At
  <2>3. Surviving(p) = stay /\ Surviving(p)' = Named2 \ gone
    BY <2>1 DEF Surviving, At
  <2>4. Surviving(p)' = stay
    <3> HIDE DEF old, Named, Named2, gone
    <3>1. Named2 \ gone = stay
      BY <1>3, <2>2
    <3>2. QED
      BY <2>3, <3>1
  <2>5. PruneInv(p)'
    <3>1. r.loaded = {ix.id : ix \in indexes'}
      BY <1>3, <2>2
    <3>2. r.removePacks \subseteq r.ignorePacks
      BY <2>1, <2>2
    <3>3. \A b \in UsedBlobs' : b \in BlobsOf(Surviving(p)')
      <4> HIDE DEF stay
      <4>1. QED
        BY <1>4, <2>2, <2>4
    <3>4. QED
      BY <2>1, <3>1, <3>2, <3>3 DEF PruneInv, At
  <2>6. ReclaimInv(p)'
    <3> SUFFICES ASSUME r.failed = FALSE
                 PROVE  /\ packs' \subseteq Surviving(p)' \cup r.removePacks
                        /\ \A x \in Surviving(p)' : x.blobs \cap UsedBlobs' # {}
      BY <2>1 DEF ReclaimInv, At
    <3>1. /\ packs \subseteq stay \cup old.removePacks \cup old.repackPacks
          /\ \A x \in stay : x.blobs \cap UsedBlobs # {}
      BY <1>1, <1>2, <1>11, <2>1, <2>3 DEF ProcessInv, ReclaimInv, At
    <3> HIDE DEF stay, old, r
    <3>2. QED
      BY <1>1, <1>4, <2>1, <2>4, <3>1
  <2>7. StartInv(p)' /\ RestoreInv(p)' /\ BackupInv(p)'
    BY <2>1 DEF StartInv, RestoreInv, BackupInv, At
  <2>8. QED
    BY <1>9, <2>5, <2>6, <2>7 DEF ProcessInv
<1>12. QED
  BY <1>1, <1>10, <1>11 DEF Saving

(* The plan of prune keeps a copy of every used blob.                      *)
LEMMA PlanPruneKeeps ==
  ASSUME TypeOK, RepositoryInv, NEW p \in Procs, PlanPrune(p)
  PROVE  ProcessInv(p)' /\ FilesInv'
<1> DEFINE old == proc[p]
           r == proc'[p]
           Named == Described(indexes)
<1>1. UNCHANGED repo /\ At(p, "plan")
  BY DEF PlanPrune
<1>2. packs' = packs /\ indexes' = indexes /\ snapshots' = snapshots
  BY <1>1 DEF repo
<1>3. FilesInv'
  BY <1>1, FilesUnchanged DEF RepositoryInv
<1>4. /\ old.index = Named /\ old.loaded = {ix.id : ix \in indexes}
      /\ old.unsaved = {} /\ old.failed = FALSE
  BY <1>1 DEF RepositoryInv, ProcessInv, StartInv, PruneInv, At
<1>5. Named \subseteq packs
  BY DEF RepositoryInv, FilesInv, IndexedPacksExist
<1>6. PICK used \in SUBSET old.index : \E again \in SUBSET used :
        Planned(p, used, again)
  BY PlanPruneEffect
<1> PICK again \in SUBSET used : Planned(p, used, again)
  BY <1>6
<1>7. /\ UsedBlobs \subseteq BlobsOf(used)
      /\ \A pk \in used : pk.blobs \cap UsedBlobs # {}
      /\ r.pc = "repack" /\ r.repackPacks = again
      /\ r.loaded = old.loaded /\ r.unsaved = old.unsaved
      /\ r.failed = old.failed
      /\ r.removePacksFirst = packs \ old.index
      /\ r.removePacks = (old.index \ used) \cap packs
      /\ r.ignorePacks = old.index \ used
      /\ r.missing = IF again = {} THEN {}
                     ELSE UsedBlobs \
                            BlobsOf(old.index \ (r.removePacks \cup again))
  BY DEF Planned
<1>8. UsedBlobs' = UsedBlobs
  BY <1>2 DEF UsedBlobs
<1>9. r.removePacks = r.ignorePacks /\ r.ignorePacks = Named \ used
  BY <1>4, <1>5, <1>7
<1>10. Surviving(p)' = used \ again
  <2>1. Surviving(p)' = (Named \ ((Named \ used) \cup again)) \cup {}
    BY <1>2, <1>4, <1>7, <1>9 DEF Surviving, At
  <2>2. used \subseteq Named
    BY <1>4, <1>6
  <2> HIDE DEF Named
  <2>3. QED
    BY <2>1, <2>2
<1>11. Named \ (r.removePacks \cup again) = used \ again
  <2>1. used \subseteq Named
    BY <1>4, <1>6
  <2> HIDE DEF Named
  <2>2. QED
    BY <1>9, <2>1
<1>12. \A b \in UsedBlobs : b \in BlobsOf(used \ again) \/ b \in r.missing
  <2>1. CASE again = {}
    <3>1. used \ again = used
      BY <2>1
    <3>2. QED
      BY <1>7, <3>1
  <2>2. CASE again # {}
    <3>1. r.missing = UsedBlobs \ BlobsOf(Named \ (r.removePacks \cup again))
      BY <1>4, <1>7, <2>2
    <3> HIDE DEF Named, r
    <3>2. QED
      BY <1>11, <3>1
  <2>3. QED
    BY <2>1, <2>2
<1>13. PruneInv(p)'
  <2>1. r.loaded = {ix.id : ix \in indexes'}
    BY <1>2, <1>4, <1>7
  <2>2. /\ r.unsaved = {} /\ r.missing \subseteq UsedBlobs'
        /\ r.ignorePacks \cup r.repackPacks \subseteq Described(indexes')
        /\ r.removePacksFirst \cap (Described(indexes') \cup r.unsaved) = {}
    BY <1>2, <1>4, <1>6, <1>7, <1>8, <1>9
  <2>3. \A b \in UsedBlobs' : b \in BlobsOf(Surviving(p)') \/ b \in r.missing
    BY <1>8, <1>10, <1>12
  <2>4. QED
    BY <1>7, <1>9, <2>1, <2>2, <2>3 DEF PruneInv, At
<1>14. ReclaimInv(p)'
  <2>1. packs' \subseteq Surviving(p)' \cup r.removePacks
                           \cup (r.repackPacks \cup r.removePacksFirst)
    BY <1>2, <1>4, <1>7, <1>9, <1>10
  <2>2. \A pk \in Surviving(p)' : pk.blobs \cap UsedBlobs' # {}
    BY <1>7, <1>8, <1>10
  <2>3. QED
    BY <1>7, <2>1, <2>2 DEF ReclaimInv, At
<1>15. StartInv(p)' /\ RestoreInv(p)' /\ BackupInv(p)'
  BY <1>7 DEF StartInv, RestoreInv, BackupInv, At
<1>16. QED
  BY <1>3, <1>13, <1>14, <1>15 DEF ProcessInv

LEMMA RemoveUnreferencedKeeps ==
  ASSUME TypeOK, RepositoryInv, NEW p \in Procs, RemoveUnreferenced(p)
  PROVE  ProcessInv(p)' /\ FilesInv'
<1> DEFINE old == proc[p]
           r == proc'[p]
           Named == Described(indexes)
<1>1. /\ At(p, "repack") /\ indexes' = indexes /\ snapshots' = snapshots
  BY DEF RemoveUnreferenced
<1>2. FilesInv /\ ProcessInv(p)
  BY DEF RepositoryInv
<1>3. PICK pk \in old.removePacksFirst :
        /\ SameCommand(r, old)
        /\ r.removePacks = old.removePacks
        /\ r.ignorePacks = old.ignorePacks
        /\ r.repackPacks = old.repackPacks
        /\ r.unsaved = old.unsaved /\ r.missing = old.missing
        /\ r.loaded = old.loaded
        /\ r.removePacksFirst = old.removePacksFirst \ {pk}
        /\ \/ packs' = packs \ {pk} /\ r.failed = old.failed
           \/ packs' = packs /\ r.failed = TRUE
  BY RemoveUnreferencedEffect
<1>4. r.pc = "repack" /\ old.pc = "repack"
  BY <1>1, <1>3 DEF SameCommand, At
<1>5. /\ old.loaded = {ix.id : ix \in indexes}
      /\ old.unsaved \subseteq packs
      /\ old.ignorePacks \cup old.repackPacks \subseteq Named
      /\ old.removePacksFirst \cap (Named \cup old.unsaved) = {}
      /\ old.unsaved \cap (old.ignorePacks \cup old.repackPacks) = {}
      /\ old.missing \subseteq UsedBlobs
      /\ old.removePacks \subseteq old.ignorePacks
      /\ \A b \in UsedBlobs : b \in BlobsOf(Surviving(p)) \/ b \in old.missing
  BY <1>2, <1>4 DEF ProcessInv, PruneInv, At
<1>6. UsedBlobs' = UsedBlobs
  BY <1>1 DEF UsedBlobs
<1>7. Surviving(p)' = Surviving(p)
  BY <1>1, <1>3, <1>4 DEF Surviving, At
<1>8. Named \subseteq packs /\ UsedBlobs \subseteq BlobsOf(Named)
  BY <1>2, CompleteDef DEF FilesInv, IndexedPacksExist
<1>9. packs' \subseteq packs /\ packs \ {pk} \subseteq packs'
  BY <1>3
<1>10. Named \subseteq packs' /\ old.unsaved \subseteq packs'
  BY <1>3, <1>5, <1>8, <1>9
<1>11. FilesInv'
  <2>1. IndexedPacksExist' /\ IndexNames'
    BY <1>1, <1>2, <1>10 DEF IndexedPacksExist, FilesInv, IndexNames
  <2>2. QED
    BY <1>1, <1>6, <1>8, <2>1, CompletePrimeDef DEF FilesInv
<1>12. PruneInv(p)'
  <2>1. r.loaded = {ix.id : ix \in indexes'}
    BY <1>1, <1>3, <1>5
  <2>2. /\ r.unsaved \subseteq packs'
        /\ r.ignorePacks \cup r.repackPacks \subseteq Described(indexes')
        /\ r.removePacksFirst \cap (Described(indexes') \cup r.unsaved) = {}
        /\ r.unsaved \cap (r.ignorePacks \cup r.repackPacks) = {}
        /\ r.missing \subseteq UsedBlobs'
        /\ r.removePacks \subseteq r.ignorePacks
    BY <1>1, <1>3, <1>5, <1>6, <1>10
  <2>3. \A b \in UsedBlobs' : b \in BlobsOf(Surviving(p)') \/ b \in r.missing
    BY <1>3, <1>5, <1>6, <1>7
  <2>4. QED
    BY <1>4, <2>1, <2>2, <2>3 DEF PruneInv, At
<1>13. ReclaimInv(p)'
  <2> SUFFICES ASSUME r.failed = FALSE
               PROVE  /\ packs' \subseteq Surviving(p)' \cup r.removePacks
                            \cup (r.repackPacks \cup r.removePacksFirst)
                      /\ \A x \in Surviving(p)' : x.blobs \cap UsedBlobs' # {}
    BY <1>4 DEF ReclaimInv, At
  <2>1. packs' = packs \ {pk} /\ old.failed = FALSE
    BY <1>3
  <2>2. /\ packs \subseteq Surviving(p) \cup old.removePacks
                     \cup (old.repackPacks \cup old.removePacksFirst)
        /\ \A x \in Surviving(p) : x.blobs \cap UsedBlobs # {}
    BY <1>2, <1>4, <2>1 DEF ProcessInv, ReclaimInv, At
  <2>3. QED
    BY <1>3, <1>6, <1>7, <2>1, <2>2
<1>14. StartInv(p)' /\ RestoreInv(p)' /\ BackupInv(p)'
  BY <1>4 DEF StartInv, RestoreInv, BackupInv, At
<1>15. QED
  BY <1>11, <1>12, <1>13, <1>14 DEF ProcessInv

(* While the index is rewritten, what survives does not change.            *)
LEMMA RewriteIndexKeeps ==
  ASSUME TypeOK, RepositoryInv, NEW p \in Procs, RewriteIndex(p)
  PROVE  ProcessInv(p)' /\ FilesInv'
<1> DEFINE old == proc[p]
           r == proc'[p]
           Named == Described(indexes)
<1>1. UNCHANGED repo /\ At(p, "rewrite")
  BY DEF RewriteIndex
<1>2. packs' = packs /\ indexes' = indexes /\ snapshots' = snapshots
  BY <1>1 DEF repo
<1>3. FilesInv'
  BY <1>1, FilesUnchanged DEF RepositoryInv
<1>4. /\ old.pc = "rewrite" /\ old.loaded = {ix.id : ix \in indexes}
      /\ old.removePacks \subseteq old.ignorePacks
      /\ \A b \in UsedBlobs : b \in BlobsOf(Surviving(p))
  BY <1>1 DEF RepositoryInv, ProcessInv, PruneInv, At
<1>5. Named \subseteq packs /\ IndexNames
  BY DEF RepositoryInv, FilesInv, IndexedPacksExist
<1> PICK kept, obsolete \in SUBSET indexes : Rewritten(p, kept, obsolete)
  BY RewriteIndexEffect
<1>6. /\ \A ix \in kept : ix.packs \cap old.ignorePacks = {}
      /\ obsolete = IF old.ignorePacks = {} THEN {} ELSE indexes \ kept
      /\ r.pc = "remove"
      /\ r.ignorePacks = old.ignorePacks /\ r.removePacks = old.removePacks
      /\ r.failed = old.failed
      /\ r.obsolete = {ix.id : ix \in obsolete}
      /\ r.entries = Described(obsolete) \ (old.ignorePacks \cup Described(kept))
  <2>1. {ix \in indexes : ix.id \in old.loaded} = indexes
    BY <1>4
  <2> HIDE DEF old, r
  <2>2. QED
    BY <2>1 DEF Rewritten, old, r
<1>7. Kept(p)' = indexes \ obsolete
  <2>1. Kept(p)' = {ix \in indexes : ix.id \notin r.obsolete}
    BY <1>2 DEF Kept
  <2>2. \A ix \in indexes : ix.id \in r.obsolete <=> ix \in obsolete
    BY <1>5, <1>6 DEF IndexNames
  <2> HIDE DEF r
  <2>3. QED
    BY <2>1, <2>2
<1>8. /\ Surviving(p)' = Described(indexes \ obsolete) \cup r.entries
      /\ Surviving(p) = Named \ old.ignorePacks
  BY <1>4, <1>6, <1>7 DEF Surviving, At
<1>9. /\ Described(indexes \ obsolete) \cap old.ignorePacks = {}
      /\ Described(indexes \ obsolete) \cup r.entries = Named \ old.ignorePacks
      /\ r.entries \subseteq Named /\ r.entries \cap old.ignorePacks = {}
  <2>1. CASE old.ignorePacks = {}
    <3>1. obsolete = {} /\ indexes \ obsolete = indexes
      BY <1>6, <2>1
    <3>2. r.entries = {}
      BY <1>6, <3>1, DescribedNone
    <3>3. QED
      BY <2>1, <3>1, <3>2
  <2>2. CASE old.ignorePacks # {}
    <3>1. obsolete = indexes \ kept /\ indexes \ obsolete = kept
      BY <1>6, <2>2
    <3>2. Named = Described(kept) \cup Described(obsolete)
      <4>1. indexes = kept \cup obsolete
        BY <3>1
      <4>2. QED
        BY <4>1, DescribedUnion
    <3>3. Described(kept) \cap old.ignorePacks = {}
      BY <1>6 DEF Described
    <3> HIDE DEF Named, old, r
    <3>4. QED
      BY <1>6, <3>1, <3>2, <3>3
  <2>3. QED
    BY <2>1, <2>2
<1>10. Surviving(p)' = Surviving(p) /\ UsedBlobs' = UsedBlobs
  BY <1>2, <1>8, <1>9 DEF UsedBlobs
<1>11. PruneInv(p)'
  <2>1. /\ r.obsolete \subseteq {ix.id : ix \in indexes'}
        /\ r.entries \subseteq packs'
        /\ r.removePacks \subseteq r.ignorePacks
    BY <1>2, <1>4, <1>5, <1>6, <1>9
  <2>2. /\ Described(Kept(p)') \cap r.ignorePacks = {}
        /\ r.entries \cap r.ignorePacks = {}
    BY <1>6, <1>7, <1>9
  <2>3. \A b \in UsedBlobs' : b \in BlobsOf(Surviving(p)')
    BY <1>4, <1>10
  <2>4. QED
    BY <1>6, <2>1, <2>2, <2>3 DEF PruneInv, At
<1>12. ReclaimInv(p)'
  <2> SUFFICES ASSUME r.failed = FALSE
               PROVE  /\ packs' \subseteq Surviving(p)' \cup r.removePacks
                      /\ \A x \in Surviving(p)' : x.blobs \cap UsedBlobs' # {}
    BY <1>6 DEF ReclaimInv, At
  <2>1. /\ packs \subseteq Surviving(p) \cup old.removePacks
        /\ \A x \in Surviving(p) : x.blobs \cap UsedBlobs # {}
    BY <1>4, <1>6 DEF RepositoryInv, ProcessInv, ReclaimInv, At
  <2>2. QED
    BY <1>2, <1>6, <1>10, <2>1
<1>13. StartInv(p)' /\ RestoreInv(p)' /\ BackupInv(p)'
  BY <1>6 DEF StartInv, RestoreInv, BackupInv, At
<1>14. QED
  BY <1>3, <1>11, <1>12, <1>13 DEF ProcessInv

(* The part of the invariant about the last stage of prune, by what it     *)
(* says of the state after a step.                                         *)
LEMMA RemovingKeeps ==
  ASSUME TypeOK, RepositoryInv, NEW p \in Procs, At(p, "remove"),
         SameCommand(proc'[p], proc[p]),
         proc'[p].ignorePacks = proc[p].ignorePacks,
         proc'[p].removePacks \subseteq proc[p].removePacks,
         snapshots' = snapshots,
         proc'[p].obsolete \subseteq {ix.id : ix \in indexes'},
         proc'[p].entries \subseteq proc[p].entries,
         proc'[p].entries \subseteq packs',
         Surviving(p)' = Surviving(p),
         proc'[p].failed = FALSE =>
           /\ proc[p].failed = FALSE
           /\ packs' \cap proc[p].removePacks \subseteq proc'[p].removePacks
           /\ packs' \subseteq packs
  PROVE  ProcessInv(p)'
<1> DEFINE old == proc[p]
           r == proc'[p]
<1>1. r.pc = "remove" /\ old.pc = "remove"
  BY DEF SameCommand, At
<1>2. /\ UsedBlobs' = UsedBlobs
      /\ Surviving(p)' = Described(Kept(p)') \cup r.entries
      /\ Surviving(p) = Described(Kept(p)) \cup old.entries
  BY <1>1 DEF UsedBlobs, Surviving, At
<1>3. /\ Described(Kept(p)) \cap old.ignorePacks = {}
      /\ old.entries \cap old.ignorePacks = {}
      /\ old.removePacks \subseteq old.ignorePacks
      /\ \A b \in UsedBlobs : b \in BlobsOf(Surviving(p))
  BY <1>1 DEF RepositoryInv, ProcessInv, PruneInv, At
<1>4. PruneInv(p)'
  <2>1. /\ Described(Kept(p)') \cap r.ignorePacks = {}
        /\ r.entries \cap r.ignorePacks = {}
        /\ r.removePacks \subseteq r.ignorePacks
    BY <1>2, <1>3
  <2>2. \A b \in UsedBlobs' : b \in BlobsOf(Surviving(p)')
    BY <1>2, <1>3
  <2>3. QED
    BY <1>1, <2>1, <2>2 DEF PruneInv, At
<1>5. ReclaimInv(p)'
  <2> SUFFICES ASSUME r.failed = FALSE
               PROVE  /\ packs' \subseteq Surviving(p)' \cup r.removePacks
                      /\ \A x \in Surviving(p)' : x.blobs \cap UsedBlobs' # {}
    BY <1>1 DEF ReclaimInv, At
  <2>1. /\ packs \subseteq Surviving(p) \cup old.removePacks
        /\ \A x \in Surviving(p) : x.blobs \cap UsedBlobs # {}
    BY <1>1 DEF RepositoryInv, ProcessInv, ReclaimInv, At
  <2>2. QED
    BY <1>2, <2>1
<1>6. StartInv(p)' /\ RestoreInv(p)' /\ BackupInv(p)'
  BY <1>1 DEF StartInv, RestoreInv, BackupInv, At
<1>7. QED
  BY <1>4, <1>5, <1>6 DEF ProcessInv

LEMMA SaveRewrittenKeeps ==
  ASSUME TypeOK, RepositoryInv, NEW p \in Procs, SaveRewritten(p)
  PROVE  ProcessInv(p)' /\ FilesInv'
<1> DEFINE old == proc[p]
           r == proc'[p]
           Named == Described(indexes)
           Named2 == Described(indexes')
<1>1. At(p, "remove") /\ packs' = packs /\ snapshots' = snapshots
  BY DEF SaveRewritten
<1>2. FilesInv /\ ProcessInv(p)
  BY DEF RepositoryInv
<1>3. PICK ix \in Indexes :
        /\ ix.packs \subseteq old.entries
        /\ \A jx \in indexes : jx.id # ix.id
        /\ indexes' = indexes \cup {ix}
        /\ SameCommand(r, old) /\ SamePlan(r, old)
        /\ r.obsolete = old.obsolete
        /\ r.entries = old.entries \ ix.packs
  BY SaveRewrittenEffect
<1>4. /\ IndexNames' /\ Named2 = Named \cup ix.packs
      /\ {jx.id : jx \in indexes'} = {jx.id : jx \in indexes} \cup {ix.id}
  BY <1>2, <1>3, IndexAdded DEF FilesInv
<1>5. /\ old.obsolete \subseteq {jx.id : jx \in indexes}
      /\ old.entries \subseteq packs
  BY <1>1, <1>2 DEF ProcessInv, PruneInv, At
<1>6. Named \subseteq packs /\ UsedBlobs \subseteq BlobsOf(Named)
  BY <1>2, CompleteDef DEF FilesInv, IndexedPacksExist
<1>7. FilesInv'
  <2>1. IndexedPacksExist'
    BY <1>1, <1>3, <1>4, <1>5, <1>6 DEF IndexedPacksExist
  <2>2. BlobsOf(Named) \subseteq BlobsOf(Named2) /\ UsedBlobs' = UsedBlobs
    BY <1>1, <1>4, BlobsOfMonotone DEF UsedBlobs
  <2>3. QED
    BY <1>4, <1>6, <2>1, <2>2, CompletePrimeDef DEF FilesInv
<1>8. Kept(p)' = Kept(p) \cup {ix}
  <2>1. ix.id \notin old.obsolete
    BY <1>3, <1>5
  <2>2. QED
    BY <1>3, <2>1 DEF Kept
<1>9. Surviving(p)' = Surviving(p)
  <2>1. Described(Kept(p)') = Described(Kept(p)) \cup ix.packs
    <3>1. Described(Kept(p) \cup {ix}) = Described(Kept(p)) \cup Described({ix})
      BY DescribedUnion
    <3>2. QED
      BY <1>8, <3>1, DescribedOne
  <2>2. /\ Surviving(p)' = Described(Kept(p)') \cup r.entries
        /\ Surviving(p) = Described(Kept(p)) \cup old.entries
    BY <1>1, <1>3 DEF SameCommand, Surviving, At
  <2>3. QED
    BY <1>3, <2>1, <2>2
<1>10. /\ r.ignorePacks = old.ignorePacks /\ r.removePacks = old.removePacks
       /\ r.failed = old.failed
  BY <1>3 DEF SamePlan
<1>11. /\ r.obsolete \subseteq {jx.id : jx \in indexes'}
       /\ r.entries \subseteq old.entries /\ r.entries \subseteq packs'
  BY <1>1, <1>3, <1>4, <1>5
<1>12. ProcessInv(p)'
  BY <1>1, <1>3, <1>9, <1>10, <1>11, RemovingKeeps
<1>13. QED
  BY <1>7, <1>12

LEMMA RemoveIndexKeeps ==
  ASSUME TypeOK, RepositoryInv, NEW p \in Procs, RemoveIndex(p)
  PROVE  ProcessInv(p)' /\ FilesInv'
<1> DEFINE old == proc[p]
           r == proc'[p]
           Named == Described(indexes)
           Named2 == Described(indexes')
<1>1. /\ At(p, "remove") /\ old.entries = {}
      /\ packs' = packs /\ snapshots' = snapshots
  BY DEF RemoveIndex
<1>2. FilesInv /\ ProcessInv(p)
  BY DEF RepositoryInv
<1>3. PICK id \in old.obsolete :
        /\ indexes' = {ix \in indexes : ix.id # id}
        /\ SameCommand(r, old) /\ SamePlan(r, old)
        /\ r.entries = old.entries
        /\ r.obsolete = old.obsolete \ {id}
  BY RemoveIndexEffect
<1>4. old.obsolete \subseteq {ix.id : ix \in indexes}
  BY <1>1, <1>2 DEF ProcessInv, PruneInv, At
<1>5. Kept(p)' = Kept(p)
  BY <1>3 DEF Kept
<1>6. /\ Surviving(p)' = Surviving(p)
      /\ Surviving(p) = Described(Kept(p))
  BY <1>1, <1>3, <1>5 DEF SameCommand, Surviving, At
<1>7. FilesInv'
  <2>1. indexes' \subseteq indexes /\ Kept(p) \subseteq indexes'
    BY <1>3 DEF Kept
  <2>2. IndexNames'
    BY <1>2, <2>1 DEF FilesInv, IndexNames
  <2>3. IndexedPacksExist'
    BY <1>1, <1>2, <2>1, DescribedMonotone DEF FilesInv, IndexedPacksExist
  <2>4. BlobsOf(Described(Kept(p))) \subseteq BlobsOf(Named2)
    BY <2>1, DescribedMonotone, BlobsOfMonotone
  <2>5. UsedBlobs' \subseteq BlobsOf(Named2)
    BY <1>1, <1>2, <1>6, <2>4 DEF ProcessInv, PruneInv, At, UsedBlobs
  <2>6. QED
    BY <2>2, <2>3, <2>5, CompletePrimeDef DEF FilesInv
<1>8. /\ r.ignorePacks = old.ignorePacks /\ r.removePacks = old.removePacks
      /\ r.failed = old.failed
  BY <1>3 DEF SamePlan
<1>9. /\ r.obsolete \subseteq {ix.id : ix \in indexes'}
      /\ r.entries \subseteq old.entries /\ r.entries \subseteq packs'
  BY <1>1, <1>3, <1>4
<1>10. ProcessInv(p)'
  BY <1>1, <1>3, <1>6, <1>8, <1>9, RemovingKeeps
<1>11. QED
  BY <1>7, <1>10

LEMMA RemovePackKeeps ==
  ASSUME TypeOK, RepositoryInv, NEW p \in Procs, RemovePack(p)
  PROVE  ProcessInv(p)' /\ FilesInv'
<1> DEFINE old == proc[p]
           r == proc'[p]
           Named == Described(indexes)
<1>1. /\ At(p, "remove") /\ old.entries = {} /\ old.obsolete = {}
      /\ indexes' = indexes /\ snapshots' = snapshots
  BY DEF RemovePack, Unindexed
<1>2. FilesInv /\ ProcessInv(p)
  BY DEF RepositoryInv
<1>3. PICK pk \in old.removePacks :
        /\ SameCommand(r, old)
        /\ r.ignorePacks = old.ignorePacks
        /\ r.entries = old.entries /\ r.obsolete = old.obsolete
        /\ r.removePacks = old.removePacks \ {pk}
        /\ \/ packs' = packs \ {pk} /\ r.failed = old.failed
           \/ packs' = packs /\ r.failed = TRUE
  BY RemovePackEffect
<1>4. Kept(p) = indexes /\ Kept(p)' = indexes
  BY <1>1, <1>3 DEF Kept
<1>5. Surviving(p)' = Surviving(p)
  BY <1>1, <1>3, <1>4 DEF SameCommand, Surviving, At
<1>6. pk \notin Named
  BY <1>1, <1>2, <1>4 DEF ProcessInv, PruneInv, At
<1>7. FilesInv'
  <2>1. IndexedPacksExist' /\ IndexNames'
    BY <1>1, <1>2, <1>3, <1>6 DEF FilesInv, IndexedPacksExist, IndexNames
  <2>2. UsedBlobs' = UsedBlobs /\ UsedBlobs \subseteq BlobsOf(Named)
    BY <1>1, <1>2, CompleteDef DEF FilesInv, UsedBlobs
  <2>3. QED
    BY <1>1, <2>1, <2>2, CompletePrimeDef DEF FilesInv
<1>8. /\ r.obsolete \subseteq {ix.id : ix \in indexes'}
      /\ r.entries \subseteq old.entries /\ r.entries \subseteq packs'
      /\ r.removePacks \subseteq old.removePacks
  BY <1>1, <1>3
<1>9. r.failed = FALSE =>
        /\ old.failed = FALSE
        /\ packs' \cap old.removePacks \subseteq r.removePacks
        /\ packs' \subseteq packs
  BY <1>3
<1>10. ProcessInv(p)'
  <2> HIDE DEF old, r
  <2>1. QED
    BY <1>1, <1>3, <1>5, <1>8, <1>9, RemovingKeeps DEF old, r
<1>11. QED
  BY <1>7, <1>10

-----------------------------------------------------------------------------
LEMMA RepositoryStep ==
  ASSUME TypeOK, RepositoryInv, NEW p \in Procs, Step(p)
  PROVE  RepositoryInv'
<1> DEFINE Goal == ProcessInv(p)' /\ FilesInv'
<1>1. Abort(p) \/ RestoreTo(p) \/ ForgetDone(p) \/ PruneDone(p) => Goal
  BY ReturnKeeps DEF Abort, RestoreTo, ForgetDone, PruneDone
<1>2. Goal
  <2> HIDE DEF Goal
  <2>1. ASSUME NEW cmd \in Commands, NEW target \in SUBSET Blobs,
               Open(p, cmd, target)
        PROVE  Goal
    BY <2>1, OpenKeeps DEF Goal
  <2>2. ASSUME NEW blobs \in SUBSET Blobs, SavesPack(p, blobs)
        PROVE  Goal
    BY <2>2, SavePackKeeps DEF Goal
  <2>3. LoadIndex(p) \/ Flush(p) \/ SaveSnapshot(p) \/ RemoveSnapshot(p) => Goal
    BY LoadIndexKeeps, FlushKeeps, SaveSnapshotKeeps, RemoveSnapshotKeeps DEF Goal
  <2>4. PlanPrune(p) \/ RemoveUnreferenced(p) \/ RewriteIndex(p) => Goal
    BY PlanPruneKeeps, RemoveUnreferencedKeeps, RewriteIndexKeeps DEF Goal
  <2>5. SaveRewritten(p) \/ RemoveIndex(p) \/ RemovePack(p) => Goal
    BY SaveRewrittenKeeps, RemoveIndexKeeps, RemovePackKeeps DEF Goal
  <2>6. QED
    BY <1>1, <2>1, <2>2, <2>3, <2>4, <2>5 DEF Step
<1>3. \A q \in Procs : ProcessInv(q)'
  BY <1>2, OthersUndisturbed
<1>4. QED
  BY <1>2, <1>3, LockStep DEF RepositoryInv

(* The invariant holds of every behaviour.                                 *)
THEOREM RepositoryInvariant == Spec => []RepositoryInv
<1>1. Init => RepositoryInv
  <2> SUFFICES ASSUME Init PROVE RepositoryInv
    OBVIOUS
  <2>1. LockInv
    BY DEF Init, Lock!Init, LockInv, At, Idle
  <2>2. FilesInv
    BY DEF Init, FilesInv, IndexNames, IndexedPacksExist, SnapshotsComplete,
       Described, UsedBlobs
  <2>3. ASSUME NEW p \in Procs
        PROVE  ProcessInv(p)
    <3>1. proc[p].pc = "idle"
      BY DEF Init, Idle
    <3>2. QED
      BY <3>1 DEF ProcessInv, StartInv, BackupInv, RestoreInv, PruneInv,
         ReclaimInv, At
  <2>4. QED
    BY <2>1, <2>2, <2>3 DEF RepositoryInv
<1>2. TypeOK /\ RepositoryInv /\ [Next]_vars => RepositoryInv'
  <2>1. TypeOK /\ RepositoryInv /\ Next => RepositoryInv'
    BY NextIsStep, RepositoryStep
  <2>2. RepositoryInv /\ UNCHANGED vars => RepositoryInv'
    <3> SUFFICES ASSUME RepositoryInv, UNCHANGED vars PROVE RepositoryInv'
      OBVIOUS
    <3>1. /\ packs' = packs /\ indexes' = indexes /\ snapshots' = snapshots
          /\ held' = held /\ proc' = proc
      BY DEF vars
    <3>2. LockInv'
      BY <3>1 DEF RepositoryInv, LockInv, At
    <3>3. FilesInv'
      BY <3>1, FilesUnchanged DEF RepositoryInv, repo
    <3>4. ASSUME NEW p \in Procs
          PROVE  ProcessInv(p)'
      <4>1. ProcessInv(p)
        BY DEF RepositoryInv
      <4>2. StartInv(p)' /\ BackupInv(p)' /\ RestoreInv(p)'
        BY <3>1, <4>1 DEF ProcessInv, StartInv, BackupInv, RestoreInv, At, UsedBlobs
      <4>3. Surviving(p)' = Surviving(p) /\ Kept(p)' = Kept(p)
        BY <3>1 DEF Surviving, Kept, At
      <4>4. PruneInv(p)' /\ ReclaimInv(p)'
        BY <3>1, <4>1, <4>3 DEF ProcessInv, PruneInv, ReclaimInv, At, UsedBlobs
      <4>5. QED
        BY <4>2, <4>4 DEF ProcessInv
    <3>5. QED
      BY <3>2, <3>3, <3>4 DEF RepositoryInv
  <2>3. QED
    BY <2>1, <2>2
<1>3. QED
  BY <1>1, <1>2, TypeCorrect, PTL DEF Spec

(* No behaviour of backup, restore, forget and prune, however they overlap *)
(* and wherever they stop, leaves a snapshot without one of its blobs.     *)
THEOREM SnapshotsStayComplete == Spec => []SnapshotsComplete
<1>1. RepositoryInv => SnapshotsComplete
  BY DEF RepositoryInv, FilesInv
<1>2. QED
  BY <1>1, RepositoryInvariant, PTL

(* No index file ever names a missing pack.                                *)
THEOREM IndexStaysSound == Spec => []IndexedPacksExist
<1>1. RepositoryInv => IndexedPacksExist
  BY DEF RepositoryInv, FilesInv
<1>2. QED
  BY <1>1, RepositoryInvariant, PTL

(* A restore always finds what it has to read.                             *)
THEOREM RestoreNeverFails == Spec => []RestoreFindsBlobs
<1>1. RepositoryInv => RestoreFindsBlobs
  <2> SUFFICES ASSUME RepositoryInv, NEW p \in Procs, At(p, "reading")
               PROVE  proc[p].target \subseteq BlobsOf(proc[p].index \cap packs)
    BY DEF RestoreFindsBlobs
  <2>1. /\ proc[p].index \subseteq packs
        /\ proc[p].target \subseteq BlobsOf(proc[p].index)
    BY DEF RepositoryInv, ProcessInv, RestoreInv
  <2>2. proc[p].index \cap packs = proc[p].index
    BY <2>1
  <2>3. QED
    BY <2>1, <2>2
<1>2. QED
  BY <1>1, RepositoryInvariant, PTL

(* A prune that ends normally, with all its deletions done, leaves exactly *)
(* the indexed packs, and each of them holds a used blob.                  *)
THEOREM PruneReclaimsAll == Spec => PruneReclaims
<1>1. ASSUME RepositoryInv, NEW p \in Procs, PruneDone(p), ~proc[p].failed
      PROVE  /\ \A pk \in packs' : pk.blobs \cap UsedBlobs' # {}
             /\ packs' = Described(indexes')
  <2>1. /\ At(p, "remove") /\ proc[p].entries = {} /\ proc[p].obsolete = {}
        /\ proc[p].removePacks = {}
        /\ packs' = packs /\ indexes' = indexes /\ snapshots' = snapshots
    BY <1>1 DEF PruneDone, Unindexed, repo
  <2>2. proc[p].failed = FALSE
    BY <1>1
  <2>3. Surviving(p) = Described(indexes)
    <3>1. Kept(p) = indexes
      BY <2>1 DEF Kept
    <3>2. QED
      BY <2>1, <3>1 DEF Surviving, At
  <2>4. ProcessInv(p) /\ FilesInv
    BY <1>1 DEF RepositoryInv
  <2>5. /\ packs \subseteq Described(indexes)
        /\ \A pk \in Described(indexes) : pk.blobs \cap UsedBlobs # {}
    BY <2>1, <2>2, <2>3, <2>4 DEF ProcessInv, ReclaimInv, At
  <2>6. QED
    BY <2>1, <2>4, <2>5 DEF FilesInv, IndexedPacksExist, UsedBlobs
<1> DEFINE Reclaimed ==
      \A p \in Procs : PruneDone(p) /\ ~proc[p].failed =>
        /\ \A pk \in packs' : pk.blobs \cap UsedBlobs' # {}
        /\ packs' = Described(indexes')
<1>2. RepositoryInv => [Reclaimed]_vars
  BY <1>1
<1>3. QED
  BY <1>2, RepositoryInvariant, PTL DEF PruneReclaims

=============================================================================
