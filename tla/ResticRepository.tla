-------------------------- MODULE ResticRepository --------------------------
(***************************************************************************)
(* What the commands the restic mover runs (entry.sh: backup, restore,     *)
(* forget, prune) do to the files of a repository: packs of blobs, index   *)
(* files that name the blobs of packs, and snapshots.  No file is changed  *)
(* once written; they are created, listed and deleted one at a time, and a *)
(* command may stop after each of these steps.  The repository lock is the *)
(* abstract one, RepositoryLock, which ResticLock implements.              *)
(*                                                                         *)
(* A snapshot is the set of blobs its trees reach.  File sizes, which      *)
(* decide when a pack or an index is full and which packs are worth        *)
(* repacking, are left out: those decisions are free choices.  So are the  *)
(* options the mover never passes (--dry-run, --unsafe-recover-no-free-    *)
(* space, forget --prune).                                                 *)
(***************************************************************************)
CONSTANTS
  Procs,       \* restic processes
  Blobs,
  PackIds, IndexIds   \* bounds on the files: with no name left, saving fails

VARIABLES
  packs,       \* the pack files, with the blobs their headers list
  indexes,     \* the index files, with the packs they describe
  snapshots,   \* the snapshot files
  held,        \* the locks, see RepositoryLock
  proc         \* the memory of each process

vars == <<packs, indexes, snapshots, held, proc>>
repo == <<packs, indexes, snapshots>>

Lock == INSTANCE RepositoryLock

Packs == [id : PackIds, blobs : SUBSET Blobs]
Indexes == [id : IndexIds, packs : SUBSET Packs]

Points == {"idle", "load", "saving", "snapshot", "reading", "forget", "plan",
           "repack", "rewrite", "remove"}
Commands == {"backup", "restore", "forget", "prune"}

Process ==
  [pc : Points, cmd : Commands,
   target : SUBSET Blobs,      \* the snapshot being written or read
   index : SUBSET Packs,       \* the index as loaded, while it is needed
   loaded : SUBSET IndexIds,   \* the index files it comes from
   unsaved : SUBSET Packs,     \* new packs that are in no index file yet
   missing : SUBSET Blobs,     \* blobs still to be saved (keepBlobs)
   removePacksFirst : SUBSET Packs, repackPacks : SUBSET Packs,
   removePacks : SUBSET Packs, ignorePacks : SUBSET Packs,
   entries : SUBSET Packs,     \* to be written to new index files
   obsolete : SUBSET IndexIds, \* index files to be deleted then
   failed : BOOLEAN]           \* some deletion failed and was passed over

Idle ==
  [pc |-> "idle", cmd |-> "backup", target |-> {}, index |-> {},
   loaded |-> {}, unsaved |-> {}, missing |-> {}, removePacksFirst |-> {},
   repackPacks |-> {}, removePacks |-> {}, ignorePacks |-> {},
   entries |-> {}, obsolete |-> {}, failed |-> FALSE]

(* The type invariant. *)
TypeOK ==
  /\ packs \subseteq Packs /\ indexes \subseteq Indexes
  /\ snapshots \subseteq SUBSET Blobs
  /\ held \in [Procs -> {"none", "shared", "exclusive"}]
  /\ proc \in [Procs -> Process]

-----------------------------------------------------------------------------
(* Names are hashes: a new file never has a name that is still known.      *)

BlobsOf(S) == UNION {pk.blobs : pk \in S}
Described(S) == UNION {ix.packs : ix \in S}

KnownPacks == packs \cup Described(indexes)
                \cup UNION {proc[p].index : p \in Procs}
FreshPackIds == PackIds \ {pk.id : pk \in KnownPacks}
FreshIndexIds == IndexIds \ {ix.id : ix \in indexes}

newPack(blobs) == [id |-> CHOOSE id \in FreshPackIds : TRUE, blobs |-> blobs]
newIndex(S) == [id |-> CHOOSE id \in FreshIndexIds : TRUE, packs |-> S]

UsedBlobs == UNION snapshots

At(p, point) == proc[p].pc = point

Set(p, state) == proc' = [proc EXCEPT ![p] = state]

\* the command returns and its deferred unlock runs
Return(p) == Lock!Release({p}) /\ Set(p, Idle)

-----------------------------------------------------------------------------
(* All commands.                                                           *)

\* Mutant: only forget locks the repository for itself.
OpenPruneShared(p, cmd, target) ==
  /\ At(p, "idle")
  /\ cmd = "backup" => target # {}
  /\ cmd = "restore" => target \in snapshots
  /\ cmd \in {"forget", "prune"} => target = {}
  /\ Lock!Acquire(p, IF cmd = "forget" THEN "exclusive" ELSE "shared")
  /\ Set(p, [Idle EXCEPT !.cmd = cmd, !.target = target,
                         !.pc = IF cmd = "forget" THEN cmd ELSE "load"])
  /\ UNCHANGED repo

\* backup and restore take a shared lock, forget and prune the exclusive one.
\* restore looks its snapshot up before it loads the index.
Open(p, cmd, target) ==
  /\ At(p, "idle")
  /\ cmd = "backup" => target # {}    \* at least the root tree
  /\ cmd = "restore" => target \in snapshots
  /\ cmd \in {"forget", "prune"} => target = {}
  /\ Lock!Acquire(p, IF cmd \in {"backup", "restore"} THEN "shared"
                     ELSE "exclusive")
  /\ Set(p, [Idle EXCEPT !.cmd = cmd, !.target = target,
                         !.pc = IF cmd = "forget" THEN cmd ELSE "load"])
  /\ UNCHANGED repo

\* Mutant: the files are remembered instead of the packs they describe.
LoadIndexFiles(p) ==
  /\ At(p, "load")
  /\ LET index == Described(indexes)
     IN Set(p, IF proc[p].cmd = "backup"
               THEN [proc[p] EXCEPT
                       !.pc = "saving",
                       !.missing = proc[p].target \ BlobsOf(index)]
               ELSE [proc[p] EXCEPT
                       !.pc = IF proc[p].cmd = "restore" THEN "reading"
                              ELSE "plan",
                       !.index = indexes,
                       !.loaded = {ix.id : ix \in indexes}])
  /\ UNCHANGED <<repo, held>>

\* a backup needs the index only to leave out the blobs it names
LoadIndex(p) ==
  /\ At(p, "load")
  /\ LET index == Described(indexes)
     IN Set(p, IF proc[p].cmd = "backup"
               THEN [proc[p] EXCEPT
                       !.pc = "saving",
                       !.missing = proc[p].target \ BlobsOf(index)]
               ELSE [proc[p] EXCEPT
                       !.pc = IF proc[p].cmd = "restore" THEN "reading"
                              ELSE "plan",
                       !.index = index,
                       !.loaded = {ix.id : ix \in indexes}])
  /\ UNCHANGED <<repo, held>>

\* an error, a crash, a full storage, or the lock has been lost
Abort(p) ==
  /\ ~At(p, "idle")
  /\ Return(p)
  /\ UNCHANGED repo

-----------------------------------------------------------------------------
(* Saving blobs, for backup and for repacking.                             *)

Saving(p) ==
  \/ At(p, "saving")
  \/ At(p, "repack") /\ proc[p].removePacksFirst = {}

\* savePacker: the pack is written, then the index learns of its blobs; if
\* that fills the index (`full`), it is written too.  With the last pack this
\* makes no difference: Flush writes the index then.
SavePack(p, blobs, full) ==
  /\ Saving(p)
  /\ blobs # {} /\ blobs \subseteq proc[p].missing
  /\ full => blobs # proc[p].missing /\ FreshIndexIds # {}
  /\ FreshPackIds # {}
  /\ LET pk == newPack(blobs)
         unsaved == proc[p].unsaved \cup {pk}
     IN /\ packs' = packs \cup {pk}
        /\ indexes' = indexes \cup (IF full THEN {newIndex(unsaved)} ELSE {})
        /\ Set(p, [proc[p] EXCEPT
                     !.missing = @ \ blobs,
                     !.unsaved = IF full THEN {} ELSE unsaved,
                     !.loaded = IF full THEN @ \cup {newIndex(unsaved).id}
                                ELSE @])
  /\ UNCHANGED <<snapshots, held>>

\* Mutant: what is still in the packers is not waited for.
FlushIndexOnly(p) ==
  /\ Saving(p)
  /\ proc[p].unsaved # {} => FreshIndexIds # {}
  /\ indexes' = indexes \cup (IF proc[p].unsaved = {} THEN {}
                              ELSE {newIndex(proc[p].unsaved)})
  /\ Set(p, [proc[p] EXCEPT
               !.unsaved = {},
               !.pc = IF At(p, "saving") THEN "snapshot" ELSE "rewrite"])
  /\ UNCHANGED <<packs, snapshots, held>>

\* Mutant: the packs that were repacked are not added to those to remove.
FlushKeepsRepacked(p) ==
  /\ Saving(p)
  /\ proc[p].missing = {}
  /\ proc[p].unsaved # {} => FreshIndexIds # {}
  /\ LET written == IF proc[p].unsaved = {} THEN {}
                    ELSE {newIndex(proc[p].unsaved)}
     IN /\ indexes' = indexes \cup written
        /\ Set(p, [proc[p] EXCEPT
                     !.unsaved = {},
                     !.loaded = @ \cup {ix.id : ix \in written},
                     !.pc = IF At(p, "saving") THEN "snapshot"
                            ELSE "rewrite",
                     !.ignorePacks = @ \cup proc[p].repackPacks])
  /\ UNCHANGED <<packs, snapshots, held>>

\* Flush: nothing is left in the packers, the rest of the index is written.
\* Then the packs that were repacked, if any, are no longer needed.
Flush(p) ==
  /\ Saving(p)
  /\ proc[p].missing = {}
  /\ proc[p].unsaved # {} => FreshIndexIds # {}
  /\ LET written == IF proc[p].unsaved = {} THEN {}
                    ELSE {newIndex(proc[p].unsaved)}
         flushed == [proc[p] EXCEPT
                       !.unsaved = {},
                       !.loaded = @ \cup {ix.id : ix \in written}]
     IN /\ indexes' = indexes \cup written
        /\ Set(p, IF At(p, "saving")
                  THEN [flushed EXCEPT !.pc = "snapshot"]
                  ELSE [flushed EXCEPT
                          !.pc = "rewrite", !.repackPacks = {},
                          !.removePacks = @ \cup proc[p].repackPacks,
                          !.ignorePacks = @ \cup proc[p].repackPacks])
  /\ UNCHANGED <<packs, snapshots, held>>

SaveSnapshot(p) ==
  /\ At(p, "snapshot")
  /\ snapshots' = snapshots \cup {proc[p].target}
  /\ Return(p)
  /\ UNCHANGED <<packs, indexes>>

RestoreTo(p) ==
  /\ At(p, "reading")
  /\ Return(p)
  /\ UNCHANGED repo

\* forget deletes snapshots one by one, but never all of them
RemoveSnapshot(p) ==
  /\ At(p, "forget")
  /\ \E sn \in snapshots :
       /\ snapshots # {sn}
       /\ snapshots' = snapshots \ {sn}
  /\ UNCHANGED <<packs, indexes, held, proc>>

ForgetDone(p) ==
  /\ At(p, "forget")
  /\ Return(p)
  /\ UNCHANGED repo

-----------------------------------------------------------------------------
(* prune.                                                                  *)

\* packInfoFromIndex: of each used blob one copy counts as used.  Among
\* several, one is preferred that shares its pack with a used blob of which
\* there is no other copy, or that lies in a pack of used duplicates only.
Copies(index, b) == {pk \in index : b \in pk.blobs}
Single(index) ==
  {b \in UsedBlobs : \E pk \in index : Copies(index, b) = {pk}}
Preferred(index) ==
  {pk \in index : \/ pk.blobs \cap Single(index) # {}
                  \/ pk.blobs \subseteq UsedBlobs \ Single(index)}
Selections(index) ==
  {chosen \in [UsedBlobs -> index] :
     \A b \in UsedBlobs :
       /\ chosen[b] \in Copies(index, b)
       /\ Copies(index, b) \cap Preferred(index) # {} =>
            \/ chosen[b] \in Preferred(index)
            \/ \E c \in UsedBlobs \ {b} : chosen[c] = chosen[b]}

\* of the packs with a used blob, those that are to be repacked: a matter
\* of their sizes and of how much of them is used
Repackable(used) == SUBSET used

\* packs outside the index go first; packs without a used blob are removed,
\* or just forgotten if they are missing anyway
decidePackAction(state, used, repackPacks) ==
  [state EXCEPT !.removePacksFirst = packs \ state.index,
                !.removePacks = (state.index \ used) \cap packs,
                !.ignorePacks = state.index \ used,
                !.repackPacks = repackPacks]

\* what repacking has to save: used blobs that no other pack contains
keepBlobs(plan) ==
  IF plan.repackPacks = {} THEN {}
  ELSE UsedBlobs \
         BlobsOf(plan.index \ (plan.removePacks \cup plan.repackPacks))

\* Without a copy of every used blob in the index, or without the pack of
\* one that was selected, prune refuses.
PlanPrune(p) ==
  /\ At(p, "plan")
  /\ \E chosen \in Selections(proc[p].index) :
       LET used == {chosen[b] : b \in UsedBlobs}
       IN /\ used \subseteq packs
          /\ \E repackPacks \in Repackable(used) :
               LET plan == decidePackAction(proc[p], used, repackPacks)
               IN Set(p, [plan EXCEPT !.pc = "repack", !.index = {},
                                      !.missing = keepBlobs(plan)])
  /\ UNCHANGED <<repo, held>>

\* deleteFiles with ignoreError: a file that cannot be deleted stays
DeletePack(p, pk, rest) ==
  \/ /\ packs' = packs \ {pk}
     /\ Set(p, rest)
  \/ /\ Set(p, [rest EXCEPT !.failed = TRUE])
     /\ UNCHANGED packs

RemoveUnreferenced(p) ==
  /\ At(p, "repack")
  /\ \E pk \in proc[p].removePacksFirst :
       DeletePack(p, pk, [proc[p] EXCEPT !.removePacksFirst = @ \ {pk}])
  /\ UNCHANGED <<indexes, snapshots, held>>

\* MasterIndex.Rewrite.  A full index file with none of the packs to be
\* ignored, and none that another one also has, is left as it is (`kept`).
\* What else is known is written to new files, then the old ones go.
RewriteIndex(p) ==
  /\ At(p, "rewrite")
  /\ LET old == {ix \in indexes : ix.id \in proc[p].loaded}
     IN \E kept \in SUBSET {ix \in old :
                             ix.packs \cap proc[p].ignorePacks = {}} :
          /\ \A ix, jx \in kept : ix # jx => ix.packs \cap jx.packs = {}
          /\ proc[p].ignorePacks = {} => kept = {}
          /\ LET obsolete == IF proc[p].ignorePacks = {} THEN {}
                             ELSE old \ kept
             IN Set(p, [proc[p] EXCEPT
                  !.pc = "remove",
                  !.obsolete = {ix.id : ix \in obsolete},
                  !.entries = Described(obsolete) \
                                (proc[p].ignorePacks \cup Described(kept))])
  /\ UNCHANGED <<repo, held>>

SaveRewritten(p) ==
  /\ At(p, "remove")
  /\ FreshIndexIds # {}
  /\ \E S \in SUBSET proc[p].entries \ {{}} :
       /\ indexes' = indexes \cup {newIndex(S)}
       /\ Set(p, [proc[p] EXCEPT !.entries = @ \ S])
  /\ UNCHANGED <<packs, snapshots, held>>

\* if this fails, prune ends before it deletes any pack
RemoveIndex(p) ==
  /\ At(p, "remove") /\ proc[p].entries = {}
  /\ \E id \in proc[p].obsolete :
       /\ indexes' = {ix \in indexes : ix.id # id}
       /\ Set(p, [proc[p] EXCEPT !.obsolete = @ \ {id}])
  /\ UNCHANGED <<packs, snapshots, held>>

\* Mutant: packs are deleted before the index files that name them.
UnindexedOrNot(p) == At(p, "remove")

Unindexed(p) ==
  At(p, "remove") /\ proc[p].entries = {} /\ proc[p].obsolete = {}

RemovePack(p) ==
  /\ Unindexed(p)
  /\ \E pk \in proc[p].removePacks :
       DeletePack(p, pk, [proc[p] EXCEPT !.removePacks = @ \ {pk}])
  /\ UNCHANGED <<indexes, snapshots, held>>

PruneDone(p) ==
  /\ Unindexed(p) /\ proc[p].removePacks = {}
  /\ Return(p)
  /\ UNCHANGED repo

-----------------------------------------------------------------------------
Init ==
  /\ packs = {} /\ indexes = {} /\ snapshots = {}
  /\ Lock!Init
  /\ proc = [p \in Procs |-> Idle]

Next ==
  \E p \in Procs :
    \/ \E cmd \in Commands, target \in SUBSET Blobs : Open(p, cmd, target)
    \/ LoadIndex(p) \/ Abort(p)
    \/ \E blobs \in SUBSET Blobs, full \in BOOLEAN :
         SavePack(p, blobs, full)
    \/ Flush(p) \/ SaveSnapshot(p) \/ RestoreTo(p)
    \/ RemoveSnapshot(p) \/ ForgetDone(p)
    \/ PlanPrune(p) \/ RemoveUnreferenced(p) \/ RewriteIndex(p)
    \/ SaveRewritten(p) \/ RemoveIndex(p) \/ RemovePack(p) \/ PruneDone(p)

Spec == Init /\ [][Next]_vars

-----------------------------------------------------------------------------
\* a copy of blob b can be found through the index
Available(b) ==
  \E pk \in Described(indexes) \cap packs : b \in pk.blobs

(* Every blob of every snapshot can be found, at every moment: whatever    *)
(* commands run together, and wherever prune stops between writing new     *)
(* packs and indexes and deleting the old ones.                            *)
SnapshotsComplete == \A b \in UsedBlobs : Available(b)

(* A restore that has loaded the index finds in it an existing pack for    *)
(* every blob it has to read, until it is done.                            *)
RestoreFindsBlobs ==
  \A p \in Procs : At(p, "reading") =>
    proc[p].target \subseteq BlobsOf(proc[p].index \cap packs)

(* No index file names a pack that does not exist, so that a backup which  *)
(* finds a blob in its index may leave it out.                             *)
IndexedPacksExist == Described(indexes) \subseteq packs

(* A prune that ends normally, all its deletions done, has left no pack    *)
(* without a used blob, and no pack outside the index.                     *)
PruneReclaims ==
  [][\A p \in Procs : PruneDone(p) /\ ~proc[p].failed =>
       /\ \A pk \in packs' : pk.blobs \cap UsedBlobs' # {}
       /\ packs' = Described(indexes')]_vars

(* No step of restic loses the last copy of a blob that a snapshot uses:   *)
(* what could be restored before it can be restored after it.              *)
NoStepLosesData ==
  [][proc' # proc => \A b \in UsedBlobs' : Available(b) => Available(b)']_vars

-----------------------------------------------------------------------------
(* Why they hold: an inductive invariant, in parts. *)

Stages(cmd) ==
  CASE cmd = "backup"  -> {"load", "saving", "snapshot"}
    [] cmd = "restore" -> {"load", "reading"}
    [] cmd = "forget"  -> {"forget"}
    [] cmd = "prune"   -> {"load", "plan", "repack", "rewrite", "remove"}

\* every command runs under its lock, and the exclusive lock excludes
LockInv ==
  /\ \A p, q \in Procs :
       p # q /\ held[p] = "exclusive" => held[q] = "none"
  /\ \A p \in Procs :
       IF At(p, "idle") THEN held[p] = "none"
       ELSE /\ proc[p].pc \in Stages(proc[p].cmd)
            /\ held[p] = IF proc[p].cmd \in {"backup", "restore"}
                         THEN "shared" ELSE "exclusive"

IndexNames == \A ix, jx \in indexes : ix.id = jx.id => ix = jx

\* what a command starts with
StartInv(p) ==
  proc[p].pc \in {"load", "plan"} =>
    proc[p].unsaved = {} /\ proc[p].failed = FALSE

\* what a backup has found, has written, or has still to write
BackupInv(p) ==
  proc[p].pc \in {"saving", "snapshot"} =>
    /\ proc[p].unsaved \subseteq packs
    /\ \A b \in proc[p].target :
         \/ b \in BlobsOf(Described(indexes))
         \/ b \in BlobsOf(proc[p].unsaved)
         \/ b \in proc[p].missing
    /\ At(p, "snapshot") => proc[p].unsaved = {} /\ proc[p].missing = {}

\* nothing a restore relies on goes away
RestoreInv(p) ==
  /\ At(p, "load") /\ proc[p].cmd = "restore" =>
       proc[p].target \subseteq UsedBlobs
  /\ At(p, "reading") =>
       /\ proc[p].index \subseteq packs
       /\ proc[p].target \subseteq BlobsOf(proc[p].index)

\* what prune means to keep is all that is needed
Kept(p) == {ix \in indexes : ix.id \notin proc[p].obsolete}
Surviving(p) ==
  CASE At(p, "repack") ->
         (Described(indexes) \ (proc[p].ignorePacks \cup proc[p].repackPacks))
           \cup proc[p].unsaved
    [] At(p, "rewrite") -> Described(indexes) \ proc[p].ignorePacks
    [] OTHER -> Described(Kept(p)) \cup proc[p].entries

PruneInv(p) ==
  /\ At(p, "plan") => proc[p].index = Described(indexes)
  /\ proc[p].pc \in {"plan", "repack", "rewrite"} =>
       proc[p].loaded = {ix.id : ix \in indexes}
  /\ At(p, "repack") =>
       /\ proc[p].unsaved \subseteq packs
       /\ proc[p].ignorePacks \cup proc[p].repackPacks
            \subseteq Described(indexes)
       /\ proc[p].removePacksFirst \cap
            (Described(indexes) \cup proc[p].unsaved) = {}
       /\ proc[p].unsaved \cap
            (proc[p].ignorePacks \cup proc[p].repackPacks) = {}
       /\ proc[p].missing \subseteq UsedBlobs
  /\ At(p, "remove") =>
       /\ proc[p].obsolete \subseteq {ix.id : ix \in indexes}
       /\ proc[p].entries \subseteq packs
       /\ Described(Kept(p)) \cap proc[p].ignorePacks = {}
       /\ proc[p].entries \cap proc[p].ignorePacks = {}
  /\ proc[p].pc \in {"repack", "rewrite", "remove"} =>
       /\ proc[p].removePacks \subseteq proc[p].ignorePacks
       /\ \A b \in UsedBlobs :
            \/ b \in BlobsOf(Surviving(p))
            \/ At(p, "repack") /\ b \in proc[p].missing

\* unless a deletion has failed, prune will leave nothing else behind
ReclaimInv(p) ==
  proc[p].pc \in {"repack", "rewrite", "remove"} /\ proc[p].failed = FALSE =>
    /\ packs \subseteq
         Surviving(p) \cup proc[p].removePacks
           \cup (IF At(p, "repack")
                 THEN proc[p].repackPacks \cup proc[p].removePacksFirst
                 ELSE {})
    /\ \A pk \in Surviving(p) : pk.blobs \cap UsedBlobs # {}

ProcessInv(p) ==
  StartInv(p) /\ BackupInv(p) /\ RestoreInv(p) /\ PruneInv(p) /\ ReclaimInv(p)

FilesInv == IndexNames /\ IndexedPacksExist /\ SnapshotsComplete

RepositoryInv == LockInv /\ FilesInv /\ \A p \in Procs : ProcessInv(p)
=============================================================================
