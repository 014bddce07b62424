----------------------------- MODULE Syncthing ------------------------------
(***************************************************************************)
(* The Syncthing mover (mover/syncthing).  It never completes a            *)
(* synchronization: every 20 seconds it compares the configuration of a    *)
(* Syncthing daemon with the peer list of the ReplicationSource and, where *)
(* they differ, reads the configuration, changes its device list and       *)
(* writes all of it back.  The daemon changes the same list by itself: an  *)
(* introducer's devices are added to it at any moment.                     *)
(*                                                                         *)
(* The daemon is external, modelled by what the mover reads from it and    *)
(* writes to it.  The list holds the own device too, which nobody          *)
(* changes; it is left out.  PVCs, Secret, Deployment and Services, which  *)
(* must exist before (ensureNecessaryResources), are one condition.        *)
(*                                                                         *)
(* The user writes device ids as strings.  Several of them may stand for   *)
(* one device (case, dashes, a missing check digit) and some for none:     *)
(* the mover parses them only when it writes the configuration, and        *)
(* compares them, as they are, with the one form the daemon prints.        *)
(***************************************************************************)
EXTENDS Naturals, FiniteSets

CONSTANTS
  Ids,          \* device ids, as the daemon prints them
  Self,         \* the daemon's own
  NoOne,        \* introducedBy of a device that was not introduced
  Introducers,  \* the peers the user marks as introducers
  Introduced,   \* the devices these know of
  Listable,     \* the strings the user may list
  NotAnId,      \* what parsing some of them gives
  DeviceIDFromString,
  Addresses,
  MaxPeers,     \* bound on the length of the user's list
  MaxEdits, MaxFaults

ASSUME IdAssumption ==
  /\ Self \in Ids /\ NoOne \notin Ids
  /\ Introducers \subseteq Ids \ {Self} /\ Introduced \subseteq Ids \ {Self}
ASSUME SpellingAssumption ==
  /\ NotAnId \notin Ids
  /\ DeviceIDFromString \in [Listable -> Ids \cup {NotAnId}]
  /\ \A s \in Listable \cap Ids : DeviceIDFromString[s] = s
ASSUME BoundAssumption ==
  MaxPeers \in Nat /\ MaxEdits \in Nat /\ MaxFaults \in Nat

VARIABLES
  spec,       \* spec.syncthing.peers
  devices,    \* the device list of the daemon
  gui,        \* the GUI user and password are set
  ready,      \* the mover's Kubernetes objects exist
  pc,         \* where Synchronize is
  peerList,   \* the spec this Synchronize was started with
  fetched,    \* the device list it has read
  fetchedGui,
  status,     \* status.syncthing.peers
  edits, faults

daemon == <<devices, gui>>
local == <<pc, peerList, fetched, fetchedGui>>
vars == <<spec, daemon, ready, local, status, edits, faults>>

Peers == [id : Listable, address : Addresses]
Lists == {list \in SUBSET Peers : Cardinality(list) <= MaxPeers}
Devices == [id : Ids, address : Addresses, introducedBy : Ids \cup {NoOne}]

IdsOf(S) == {d.id : d \in S}

\* the devices a list stands for
Parsed(list) == {DeviceIDFromString[id] : id \in IdsOf(list)}

(* The type invariant.  No device is configured twice. *)
TypeOK ==
  /\ spec \subseteq Peers /\ peerList \subseteq Peers
  /\ devices \subseteq Devices /\ fetched \subseteq Devices
  /\ \A d, e \in devices : d.id = e.id => d = e
  /\ gui \in BOOLEAN /\ fetchedGui \in BOOLEAN /\ ready \in BOOLEAN
  /\ pc \in {"idle", "fetch", "configure", "publish", "status"}
  /\ status \subseteq Ids
  /\ edits \in 0 .. MaxEdits /\ faults \in 0 .. MaxFaults

-----------------------------------------------------------------------------
(* One Synchronize.                                                        *)

\* what Synchronize has read is forgotten
Returns ==
  pc' = "idle" /\ peerList' = {} /\ fetched' = {} /\ fetchedGui' = FALSE

ensureNecessaryResources ==
  /\ pc = "idle" /\ ~ready
  /\ ready' = TRUE
  /\ UNCHANGED <<spec, daemon, local, status, edits, faults>>

\* validatePeerList: no string twice
Duplicates(list) == \E p, q \in list : p.id = q.id /\ p # q

\* with duplicates in the list the mover stops before it asks the daemon
Synchronize ==
  /\ pc = "idle" /\ ready
  /\ IF Duplicates(spec) THEN UNCHANGED <<peerList, pc>>
     ELSE peerList' = spec /\ pc' = "fetch"
  /\ UNCHANGED <<spec, daemon, ready, fetched, fetchedGui, status, edits,
                 faults>>

Fetch ==
  /\ pc = "fetch"
  /\ fetched' = devices /\ fetchedGui' = gui
  /\ pc' = "configure"
  /\ UNCHANGED <<spec, daemon, ready, peerList, status, edits, faults>>

NotIntroduced(list) == {d \in list : d.introducedBy = NoOne}

\* Mutant: peers that were taken off the list are not noticed.
syncthingLacksPeers ==
  ~(IdsOf(peerList) \subseteq IdsOf(NotIntroduced(fetched)))

\* only ids are compared, the listed ones unparsed, and introduced devices
\* are passed over
syncthingNeedsReconfigure ==
  IdsOf(peerList) # IdsOf(NotIntroduced(fetched))

\* the introduced devices, then the peers
updateSyncthingDevices ==
  (fetched \ NotIntroduced(fetched)) \cup
  {[id |-> DeviceIDFromString[p.id], address |-> p.address,
    introducedBy |-> NoOne] : p \in peerList}

\* the list contains the node itself, as the daemon prints it, or, if the
\* devices are to be changed, a string that is no device id
ListIsWrong ==
  \/ Self \in IdsOf(peerList)
  \/ syncthingNeedsReconfigure /\ NotAnId \in Parsed(peerList)

\* a wrong list is an error: nothing is written
ensureIsConfigured ==
  /\ pc = "configure"
  /\ IF ListIsWrong THEN Returns
     ELSE /\ IF syncthingNeedsReconfigure
             THEN pc' = "publish" /\ fetched' = updateSyncthingDevices
             ELSE /\ pc' = IF fetchedGui THEN "status" ELSE "publish"
                  /\ UNCHANGED fetched
          /\ UNCHANGED <<peerList, fetchedGui>>
  /\ UNCHANGED <<spec, daemon, ready, status, edits, faults>>

\* PublishConfig replaces the daemon's configuration.  Of two entries for
\* one device the daemon keeps one, of those for itself its own.
PublishConfig ==
  /\ pc = "publish"
  /\ devices' \in {S \in SUBSET fetched :
                     /\ IdsOf(S) = IdsOf(fetched) \ {Self}
                     /\ \A d, e \in S : d.id = e.id => d = e}
  /\ gui' = TRUE
  /\ pc' = "status"
  /\ UNCHANGED <<spec, ready, peerList, fetched, fetchedGui, status, edits,
                 faults>>

\* Mutant: the configuration is copied to the status.
ensureStatusIsConfig ==
  /\ pc = "status"
  /\ status' = devices
  /\ Returns
  /\ UNCHANGED <<spec, daemon, ready, edits, faults>>

\* ensureStatusIsUpdated, after a second Fetch
ensureStatusIsUpdated ==
  /\ pc = "status"
  /\ status' = IdsOf(devices)
  /\ Returns
  /\ UNCHANGED <<spec, daemon, ready, edits, faults>>

\* a request fails, or the operator restarts: the next Synchronize begins
\* anew.  A request that fails may have been carried out.
Fails ==
  /\ pc # "idle"
  /\ faults < MaxFaults /\ faults' = faults + 1
  /\ Returns
  /\ UNCHANGED <<spec, daemon, ready, status, edits>>

-----------------------------------------------------------------------------
(* The user and the daemon.                                                *)

Edit ==
  /\ edits < MaxEdits /\ edits' = edits + 1
  /\ spec' \in Lists /\ spec' # spec
  /\ UNCHANGED <<daemon, ready, local, status, faults>>

\* an introducer is configured and connected: the daemon adds what it knows
Introduce(i, id) ==
  /\ i \in Introducers \cap IdsOf(devices)
  /\ id \in Introduced \ IdsOf(devices)
  /\ \E a \in Addresses :
       devices' = devices \cup
                    {[id |-> id, address |-> a, introducedBy |-> i]}
  /\ UNCHANGED <<spec, gui, ready, local, status, edits, faults>>

-----------------------------------------------------------------------------
Init ==
  /\ spec \in Lists
  /\ devices = {} /\ gui = FALSE /\ ready = FALSE
  /\ pc = "idle" /\ peerList = {} /\ fetched = {} /\ fetchedGui = FALSE
  /\ status = {}
  /\ edits = 0 /\ faults = 0

Step == \/ ensureNecessaryResources \/ Synchronize \/ Fetch
        \/ ensureIsConfigured \/ PublishConfig \/ ensureStatusIsUpdated

Next ==
  \/ Step \/ Fails \/ Edit
  \/ \E i, id \in Ids : Introduce(i, id)

Spec == Init /\ [][Next]_vars

\* the mover is called again every 20 seconds, and a connected introducer
\* announces its devices again and again
FairSpec ==
  /\ Spec
  /\ WF_vars(Step)
  /\ \A i, id \in Ids : WF_vars(Introduce(i, id))

-----------------------------------------------------------------------------
(* What the mover writes is what the user has listed, in whatever          *)
(* spelling: every peer of a list that parses, and apart from these only   *)
(* devices that were introduced (ensureIsConfigured).                      *)
WritesTheList ==
  [][PublishConfig => /\ Parsed(peerList) \subseteq Ids
                      /\ Parsed(peerList) \ {Self} \subseteq IdsOf(devices')
                      /\ IdsOf(NotIntroduced(devices')) \subseteq
                           Parsed(peerList)]_vars

\* What the write rests on: the list was parsed, or nothing was to be
\* changed.
PreparedInv ==
  pc = "publish" => /\ NotAnId \notin Parsed(peerList)
                    /\ IdsOf(NotIntroduced(fetched)) = Parsed(peerList)

Valid(list) == ~Duplicates(list) /\ Self \notin IdsOf(list)

\* every id is written as the daemon prints it
Canonical(list) == IdsOf(list) \subseteq Ids

Settled ==
  /\ IdsOf(NotIntroduced(devices)) = Parsed(spec)
  /\ Parsed(spec) \subseteq status
  /\ Introducers \cap IdsOf(devices) # {} =>
       Introduced \subseteq IdsOf(devices)
  /\ pc # "publish"

(* Once the user stops editing a valid peer list whose ids are written as  *)
(* the daemon prints them, mover and daemon come to rest: the devices that *)
(* were not introduced by others are the listed ones, the status shows     *)
(* them, what an introducer knows stays configured although a write of the *)
(* whole configuration undoes an introduction that came after the read,    *)
(* and nothing is written any more.  Edits before that may hold any        *)
(* string.                                                                 *)
SettlesDown == <>[](Valid(spec) /\ Canonical(spec) => Settled)

(* The same of a list of distinct peers in any spelling.  It does not      *)
(* hold: the string as it was written never equals what the daemon prints, *)
(* and the configuration is written anew every 20 seconds                  *)
(* (syncthing.go:82-118).                                                  *)
SettlesInAnySpelling ==
  <>[](/\ Valid(spec) /\ Parsed(spec) \subseteq Ids \ {Self}
       /\ Cardinality(Parsed(spec)) = Cardinality(spec) => Settled)
=============================================================================
