-------------------------- MODULE SyncthingProofs ---------------------------
(***************************************************************************)
(* Proofs about Syncthing, for any peers, introducers and addresses.       *)
(***************************************************************************)
EXTENDS Syncthing, TLAPS

-----------------------------------------------------------------------------
(* What the mover makes of the list it has read. *)

\* The entry for a peer whose id parses.
Entry(p) == [id |-> DeviceIDFromString[p.id], address |-> p.address,
             introducedBy |-> NoOne]

LEMMA EntryType ==
  ASSUME NEW list \in SUBSET Peers, NotAnId \notin Parsed(list),
         NEW p \in list
  PROVE  /\ Entry(p) \in Devices /\ Entry(p).introducedBy = NoOne
         /\ Entry(p).id = DeviceIDFromString[p.id]
<1>1. p.id \in Listable /\ p.address \in Addresses
  BY DEF Peers
<1>2. DeviceIDFromString[p.id] \in Parsed(list)
  BY DEF Parsed, IdsOf
<1>3. DeviceIDFromString[p.id] \in Ids
  BY <1>1, <1>2, SpellingAssumption
<1>4. QED
  BY <1>1, <1>3 DEF Entry, Devices

LEMMA UpdateType ==
  ASSUME TypeOK, NotAnId \notin Parsed(peerList)
  PROVE  /\ updateSyncthingDevices \subseteq Devices
         /\ IdsOf(NotIntroduced(updateSyncthingDevices)) = Parsed(peerList)
<1>1. peerList \subseteq Peers /\ fetched \subseteq Devices
  BY DEF TypeOK
<1> DEFINE kept == fetched \ NotIntroduced(fetched)
           added == {Entry(p) : p \in peerList}
<1>2. updateSyncthingDevices = kept \cup added
  BY DEF updateSyncthingDevices, Entry
<1>3. \A d \in kept : d.introducedBy # NoOne
  BY DEF NotIntroduced
<1>4. \A p \in peerList : /\ Entry(p) \in Devices
                          /\ Entry(p).introducedBy = NoOne
                          /\ Entry(p).id = DeviceIDFromString[p.id]
  BY <1>1, EntryType
<1> HIDE DEF Entry
<1>5. NotIntroduced(updateSyncthingDevices) = added
  <2> HIDE DEF kept
  <2>1. \A d \in added : d.introducedBy = NoOne
    BY <1>4
  <2> HIDE DEF added
  <2>2. QED
    BY <1>2, <1>3, <2>1 DEF NotIntroduced
<1>6. IdsOf(added) = Parsed(peerList)
  BY <1>4 DEF IdsOf, Parsed
<1>7. QED
  BY <1>1, <1>2, <1>4, <1>5, <1>6

-----------------------------------------------------------------------------
(* Type correctness. *)

Flags == gui \in BOOLEAN /\ fetchedGui \in BOOLEAN /\ ready \in BOOLEAN

Unique(S) == \A d, e \in S : d.id = e.id => d = e

LEMMA FlagsStep == Flags /\ [Next]_vars => Flags'
<1> SUFFICES ASSUME Flags, [Next]_vars PROVE Flags'
  OBVIOUS
<1> USE DEF Flags, daemon, local
<1>1. CASE Step
  <2>1. CASE ensureNecessaryResources
    BY <2>1, Zenon DEF ensureNecessaryResources
  <2>2. CASE Synchronize
    BY <2>2, Zenon DEF Synchronize
  <2>3. CASE Fetch
    BY <2>3, Zenon DEF Fetch
  <2>4. CASE ensureIsConfigured
    BY <2>4, Zenon DEF ensureIsConfigured, Returns
  <2>5. CASE PublishConfig
    BY <2>5, Zenon DEF PublishConfig
  <2>6. CASE ensureStatusIsUpdated
    BY <2>6, Zenon DEF ensureStatusIsUpdated, Returns
  <2>7. QED
    BY <1>1, <2>1, <2>2, <2>3, <2>4, <2>5, <2>6 DEF Step
<1>2. CASE Fails \/ Edit
  BY <1>2, Zenon DEF Fails, Edit, Returns
<1>3. CASE \E i, id \in Ids : Introduce(i, id)
  BY <1>3, Zenon DEF Introduce
<1>4. CASE UNCHANGED vars
  BY <1>4, Zenon DEF vars
<1>5. QED
  BY <1>1, <1>2, <1>3, <1>4 DEF Next

\* Who touches the daemon's list keeps it free of duplicates.
LEMMA DevicesStep ==
  ASSUME TypeOK, [Next]_vars
  PROVE  devices' \subseteq Devices /\ Unique(devices')
<1>0. devices \subseteq Devices /\ fetched \subseteq Devices /\ Unique(devices)
  BY DEF TypeOK, Unique
<1>1. CASE devices' = devices
  BY <1>0, <1>1
<1>2. CASE PublishConfig
  BY <1>0, <1>2 DEF PublishConfig, Unique
<1>3. ASSUME NEW i \in Ids, NEW id \in Ids, Introduce(i, id)
      PROVE  devices' \subseteq Devices /\ Unique(devices')
  <2>1. PICK a \in Addresses :
          devices' = devices \cup {[id |-> id, address |-> a, introducedBy |-> i]}
    BY <1>3 DEF Introduce
  <2>2. id \notin IdsOf(devices)
    BY <1>3 DEF Introduce
  <2>3. [id |-> id, address |-> a, introducedBy |-> i] \in Devices
    BY DEF Devices
  <2>4. QED
    BY <1>0, <2>1, <2>2, <2>3 DEF Unique, IdsOf
<1>4. \/ devices' = devices \/ PublishConfig
      \/ \E i, id \in Ids : Introduce(i, id)
  BY Zenon DEF Next, Step, ensureNecessaryResources, Synchronize, Fetch,
         ensureIsConfigured, ensureStatusIsUpdated, Fails, Edit, vars, daemon
<1>5. QED
  BY <1>1, <1>2, <1>3, <1>4

LEMMA ListsStep ==
  ASSUME TypeOK, [Next]_vars
  PROVE  /\ spec' \subseteq Peers /\ peerList' \subseteq Peers
         /\ fetched' \subseteq Devices /\ status' \subseteq Ids
<1>0. /\ spec \subseteq Peers /\ peerList \subseteq Peers
      /\ devices \subseteq Devices /\ fetched \subseteq Devices
      /\ status \subseteq Ids
  BY DEF TypeOK
<1>1. spec' \subseteq Peers
  <2>1. spec' = spec \/ spec' \in Lists
    BY Zenon DEF Next, Step, ensureNecessaryResources, Synchronize, Fetch,
         ensureIsConfigured, PublishConfig, ensureStatusIsUpdated, Fails, Edit,
         Introduce, vars
  <2>2. QED
    BY <1>0, <2>1 DEF Lists
<1>2. peerList' \subseteq Peers
  <2>1. peerList' \in {peerList, spec, {}}
    BY DEF Next, Step, ensureNecessaryResources, Synchronize, Fetch,
         ensureIsConfigured, PublishConfig, ensureStatusIsUpdated, Fails, Edit,
         Introduce, vars, local, Returns
  <2>2. QED
    BY <1>0, <2>1
<1>3. fetched' \subseteq Devices
  <2>1. \/ fetched' \in {fetched, devices, {}}
        \/ /\ fetched' = updateSyncthingDevices
           /\ NotAnId \notin Parsed(peerList)
    BY DEF ListIsWrong, Next, Step, ensureNecessaryResources, Synchronize, Fetch,
         ensureIsConfigured, PublishConfig, ensureStatusIsUpdated, Fails, Edit,
         Introduce, vars, local, Returns
  <2>2. QED
    BY <1>0, <2>1, UpdateType
<1>4. status' \subseteq Ids
  <2>1. status' \in {status, IdsOf(devices)}
    BY DEF Next, Step, ensureNecessaryResources, Synchronize, Fetch,
         ensureIsConfigured, PublishConfig, ensureStatusIsUpdated, Fails, Edit,
         Introduce, vars
  <2>2. IdsOf(devices) \subseteq Ids
    BY <1>0 DEF IdsOf, Devices
  <2>3. QED
    BY <1>0, <2>1, <2>2
<1>5. QED
  BY <1>1, <1>2, <1>3, <1>4

LEMMA CountsStep ==
  ASSUME TypeOK, [Next]_vars
  PROVE  /\ pc' \in {"idle", "fetch", "configure", "publish", "status"}
         /\ edits' \in 0 .. MaxEdits /\ faults' \in 0 .. MaxFaults
<1>0. /\ pc \in {"idle", "fetch", "configure", "publish", "status"}
      /\ edits \in 0 .. MaxEdits /\ faults \in 0 .. MaxFaults
  BY DEF TypeOK
<1>1. pc' \in {pc, "idle", "fetch", "configure", "publish", "status"}
  BY DEF Next, Step, ensureNecessaryResources, Synchronize, Fetch,
         ensureIsConfigured, PublishConfig, ensureStatusIsUpdated, Fails, Edit,
         Introduce, vars, local, Returns
<1>2. edits' = edits \/ (edits < MaxEdits /\ edits' = edits + 1)
  BY DEF Next, Step, ensureNecessaryResources, Synchronize, Fetch,
         ensureIsConfigured, PublishConfig, ensureStatusIsUpdated, Fails, Edit,
         Introduce, vars
<1>3. faults' = faults \/ (faults < MaxFaults /\ faults' = faults + 1)
  BY DEF Next, Step, ensureNecessaryResources, Synchronize, Fetch,
         ensureIsConfigured, PublishConfig, ensureStatusIsUpdated, Fails, Edit,
         Introduce, vars
<1>4. QED
  BY <1>0, <1>1, <1>2, <1>3, BoundAssumption

LEMMA TypeStep == TypeOK /\ [Next]_vars => TypeOK'
<1> SUFFICES ASSUME TypeOK, [Next]_vars PROVE TypeOK'
  OBVIOUS
<1>1. Flags
  BY Zenon DEF TypeOK, Flags
<1>2. Flags'
  BY <1>1, FlagsStep
<1>3. QED
  BY <1>2, DevicesStep, ListsStep, CountsStep, Zenon DEF TypeOK, Flags, Unique

(* Every variable has its type and the daemon never has a device twice,    *)
(* however its introductions interleave with the mover's writes.           *)
THEOREM TypeCorrect == Spec => []TypeOK
<1>1. Init => TypeOK
  <2> SUFFICES ASSUME Init PROVE TypeOK
    OBVIOUS
  <2>1. Flags
    BY Zenon DEF Init, Flags
  <2>2. /\ spec \in Lists /\ devices = {} /\ pc = "idle"
        /\ peerList = {} /\ fetched = {} /\ status = {}
        /\ edits = 0 /\ faults = 0
    BY Zenon DEF Init
  <2>3. edits \in 0 .. MaxEdits /\ faults \in 0 .. MaxFaults
    BY <2>2, BoundAssumption
  <2>4. spec \subseteq Peers
    BY <2>2 DEF Lists
  <2>5. QED
    BY <2>1, <2>2, <2>3, <2>4, Zenon DEF TypeOK, Flags
<1>2. QED
  BY <1>1, TypeStep, PTL DEF Spec

-----------------------------------------------------------------------------
(* What is written. *)

LEMMA PreparedStep ==
  TypeOK /\ PreparedInv /\ [Next]_vars => PreparedInv'
<1> SUFFICES ASSUME TypeOK, PreparedInv, [Next]_vars, pc' = "publish"
             PROVE  /\ NotAnId \notin Parsed(peerList')
                    /\ IdsOf(NotIntroduced(fetched')) = Parsed(peerList')
  BY DEF PreparedInv, Parsed, IdsOf, NotIntroduced
<1>1. CASE ensureIsConfigured
  <2>1. /\ peerList' = peerList
        /\ \/ /\ fetched' = updateSyncthingDevices
              /\ NotAnId \notin Parsed(peerList)
           \/ fetched' = fetched /\ ~syncthingNeedsReconfigure
    BY <1>1 DEF ensureIsConfigured, ListIsWrong, Returns
  <2>2. CASE fetched' = updateSyncthingDevices /\ NotAnId \notin Parsed(peerList)
    BY <2>1, <2>2, UpdateType
  <2>3. CASE fetched' = fetched /\ ~syncthingNeedsReconfigure
    <3>1. IdsOf(peerList) = IdsOf(NotIntroduced(fetched))
      BY <2>3 DEF syncthingNeedsReconfigure
    <3>2. peerList \subseteq Peers /\ fetched \subseteq Devices
      BY DEF TypeOK
    <3>3. IdsOf(peerList) \subseteq Listable \cap Ids
      BY <3>1, <3>2 DEF IdsOf, NotIntroduced, Peers, Devices
    <3>4. Parsed(peerList) = IdsOf(peerList)
      BY <3>3, SpellingAssumption DEF Parsed
    <3>5. QED
      BY <2>1, <2>3, <3>1, <3>3, <3>4, SpellingAssumption
  <2>4. QED
    BY <2>1, <2>2, <2>3
<1>2. CASE ~ensureIsConfigured
  <2>1. pc = "publish" /\ peerList' = peerList /\ fetched' = fetched
    BY <1>2 DEF Next, Step, ensureNecessaryResources, Synchronize, Fetch,
         PublishConfig, ensureStatusIsUpdated, Fails, Edit, Introduce, vars,
         local, Returns
  <2>2. QED
    BY <2>1 DEF PreparedInv
<1>3. QED
  BY <1>1, <1>2

(* In whatever spelling the user lists them, the mover writes the peers of *)
(* the list, all of them or, if one cannot be parsed, none, and nothing    *)
(* besides but devices it read as introduced (ensureIsConfigured).         *)
THEOREM WritesWhatIsListed == Spec => WritesTheList
<1> DEFINE A == PublishConfig =>
                  /\ Parsed(peerList) \subseteq Ids
                  /\ Parsed(peerList) \ {Self} \subseteq IdsOf(devices')
                  /\ IdsOf(NotIntroduced(devices')) \subseteq Parsed(peerList)
<1>1. Init => PreparedInv
  BY DEF Init, PreparedInv
<1>2. TypeOK /\ PreparedInv => A
  <2> SUFFICES ASSUME TypeOK, PreparedInv, PublishConfig
               PROVE  /\ Parsed(peerList) \subseteq Ids
                      /\ Parsed(peerList) \ {Self} \subseteq IdsOf(devices')
                      /\ IdsOf(NotIntroduced(devices')) \subseteq
                           Parsed(peerList)
    OBVIOUS
  <2>1. /\ devices' \subseteq fetched
        /\ IdsOf(devices') = IdsOf(fetched) \ {Self}
        /\ NotAnId \notin Parsed(peerList)
        /\ IdsOf(NotIntroduced(fetched)) = Parsed(peerList)
    BY DEF PublishConfig, PreparedInv
  <2>2. Parsed(peerList) \subseteq Ids
    <3>1. fetched \subseteq Devices
      BY DEF TypeOK
    <3>2. QED
      BY <2>1, <3>1 DEF IdsOf, NotIntroduced, Devices
  <2>3. IdsOf(NotIntroduced(fetched)) \subseteq IdsOf(fetched)
    BY DEF IdsOf, NotIntroduced
  <2>4. IdsOf(NotIntroduced(devices')) \subseteq IdsOf(NotIntroduced(fetched))
    BY <2>1 DEF IdsOf, NotIntroduced
  <2>5. QED
    BY <2>1, <2>2, <2>3, <2>4
<1>3. QED
  BY <1>1, <1>2, TypeCorrect, PreparedStep, PTL DEF Spec, WritesTheList
=============================================================================
