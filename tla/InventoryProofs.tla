-------------------------- MODULE InventoryProofs --------------------------
(***************************************************************************)
(* Theorems about Inventory for every set of keys, of types allowed to     *)
(* them and of platforms.                                                  *)
(***************************************************************************)
EXTENDS Inventory, TLAPS

\* What every step preserves: types, entity tables and door log.
IndInv == TypeOK /\ EntityPerDevice /\ DoorLogFollowsDevices

----------------------------------------------------------------------------
(* Inventories.                                                            *)

\* What membership in Inventories says of a function.
LEMMA InventoryFacts ==
  ASSUME NEW f \in Inventories
  PROVE  /\ DOMAIN f \subseteq Keys
         /\ f = [k \in DOMAIN f |-> f[k]]
         /\ \A k \in DOMAIN f : f[k] \in Device(k)
  BY DEF Inventories

\* A function that gives each of some keys a device is an inventory.
LEMMA InventoryIntro ==
  ASSUME NEW S \in SUBSET Keys, NEW f,
         f = [k \in S |-> f[k]],
         \A k \in S : f[k] \in Device(k)
  PROVE  f \in Inventories
<1>1. f \in [S -> UNION {Device(k) : k \in S}]
  OBVIOUS
<1>2. QED
  BY <1>1 DEF Inventories

\* The empty inventory.
LEMMA EmptyIsInventory == Empty \in Inventories /\ DOMAIN Empty = {}
<1>1. Empty = [k \in {} |-> Empty[k]] /\ DOMAIN Empty = {}
  BY DEF Empty
<1>2. QED
  BY <1>1, InventoryIntro

\* Adding devices to an inventory gives an inventory of both sets of keys.
LEMMA MergedFacts ==
  ASSUME NEW inv \in Inventories, NEW found \in Inventories
  PROVE  /\ Merged(inv, found) \in Inventories
         /\ DOMAIN Merged(inv, found) = DOMAIN inv \union DOMAIN found
         /\ \A k \in DOMAIN inv \union DOMAIN found :
                Merged(inv, found)[k] =
                    IF k \in DOMAIN found /\ Takes(inv, k, found[k])
                    THEN found[k] ELSE inv[k]
<1> DEFINE m == Merged(inv, found)
<1>1. /\ m = [k \in DOMAIN inv \union DOMAIN found |-> m[k]]
      /\ DOMAIN m = DOMAIN inv \union DOMAIN found
      /\ \A k \in DOMAIN inv \union DOMAIN found :
            m[k] = IF k \in DOMAIN found /\ Takes(inv, k, found[k])
                   THEN found[k] ELSE inv[k]
  BY DEF Merged
<1>2. \A k \in DOMAIN inv \union DOMAIN found : m[k] \in Device(k)
  BY <1>1, InventoryFacts DEF Takes
<1>3. m \in Inventories
  BY <1>1, <1>2, InventoryFacts, InventoryIntro
<1>4. QED
  BY <1>1, <1>3

\* What is left of an inventory is one.
LEMMA WithoutInventory ==
  ASSUME NEW f \in Inventories, NEW S
  PROVE  Without(f, S) \in Inventories
<1>1. \A k \in DOMAIN f \ S : Without(f, S)[k] \in Device(k)
  BY InventoryFacts DEF Without
<1>2. DOMAIN f \ S \in SUBSET Keys
  BY InventoryFacts
<1>3. Without(f, S) = [k \in DOMAIN f \ S |-> Without(f, S)[k]]
  BY DEF Without
<1>4. QED
  BY <1>1, <1>2, <1>3, InventoryIntro

\* Whether a platform wants a device depends on its key alone.
LEMMA SameFamily ==
  ASSUME NEW k \in Keys, NEW p \in Platforms,
         NEW d \in Device(k), NEW e \in Device(k)
  PROVE  Wanted(p, d) <=> Wanted(p, e)
<1>1. d.type \in TypesOf[k] /\ e.type \in TypesOf[k]
  BY DEF Device
<1>2. QED
  BY <1>1, ConstantsAssumption DEF Wanted

----------------------------------------------------------------------------
(* The two ways to change the inventory.                                   *)

\* AddDevices keeps types, entity tables and door log in step.
LEMMA AddStep ==
  ASSUME IndInv, NEW found \in Inventories, AddDevices(found)
  PROVE  /\ devices' \in Inventories /\ persisted' \in Inventories
         /\ doorLog' \in BOOLEAN /\ overtaken' \in BOOLEAN
         /\ DOMAIN entities' = Platforms
         /\ \A p \in Platforms :
               /\ DOMAIN entities'[p] \subseteq Keys
               /\ \A k \in DOMAIN entities'[p] : entities'[p][k] \in BOOLEAN
         /\ EntityPerDevice'
         /\ DoorLogFollowsDevices'
<1> DEFINE m == Merged(devices, found)
<1>0. /\ devices \in Inventories
      /\ devices' = m /\ persisted' = m
      /\ entities' = [p \in Platforms |-> EntitiesAdded(p, found)]
      /\ DOMAIN devices \subseteq Keys /\ DOMAIN found \subseteq Keys
      /\ \A k \in DOMAIN devices : devices[k] \in Device(k)
      /\ \A k \in DOMAIN found : found[k] \in Device(k)
  BY InventoryFacts DEF IndInv, TypeOK, AddDevices
<1>1. /\ m \in Inventories
      /\ DOMAIN m = DOMAIN devices \union DOMAIN found
      /\ \A k \in DOMAIN m :
            m[k] = IF k \in DOMAIN found /\ Takes(devices, k, found[k])
                   THEN found[k] ELSE devices[k]
  BY <1>0, MergedFacts
<1>2. /\ devices' \in Inventories /\ persisted' \in Inventories
      /\ doorLog' \in BOOLEAN /\ overtaken' \in BOOLEAN
      /\ DOMAIN entities' = Platforms
  BY <1>0, <1>1 DEF AddDevices, IndInv, TypeOK
<1>3. ASSUME NEW p \in Platforms
      PROVE  /\ DOMAIN entities'[p] =
                    DOMAIN entities[p] \union
                    {k \in DOMAIN found : /\ Takes(devices, k, found[k])
                                          /\ Wanted(p, found[k])
                                          /\ k \notin DOMAIN entities[p]}
             /\ \A k \in DOMAIN entities'[p] :
                    \/ k \in DOMAIN entities[p] /\ entities'[p][k] = entities[p][k]
                    \/ k \in DOMAIN found /\ entities'[p][k] = found[k].advanced
  BY <1>0 DEF EntitiesAdded
<1>4. ASSUME NEW p \in Platforms
      PROVE  /\ DOMAIN entities'[p] \subseteq Keys
             /\ \A k \in DOMAIN entities'[p] : entities'[p][k] \in BOOLEAN
  <2>1. \A k \in DOMAIN found : found[k].advanced \in BOOLEAN
    BY <1>0 DEF Device
  <2>2. /\ DOMAIN entities[p] \subseteq Keys
        /\ \A k \in DOMAIN entities[p] : entities[p][k] \in BOOLEAN
    BY DEF IndInv, TypeOK
  <2>3. QED
    BY <1>0, <1>3, <2>1, <2>2
<1>5. ASSUME NEW p \in Platforms
      PROVE  DOMAIN entities'[p] = {k \in DOMAIN m : Wanted(p, m[k])}
  <2>1. DOMAIN entities[p] = {k \in DOMAIN devices : Wanted(p, devices[k])}
    BY DEF IndInv, EntityPerDevice
  <2>2. ASSUME NEW k \in DOMAIN devices
        PROVE  Wanted(p, m[k]) <=> Wanted(p, devices[k])
    <3>1. k \in DOMAIN m /\ k \in Keys /\ m[k] \in Device(k)
      BY <1>0, <1>1
    <3>2. QED
      BY <1>0, <3>1, SameFamily
  <2>3. ASSUME NEW k \in DOMAIN found, k \notin DOMAIN devices
        PROVE  m[k] = found[k] /\ Takes(devices, k, found[k])
    BY <1>1, <2>3 DEF Takes
  <2>4. ASSUME NEW k \in DOMAIN found, k \in DOMAIN devices, Wanted(p, found[k])
        PROVE  Wanted(p, devices[k])
    BY <1>0, <2>4, SameFamily
  <2>5. QED
    BY <1>1, <1>3, <2>1, <2>2, <2>3, <2>4
<1>6. EntityPerDevice'
  BY <1>0, <1>5 DEF EntityPerDevice
<1>7. DoorLogFollowsDevices'
  <2>1. doorLog <=> DOMAIN devices \intersect DoorKeys # {}
    BY DEF IndInv, DoorLogFollowsDevices
  <2>2. doorLog' <=> (doorLog \/ \E k \in DOMAIN found \intersect DoorKeys :
                                      Takes(devices, k, found[k]))
    BY DEF AddDevices
  <2>3. \A k \in DOMAIN found : k \in DOMAIN devices \/ Takes(devices, k, found[k])
    BY DEF Takes
  <2>4. DOMAIN devices' = DOMAIN devices \union DOMAIN found
    BY <1>0, <1>1
  <2>5. QED
    BY <2>1, <2>2, <2>3, <2>4 DEF DoorLogFollowsDevices
<1>8. QED
  BY <1>2, <1>4, <1>6, <1>7

\* RemoveDevices does so too.
LEMMA RemoveStep ==
  ASSUME IndInv, NEW S \in SUBSET DOMAIN devices, RemoveDevices(S)
  PROVE  /\ devices' \in Inventories /\ persisted' \in Inventories
         /\ doorLog' \in BOOLEAN /\ overtaken' \in BOOLEAN
         /\ DOMAIN entities' = Platforms
         /\ \A p \in Platforms :
               /\ DOMAIN entities'[p] \subseteq Keys
               /\ \A k \in DOMAIN entities'[p] : entities'[p][k] \in BOOLEAN
         /\ EntityPerDevice'
         /\ DoorLogFollowsDevices'
<1>1. /\ devices' \in Inventories /\ persisted' \in Inventories
      /\ doorLog' \in BOOLEAN /\ overtaken' \in BOOLEAN
      /\ DOMAIN entities' = Platforms
  BY WithoutInventory DEF IndInv, TypeOK, RemoveDevices
<1>2. /\ DOMAIN devices' = DOMAIN devices \ S
      /\ \A k \in DOMAIN devices \ S : devices'[k] = devices[k]
  BY DEF RemoveDevices, Without
<1>3. ASSUME NEW p \in Platforms
      PROVE  /\ DOMAIN entities'[p] = DOMAIN entities[p] \ S
             /\ \A k \in DOMAIN entities[p] \ S : entities'[p][k] = entities[p][k]
  <2>1. entities'[p] = Without(entities[p], S)
    BY DEF RemoveDevices
  <2>2. QED
    BY <2>1 DEF Without
<1>4. ASSUME NEW p \in Platforms
      PROVE  /\ DOMAIN entities'[p] \subseteq Keys
             /\ \A k \in DOMAIN entities'[p] : entities'[p][k] \in BOOLEAN
  BY <1>3 DEF IndInv, TypeOK
<1>5. EntityPerDevice'
  BY <1>2, <1>3 DEF IndInv, EntityPerDevice
<1>6. DoorLogFollowsDevices'
  BY <1>2 DEF IndInv, DoorLogFollowsDevices, RemoveDevices
<1>7. QED
  BY <1>1, <1>4, <1>5, <1>6

----------------------------------------------------------------------------
(* Every step.                                                             *)

\* Before the entry is loaded everything is empty.
LEMMA IndInit == Init => IndInv
<1> SUFFICES ASSUME Init PROVE IndInv
  OBVIOUS
<1> USE DEF Init
<1>1. DOMAIN Empty = {} /\ Empty \in Inventories
  BY EmptyIsInventory
<1>2. TypeOK
  BY <1>1 DEF TypeOK, ScanStates
<1>3. EntityPerDevice
  BY <1>1 DEF EntityPerDevice
<1>4. DoorLogFollowsDevices
  BY <1>1 DEF DoorLogFollowsDevices
<1>5. QED
  BY <1>2, <1>3, <1>4 DEF IndInv

\* Every operation preserves the invariant: those that add, those that remove,
\* load, unload, and the steps of a scan that change no device.
LEMMA IndStep == IndInv /\ [Next]_vars => IndInv'
<1> SUFFICES ASSUME IndInv, [Next]_vars PROVE IndInv'
  OBVIOUS
<1>1. CASE AddManual \/ SelectLearned \/ ScanFinished
  <2>1. PICK found \in Inventories : AddDevices(found)
    BY <1>1 DEF AddManual, SelectLearned, ScanFinished, Manual, Learned, Findings
  <2>2. loaded' \in BOOLEAN /\ scan' \in ScanStates /\ captured' \in Inventories
    BY <1>1 DEF AddManual, SelectLearned, ScanFinished, IndInv, TypeOK, ScanStates
  <2>3. QED
    BY <2>1, <2>2, AddStep DEF IndInv, TypeOK
<1>2. CASE RemoveSelected \/ RemoveRegistryDevice
  <2>1. PICK S \in SUBSET DOMAIN devices : RemoveDevices(S)
    <3>1. CASE RemoveSelected
      BY <3>1 DEF RemoveSelected
    <3>2. CASE RemoveRegistryDevice
      <4>1. PICK k \in DOMAIN devices : RemoveDevices({k})
        BY <3>2 DEF RemoveRegistryDevice
      <4>2. {k} \in SUBSET DOMAIN devices
        OBVIOUS
      <4>3. QED
        BY <4>1, <4>2
    <3>3. QED
      BY <1>2, <3>1, <3>2
  <2>2. loaded' \in BOOLEAN /\ scan' \in ScanStates /\ captured' \in Inventories
    BY <1>2 DEF RemoveSelected, RemoveRegistryDevice, IndInv, TypeOK
  <2>3. QED
    BY <2>1, <2>2, RemoveStep DEF IndInv, TypeOK
<1>3. CASE Load
  <2>1. /\ DOMAIN persisted \subseteq Keys
        /\ \A k \in DOMAIN persisted : persisted[k] \in Device(k)
    BY InventoryFacts DEF IndInv, TypeOK
  <2>2. \A k \in DOMAIN persisted : persisted[k].advanced \in BOOLEAN
    BY <2>1 DEF Device
  <2>3. TypeOK'
    BY <1>3, <2>1, <2>2 DEF Load, IndInv, TypeOK
  <2>4. EntityPerDevice'
    BY <1>3 DEF Load, EntityPerDevice
  <2>5. DoorLogFollowsDevices'
    BY <1>3 DEF Load, DoorLogFollowsDevices
  <2>6. QED
    BY <2>3, <2>4, <2>5 DEF IndInv
<1>4. CASE Unload
  <2>1. DOMAIN Empty = {} /\ Empty \in Inventories
    BY EmptyIsInventory
  <2>2. TypeOK'
    BY <1>4, <2>1 DEF Unload, IndInv, TypeOK, ScanStates
  <2>3. EntityPerDevice' /\ DoorLogFollowsDevices'
    BY <1>4, <2>1 DEF Unload, EntityPerDevice, DoorLogFollowsDevices
  <2>4. QED
    BY <2>2, <2>3 DEF IndInv
<1>5. CASE ScanStart \/ ScanListens \/ ScanAborted \/ StaleScanFinished \/ UNCHANGED vars
  <2>1. UNCHANGED <<loaded, devices, entities, doorLog>>
    BY <1>5 DEF ScanStart, ScanListens, ScanAborted, StaleScanFinished, vars
  <2>2. scan' \in ScanStates /\ captured' \in Inventories
    BY <1>5, EmptyIsInventory
       DEF ScanStart, ScanListens, ScanAborted, StaleScanFinished, vars, IndInv, TypeOK,
           ScanStates
  <2>3. persisted' \in Inventories
    <3>1. CASE StaleScanFinished
      <4>1. PICK found \in Inventories : persisted' = Merged(captured, found)
        BY <3>1 DEF StaleScanFinished, Findings
      <4>2. QED
        BY <4>1, MergedFacts DEF IndInv, TypeOK
    <3>2. CASE ~StaleScanFinished
      BY <1>5, <3>2 DEF ScanStart, ScanListens, ScanAborted, vars, IndInv, TypeOK
    <3>3. QED
      BY <3>1, <3>2
  <2>4. overtaken' \in BOOLEAN
    BY <1>5 DEF ScanStart, ScanListens, ScanAborted, StaleScanFinished, vars, IndInv, TypeOK
  <2>5. QED
    BY <2>1, <2>2, <2>3, <2>4 DEF IndInv, TypeOK, EntityPerDevice, DoorLogFollowsDevices
<1>6. QED
  BY <1>1, <1>2, <1>3, <1>4, <1>5 DEF Next, ScanEnds

\* The invariant of the inventory: types, and the two derived parts of the state.
THEOREM InventoryInvariance == Spec => []IndInv
  BY IndInit, IndStep, PTL DEF Spec

\* Every record is one its key allows, in the manager, the entities and on disk, also
\* under a scan that outlives its entry.
THEOREM InventoryTypes == Spec => []TypeOK
  BY InventoryInvariance, PTL DEF IndInv

\* Through any sequence of additions, overwrites, removals, reloads and scans each
\* platform has an entity for exactly the devices of its own type.
THEOREM EntitiesFollowDevices == Spec => []EntityPerDevice
  BY InventoryInvariance, PTL DEF IndInv

\* The shared door-entry log exists exactly as long as there is a door device.
THEOREM DoorLogIsShared == Spec => []DoorLogFollowsDevices
  BY InventoryInvariance, PTL DEF IndInv

----------------------------------------------------------------------------
(* Persistence.                                                            *)

\* Every change of the inventory is on disk when the step that makes it ends, and only
\* the write of a scan that outlived its runtime data puts the two out of step.
THEOREM PersistedInStep == Spec => []PersistedIsInventory
<1>1. Init => PersistedIsInventory
  BY DEF Init, PersistedIsInventory
<1>2. PersistedIsInventory /\ [Next]_vars => PersistedIsInventory'
  <2> SUFFICES ASSUME PersistedIsInventory, [Next]_vars PROVE PersistedIsInventory'
    OBVIOUS
  <2> USE DEF PersistedIsInventory
  <2>1. CASE AddManual \/ SelectLearned \/ ScanFinished
    <3>1. PICK found : AddDevices(found)
      BY <2>1 DEF AddManual, SelectLearned, ScanFinished
    <3>2. QED
      BY <3>1 DEF AddDevices
  <2>2. CASE RemoveSelected \/ RemoveRegistryDevice
    <3>1. PICK S : RemoveDevices(S)
      BY <2>2 DEF RemoveSelected, RemoveRegistryDevice
    <3>2. QED
      BY <3>1 DEF RemoveDevices
  <2>3. CASE Load
    BY <2>3 DEF Load
  <2>4. CASE Unload
    BY <2>4 DEF Unload
  <2>5. CASE ScanStart \/ ScanListens \/ ScanAborted \/ StaleScanFinished \/ UNCHANGED vars
    BY <2>5 DEF ScanStart, ScanListens, ScanAborted, StaleScanFinished, vars
  <2>6. QED
    BY <2>1, <2>2, <2>3, <2>4, <2>5 DEF Next, ScanEnds
<1>3. QED
  BY <1>1, <1>2, PTL DEF Spec

----------------------------------------------------------------------------
(* Manual records.                                                         *)

\* Discovery, learning and scans that outlive a reload never replace a record
\* the user entered.
THEOREM ManualRecordsKept == Spec => ManualIsKept
<1>1. ASSUME [Next]_vars, loaded, loaded',
             NEW k \in DOMAIN devices \intersect DOMAIN devices',
             devices[k].source = "manual"
      PROVE  devices'[k].source = "manual"
  <2>1. CASE AddManual \/ SelectLearned \/ ScanFinished
    <3>1. PICK found \in Inventories : AddDevices(found)
      BY <2>1 DEF AddManual, SelectLearned, ScanFinished, Manual, Learned, Findings
    <3>2. devices'[k] = IF k \in DOMAIN found /\ Takes(devices, k, found[k])
                        THEN found[k] ELSE devices[k]
      <4>1. devices' = Merged(devices, found)
        BY <3>1 DEF AddDevices
      <4>2. k \in DOMAIN devices
        OBVIOUS
      <4>3. QED
        BY <4>1, <4>2 DEF Merged
    <3>3. QED
      BY <1>1, <3>2 DEF Takes
  <2>2. CASE RemoveSelected \/ RemoveRegistryDevice
    BY <1>1, <2>2 DEF RemoveSelected, RemoveRegistryDevice, RemoveDevices, Without
  <2>3. CASE Load \/ Unload
    BY <1>1, <2>3 DEF Load, Unload
  <2>4. CASE ScanStart \/ ScanListens \/ ScanAborted \/ StaleScanFinished \/ UNCHANGED vars
    BY <1>1, <2>4 DEF ScanStart, ScanListens, ScanAborted, StaleScanFinished, vars
  <2>5. QED
    BY <1>1, <2>1, <2>2, <2>3, <2>4 DEF Next, ScanEnds
<1>2. [Next]_vars =>
          [loaded /\ loaded' =>
              \A k \in DOMAIN devices \intersect DOMAIN devices' :
                  devices[k].source = "manual" => devices'[k].source = "manual"]_vars
  BY <1>1
<1>3. QED
  BY <1>2, PTL DEF Spec, ManualIsKept
=============================================================================
