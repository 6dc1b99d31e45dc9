----------------------------- MODULE Inventory -----------------------------
(***************************************************************************)
(* The device inventory of one config entry and everything derived from    *)
(* it: BticinoDeviceManager (device.py), the entities every platform keeps *)
(* for it (platform.py, binary_sensor.py, sensor.py), the list persisted   *)
(* in the config entry, and the options flows and registry callback that   *)
(* change it (config_flow.py, __init__.py).                                *)
(*                                                                         *)
(* A device is its key WHO-WHERE and a record; names and the capabilities  *)
(* no property tells apart are left out.  All changes run without an await *)
(* except the active scan, which captures the runtime data, probes and     *)
(* listens for seconds, and only then writes to what it captured.  So the  *)
(* entry may be unloaded and set up again under a scan.                    *)
(***************************************************************************)
EXTENDS TLC

CONSTANTS
    Keys,               \* device keys, "WHO-WHERE"
    DoorKeys,           \* those with WHO=6
    TypesOf,            \* the types its WHO allows (_ALLOWED_MANUAL_TYPES)
    Platforms           \* platforms of the instance, a subset of those below

\* The predicate each platform gives setup_dynamic_entities; the alarm groups of
\* binary_sensor.py follow the same protocol.
Matches ==
    [light               |-> {"light"},
     cover               |-> {"cover"},
     climate             |-> {"climate"},
     scene               |-> {"scene"},
     sensor              |-> {"energy"},
     button              |-> {"door_lock", "intercom"},
     alarm_control_panel |-> {"alarm"},
     binary_sensor       |-> {"alarm"}]

Types == UNION {Matches[p] : p \in DOMAIN Matches}

ASSUME ConstantsAssumption ==
    /\ DoorKeys \subseteq Keys
    /\ TypesOf \in [Keys -> SUBSET Types]
    /\ \A k \in Keys : \A p \in DOMAIN Matches :
           TypesOf[k] \subseteq Matches[p] \/ TypesOf[k] \intersect Matches[p] = {}
    /\ Platforms \subseteq DOMAIN Matches

VARIABLES
    loaded,     \* the entry has runtime data
    devices,    \* _devices of the current device manager
    entities,   \* live entities of each platform: what each was built from
    doorLog,    \* the shared door-entry event log entity exists
    persisted,  \* entry.data[CONF_DEVICES]
    scan,       \* await of async_step_run_discovery
    captured,   \* the inventory the scan writes to, once it is not devices
    overtaken   \* history: a scan of other runtime data wrote persisted last

vars == <<loaded, devices, entities, doorLog, persisted, scan, captured, overtaken>>

\* "stale": the scan still listens, but its runtime data were replaced.
ScanStates == {"idle", "probing", "listening", "stale"}

Empty == [k \in {} |-> k]

\* DiscoveredDevice, reduced to what is told apart; "advanced" stands for the
\* optional capabilities: position control and the climate profile.
Device(k) ==
    {d \in [type : TypesOf[k], source : {"passive", "active", "manual"}, advanced : BOOLEAN] :
        /\ d.advanced => d.type \in {"cover", "climate"}
        /\ d.source = "active" => d.type \in {"light", "cover", "alarm"}
        /\ d.source # "manual" => d.type # "door_lock"}

\* Functions that give each of some keys a device.
Inventories ==
    UNION {{f \in [S -> UNION {Device(k) : k \in S}] : \A k \in S : f[k] \in Device(k)} :
               S \in SUBSET Keys}

\* What a scan or passive learning may return: _TYPE_MAP has no door lock, and only
\* WHO=1, 2 and 5 are probed.
Findings ==
    {f \in Inventories : f # Empty /\ \A k \in DOMAIN f : f[k].source # "manual"}
Learned == {f \in Findings : \A k \in DOMAIN f : f[k].source = "passive"}
Manual == {f \in Inventories : \E k \in Keys : DOMAIN f = {k} /\ f[k].source = "manual"}

Init ==
    /\ loaded = FALSE
    /\ devices = Empty
    /\ entities = [p \in Platforms |-> Empty]
    /\ doorLog = FALSE
    /\ persisted = Empty
    /\ scan = "idle"
    /\ captured = Empty
    /\ overtaken = FALSE

----------------------------------------------------------------------------
(* BticinoDeviceManager and its listeners.                                 *)

\* Variant: discovery overwrites manual records.
TakesAlways(inv, k, d) == k \notin DOMAIN inv \/ inv[k] # d

\* manager.add changes the record of k to d.
Takes(inv, k, d) ==
    \/ k \notin DOMAIN inv
    \/ inv[k] # d /\ ~(inv[k].source = "manual" /\ d.source # "manual")

\* Variant: a known device is updated in place, as _store_found_device does.
MergedInPlace(inv, found) ==
    [k \in DOMAIN inv \union DOMAIN found |->
        IF k \notin DOMAIN inv THEN found[k]
        ELSE IF k \in DOMAIN found THEN [inv[k] EXCEPT !.source = found[k].source]
        ELSE inv[k]]

\* The inventory after manager.add of each device of found.
Merged(inv, found) ==
    [k \in DOMAIN inv \union DOMAIN found |->
        IF k \in DOMAIN found /\ Takes(inv, k, found[k]) THEN found[k] ELSE inv[k]]

Without(f, S) == [k \in DOMAIN f \ S |-> f[k]]

Wanted(p, d) == d.type \in Matches[p]

\* Variant: the keys already shown are not looked up.
EntitiesAddedAgain(p, found) ==
    LET new == {k \in DOMAIN found : Wanted(p, found[k])}
    IN  [k \in new |-> found[k].advanced]

\* The _device_added listeners: an entity for a matching key that has none; a
\* record that merely changed leaves its entity as it was built.
EntitiesAdded(p, found) ==
    LET new == {k \in DOMAIN found :
                   /\ Takes(devices, k, found[k])
                   /\ Wanted(p, found[k])
                   /\ k \notin DOMAIN entities[p]}
    IN  [k \in DOMAIN entities[p] \union new |->
            IF k \in new THEN found[k].advanced ELSE entities[p][k]]

\* manager.add of each device, its listeners, then _persist_devices.
AddDevices(found) ==
    /\ devices' = Merged(devices, found)
    /\ entities' = [p \in Platforms |-> EntitiesAdded(p, found)]
    /\ doorLog' = (doorLog \/ \E k \in DOMAIN found \intersect DoorKeys :
                                  Takes(devices, k, found[k]))
    /\ persisted' = Merged(devices, found)
    /\ overtaken' = FALSE

\* Variant: the first removed door device takes the event log with it.
RemoveDevicesAndLog(S) ==
    /\ devices' = Without(devices, S)
    /\ entities' = [p \in Platforms |-> Without(entities[p], S)]
    /\ doorLog' = (doorLog /\ S \intersect DoorKeys = {})
    /\ persisted' = Without(devices, S)
    /\ overtaken' = FALSE

\* Variant: removal is left to the next change to be persisted.
RemoveDevicesUnsaved(S) ==
    /\ devices' = Without(devices, S)
    /\ entities' = [p \in Platforms |-> Without(entities[p], S)]
    /\ doorLog' = (doorLog /\ (DOMAIN devices \ S) \intersect DoorKeys # {})
    /\ overtaken' = FALSE
    /\ UNCHANGED persisted

\* manager.remove of each key, its listeners, then _persist_devices.
RemoveDevices(S) ==
    /\ devices' = Without(devices, S)
    /\ entities' = [p \in Platforms |-> Without(entities[p], S)]
    /\ doorLog' = (doorLog /\ \/ S \intersect DOMAIN devices \intersect DoorKeys = {}
                              \/ (DOMAIN devices \ S) \intersect DoorKeys # {})
    /\ persisted' = Without(devices, S)
    /\ overtaken' = FALSE

----------------------------------------------------------------------------
(* The config entry.                                                       *)

\* async_setup_entry: manager and platforms are built from the persisted list.
Load ==
    /\ ~loaded
    /\ loaded' = TRUE
    /\ devices' = persisted
    /\ entities' = [p \in Platforms |->
            [k \in {k \in DOMAIN persisted : Wanted(p, persisted[k])} |->
                persisted[k].advanced]]
    /\ doorLog' = (DOMAIN persisted \intersect DoorKeys # {})
    /\ overtaken' = FALSE
    /\ UNCHANGED <<persisted, scan, captured>>

\* async_unload_entry.  The manager survives only in a scan that listens; a scan
\* that still probes meets a closed gateway and aborts (ScanAborted).
Unload ==
    /\ loaded
    /\ loaded' = FALSE
    /\ devices' = Empty
    /\ entities' = [p \in Platforms |-> Empty]
    /\ doorLog' = FALSE
    /\ scan' = CASE scan = "listening" -> "stale"
                 [] scan = "probing"   -> "idle"
                 [] OTHER              -> scan
    /\ captured' = IF scan = "listening" THEN devices ELSE captured
    /\ UNCHANGED <<persisted, overtaken>>

----------------------------------------------------------------------------
(* The options flow and the device registry.                               *)

\* async_step_manual_device.
AddManual ==
    /\ loaded
    /\ \E device \in Manual : AddDevices(device)
    /\ UNCHANGED <<loaded, scan, captured>>

\* async_step_select_learned: the runtime data are read after the listening.
SelectLearned ==
    /\ loaded
    /\ \E found \in Learned : AddDevices(found)
    /\ UNCHANGED <<loaded, scan, captured>>

\* async_step_remove_device.
RemoveSelected ==
    /\ loaded /\ devices # Empty
    /\ \E S \in SUBSET DOMAIN devices : RemoveDevices(S)
    /\ UNCHANGED <<loaded, scan, captured>>

\* async_remove_config_entry_device.
RemoveRegistryDevice ==
    /\ loaded
    /\ \E k \in DOMAIN devices : RemoveDevices({k})
    /\ UNCHANGED <<loaded, scan, captured>>

\* async_step_run_discovery captures the runtime data and probes.
ScanStart ==
    /\ loaded /\ scan = "idle"
    /\ scan' = "probing"
    /\ UNCHANGED <<loaded, devices, entities, doorLog, persisted, captured, overtaken>>

\* The last probe is answered; what remains is the listening window.
ScanListens ==
    /\ scan = "probing"
    /\ scan' = "listening"
    /\ UNCHANGED <<loaded, devices, entities, doorLog, persisted, captured, overtaken>>

\* A probe fails, or nothing was found: the flow aborts.
ScanAborted ==
    /\ scan # "idle"
    /\ scan' = "idle"
    /\ captured' = Empty
    /\ UNCHANGED <<loaded, devices, entities, doorLog, persisted, overtaken>>

ScanFinished ==
    /\ scan = "listening"
    /\ \E found \in Findings : AddDevices(found)
    /\ scan' = "idle"
    /\ UNCHANGED <<loaded, captured>>

\* The captured manager has no listener any more, but it is persisted.
StaleScanFinished ==
    /\ scan = "stale"
    /\ \E found \in Findings : persisted' = Merged(captured, found)
    /\ scan' = "idle"
    /\ captured' = Empty
    /\ overtaken' = TRUE
    /\ UNCHANGED <<loaded, devices, entities, doorLog>>

ScanEnds == ScanFinished \/ StaleScanFinished

Next ==
    \/ Load \/ Unload
    \/ AddManual \/ SelectLearned \/ RemoveSelected \/ RemoveRegistryDevice
    \/ ScanStart \/ ScanListens \/ ScanAborted \/ ScanEnds

Spec == Init /\ [][Next]_vars

----------------------------------------------------------------------------
(* Properties.                                                             *)

TypeOK ==
    /\ loaded \in BOOLEAN /\ doorLog \in BOOLEAN /\ overtaken \in BOOLEAN
    /\ devices \in Inventories /\ persisted \in Inventories /\ captured \in Inventories
    /\ DOMAIN entities = Platforms
    /\ \A p \in Platforms : /\ DOMAIN entities[p] \subseteq Keys
                            /\ \A k \in DOMAIN entities[p] : entities[p][k] \in BOOLEAN
    /\ scan \in ScanStates

\* Each platform shows exactly the devices of the inventory whose type is its
\* own, through every addition, overwrite, removal and reload.
EntityPerDevice ==
    \A p \in Platforms :
        DOMAIN entities[p] = {k \in DOMAIN devices : Wanted(p, devices[k])}

\* The shared door-entry log exists as long as there is a WHO=6 device.
DoorLogFollowsDevices ==
    doorLog <=> DOMAIN devices \intersect DoorKeys # {}

\* What a restart would load is what is shown now, unless a scan that outlived its
\* runtime data wrote last (config_flow.py:523-526); the next change, or a restart, puts
\* the two in step again.
PersistedIsInventory == loaded /\ ~overtaken => persisted = devices

\* A manual record gives way to a manual one or to a removal, never to discovery.
ManualIsKept ==
    [][loaded /\ loaded' =>
        \A k \in DOMAIN devices \intersect DOMAIN devices' :
            devices[k].source = "manual" => devices'[k].source = "manual"]_vars

\* A configured endpoint leaves the persisted list through a removal only
\* (README.md:199, USAGE.md:146).
RemovalIsExplicit ==
    [][DOMAIN persisted \subseteq DOMAIN persisted'
        \/ RemoveSelected \/ RemoveRegistryDevice]_vars
=============================================================================
