-------------------------- MODULE GatewayIdentity --------------------------
(***************************************************************************)
(* Which gateway a config entry stands for (config_flow.py, the migration  *)
(* and the identity chosen in __init__.py, DiscoveredGateway in            *)
(* discovery.py).  Gateways are told apart by serial or UDN if discovery   *)
(* gives them, else by their address, which DHCP may change.  Every flow   *)
(* awaits discovery, then a connection test, and writes what it learned    *)
(* before; other flows run meanwhile.                                      *)
(*                                                                         *)
(* Serial and UDN of gateway g are both written g.  The port is one and    *)
(* the same, and passwords, titles and model names are left out.           *)
(***************************************************************************)
EXTENDS Integers, FiniteSets

CONSTANTS
    Gateways, Addresses, Flows,
    Settings,       \* the installations to look at, see SettingTypes
    MaxEntries,     \* bound: entries ever made
    None

VARIABLES
    setting,    \* which installation this is
    address,    \* external: the address of every gateway
    used,       \* external: the addresses that were ever in use
    moves,      \* bound
    made,       \* the number of entries ever made
    entries,    \* the config entries by number, the order of _async_current_entries
    flow        \* the flow in progress of each id

vars == <<setting, address, used, moves, made, entries, flow>>

\* The gateways with an entry made from complete metadata, and those with one of
\* version 2; the flows there are; whether flows are for addresses of gateways and learn
\* serial and UDN; whether an address may go from one gateway to another; the addresses
\* DHCP gives out, and how often they change (bound).
SettingTypes ==
    [configured : SUBSET Gateways, legacy : SUBSET Gateways,
     kinds : SUBSET {"user", "ssdp", "reconfigure"}, complete : BOOLEAN, reuse : BOOLEAN,
     addresses : SUBSET Addresses, maxMoves : Nat]
Had == setting.configured \union setting.legacy

\* DiscoveredGateway, reduced to what identifies it.
Infos == [endpoint : Addresses, serial : Gateways \union {None}, udn : Gateways \union {None}]

\* Variant: the serial identifies a gateway, given or not.
IdentitySerial(info) == [by |-> "serial", is |-> info.serial]

\* DiscoveredGateway.identity.
Identity(info) ==
    IF info.serial # None THEN [by |-> "serial", is |-> info.serial]
    ELSE IF info.udn # None THEN [by |-> "udn", is |-> info.udn]
    ELSE [by |-> "endpoint", is |-> info.endpoint]
Identities ==
    [by : {"serial", "udn"}, is : Gateways] \union [by : {"endpoint"}, is : Addresses]
EndpointId(a) == [by |-> "endpoint", is |-> a]

ASSUME ConstantsAssumption ==
    /\ IsFiniteSet(Gateways)
    /\ MaxEntries \in Nat
    /\ Settings \subseteq SettingTypes
    /\ \A s \in Settings :
        /\ s.configured \intersect s.legacy = {}
        /\ Cardinality(s.configured \union s.legacy) <= MaxEntries
    /\ None \notin Gateways \union Addresses \union Identities

\* An entry is an info with its unique_id, its CONF_GATEWAY_ID, and the gateway it was
\* made for (history).
Entry(info, uid, gid, of) ==
    [endpoint |-> info.endpoint, serial |-> info.serial, udn |-> info.udn,
     uid |-> uid, gid |-> gid, of |-> of]
Entries ==
    [endpoint : Addresses, serial : Gateways \union {None}, udn : Gateways \union {None},
     uid : Identities \union {None}, gid : Identities \union {None}, of : Gateways]

At(a) == {g \in Gateways : address[g] = a}
Known(info) == info.serial # None \/ info.udn # None

Idle == [kind |-> "idle"]
FlowTypes ==
    {Idle} \union [kind : {"create"}, info : Infos]
           \union [kind : {"reconfigure"}, info : Infos, entry : Nat]
InProgress(uid) == \E f \in Flows : flow[f].kind = "create" /\ Identity(flow[f].info) = uid

\* What CONF_GATEWAY_ID is, or becomes: legacy_id, and gateway_identity of
\* async_setup_entry.
RuntimeId(e) ==
    IF e.gid # None THEN e.gid ELSE IF e.uid # None THEN e.uid ELSE EndpointId(e.endpoint)

InitialEntry(g, a) ==
    IF g \in setting.configured
    THEN LET info == [endpoint |-> a, serial |-> g, udn |-> g]
         IN  {Entry(info, Identity(info), Identity(info), g)}
    ELSE LET info == [endpoint |-> a, serial |-> None, udn |-> None]
         IN  {Entry(info, uid, None, g) : uid \in {EndpointId(a), None}}

Init ==
    /\ setting \in Settings
    /\ address \in {f \in [Gateways -> setting.addresses] :
                       \A g, h \in Gateways : f[g] = f[h] => g = h}
    /\ used = {address[g] : g \in Gateways}
    /\ moves = 0
    /\ made = Cardinality(Had)
    /\ \E order \in {o \in [1..made -> Had] : {o[i] : i \in 1..made} = Had} :
        entries \in {es \in [1..made -> UNION {InitialEntry(g, address[g]) : g \in Had}] :
                        \A i \in 1..made : es[i] \in InitialEntry(order[i], address[order[i]])}
    /\ flow = [f \in Flows |-> Idle]

----------------------------------------------------------------------------
(* External: the network, and what discovery learns of it.                 *)

\* DHCP gives a gateway a free address, or exchanges the addresses of two if they are
\* reused.
Moves(g, a) ==
    /\ moves < setting.maxMoves /\ moves' = moves + 1
    /\ a # address[g]
    /\ IF setting.reuse
       THEN address' = [h \in Gateways |-> IF h = g THEN a
                                           ELSE IF address[h] = a THEN address[g] ELSE address[h]]
       ELSE a \notin used /\ address' = [address EXCEPT ![g] = a]
    /\ used' = used \union {a}
    /\ UNCHANGED <<setting, made, entries, flow>>

\* discover_gateway(host), merged with the SSDP headers in async_step_ssdp.
InfosAt(a, kind) ==
    {i \in Infos :
        /\ i.endpoint = a
        /\ {i.serial, i.udn} \subseteq At(a) \union {None}
        /\ setting.complete => i.serial # None /\ i.udn # None
        /\ kind = "ssdp" => i.udn # None}

----------------------------------------------------------------------------
(* Flows.                                                                  *)

\* Variant: an entry that was not migrated gets the new identity.
UpdatedAnew(e, info) ==
    LET serial == IF info.serial # None THEN info.serial ELSE e.serial
        udn    == IF info.udn # None THEN info.udn ELSE e.udn
        uid    == IF Known(info) THEN Identity(info) ELSE e.uid
    IN  Entry([endpoint |-> info.endpoint, serial |-> serial, udn |-> udn],
              uid, IF e.gid # None THEN e.gid ELSE Identity(info), e.of)

\* same_identity or same_endpoint.
MatchesEntry(e, info) == e.uid = Identity(info) \/ e.endpoint = info.endpoint

\* new_data and new_unique_id: metadata that were found replace those of the entry,
\* CONF_GATEWAY_ID is fixed.
Updated(e, info) ==
    LET serial == IF info.serial # None THEN info.serial ELSE e.serial
        udn    == IF info.udn # None THEN info.udn ELSE e.udn
    IN  Entry([endpoint |-> info.endpoint, serial |-> serial, udn |-> udn],
              IF Known(info) THEN Identity(info) ELSE e.uid, RuntimeId(e), e.of)

\* _handle_existing_gateway: the first match is updated, and the flow aborts.
HandleExisting(info) ==
    LET matches == {i \in DOMAIN entries : MatchesEntry(entries[i], info)}
    IN  \E m \in matches :
            /\ \A i \in matches : m <= i
            /\ entries' = [entries EXCEPT ![m] = Updated(@, info)]

\* async_step_user and async_step_ssdp once discovery has answered: the entry there is
\* is updated, or the flow is aborted by one in progress for the same unique id, or it
\* goes on to the test (at once, or when the user confirms).
Discovered(f, kind, a) ==
    /\ kind \in {"user", "ssdp"}
    /\ flow[f] = Idle
    /\ \E info \in InfosAt(a, kind) :
        \/ HandleExisting(info) /\ UNCHANGED flow
        \/ /\ \A i \in DOMAIN entries : ~MatchesEntry(entries[i], info)
           /\ ~InProgress(Identity(info))
           /\ flow' = [flow EXCEPT ![f] = [kind |-> "create", info |-> info]]
           /\ UNCHANGED entries
    /\ UNCHANGED <<setting, address, used, moves, made>>

\* _async_test_gateway: whoever is at the address answers.
TestPasses(info) == At(info.endpoint) # {}

\* async_create_entry; Home Assistant removes an entry that has the same unique id.
Created(f) ==
    /\ flow[f].kind = "create"
    /\ made < MaxEntries /\ made' = made + 1
    /\ LET info == flow[f].info
           kept == {i \in DOMAIN entries : entries[i].uid # Identity(info)}
           of   == CHOOSE g \in Gateways :
                       IF Known(info) THEN g \in {info.serial, info.udn} ELSE g \in At(info.endpoint)
       IN  /\ TestPasses(info)
           /\ entries' = [i \in kept \union {made'} |->
                            IF i \in kept THEN entries[i]
                            ELSE Entry(info, Identity(info), Identity(info), of)]
    /\ flow' = [flow EXCEPT ![f] = Idle]
    /\ UNCHANGED <<setting, address, used, moves>>

\* Variant: only the unique id is compared.
ConflictsUid(e, info) ==
    e.uid # None /\ e.uid.by = "udn" /\ info.udn # None /\ e.uid.is # info.udn

\* _gateway_identity_conflicts.
Conflicts(e, info) ==
    \/ e.serial # None /\ info.serial # None /\ e.serial # info.serial
    \/ e.udn # None /\ info.udn # None /\ e.udn # info.udn
    \/ e.uid # None /\ e.uid.by = "serial" /\ info.serial # None /\ e.uid.is # info.serial
    \/ e.uid # None /\ e.uid.by = "udn" /\ info.udn # None /\ e.uid.is # info.udn

\* Variant: the other entries are not looked at.
OwnedByNone(i, info) == FALSE

\* _identity_owned_by_other_entry.
OwnedByOther(i, info) ==
    Known(info) /\ \E j \in DOMAIN entries \ {i} : entries[j].uid = Identity(info)

\* _gateway_with_entry_metadata.
WithMetadata(e, info) ==
    [info EXCEPT !.serial = IF @ # None THEN @ ELSE e.serial,
                 !.udn = IF @ # None THEN @ ELSE e.udn]

\* async_step_reconfigure up to the test.
ReconfigureChecked(f, i, a) ==
    /\ "reconfigure" \in setting.kinds
    /\ flow[f] = Idle
    /\ \E info \in InfosAt(a, "reconfigure") :
        /\ ~Conflicts(entries[i], info)
        /\ ~OwnedByOther(i, info)
        /\ flow' = [flow EXCEPT ![f] = [kind |-> "reconfigure", entry |-> i,
                                        info |-> WithMetadata(entries[i], info)]]
    /\ UNCHANGED <<setting, address, used, moves, made, entries>>

\* After the test: the entry as it now is, with what was learned before.
Reconfigured(f) ==
    /\ flow[f].kind = "reconfigure"
    /\ TestPasses(flow[f].info)
    /\ flow[f].entry \in DOMAIN entries
    /\ entries' = [entries EXCEPT ![flow[f].entry] = Updated(@, flow[f].info)]
    /\ flow' = [flow EXCEPT ![f] = Idle]
    /\ UNCHANGED <<setting, address, used, moves, made>>

\* The test fails, or the user gives up.
Abandoned(f) ==
    /\ flow[f] # Idle
    /\ flow' = [flow EXCEPT ![f] = Idle]
    /\ UNCHANGED <<setting, address, used, moves, made, entries>>

\* async_migrate_entry.
Migrated(i) ==
    /\ entries[i].gid = None
    /\ entries' = [entries EXCEPT ![i] = Entry(@, @.uid, RuntimeId(@), @.of)]
    /\ UNCHANGED <<setting, address, used, moves, made, flow>>

Next ==
    \/ \E g \in Gateways, a \in setting.addresses : Moves(g, a)
    \/ \E f \in Flows :
        \/ \E kind \in setting.kinds, a \in setting.addresses : Discovered(f, kind, a)
        \/ \E i \in DOMAIN entries, a \in setting.addresses : ReconfigureChecked(f, i, a)
        \/ Created(f) \/ Reconfigured(f) \/ Abandoned(f)
    \/ \E i \in DOMAIN entries : Migrated(i)

Spec == Init /\ [][Next]_vars

----------------------------------------------------------------------------
(* Properties.                                                             *)

\* The types of the variables.
TypeOK ==
    /\ setting \in Settings
    /\ address \in [Gateways -> Addresses]
    /\ used \subseteq Addresses /\ moves \in 0..setting.maxMoves
    /\ made \in 0..MaxEntries /\ DOMAIN entries \subseteq 1..made
    /\ entries \in [DOMAIN entries -> Entries]
    /\ flow \in [Flows -> FlowTypes]

\* The identity all entity and device ids of an entry are made of never changes, in
\* whatever order migration, discovery and reconfiguration touch it, with whatever
\* metadata (CHANGELOG.md:73; __init__.py:52-56, 191-194; config_flow.py:269-273, 328-332).
RuntimeIdIsKept ==
    [][\A i \in DOMAIN entries \intersect DOMAIN entries' :
        RuntimeId(entries'[i]) = RuntimeId(entries[i])]_vars

\* No gateway gets a second entry, and no two entries share the identity of their
\* entities or their unique id, although flows decide on what they learned two awaits
\* ago.  Discovery must give serials or UDNs; a flow for a new gateway takes an address
\* for the gateway that had it (config_flow.py:320), so that with such flows addresses
\* must not be reused, nor entries without metadata be there.  Of two entries without
\* metadata that are reconfigured at a time both may get one unique id:
\* _identity_owned_by_other_entry is asked before the test and not again (config_flow.py:254).
OneEntryPerGateway ==
    /\ setting.complete
    /\ setting.kinds = {"reconfigure"} \/ (~setting.reuse /\ setting.legacy = {})
    => \A i, j \in DOMAIN entries : i # j =>
            /\ entries[i].of # entries[j].of
            /\ RuntimeId(entries[i]) # RuntimeId(entries[j])
            /\ ~({entries[i].of, entries[j].of} \subseteq setting.legacy)
                  => entries[i].uid # entries[j].uid

\* An entry made from complete metadata stays with its gateway (strings.json:56,
\* CHANGELOG.md:72): no reconfiguration gives it the serial or UDN of another, at
\* whatever addresses the gateways are found, and nor does any flow if addresses are not
\* reused.
EntryKeepsGateway ==
    /\ setting.legacy = {}
    /\ setting.kinds = {"reconfigure"} \/ (setting.complete /\ ~setting.reuse)
    => \A i \in DOMAIN entries :
            {entries[i].serial, entries[i].udn} \subseteq {entries[i].of, None}
=============================================================================
