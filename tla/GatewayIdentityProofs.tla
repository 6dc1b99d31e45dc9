----------------------- MODULE GatewayIdentityProofs -----------------------
(***************************************************************************)
(* Theorems about GatewayIdentity: its types, that the identity the        *)
(* entities of an entry are made of never changes, that no gateway gets a  *)
(* second entry and no entry the metadata of another gateway.              *)
(***************************************************************************)
EXTENDS GatewayIdentity, FiniteSetTheorems, TLAPS

\* A gateway's identity is one.
LEMMA IdentityType ==
  ASSUME NEW info \in Infos
  PROVE  Identity(info) \in Identities
  BY DEF Infos, Identity, Identities

\* The runtime identity of an entry is an identity, in whatever state it is.
LEMMA RuntimeIdType ==
  ASSUME NEW e \in Entries
  PROVE  /\ RuntimeId(e) \in Identities
         /\ RuntimeId(e) # None
<1>1. RuntimeId(e) \in Identities
  BY DEF Entries, RuntimeId, EndpointId, Identities
<1> QED
  BY <1>1, ConstantsAssumption

\* Once CONF_GATEWAY_ID is there, it is the runtime identity.
LEMMA GivenId ==
  ASSUME NEW e, e.gid # None
  PROVE  RuntimeId(e) = e.gid
  BY DEF RuntimeId

\* An update makes an entry of an entry, and fixes its runtime identity.
LEMMA UpdatedEntry ==
  ASSUME NEW e \in Entries, NEW info \in Infos
  PROVE  /\ Updated(e, info) \in Entries
         /\ RuntimeId(Updated(e, info)) = RuntimeId(e)
<1>1. RuntimeId(e) \in Identities /\ RuntimeId(e) # None
  BY RuntimeIdType
<1>2. Identity(info) \in Identities
  BY IdentityType
<1>3. Updated(e, info) \in Entries
  BY <1>1, <1>2 DEF Updated, Entry, Entries, Infos
<1>4. Updated(e, info).gid = RuntimeId(e)
  BY DEF Updated, Entry
<1> QED
  BY <1>1, <1>3, <1>4, GivenId

\* Migration does, too.
LEMMA MigratedEntry ==
  ASSUME NEW e \in Entries
  PROVE  /\ Entry(e, e.uid, RuntimeId(e), e.of) \in Entries
         /\ RuntimeId(Entry(e, e.uid, RuntimeId(e), e.of)) = RuntimeId(e)
<1>1. RuntimeId(e) \in Identities /\ RuntimeId(e) # None
  BY RuntimeIdType
<1>2. Entry(e, e.uid, RuntimeId(e), e.of) \in Entries
  BY <1>1 DEF Entry, Entries
<1>3. Entry(e, e.uid, RuntimeId(e), e.of).gid = RuntimeId(e)
  BY DEF Entry
<1> QED
  BY <1>1, <1>2, <1>3, GivenId

\* The entries are typed, and numbered no higher than those made.
EntriesOK ==
    /\ DOMAIN entries \subseteq 1..made
    /\ entries \in [DOMAIN entries -> Entries]

\* An entry that stays keeps the identity of its entities.
Kept ==
    \A i \in DOMAIN entries \intersect DOMAIN entries' :
        RuntimeId(entries'[i]) = RuntimeId(entries[i])

\* An action that only updates one entry.
LEMMA OneUpdated ==
  ASSUME EntriesOK, NEW m, NEW info \in Infos, made' = made,
         entries' = [entries EXCEPT ![m] = Updated(@, info)]
  PROVE  EntriesOK' /\ Kept
<1>1. DOMAIN entries' = DOMAIN entries
  OBVIOUS
<1>2. ASSUME NEW j \in DOMAIN entries
      PROVE  entries'[j] \in Entries /\ RuntimeId(entries'[j]) = RuntimeId(entries[j])
  <2>1. entries[j] \in Entries
    BY DEF EntriesOK
  <2>2. entries'[j] = IF j = m THEN Updated(entries[j], info) ELSE entries[j]
    OBVIOUS
  <2> QED
    BY <2>1, <2>2, UpdatedEntry
<1>3. entries' \in [DOMAIN entries' -> Entries]
  BY <1>1, <1>2
<1> QED
  BY <1>1, <1>2, <1>3 DEF EntriesOK, Kept

\* An action that migrates one entry.
LEMMA OneMigrated ==
  ASSUME EntriesOK, NEW m, made' = made,
         entries' = [entries EXCEPT ![m] = Entry(@, @.uid, RuntimeId(@), @.of)]
  PROVE  EntriesOK' /\ Kept
<1>1. DOMAIN entries' = DOMAIN entries
  OBVIOUS
<1>2. ASSUME NEW j \in DOMAIN entries
      PROVE  entries'[j] \in Entries /\ RuntimeId(entries'[j]) = RuntimeId(entries[j])
  <2> DEFINE e == entries[j]
  <2>1. e \in Entries
    BY DEF EntriesOK
  <2>2. entries'[j] = IF j = m THEN Entry(e, e.uid, RuntimeId(e), e.of) ELSE e
    OBVIOUS
  <2> HIDE DEF e
  <2>3. entries'[j] \in Entries /\ RuntimeId(entries'[j]) = RuntimeId(e)
    BY <2>1, <2>2, MigratedEntry
  <2> QED
    BY <2>3 DEF e
<1>3. entries' \in [DOMAIN entries' -> Entries]
  BY <1>1, <1>2
<1> QED
  BY <1>1, <1>2, <1>3 DEF EntriesOK, Kept

----------------------------------------------------------------------------
(* The initial entries.                                                    *)

LEMMA InitialTypes == Init => TypeOK
<1> SUFFICES ASSUME Init PROVE TypeOK
  OBVIOUS
<1>1. /\ setting \in Settings /\ setting \in SettingTypes
      /\ address \in [Gateways -> setting.addresses]
      /\ Cardinality(Had) <= MaxEntries
  BY ConstantsAssumption DEF Init, Had
<1>2. /\ setting.addresses \subseteq Addresses /\ setting.maxMoves \in Nat
      /\ Had \subseteq Gateways
  BY <1>1 DEF SettingTypes, Had
<1>3. address \in [Gateways -> Addresses] /\ used \subseteq Addresses
  BY <1>1, <1>2 DEF Init
<1>4. made \in 0..MaxEntries
  <2>1. Cardinality(Had) \in Nat
    BY <1>2, ConstantsAssumption, FS_Subset, FS_CardinalityType
  <2> QED
    BY <1>1, <2>1, ConstantsAssumption DEF Init
<1>5. DOMAIN entries = 1..made /\ entries \in [1..made -> Entries]
  <2>1. PICK order \in [1..made -> Had] :
          /\ DOMAIN entries = 1..made
          /\ entries = [i \in 1..made |-> entries[i]]
          /\ \A i \in 1..made : entries[i] \in InitialEntry(order[i], address[order[i]])
    BY DEF Init
  <2>2. ASSUME NEW g \in Gateways, NEW a \in Addresses
        PROVE  InitialEntry(g, a) \subseteq Entries
    <3>1. ASSUME NEW info \in Infos, NEW uid \in Identities \union {None},
                 NEW gid \in Identities \union {None}
          PROVE  Entry(info, uid, gid, g) \in Entries
      BY DEF Entry, Entries, Infos
    <3>2. EndpointId(a) \in Identities
      BY DEF EndpointId, Identities
    <3>3. /\ [endpoint |-> a, serial |-> g, udn |-> g] \in Infos
          /\ [endpoint |-> a, serial |-> None, udn |-> None] \in Infos
      BY DEF Infos
    <3> QED
      BY <3>1, <3>2, <3>3, IdentityType DEF InitialEntry
  <2>3. ASSUME NEW i \in 1..made
        PROVE  entries[i] \in Entries
    <3>1. order[i] \in Gateways
      BY <1>2, <2>1
    <3>2. address[order[i]] \in Addresses
      BY <1>3, <3>1
    <3> QED
      BY <2>1, <2>2, <3>1, <3>2
  <2> QED
    BY <2>1, <2>3
<1>6. moves \in 0..setting.maxMoves /\ flow \in [Flows -> FlowTypes]
  BY <1>2 DEF Init, FlowTypes
<1> QED
  BY <1>1, <1>3, <1>4, <1>5, <1>6 DEF TypeOK

----------------------------------------------------------------------------
(* The steps.                                                              *)

\* The network changes no entry.
LEMMA MovesStep ==
  ASSUME TypeOK, NEW g \in Gateways, NEW a \in setting.addresses, Moves(g, a)
  PROVE  TypeOK' /\ Kept
<1>1. setting.addresses \subseteq Addresses /\ setting.maxMoves \in Nat
  BY ConstantsAssumption DEF TypeOK, SettingTypes
<1>2. /\ address' \in [Gateways -> Addresses]
      /\ used' \subseteq Addresses
      /\ moves' \in 0..setting.maxMoves
  BY <1>1 DEF TypeOK, Moves
<1>3. UNCHANGED <<setting, made, entries, flow>>
  BY DEF Moves
<1> QED
  BY <1>2, <1>3 DEF TypeOK, Kept

\* What the network does not change, and what a step says of entries and flow.
LEMMA FlowStep ==
  ASSUME TypeOK, UNCHANGED <<setting, address, used, moves>>,
         made' \in 0..MaxEntries, EntriesOK', Kept, flow' \in [Flows -> FlowTypes]
  PROVE  TypeOK' /\ Kept
  BY DEF TypeOK, EntriesOK

\* Discovery updates an entry that is there, or starts the creation of one.
LEMMA DiscoveredStep ==
  ASSUME TypeOK, NEW f \in Flows, NEW kind, NEW a, Discovered(f, kind, a)
  PROVE  TypeOK' /\ Kept
<1>1. EntriesOK /\ flow \in [Flows -> FlowTypes]
  BY DEF TypeOK, EntriesOK
<1>2. PICK info \in InfosAt(a, kind) :
        \/ HandleExisting(info) /\ UNCHANGED flow
        \/ /\ flow' = [flow EXCEPT ![f] = [kind |-> "create", info |-> info]]
           /\ UNCHANGED entries
  BY DEF Discovered
<1>3. info \in Infos
  BY DEF InfosAt
<1>4. UNCHANGED <<setting, address, used, moves, made>>
  BY DEF Discovered
<1>5. CASE HandleExisting(info) /\ UNCHANGED flow
  <2>1. PICK m : entries' = [entries EXCEPT ![m] = Updated(@, info)]
    BY <1>5 DEF HandleExisting
  <2>2. EntriesOK' /\ Kept
    BY <1>1, <1>3, <1>4, <2>1, OneUpdated
  <2> QED
    BY <1>1, <1>4, <1>5, <2>2, FlowStep DEF TypeOK
<1>6. CASE /\ flow' = [flow EXCEPT ![f] = [kind |-> "create", info |-> info]]
           /\ UNCHANGED entries
  <2>1. flow' \in [Flows -> FlowTypes]
    BY <1>1, <1>3, <1>6 DEF FlowTypes
  <2>2. EntriesOK' /\ Kept
    BY <1>1, <1>4, <1>6 DEF EntriesOK, Kept
  <2> QED
    BY <1>4, <2>1, <2>2, FlowStep DEF TypeOK
<1> QED
  BY <1>2, <1>5, <1>6

\* An entry is created under a new number, and those it does not replace stay.
LEMMA CreatedStep ==
  ASSUME TypeOK, NEW f \in Flows, Created(f)
  PROVE  TypeOK' /\ Kept
<1> DEFINE info == flow[f].info
           kept == {i \in DOMAIN entries : entries[i].uid # Identity(info)}
           of == CHOOSE g \in Gateways :
                    IF Known(info) THEN g \in {info.serial, info.udn} ELSE g \in At(info.endpoint)
           new == Entry(info, Identity(info), Identity(info), of)
<1>1. info \in Infos
  <2>1. flow[f] \in FlowTypes /\ flow[f].kind = "create"
    BY DEF TypeOK, Created
  <2> QED
    BY <2>1 DEF FlowTypes, Idle
<1>2. of \in Gateways
  <2>1. \E g \in Gateways :
            IF Known(info) THEN g \in {info.serial, info.udn} ELSE g \in At(info.endpoint)
    <3>1. CASE Known(info)
      BY <1>1, <3>1 DEF Known, Infos
    <3>2. CASE ~Known(info)
      BY <3>2 DEF Created, TestPasses, At
    <3> QED
      BY <3>1, <3>2
  <2> QED
    BY <2>1
<1>3. new \in Entries
  <2> HIDE DEF of
  <2> QED
    BY <1>1, <1>2, IdentityType DEF Entry, Entries, Infos
<1>4. /\ made' = made + 1 /\ made' \in 0..MaxEntries /\ made \in Nat
      /\ entries' = [i \in kept \union {made'} |-> IF i \in kept THEN entries[i] ELSE new]
      /\ UNCHANGED <<setting, address, used, moves>>
      /\ flow' = [flow EXCEPT ![f] = Idle]
  BY ConstantsAssumption DEF TypeOK, Created
<1>5. DOMAIN entries \subseteq 1..made /\ entries \in [DOMAIN entries -> Entries]
  BY DEF TypeOK
<1>6. /\ DOMAIN entries' = kept \union {made'}
      /\ \A i \in DOMAIN entries' : entries'[i] = IF i \in kept THEN entries[i] ELSE new
      /\ kept \subseteq DOMAIN entries
  BY <1>4
<1> HIDE DEF new, kept, of, info
<1>7. EntriesOK'
  <2>1. DOMAIN entries' \subseteq 1..made'
    BY <1>4, <1>5, <1>6
  <2>2. \A i \in DOMAIN entries' : entries'[i] \in Entries
    BY <1>3, <1>5, <1>6
  <2>3. entries' = [i \in DOMAIN entries' |-> entries'[i]]
    BY <1>4
  <2> QED
    BY <2>1, <2>2, <2>3 DEF EntriesOK
<1>8. Kept
  <2>1. made' \notin DOMAIN entries
    BY <1>4, <1>5
  <2> QED
    BY <1>6, <2>1 DEF Kept
<1>9. flow' \in [Flows -> FlowTypes]
  BY <1>4 DEF TypeOK, FlowTypes
<1> QED
  BY <1>4, <1>7, <1>8, <1>9, FlowStep

\* A reconfiguration that passes its first tests remembers what it learned.
LEMMA CheckedStep ==
  ASSUME TypeOK, NEW f \in Flows, NEW i \in DOMAIN entries, NEW a, ReconfigureChecked(f, i, a)
  PROVE  TypeOK' /\ Kept
<1>1. PICK info \in InfosAt(a, "reconfigure") :
        flow' = [flow EXCEPT ![f] = [kind |-> "reconfigure", entry |-> i,
                                     info |-> WithMetadata(entries[i], info)]]
  BY DEF ReconfigureChecked
<1>2. WithMetadata(entries[i], info) \in Infos
  <2>1. info \in Infos /\ entries[i] \in Entries
    BY DEF InfosAt, TypeOK
  <2> QED
    BY <2>1 DEF WithMetadata, Infos, Entries
<1>3. i \in Nat
  BY DEF TypeOK
<1>4. flow' \in [Flows -> FlowTypes]
  BY <1>1, <1>2, <1>3 DEF TypeOK, FlowTypes
<1>5. UNCHANGED <<setting, address, used, moves, made, entries>>
  BY DEF ReconfigureChecked
<1> QED
  BY <1>4, <1>5 DEF TypeOK, Kept

\* A reconfiguration that passes the connection test updates the entry as it now is.
LEMMA ReconfiguredStep ==
  ASSUME TypeOK, NEW f \in Flows, Reconfigured(f)
  PROVE  TypeOK' /\ Kept
<1>1. flow[f] \in FlowTypes /\ flow[f].kind = "reconfigure"
  BY DEF TypeOK, Reconfigured
<1>2. flow[f].info \in Infos
  BY <1>1 DEF FlowTypes, Idle
<1>3. UNCHANGED <<setting, address, used, moves, made>>
  BY DEF Reconfigured
<1>4. EntriesOK
  BY DEF TypeOK, EntriesOK
<1>5. EntriesOK' /\ Kept
  <2>1. PICK m : entries' = [entries EXCEPT ![m] = Updated(@, flow[f].info)]
    BY DEF Reconfigured
  <2> QED
    BY <1>2, <1>3, <1>4, <2>1, OneUpdated
<1>6. flow' \in [Flows -> FlowTypes]
  BY DEF Reconfigured, TypeOK, FlowTypes
<1> QED
  BY <1>3, <1>5, <1>6, FlowStep DEF TypeOK

\* A flow that ends without a change.
LEMMA AbandonedStep ==
  ASSUME TypeOK, NEW f \in Flows, Abandoned(f)
  PROVE  TypeOK' /\ Kept
<1>1. flow' \in [Flows -> FlowTypes]
  BY DEF Abandoned, TypeOK, FlowTypes
<1>2. UNCHANGED <<setting, address, used, moves, made, entries>>
  BY DEF Abandoned
<1> QED
  BY <1>1, <1>2 DEF TypeOK, Kept

\* Migration of one entry.
LEMMA MigratedStep ==
  ASSUME TypeOK, NEW i \in DOMAIN entries, Migrated(i)
  PROVE  TypeOK' /\ Kept
<1>1. UNCHANGED <<setting, address, used, moves, made, flow>>
  BY DEF Migrated
<1>2. EntriesOK
  BY DEF TypeOK, EntriesOK
<1>3. EntriesOK' /\ Kept
  <2>1. entries' = [entries EXCEPT ![i] = Entry(@, @.uid, RuntimeId(@), @.of)]
    BY DEF Migrated
  <2> QED
    BY <1>1, <1>2, <2>1, OneMigrated
<1> QED
  BY <1>1, <1>3, FlowStep DEF TypeOK

\* Every step keeps the types and the identity of the entities of every entry.
LEMMA Step == TypeOK /\ [Next]_vars => TypeOK' /\ Kept
<1> SUFFICES ASSUME TypeOK, [Next]_vars PROVE TypeOK' /\ Kept
  OBVIOUS
<1>1. CASE \E g \in Gateways, a \in setting.addresses : Moves(g, a)
  BY <1>1, MovesStep
<1>2. CASE \E f \in Flows, kind \in setting.kinds, a \in setting.addresses : Discovered(f, kind, a)
  BY <1>2, DiscoveredStep
<1>3. CASE \E f \in Flows, i \in DOMAIN entries, a \in setting.addresses :
             ReconfigureChecked(f, i, a)
  BY <1>3, CheckedStep
<1>4. CASE \E f \in Flows : Created(f)
  BY <1>4, CreatedStep
<1>5. CASE \E f \in Flows : Reconfigured(f)
  BY <1>5, ReconfiguredStep
<1>6. CASE \E f \in Flows : Abandoned(f)
  BY <1>6, AbandonedStep
<1>7. CASE \E i \in DOMAIN entries : Migrated(i)
  BY <1>7, MigratedStep
<1>8. CASE UNCHANGED vars
  BY <1>8 DEF vars, TypeOK, Kept
<1> QED
  BY <1>1, <1>2, <1>3, <1>4, <1>5, <1>6, <1>7, <1>8 DEF Next

----------------------------------------------------------------------------
(* The theorems.                                                           *)

\* Entries, flows and addresses are of their types in every installation.
THEOREM TypesCorrect == Spec => []TypeOK
<1>1. TypeOK /\ [Next]_vars => TypeOK'
  BY Step
<1> QED
  BY InitialTypes, <1>1, PTL DEF Spec

\* Whatever migration, discovery and reconfiguration do to an entry, in any order and
\* with any metadata, the identity its entities are made of is the same for ever.
THEOREM RuntimeIdKept == Spec => RuntimeIdIsKept
<1>1. TypeOK /\ [Next]_vars =>
        [\A i \in DOMAIN entries \intersect DOMAIN entries' :
            RuntimeId(entries'[i]) = RuntimeId(entries[i])]_vars
  BY Step DEF Kept
<1> QED
  BY TypesCorrect, <1>1, PTL DEF Spec, RuntimeIdIsKept

----------------------------------------------------------------------------
(* Whose metadata an entry has: the inductive invariant.                   *)

\* The identity discovery gives gateway g when it learns its serial.
SerialId(g) == [by |-> "serial", is |-> g]

\* The two kinds of installation the properties are about: entries are only
\* reconfigured; or discovery gives all metadata, no address goes from one gateway to
\* another, and no entry is without metadata.
Fixed == setting.kinds = {"reconfigure"}
Fresh == setting.complete /\ ~setting.reuse /\ setting.legacy = {}

\* An entry all of whose metadata are those of its gateway.
Full(e) ==
    /\ e.serial = e.of /\ e.udn = e.of
    /\ e.uid = SerialId(e.of) /\ e.gid = SerialId(e.of)

\* Nobody but g is, or if addresses are not reused ever will be, at address a.
ServedBy(a, g) == a \in used /\ At(a) \subseteq {g}

NetOK ==
    /\ \A g, h \in Gateways : address[g] = address[h] => g = h
    /\ \A g \in Gateways : address[g] \in used

EntryOK(e) ==
    e.of \notin setting.legacy => Full(e) /\ (Fresh => ServedBy(e.endpoint, e.of))

CreateOK(info) ==
    /\ ~Fixed
    /\ info.serial # None /\ info.udn = info.serial
    /\ Fresh => ServedBy(info.endpoint, info.serial)

ReconfigureOK(i, info) ==
    /\ i \in 1..made
    /\ i \in DOMAIN entries /\ entries[i].of \notin setting.legacy =>
          /\ info.serial = entries[i].of /\ info.udn = entries[i].of
          /\ Fresh => ServedBy(info.endpoint, info.serial)
    /\ Fixed /\ setting.complete =>
          /\ info.serial # None
          /\ \A j \in DOMAIN entries \ {i} :
                entries[j].of \notin setting.legacy => info.serial # entries[j].of

FlowOK(fl) ==
    /\ fl.kind = "create" => CreateOK(fl.info)
    /\ fl.kind = "reconfigure" => ReconfigureOK(fl.entry, fl.info)

Apart ==
    \A i, j \in DOMAIN entries : i # j =>
        /\ entries[i].of # entries[j].of
        /\ Fixed => RuntimeId(entries[i]) # RuntimeId(entries[j])
        /\ Fixed /\ setting.complete /\ entries[j].of \notin setting.legacy
              => entries[i].uid # SerialId(entries[j].of)

EntriesGood == \A i \in DOMAIN entries : EntryOK(entries[i])
FlowsGood   == \A f \in Flows : FlowOK(flow[f])

Good  == NetOK /\ EntriesGood /\ FlowsGood /\ Apart
IdInv == Fixed \/ Fresh => Good

----------------------------------------------------------------------------
(* Metadata that are learned, and what they make of an entry.              *)

\* What discovery learns when it learns serial and UDN: whose address it is.
LEMMA Learned ==
  ASSUME TypeOK, NetOK, setting.complete, NEW a, NEW kind, NEW info \in InfosAt(a, kind)
  PROVE  /\ info \in Infos /\ info.endpoint = a
         /\ info.serial \in Gateways /\ info.serial # None /\ info.udn = info.serial
         /\ ServedBy(a, info.serial)
<1>1. /\ info \in Infos /\ info.endpoint = a
      /\ {info.serial, info.udn} \subseteq At(a) \union {None}
      /\ info.serial # None /\ info.udn # None
  BY DEF InfosAt
<1>2. info.serial \in At(a) /\ info.udn \in At(a)
  BY <1>1
<1>3. \A g \in At(a) : g = info.serial
  BY <1>2 DEF At, NetOK
<1>4. a \in used
  BY <1>2 DEF At, NetOK
<1> QED
  BY <1>1, <1>2, <1>3, <1>4 DEF ServedBy, At

\* A serial is what the identity is taken from.
LEMMA SerialIsIdentity ==
  ASSUME NEW info, info.serial # None
  PROVE  Known(info) /\ Identity(info) = SerialId(info.serial)
  BY DEF Known, Identity, SerialId

\* An update stays with the gateway the entry was made for, takes the address, and the
\* serial that was learned.
LEMMA UpdatedKeeps ==
  ASSUME NEW e \in Entries, NEW info \in Infos
  PROVE  /\ Updated(e, info).of = e.of
         /\ Updated(e, info).endpoint = info.endpoint
         /\ info.serial # None => Updated(e, info).uid = SerialId(info.serial)
         /\ Full(e) /\ info.serial = e.of /\ info.udn = e.of => Full(Updated(e, info))
<1>1. Updated(e, info).of = e.of /\ Updated(e, info).endpoint = info.endpoint
  BY DEF Updated, Entry
<1>2. info.serial # None => Updated(e, info).uid = SerialId(info.serial)
  BY SerialIsIdentity DEF Updated, Entry
<1>3. ASSUME Full(e), info.serial = e.of, info.udn = e.of
      PROVE  Full(Updated(e, info))
  <2>1. e.of # None
    BY ConstantsAssumption DEF Entries
  <2>2. Updated(e, info).gid = RuntimeId(e) /\ RuntimeId(e) # None
    BY RuntimeIdType DEF Updated, Entry
  <2>3. RuntimeId(e) = SerialId(e.of)
    <3>1. SerialId(e.of) \in Identities
      BY DEF SerialId, Identities, Entries
    <3> QED
      BY <1>3, <3>1, ConstantsAssumption DEF RuntimeId, Full
  <2>4. Updated(e, info).serial = e.of /\ Updated(e, info).udn = e.of
    BY <1>3, <2>1 DEF Updated, Entry
  <2> QED
    BY <1>1, <1>2, <1>3, <2>1, <2>2, <2>3, <2>4 DEF Full
<1> QED
  BY <1>1, <1>2, <1>3

\* A flow that was right stays so when the network stays, and the entries that stay are
\* for the gateways they were for.
LEMMA FlowStays ==
  ASSUME TypeOK, UNCHANGED <<setting, address, used>>, made' \in Nat, made <= made',
         \A i \in 1..made : i \in DOMAIN entries' =>
            i \in DOMAIN entries /\ entries'[i].of = entries[i].of,
         Fixed => DOMAIN entries' \subseteq DOMAIN entries
  PROVE  \A fl \in FlowTypes : FlowOK(fl) => FlowOK(fl)'
<1> SUFFICES ASSUME NEW fl \in FlowTypes, FlowOK(fl) PROVE FlowOK(fl)'
  OBVIOUS
<1>1. made \in Nat /\ DOMAIN entries \subseteq 1..made
  BY ConstantsAssumption DEF TypeOK
<1>2. Fixed' = Fixed /\ Fresh' = Fresh
  BY DEF Fixed, Fresh
<1>3. \A a, g : ServedBy(a, g)' = ServedBy(a, g)
  BY DEF ServedBy, At
<1>4. ASSUME fl.kind = "create" PROVE CreateOK(fl.info)'
  BY <1>2, <1>3, <1>4 DEF FlowOK, CreateOK
<1>5. ASSUME fl.kind = "reconfigure" PROVE ReconfigureOK(fl.entry, fl.info)'
  <2>1. ReconfigureOK(fl.entry, fl.info)
    BY <1>5 DEF FlowOK
  <2>2. fl.entry \in 1..made /\ fl.entry \in 1..made'
    BY <1>1, <2>1 DEF ReconfigureOK
  <2>3. Fixed => \A j \in DOMAIN entries' : j \in DOMAIN entries /\ entries'[j].of = entries[j].of
    BY <1>1
  <2> QED
    BY <1>2, <1>3, <2>1, <2>2, <2>3 DEF ReconfigureOK
<1> QED
  BY <1>4, <1>5 DEF FlowOK

\* An idle flow is right.
LEMMA IdleIsOK == FlowOK(Idle)
  BY DEF FlowOK, Idle

\* An entry that was right stays so when the network stays.
LEMMA EntryStays ==
  ASSUME UNCHANGED <<setting, address, used>>
  PROVE  \A e : EntryOK(e) => EntryOK(e)'
  BY DEF EntryOK, Full, SerialId, Fresh, ServedBy, At

\* The entry of a flow that has learned what it needs is updated.
LEMMA UpdateIsGood ==
  ASSUME TypeOK, Good, Fixed \/ Fresh, UNCHANGED <<setting, address, used, made>>,
         NEW m \in DOMAIN entries, NEW info \in Infos, ReconfigureOK(m, info),
         entries' = [entries EXCEPT ![m] = Updated(@, info)],
         \A f \in Flows : flow'[f] \in {flow[f], Idle}
  PROVE  Good'
<1>1. /\ DOMAIN entries' = DOMAIN entries /\ made \in Nat
      /\ \A j \in DOMAIN entries :
            entries'[j] = IF j = m THEN Updated(entries[j], info) ELSE entries[j]
  BY ConstantsAssumption DEF TypeOK
<1>2. \A j \in DOMAIN entries : entries[j] \in Entries
  BY DEF TypeOK
<1>3. \A j \in DOMAIN entries :
        /\ entries'[j].of = entries[j].of
        /\ RuntimeId(entries'[j]) = RuntimeId(entries[j])
  BY <1>1, <1>2, UpdatedEntry, UpdatedKeeps
<1>4. Fixed' = Fixed /\ Fresh' = Fresh /\ setting' = setting
  BY DEF Fixed, Fresh
<1>5. NetOK'
  BY DEF Good, NetOK
<1>6. FlowsGood'
  <2>1. DOMAIN entries \subseteq 1..made
    BY DEF TypeOK
  <2>2. \A fl \in FlowTypes : FlowOK(fl) => FlowOK(fl)'
    BY <1>1, <1>3, <2>1, FlowStays
  <2>3. ASSUME NEW f \in Flows PROVE FlowOK(flow[f])'
    <3>1. FlowOK(flow[f]) /\ flow[f] \in FlowTypes /\ Idle \in FlowTypes
      BY DEF Good, FlowsGood, TypeOK, FlowTypes
    <3>2. PICK fl \in FlowTypes : flow'[f] = fl /\ FlowOK(fl)
      BY <3>1, IdleIsOK
    <3>3. FlowOK(fl)'
      BY <2>2, <3>2
    <3> QED
      BY <3>2, <3>3 DEF FlowOK, CreateOK, ReconfigureOK
  <2> QED
    BY <2>3 DEF FlowsGood
<1>7. EntriesGood'
  <2>1. ASSUME NEW j \in DOMAIN entries PROVE EntryOK(entries[j])'
    <3>1. EntryOK(entries[j])
      BY DEF Good, EntriesGood
    <3>2. PICK e : e = entries'[j]
      OBVIOUS
    <3>3. EntryOK(e)
      <4>1. CASE j # m
        BY <1>1, <3>1, <3>2, <4>1
      <4>2. CASE j = m /\ entries[m].of \notin setting.legacy
        <5>1. /\ info.serial = entries[m].of /\ info.udn = entries[m].of
              /\ Fresh => ServedBy(info.endpoint, info.serial)
          BY <4>2 DEF ReconfigureOK
        <5>2. e = Updated(entries[m], info) /\ Full(entries[m]) /\ entries[m] \in Entries
          BY <1>1, <1>2, <3>1, <3>2, <4>2 DEF EntryOK
        <5> QED
          BY <5>1, <5>2, UpdatedKeeps DEF EntryOK
      <4>3. CASE j = m /\ entries[m].of \in setting.legacy
        BY <1>1, <1>2, <3>2, <4>3, UpdatedKeeps DEF EntryOK
      <4> QED
        BY <4>1, <4>2, <4>3
    <3>4. EntryOK(e)'
      BY <3>3, EntryStays
    <3> QED
      BY <3>2, <3>4 DEF EntryOK, Full, ServedBy
  <2> QED
    BY <1>1, <2>1 DEF EntriesGood
<1>8. Apart'
  <2>1. ASSUME NEW i \in DOMAIN entries, NEW j \in DOMAIN entries, i # j
        PROVE  /\ entries'[i].of # entries'[j].of
               /\ Fixed => RuntimeId(entries'[i]) # RuntimeId(entries'[j])
    BY <1>3, <2>1 DEF Good, Apart
  <2>2. ASSUME NEW i \in DOMAIN entries, NEW j \in DOMAIN entries, i # j,
               Fixed, setting.complete, entries'[j].of \notin setting.legacy
        PROVE  entries'[i].uid # SerialId(entries'[j].of)
    <3>1. entries[j].of \notin setting.legacy /\ entries'[j].of = entries[j].of
      BY <1>3, <2>2
    <3>2. CASE i # m
      BY <1>1, <2>2, <3>1, <3>2 DEF Good, Apart
    <3>3. CASE i = m
      <4>1. info.serial # None /\ info.serial # entries[j].of
        BY <2>2, <3>1, <3>3 DEF ReconfigureOK
      <4>2. entries'[i].uid = SerialId(info.serial)
        BY <1>1, <1>2, <3>3, <4>1, UpdatedKeeps
      <4> QED
        BY <3>1, <4>1, <4>2 DEF SerialId
    <3> QED
      BY <3>2, <3>3
  <2>3. \A e : RuntimeId(e)' = RuntimeId(e)
    BY DEF RuntimeId
  <2> QED
    BY <1>1, <1>4, <2>1, <2>2 DEF Apart, RuntimeId, SerialId
<1> QED
  BY <1>5, <1>6, <1>7, <1>8 DEF Good

----------------------------------------------------------------------------
(* The steps.                                                              *)

\* DHCP moves a gateway: to an address never used, or, if they are reused, to that of
\* another, which gets its own.
LEMMA MovesIsGood ==
  ASSUME TypeOK, Good, Fixed \/ Fresh,
         NEW g \in Gateways, NEW a \in setting.addresses, Moves(g, a)
  PROVE  Good'
<1>1. UNCHANGED <<setting, made, entries, flow>> /\ used' = used \union {a}
  BY DEF Moves
<1>2. Fixed' = Fixed /\ Fresh' = Fresh
  BY <1>1 DEF Fixed, Fresh
<1>3. address \in [Gateways -> Addresses] /\ a # address[g]
  BY DEF TypeOK, Moves
<1>4. NetOK
  BY DEF Good
<1>5. NetOK'
  <2>1. CASE setting.reuse
    <3>1. \A h \in Gateways :
            address'[h] = IF h = g THEN a ELSE IF address[h] = a THEN address[g] ELSE address[h]
      BY <2>1 DEF Moves
    <3> QED
      BY <1>1, <1>3, <1>4, <3>1 DEF NetOK
  <2>2. CASE ~setting.reuse
    <3>1. a \notin used /\ \A h \in Gateways : address'[h] = IF h = g THEN a ELSE address[h]
      BY <1>3, <2>2 DEF Moves
    <3> QED
      BY <1>1, <1>4, <3>1 DEF NetOK
  <2> QED
    BY <2>1, <2>2
<1>6. ASSUME Fresh, NEW b, NEW h, ServedBy(b, h) PROVE ServedBy(b, h)'
  <2>1. a \notin used /\ \A k \in Gateways : address'[k] = IF k = g THEN a ELSE address[k]
    BY <1>3, <1>6 DEF Moves, Fresh
  <2>2. b \in used /\ b # a
    BY <1>6, <2>1 DEF ServedBy
  <2>3. At(b)' \subseteq At(b)
    BY <2>1, <2>2 DEF At
  <2> QED
    BY <1>1, <1>6, <2>2, <2>3 DEF ServedBy
<1>7. EntriesGood'
  <2>1. \A i \in DOMAIN entries : EntryOK(entries[i])
    BY DEF Good, EntriesGood
  <2>2. \A i \in DOMAIN entries : EntryOK(entries[i])'
    BY <1>1, <1>2, <1>6, <2>1 DEF EntryOK, Full, SerialId
  <2> QED
    BY <1>1, <2>2 DEF EntriesGood
<1>8. FlowsGood'
  <2>1. ASSUME NEW f \in Flows PROVE FlowOK(flow[f])'
    <3>1. FlowOK(flow[f])
      BY DEF Good, FlowsGood
    <3>2. flow[f].kind = "create" => CreateOK(flow[f].info)'
      BY <1>1, <1>2, <1>6, <3>1 DEF FlowOK, CreateOK
    <3>3. flow[f].kind = "reconfigure" => ReconfigureOK(flow[f].entry, flow[f].info)'
      BY <1>1, <1>2, <1>6, <3>1 DEF FlowOK, ReconfigureOK
    <3> QED
      BY <1>1, <3>2, <3>3 DEF FlowOK
  <2> QED
    BY <2>1 DEF FlowsGood
<1>9. Apart'
  BY <1>1, <1>2 DEF Good, Apart, RuntimeId, SerialId
<1> QED
  BY <1>5, <1>7, <1>8, <1>9 DEF Good

\* Entries and network stay, and one flow at most goes on, with what it may.
LEMMA FlowIsGood ==
  ASSUME TypeOK, Good, UNCHANGED <<setting, address, used, made, entries>>,
         NEW f \in Flows, NEW fl \in FlowTypes, FlowOK(fl), flow' = [flow EXCEPT ![f] = fl]
  PROVE  Good'
<1>1. made \in Nat
  BY ConstantsAssumption DEF TypeOK
<1>2. \A x \in FlowTypes : FlowOK(x) => FlowOK(x)'
  BY <1>1, FlowStays
<1>3. FlowsGood'
  <2>1. ASSUME NEW h \in Flows PROVE FlowOK(flow[h])'
    <3>1. FlowOK(flow[h]) /\ flow[h] \in FlowTypes
      BY DEF Good, FlowsGood, TypeOK
    <3>2. flow'[h] = IF h = f THEN fl ELSE flow[h]
      BY DEF TypeOK
    <3>3. PICK x \in FlowTypes : flow'[h] = x /\ FlowOK(x)
      BY <3>1, <3>2
    <3>4. FlowOK(x)'
      BY <1>2, <3>3
    <3> QED
      BY <3>3, <3>4 DEF FlowOK, CreateOK, ReconfigureOK
  <2> QED
    BY <2>1 DEF FlowsGood
<1>4. NetOK' /\ Apart'
  BY DEF Good, NetOK, Apart, Fixed, RuntimeId, SerialId
<1>5. EntriesGood'
  BY DEF Good, EntriesGood, EntryOK, Full, SerialId, Fresh, ServedBy, At
<1> QED
  BY <1>3, <1>4, <1>5 DEF Good

\* Discovery finds a gateway that has an entry, by identity or address, and updates this
\* one: the two are of the same gateway.  Else a flow creates one.
LEMMA DiscoveredIsGood ==
  ASSUME TypeOK, Good, Fixed \/ Fresh,
         NEW f \in Flows, NEW kind \in setting.kinds, NEW a, Discovered(f, kind, a)
  PROVE  Good'
<1>1. ~Fixed /\ Fresh /\ setting.complete /\ setting.legacy = {}
  BY DEF Discovered, Fixed, Fresh
<1>2. PICK info \in InfosAt(a, kind) :
        \/ HandleExisting(info) /\ UNCHANGED flow
        \/ /\ flow' = [flow EXCEPT ![f] = [kind |-> "create", info |-> info]]
           /\ UNCHANGED entries
  BY DEF Discovered
<1>3. /\ info \in Infos /\ info.endpoint = a
      /\ info.serial \in Gateways /\ info.serial # None /\ info.udn = info.serial
      /\ ServedBy(a, info.serial)
  BY <1>1, Learned DEF Good
<1>4. UNCHANGED <<setting, address, used, moves, made>>
  BY DEF Discovered
<1>5. CASE HandleExisting(info) /\ UNCHANGED flow
  <2>1. PICK m \in DOMAIN entries :
          MatchesEntry(entries[m], info) /\ entries' = [entries EXCEPT ![m] = Updated(@, info)]
    BY <1>5 DEF HandleExisting
  <2>2. entries[m].of = info.serial
    <3>1. Full(entries[m]) /\ ServedBy(entries[m].endpoint, entries[m].of)
      BY <1>1 DEF Good, EntriesGood, EntryOK
    <3>2. CASE entries[m].uid = Identity(info)
      BY <1>3, <3>1, <3>2, SerialIsIdentity DEF Full, SerialId
    <3>3. CASE entries[m].endpoint = info.endpoint
      <4>1. info.serial \in At(a)
        BY <1>2, <1>3 DEF InfosAt
      <4> QED
        BY <1>3, <3>1, <3>3, <4>1 DEF ServedBy
    <3> QED
      BY <2>1, <3>2, <3>3 DEF MatchesEntry
  <2>3. ReconfigureOK(m, info)
    BY <1>1, <1>3, <2>2 DEF ReconfigureOK, TypeOK
  <2> QED
    BY <1>3, <1>4, <1>5, <2>1, <2>3, UpdateIsGood
<1>6. CASE /\ flow' = [flow EXCEPT ![f] = [kind |-> "create", info |-> info]]
           /\ UNCHANGED entries
  <2>1. [kind |-> "create", info |-> info] \in FlowTypes
    BY <1>3 DEF FlowTypes
  <2>2. FlowOK([kind |-> "create", info |-> info])
    BY <1>1, <1>3 DEF FlowOK, CreateOK
  <2> QED
    BY <1>4, <1>6, <2>1, <2>2, FlowIsGood
<1> QED
  BY <1>2, <1>5, <1>6

\* A reconfiguration goes on to the test only with metadata that are its entry's, and
\* those of no other entry.
LEMMA CheckedIsGood ==
  ASSUME TypeOK, Good, Fixed \/ Fresh,
         NEW f \in Flows, NEW i \in DOMAIN entries, NEW a, ReconfigureChecked(f, i, a)
  PROVE  Good'
<1>1. PICK found \in InfosAt(a, "reconfigure") :
        /\ ~Conflicts(entries[i], found) /\ ~OwnedByOther(i, found)
        /\ flow' = [flow EXCEPT ![f] = [kind |-> "reconfigure", entry |-> i,
                                        info |-> WithMetadata(entries[i], found)]]
  BY DEF ReconfigureChecked
<1> DEFINE info == WithMetadata(entries[i], found)
           fl == [kind |-> "reconfigure", entry |-> i, info |-> info]
<1>2. found \in Infos /\ found.endpoint = a /\ entries[i] \in Entries
  BY DEF InfosAt, TypeOK
<1>3. /\ info \in Infos /\ info.endpoint = a
      /\ info.serial = IF found.serial # None THEN found.serial ELSE entries[i].serial
      /\ info.udn = IF found.udn # None THEN found.udn ELSE entries[i].udn
  BY <1>2 DEF WithMetadata, Infos, Entries
<1>4. i \in 1..made /\ i \in Nat
  BY DEF TypeOK
<1>5. fl \in FlowTypes
  BY <1>3, <1>4 DEF FlowTypes
<1> HIDE DEF info
<1>6. ASSUME entries[i].of \notin setting.legacy
      PROVE  /\ info.serial = entries[i].of /\ info.udn = entries[i].of
             /\ Fresh => ServedBy(info.endpoint, info.serial)
  <2>1. Full(entries[i]) /\ entries[i].of # None
    BY <1>2, <1>6, ConstantsAssumption DEF Good, EntriesGood, EntryOK, Entries
  <2>2. info.serial = entries[i].of /\ info.udn = entries[i].of
    BY <1>1, <1>3, <2>1 DEF Conflicts, Full
  <2>3. ASSUME Fresh PROVE ServedBy(info.endpoint, info.serial)
    <3>1. found.serial # None /\ ServedBy(a, found.serial)
      BY <2>3, Learned DEF Good, Fresh
    <3> QED
      BY <1>3, <3>1
  <2> QED
    BY <2>2, <2>3
<1>7. ASSUME Fixed, setting.complete
      PROVE  /\ info.serial # None
             /\ \A j \in DOMAIN entries \ {i} :
                  entries[j].of \notin setting.legacy => info.serial # entries[j].of
  <2>1. found.serial # None /\ info.serial = found.serial
    BY <1>3, <1>7, Learned DEF Good
  <2>2. \A j \in DOMAIN entries \ {i} : entries[j].uid # SerialId(found.serial)
    BY <1>1, <2>1, SerialIsIdentity DEF OwnedByOther
  <2>3. \A j \in DOMAIN entries :
            entries[j].of \notin setting.legacy => entries[j].uid = SerialId(entries[j].of)
    BY DEF Good, EntriesGood, EntryOK, Full
  <2> QED
    BY <2>1, <2>2, <2>3
<1>8. FlowOK(fl)
  BY <1>4, <1>6, <1>7 DEF FlowOK, ReconfigureOK
<1>9. UNCHANGED <<setting, address, used, moves, made, entries>>
  BY DEF ReconfigureChecked
<1> HIDE DEF fl
<1>10. flow' = [flow EXCEPT ![f] = fl]
  BY <1>1 DEF fl, info
<1> QED
  BY <1>5, <1>8, <1>9, <1>10, FlowIsGood

\* After the test the entry is updated with what was learned before.
LEMMA ReconfiguredIsGood ==
  ASSUME TypeOK, Good, Fixed \/ Fresh, NEW f \in Flows, Reconfigured(f)
  PROVE  Good'
<1>1. flow[f] \in FlowTypes /\ flow[f].kind = "reconfigure" /\ flow[f].entry \in DOMAIN entries
  BY DEF TypeOK, Reconfigured
<1>2. flow[f].info \in Infos
  BY <1>1 DEF FlowTypes, Idle
<1>3. ReconfigureOK(flow[f].entry, flow[f].info)
  BY <1>1 DEF Good, FlowsGood, FlowOK
<1>4. /\ UNCHANGED <<setting, address, used, made>>
      /\ entries' = [entries EXCEPT ![flow[f].entry] = Updated(@, flow[f].info)]
      /\ flow' = [flow EXCEPT ![f] = Idle]
  BY DEF Reconfigured
<1>5. \A h \in Flows : flow'[h] \in {flow[h], Idle}
  BY <1>4 DEF TypeOK
<1> QED
  BY <1>1, <1>2, <1>3, <1>4, <1>5, UpdateIsGood

\* The entry a flow creates is for a gateway that has none: one that has would have the
\* same unique id, and be removed.
LEMMA CreatedIsGood ==
  ASSUME TypeOK, Good, Fixed \/ Fresh, NEW f \in Flows, Created(f)
  PROVE  Good'
<1> DEFINE info == flow[f].info
           g == info.serial
           kept == {i \in DOMAIN entries : entries[i].uid # Identity(info)}
           of == CHOOSE h \in Gateways :
                    IF Known(info) THEN h \in {info.serial, info.udn} ELSE h \in At(info.endpoint)
           new == Entry(info, Identity(info), Identity(info), of)
<1>1. flow[f] \in FlowTypes /\ flow[f].kind = "create" /\ Idle \in FlowTypes
  BY DEF TypeOK, Created, FlowTypes
<1>2. info \in Infos /\ CreateOK(info)
  BY <1>1 DEF FlowTypes, Idle, Good, FlowsGood, FlowOK
<1>3. /\ ~Fixed /\ Fresh /\ setting.legacy = {}
      /\ g \in Gateways /\ info.udn = g /\ Known(info) /\ Identity(info) = SerialId(g)
      /\ ServedBy(info.endpoint, g)
  BY <1>2, SerialIsIdentity DEF CreateOK, Infos, Fresh
<1>4. of = g
  BY <1>3
<1>5. /\ Full(new) /\ new.of = g /\ new.endpoint = info.endpoint
      /\ new.uid = SerialId(g)
  BY <1>3, <1>4 DEF Full, Entry
<1>6. /\ made' = made + 1 /\ made \in Nat /\ made' \in Nat
      /\ entries' = [i \in kept \union {made'} |-> IF i \in kept THEN entries[i] ELSE new]
      /\ UNCHANGED <<setting, address, used>>
      /\ flow' = [flow EXCEPT ![f] = Idle]
  BY ConstantsAssumption DEF TypeOK, Created
<1>7. /\ DOMAIN entries' = kept \union {made'}
      /\ \A i \in DOMAIN entries' : entries'[i] = IF i \in kept THEN entries[i] ELSE new
      /\ kept \subseteq DOMAIN entries /\ DOMAIN entries \subseteq 1..made
  BY <1>6 DEF TypeOK
<1>8. \A i \in kept : Full(entries[i]) /\ entries[i].of # g
  BY <1>3 DEF Good, EntriesGood, EntryOK, Full
<1> HIDE DEF new, kept, of, info, g
<1>9. Fixed' = Fixed /\ Fresh' = Fresh
  BY <1>6 DEF Fixed, Fresh
<1>10. NetOK'
  BY <1>6 DEF Good, NetOK
<1>11. EntriesGood'
  <2>1. ASSUME NEW i \in DOMAIN entries' PROVE EntryOK(entries[i])'
    <3>1. PICK e : e = entries'[i]
      OBVIOUS
    <3>2. EntryOK(e)
      <4>1. CASE i \in kept
        BY <1>7, <3>1, <4>1 DEF Good, EntriesGood
      <4>2. CASE i \notin kept
        BY <1>3, <1>5, <1>7, <3>1, <4>2 DEF EntryOK
      <4> QED
        BY <4>1, <4>2
    <3>3. EntryOK(e)'
      BY <1>6, <3>2, EntryStays
    <3> QED
      BY <3>1, <3>3 DEF EntryOK, Full, ServedBy
  <2> QED
    BY <2>1 DEF EntriesGood
<1>12. FlowsGood'
  <2>1. \A i \in 1..made : i \in DOMAIN entries' =>
            i \in DOMAIN entries /\ entries'[i].of = entries[i].of
    BY <1>6, <1>7
  <2>2. \A x \in FlowTypes : FlowOK(x) => FlowOK(x)'
    BY <1>3, <1>6, <2>1, FlowStays
  <2>3. ASSUME NEW h \in Flows PROVE FlowOK(flow[h])'
    <3>1. FlowOK(flow[h]) /\ flow[h] \in FlowTypes
      BY DEF Good, FlowsGood, TypeOK
    <3>2. flow'[h] = IF h = f THEN Idle ELSE flow[h]
      BY <1>6 DEF TypeOK
    <3>3. PICK x \in FlowTypes : flow'[h] = x /\ FlowOK(x)
      BY <1>1, <3>1, <3>2, IdleIsOK
    <3>4. FlowOK(x)'
      BY <2>2, <3>3
    <3> QED
      BY <3>3, <3>4 DEF FlowOK, CreateOK, ReconfigureOK
  <2> QED
    BY <2>3 DEF FlowsGood
<1>13. Apart'
  <2>1. \A i, j \in DOMAIN entries' : i # j => entries'[i].of # entries'[j].of
    BY <1>5, <1>7, <1>8 DEF Good, Apart
  <2> QED
    BY <1>3, <1>9, <2>1 DEF Apart
<1> QED
  BY <1>10, <1>11, <1>12, <1>13 DEF Good

\* Migration does nothing to an entry that has all metadata, and keeps the unique id.
LEMMA MigratedIsGood ==
  ASSUME TypeOK, Good, NEW m \in DOMAIN entries, Migrated(m)
  PROVE  Good'
<1>1. /\ UNCHANGED <<setting, address, used, moves, made, flow>>
      /\ entries[m].gid = None
      /\ entries' = [entries EXCEPT ![m] = Entry(@, @.uid, RuntimeId(@), @.of)]
  BY DEF Migrated
<1>2. /\ DOMAIN entries' = DOMAIN entries /\ made \in Nat
      /\ \A j \in DOMAIN entries : entries[j] \in Entries
      /\ \A j \in DOMAIN entries : entries'[j] =
            IF j = m THEN Entry(entries[j], entries[j].uid, RuntimeId(entries[j]), entries[j].of)
            ELSE entries[j]
  BY <1>1, ConstantsAssumption DEF TypeOK
<1>3. \A j \in DOMAIN entries :
        /\ entries'[j].of = entries[j].of /\ entries'[j].uid = entries[j].uid
        /\ RuntimeId(entries'[j]) = RuntimeId(entries[j])
  <2>1. \A j \in DOMAIN entries :
            entries'[j].of = entries[j].of /\ entries'[j].uid = entries[j].uid
    BY <1>2 DEF Entry
  <2> QED
    BY <1>2, <2>1, MigratedEntry
<1>4. entries[m].of \in setting.legacy
  <2>1. SUFFICES ASSUME entries[m].of \notin setting.legacy PROVE FALSE
    OBVIOUS
  <2>2. entries[m].gid = SerialId(entries[m].of)
    BY <2>1 DEF Good, EntriesGood, EntryOK, Full
  <2>3. SerialId(entries[m].of) \in Identities
    BY <1>2 DEF SerialId, Identities, Entries
  <2> QED
    BY <1>1, <2>2, <2>3, ConstantsAssumption
<1>5. Fixed' = Fixed /\ Fresh' = Fresh
  BY <1>1 DEF Fixed, Fresh
<1>6. NetOK'
  BY <1>1 DEF Good, NetOK
<1>7. EntriesGood'
  <2>1. ASSUME NEW j \in DOMAIN entries PROVE EntryOK(entries[j])'
    <3>1. CASE j = m
      BY <1>1, <1>3, <1>4, <3>1 DEF EntryOK
    <3>2. CASE j # m
      <4>1. EntryOK(entries[j]) /\ entries'[j] = entries[j]
        BY <1>2, <3>2 DEF Good, EntriesGood
      <4> QED
        BY <1>1, <4>1 DEF EntryOK, Full, SerialId, Fresh, ServedBy, At
    <3> QED
      BY <3>1, <3>2
  <2> QED
    BY <1>2, <2>1 DEF EntriesGood
<1>8. FlowsGood'
  <2>1. DOMAIN entries \subseteq 1..made
    BY DEF TypeOK
  <2>2. \A x \in FlowTypes : FlowOK(x) => FlowOK(x)'
    BY <1>1, <1>2, <1>3, <2>1, FlowStays
  <2>3. ASSUME NEW h \in Flows PROVE FlowOK(flow[h])'
    <3>1. FlowOK(flow[h]) /\ flow[h] \in FlowTypes
      BY DEF Good, FlowsGood, TypeOK
    <3>2. PICK x \in FlowTypes : flow[h] = x /\ FlowOK(x)
      BY <3>1
    <3>3. FlowOK(x)'
      BY <2>2, <3>2
    <3> QED
      BY <1>1, <3>2, <3>3 DEF FlowOK, CreateOK, ReconfigureOK
  <2> QED
    BY <2>3 DEF FlowsGood
<1>9. Apart'
  <2>1. \A i, j \in DOMAIN entries : i # j =>
          /\ entries'[i].of # entries'[j].of
          /\ Fixed => RuntimeId(entries'[i]) # RuntimeId(entries'[j])
          /\ Fixed /\ setting.complete /\ entries'[j].of \notin setting.legacy
                => entries'[i].uid # SerialId(entries'[j].of)
    BY <1>3 DEF Good, Apart
  <2> QED
    BY <1>1, <1>2, <1>5, <2>1 DEF Apart, RuntimeId, SerialId
<1> QED
  BY <1>6, <1>7, <1>8, <1>9 DEF Good

----------------------------------------------------------------------------
(* The initial state.                                                      *)

\* As many entries as there are gateways with one: each has one.
LEMMA InitialOrder ==
  ASSUME TypeOK, NEW order \in [1..made -> Had],
         {order[i] : i \in 1..made} = Had, made = Cardinality(Had)
  PROVE  \A i, j \in 1..made : i # j => order[i] # order[j]
<1>1. made \in Nat /\ Had \subseteq Gateways
  BY ConstantsAssumption DEF TypeOK, SettingTypes, Had
<1>2. IsFiniteSet(1..made) /\ Cardinality(1..made) = made
  BY <1>1, FS_Interval
<1>3. IsFiniteSet(Had)
  BY <1>1, ConstantsAssumption, FS_Subset
<1>4. order \in Surjection(1..made, Had)
  BY DEF Surjection
<1>5. order \in Injection(1..made, Had)
  BY <1>2, <1>4, FS_Surjection
<1> QED
  BY <1>5 DEF Injection, IsInjective

\* Every gateway has at most one entry, made from its metadata and address.
LEMMA InitIsGood == Init => IdInv
<1> SUFFICES ASSUME Init, Fixed \/ Fresh PROVE Good
  BY DEF IdInv
<1>1. TypeOK
  BY InitialTypes
<1>2. PICK order \in [1..made -> Had] :
        /\ {order[i] : i \in 1..made} = Had
        /\ DOMAIN entries = 1..made
        /\ \A i \in 1..made : entries[i] \in InitialEntry(order[i], address[order[i]])
  BY DEF Init
<1>3. \A i, j \in 1..made : i # j => order[i] # order[j]
  BY <1>1, <1>2, InitialOrder DEF Init
<1>4. /\ Had \subseteq Gateways /\ Had = setting.configured \union setting.legacy
      /\ setting.configured \intersect setting.legacy = {}
  BY <1>1, ConstantsAssumption DEF TypeOK, SettingTypes, Had
<1>5. NetOK
  BY <1>1 DEF Init, NetOK, TypeOK
<1>6. \A i \in 1..made : order[i] \in Gateways /\ order[i] # None
  BY <1>2, <1>4, ConstantsAssumption
<1>7. ASSUME NEW i \in 1..made, order[i] \in setting.configured
      PROVE  /\ entries[i].of = order[i] /\ Full(entries[i])
             /\ entries[i].endpoint = address[order[i]]
  <2> DEFINE g == order[i]
             info == [endpoint |-> address[g], serial |-> g, udn |-> g]
  <2>1. Identity(info) = SerialId(g)
    BY <1>6, SerialIsIdentity
  <2>2. entries[i] = Entry(info, Identity(info), Identity(info), g)
    BY <1>2, <1>7 DEF InitialEntry
  <2> QED
    BY <2>1, <2>2 DEF Entry, Full
<1>8. ASSUME NEW i \in 1..made, order[i] \in setting.legacy
      PROVE  /\ entries[i].of = order[i]
             /\ entries[i].uid \in {EndpointId(address[order[i]]), None}
             /\ RuntimeId(entries[i]) = EndpointId(address[order[i]])
  <2> DEFINE g == order[i]
             info == [endpoint |-> address[g], serial |-> None, udn |-> None]
  <2>1. PICK uid \in {EndpointId(address[g]), None} : entries[i] = Entry(info, uid, None, g)
    BY <1>2, <1>4, <1>8 DEF InitialEntry
  <2> QED
    BY <2>1 DEF Entry, RuntimeId
<1>9. EntriesGood
  <2>1. ASSUME NEW i \in 1..made, entries[i].of \notin setting.legacy PROVE EntryOK(entries[i])
    <3>1. order[i] \in setting.configured
      BY <1>2, <1>4, <1>8, <2>1
    <3>2. ServedBy(address[order[i]], order[i])
      BY <1>5, <1>6 DEF ServedBy, At, NetOK
    <3> QED
      BY <1>7, <3>1, <3>2 DEF EntryOK
  <2> QED
    BY <1>2, <2>1 DEF EntriesGood, EntryOK
<1>10. FlowsGood
  BY IdleIsOK DEF Init, FlowsGood
<1>11. Apart
  <2>1. ASSUME NEW i \in 1..made PROVE entries[i].of = order[i]
    BY <1>2, <1>4, <1>7, <1>8
  <2>2. ASSUME NEW i \in 1..made, NEW j \in 1..made, i # j
        PROVE  /\ entries[i].of # entries[j].of
               /\ RuntimeId(entries[i]) # RuntimeId(entries[j])
               /\ entries[j].of \notin setting.legacy => entries[i].uid # SerialId(entries[j].of)
    <3>1. order[i] # order[j] /\ entries[i].of = order[i] /\ entries[j].of = order[j]
      BY <1>3, <2>1, <2>2
    <3>2. ASSUME NEW k \in 1..made, order[k] \in setting.configured
          PROVE  /\ entries[k].uid = SerialId(order[k])
                 /\ RuntimeId(entries[k]) = SerialId(order[k])
      <4>1. entries[k].uid = SerialId(order[k]) /\ entries[k].gid = SerialId(order[k])
        BY <1>7, <3>2 DEF Full
      <4>2. SerialId(order[k]) # None
        BY <1>6, ConstantsAssumption DEF SerialId, Identities
      <4> QED
        BY <4>1, <4>2 DEF RuntimeId
    <3>3. \A g, h : SerialId(g) = SerialId(h) => g = h
      BY DEF SerialId
    <3>4. \A a, b : EndpointId(a) = EndpointId(b) => a = b
      BY DEF EndpointId
    <3>5. \A g, a : SerialId(g) # EndpointId(a)
      BY DEF SerialId, EndpointId
    <3>6. \A g \in Gateways : SerialId(g) # None
      BY ConstantsAssumption DEF SerialId, Identities
    <3>7. address[order[i]] # address[order[j]]
      BY <1>5, <1>6, <3>1 DEF NetOK
    <3>8. /\ order[i] \in setting.configured \/ order[i] \in setting.legacy
          /\ order[j] \in setting.configured \/ order[j] \in setting.legacy
      BY <1>2, <1>4
    <3>9. RuntimeId(entries[i]) # RuntimeId(entries[j])
      BY <1>8, <3>1, <3>2, <3>3, <3>4, <3>5, <3>7, <3>8
    <3>10. entries[i].uid # SerialId(order[j])
      BY <1>6, <1>8, <3>1, <3>2, <3>3, <3>5, <3>6, <3>8
    <3> QED
      BY <3>1, <3>9, <3>10
  <2> QED
    BY <1>2, <2>2 DEF Apart
<1> QED
  BY <1>5, <1>9, <1>10, <1>11 DEF Good

\* Every step keeps it.
LEMMA StepIsGood == TypeOK /\ IdInv /\ [Next]_vars => IdInv'
<1> SUFFICES ASSUME TypeOK, IdInv, [Next]_vars, (Fixed \/ Fresh)' PROVE Good'
  BY DEF IdInv
<1>1. setting' = setting
  BY DEF Next, vars, Moves, Discovered, ReconfigureChecked, Created, Reconfigured,
         Abandoned, Migrated
<1>2. (Fixed \/ Fresh) /\ Good
  BY <1>1 DEF Fixed, Fresh, IdInv
<1>3. CASE \E g \in Gateways, a \in setting.addresses : Moves(g, a)
  BY <1>2, <1>3, MovesIsGood
<1>4. CASE \E f \in Flows, kind \in setting.kinds, a \in setting.addresses : Discovered(f, kind, a)
  BY <1>2, <1>4, DiscoveredIsGood
<1>5. CASE \E f \in Flows, i \in DOMAIN entries, a \in setting.addresses :
             ReconfigureChecked(f, i, a)
  BY <1>2, <1>5, CheckedIsGood
<1>6. CASE \E f \in Flows : Created(f)
  BY <1>2, <1>6, CreatedIsGood
<1>7. CASE \E f \in Flows : Reconfigured(f)
  BY <1>2, <1>7, ReconfiguredIsGood
<1>8. CASE \E f \in Flows : Abandoned(f)
  <2>1. PICK f \in Flows : flow' = [flow EXCEPT ![f] = Idle]
                          /\ UNCHANGED <<setting, address, used, moves, made, entries>>
    BY <1>8 DEF Abandoned
  <2> QED
    BY <1>2, <2>1, IdleIsOK, FlowIsGood DEF FlowTypes
<1>9. CASE \E i \in DOMAIN entries : Migrated(i)
  BY <1>2, <1>9, MigratedIsGood
<1>10. CASE UNCHANGED vars
  BY <1>2, <1>10 DEF vars, Good, NetOK, EntriesGood, EntryOK, Full, SerialId, Fixed, Fresh,
     ServedBy, At, FlowsGood, FlowOK, CreateOK, ReconfigureOK, Apart, RuntimeId
<1> QED
  BY <1>3, <1>4, <1>5, <1>6, <1>7, <1>8, <1>9, <1>10 DEF Next

\* In the installations the properties are about, entries stay apart, and with their
\* gateways, and what flows in progress have learned will do no harm.
THEOREM IdentityInvariance == Spec => []IdInv
  BY TypesCorrect, InitIsGood, StepIsGood, PTL DEF Spec

\* If discovery is complete, and there are reconfigurations only or else addresses are
\* not reused and no entry is without metadata: no gateway gets a second entry, and no two
\* entries share the identity of their entities, nor, unless both are without metadata,
\* their unique id, for any number of gateways, entries, flows and moves.
THEOREM OneEntry == Spec => []OneEntryPerGateway
<1>1. TypeOK /\ IdInv => OneEntryPerGateway
  <2> SUFFICES ASSUME TypeOK, IdInv, setting.complete, Fixed \/ Fresh,
                      NEW i \in DOMAIN entries, NEW j \in DOMAIN entries, i # j
               PROVE  /\ entries[i].of # entries[j].of
                      /\ RuntimeId(entries[i]) # RuntimeId(entries[j])
                      /\ ~({entries[i].of, entries[j].of} \subseteq setting.legacy)
                            => entries[i].uid # entries[j].uid
    BY DEF OneEntryPerGateway, Fixed, Fresh
  <2>1. entries[i].of # entries[j].of
    BY DEF IdInv, Good, Apart
  <2>2. ASSUME NEW k \in DOMAIN entries, entries[k].of \notin setting.legacy
        PROVE  /\ entries[k].uid = SerialId(entries[k].of)
               /\ RuntimeId(entries[k]) = SerialId(entries[k].of)
    <3>1. Full(entries[k]) /\ entries[k].of \in Gateways
      BY <2>2 DEF IdInv, Good, EntriesGood, EntryOK, TypeOK, Entries
    <3>2. SerialId(entries[k].of) # None
      BY <3>1, ConstantsAssumption DEF SerialId, Identities
    <3> QED
      BY <3>1, <3>2 DEF Full, RuntimeId
  <2>3. \A g, h : SerialId(g) = SerialId(h) => g = h
    BY DEF SerialId
  <2>4. CASE Fixed
    BY <2>1, <2>2, <2>4 DEF IdInv, Good, Apart
  <2>5. CASE Fresh
    BY <2>1, <2>2, <2>3, <2>5 DEF Fresh
  <2> QED
    BY <2>1, <2>4, <2>5
<1> QED
  BY TypesCorrect, IdentityInvariance, <1>1, PTL

\* If no entry is without metadata, and there are reconfigurations only or else discovery
\* is complete and addresses are not reused: no entry is given the serial or UDN of
\* another gateway than the one it was made for.
THEOREM KeepsGateway == Spec => []EntryKeepsGateway
<1>1. IdInv => EntryKeepsGateway
  BY DEF IdInv, Good, EntriesGood, EntryOK, Full, EntryKeepsGateway, Fixed, Fresh
<1> QED
  BY IdentityInvariance, <1>1, PTL
=============================================================================
