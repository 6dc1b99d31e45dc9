--------------------------- MODULE ClimateProofs ---------------------------
(***************************************************************************)
(* Proofs about Climate.  Commands and frames meet in the external zone:   *)
(* the inductive invariant says of each of the two, apart from the other,  *)
(* what it has to do with the zone's WHAT, and so that the two tables are  *)
(* inverse.                                                                *)
(***************************************************************************)
EXTENDS Climate, TLAPS

\* What an entity that was told a WHAT shows.
ModeOf(what) ==
    IF what.op = "off" THEN "off"
    ELSE IF what.op = "program" \/ what.family = "generic" THEN "auto"
    ELSE IF what.family = "heating" THEN "heat"
    ELSE "cool"
PresetOf(what) ==
    IF what.op # "protection" THEN None
    ELSE IF what.family = "heating" THEN "antifreeze"
    ELSE IF what.family = "cooling" THEN "thermal_protection"
    ELSE "generic_protection"

\* The user's request: at most a mode, a preset or a setpoint within the limits.
AskedType ==
    asked \in [mode : Modes \union {None}, preset : Presets \union {None},
               temperature : Temperatures \union {None}]

\* The zone is in a WHAT of its profile, and obeys.
ZoneObeys ==
    /\ zone \in ZoneWhats
    /\ asked.mode # None => ModeOf(zone) = asked.mode
    /\ asked.preset # None => PresetOf(zone) = asked.preset
    /\ asked.temperature # None =>
        /\ 500 <= asked.temperature /\ asked.temperature <= 4000
        /\ setpoint = Encode(asked.temperature)

\* The entity shows what it was told.
EntityShows ==
    /\ "what" \in told => hvacMode = ModeOf(zone) /\ presetMode = PresetOf(zone)
    /\ "setpoint" \in told => targetTemperature = setpoint

\* The inductive invariant.
Inv ==
    /\ TypeOK
    /\ AskedType
    /\ ZoneObeys
    /\ EntityShows
    /\ ShowsWhatItOffers
    /\ ActionIsReported

----------------------------------------------------------------------------
(* The operators.                                                          *)

\* What a zone sends is in the catalogue, and shows a mode and a preset its entity
\* offers and that fit each other.
LEMMA ZoneShows ==
    ASSUME ConstantsAssumption, TypeOK, NEW what \in ZoneWhats
    PROVE  /\ what \in Whats
           /\ ModeOf(what) \in HvacModes
           /\ PresetOf(what) \in PresetModes \union {None}
           /\ PresetOf(what) = "antifreeze" => ModeOf(what) = "heat"
           /\ PresetOf(what) = "thermal_protection" => ModeOf(what) = "cool"
           /\ PresetOf(what) = "generic_protection" => ModeOf(what) = "auto"
<1>1. what \in Whats /\ (Both \/ what.family = OwnFamily)  BY DEF ZoneWhats
<1>2. what.op \in {"on", "protection", "off", "manual", "program"} /\ what.family \in Families
  BY <1>1 DEF Whats
<1>3. what.family = "heating" => Supports("heating")
  BY <1>1 DEF Both, OwnFamily
<1>4. what.family = "cooling" => Supports("cooling")
  <2>1. SUFFICES ASSUME what.family = "cooling", "heating" \in profile, "cooling" \notin profile
                 PROVE  FALSE
    <3>1. profile \subseteq {"heating", "cooling"}  BY DEF TypeOK, ConstantsAssumption
    <3> QED  BY <3>1 DEF Supports
  <2> QED
    BY <1>1, <2>1 DEF Both, OwnFamily, Supports
<1>5. what.family = "generic" => Both
  BY <1>1 DEF OwnFamily
<1>6. None \notin {"antifreeze", "thermal_protection", "generic_protection"}
  BY DEF ConstantsAssumption, Presets
<1> QED
  BY <1>1, <1>2, <1>3, <1>4, <1>5, <1>6 DEF ModeOf, PresetOf, HvacModes, PresetModes, Families

\* The table of commands is right for every mode a zone offers: its WHAT is one of the
\* zone's, and shows that mode.
LEMMA ModeIsObeyed ==
    ASSUME ConstantsAssumption, TypeOK, NEW mode \in HvacModes
    PROVE  WhatForMode(mode) \in ZoneWhats /\ ModeOf(WhatForMode(mode)) = mode
<1>1. OwnFamily \in Families /\ (Both \/ OwnFamily # "generic")
  BY DEF OwnFamily, Families
<1>2. Both \/ (mode = "heat" => OwnFamily = "heating")
  BY DEF OwnFamily, HvacModes
<1>3. Both \/ (mode = "cool" => OwnFamily = "cooling")
  BY DEF OwnFamily, HvacModes, Both
<1>4. mode \in {"off", "auto", "heat", "cool"}  BY DEF HvacModes
<1> QED
  BY <1>1, <1>2, <1>3, <1>4 DEF WhatForMode, ZoneWhats, Whats, ModeOf, Families

\* The same for the presets.
LEMMA PresetIsObeyed ==
    ASSUME ConstantsAssumption, TypeOK, NEW preset \in PresetModes
    PROVE  WhatForPreset(preset) \in ZoneWhats /\ PresetOf(WhatForPreset(preset)) = preset
<1>1. preset \in {"antifreeze", "thermal_protection", "generic_protection"}
  BY DEF PresetModes
<1>2. Both \/ (preset = "antifreeze" => OwnFamily = "heating")
  BY DEF OwnFamily, PresetModes
<1>3. Both \/ (preset = "thermal_protection" => OwnFamily = "cooling")
  BY DEF OwnFamily, PresetModes, Both
<1>4. preset = "generic_protection" => Both
  BY DEF PresetModes
<1> QED
  BY <1>1, <1>2, <1>3, <1>4 DEF WhatForPreset, ZoneWhats, Whats, PresetOf, Families

\* A setpoint within the limits is sent as the nearest half degree, in tenths.
LEMMA HalfDegrees ==
    ASSUME NEW t \in Int, 500 <= t, t <= 4000
    PROVE  /\ Encode(t) \in 50..400 /\ Encode(t) % 5 = 0
           /\ 10 * Encode(t) - t \in -25..25
<1> DEFINE q == (2 * t + 50) \div 100
<1>1. q \in Int /\ 100 * q <= 2 * t + 50 /\ 2 * t + 50 < 100 * q + 100
  OBVIOUS
<1>2. Encode(t) = 5 * q  BY DEF Encode
<1> HIDE DEF q
<1>3. q \in 10..80  BY <1>1
<1> QED
  BY <1>1, <1>2, <1>3

----------------------------------------------------------------------------
(* The invariant.                                                          *)

LEMMA InitInv == ASSUME ConstantsAssumption, Init PROVE Inv
<1>1. TypeOK
  BY DEF ConstantsAssumption, Init, TypeOK, NothingAsked, ZoneWhats
<1>2. AskedType /\ asked.temperature = None /\ asked.mode = None /\ asked.preset = None
  BY DEF Init, AskedType, NothingAsked
<1>3. ZoneObeys /\ EntityShows
  BY <1>2 DEF Init, ZoneObeys, EntityShows
<1>4. ShowsWhatItOffers
  BY DEF Init, ShowsWhatItOffers, SetpointAllowed, ConstantsAssumption, Modes, Presets
<1>5. ActionIsReported
  BY DEF Init, ActionIsReported, ConstantsAssumption, Modes
<1> QED
  BY <1>1, <1>2, <1>3, <1>4, <1>5 DEF Inv

\* An operation that changes neither what is shown nor told of it.
LEMMA ShownStays ==
    ASSUME ConstantsAssumption, Inv, UNCHANGED <<profile, shown, valves>>, told' \subseteq told,
           "mode" \in told => "mode" \in told'
    PROVE  ShowsWhatItOffers' /\ ActionIsReported'
<1>1. ShowsWhatItOffers'
  BY DEF Inv, ShowsWhatItOffers, shown, HvacModes, PresetModes, Both, Supports, SetpointAllowed
<1>2. ActionIsReported'
  BY DEF Inv, ActionIsReported, shown
<1> QED
  BY <1>1, <1>2

\* The zone obeys a request that its entity offers.
LEMMA ObeysStep ==
    ASSUME ConstantsAssumption, Inv, NEW what \in ZoneWhats, NEW request,
           request \in [mode : Modes \union {None}, preset : Presets \union {None},
                        temperature : {None}],
           request.mode # None => ModeOf(what) = request.mode,
           request.preset # None => PresetOf(what) = request.preset,
           Obeys(what, request)
    PROVE  Inv'
<1>1. TypeOK' /\ AskedType'
  BY DEF Inv, Obeys, TypeOK, AskedType, shown, ZoneWhats
<1>2. ZoneObeys'
  BY DEF Inv, Obeys, TypeOK, ZoneObeys, ZoneWhats, Both, OwnFamily, Supports, ModeOf, PresetOf
<1>3. EntityShows'
  BY DEF Inv, Obeys, EntityShows, shown
<1>4. ShowsWhatItOffers' /\ ActionIsReported'
  BY ShownStays DEF Obeys
<1> QED
  BY <1>1, <1>2, <1>3, <1>4 DEF Inv

LEMMA SetHvacModeStep ==
    ASSUME ConstantsAssumption, Inv, NEW mode \in HvacModes, SetHvacMode(mode) PROVE Inv'
<1> DEFINE request == [NothingAsked EXCEPT !.mode = mode]
<1>1. mode \in Modes  BY DEF HvacModes, Modes
<1>2. /\ request \in [mode : Modes \union {None}, preset : Presets \union {None},
                      temperature : {None}]
      /\ request.mode = mode /\ request.preset = None
  BY <1>1 DEF NothingAsked
<1>3. WhatForMode(mode) \in ZoneWhats /\ ModeOf(WhatForMode(mode)) = mode
  BY ModeIsObeyed DEF Inv
<1> QED
  BY <1>2, <1>3, ObeysStep DEF SetHvacMode

LEMMA SetPresetModeStep ==
    ASSUME ConstantsAssumption, Inv, NEW preset \in PresetModes, SetPresetMode(preset) PROVE Inv'
<1> DEFINE request == [NothingAsked EXCEPT !.preset = preset]
<1>1. preset \in Presets  BY DEF PresetModes, Presets
<1>2. /\ request \in [mode : Modes \union {None}, preset : Presets \union {None},
                      temperature : {None}]
      /\ request.preset = preset /\ request.mode = None
  BY <1>1 DEF NothingAsked
<1>3. WhatForPreset(preset) \in ZoneWhats /\ PresetOf(WhatForPreset(preset)) = preset
  BY PresetIsObeyed DEF Inv
<1> QED
  BY <1>2, <1>3, ObeysStep DEF SetPresetMode

\* A mode the setpoint may be sent with has a WHAT of the zone's, and shows again.
LEMMA SetpointMode ==
    ASSUME ConstantsAssumption, TypeOK, NEW mode, SetpointAllowed(mode)
    PROVE  LET what == [op |-> "manual", family |-> OperationMode(mode)]
           IN  /\ what \in ZoneWhats
               /\ mode \in {"heat", "cool"} => ModeOf(what) = mode
<1>1. OwnFamily \in Families /\ (Both \/ OwnFamily # "generic")
  BY DEF OwnFamily, Families
<1>2. mode = "heat" => Both \/ OwnFamily = "heating"
  BY DEF OwnFamily, SetpointAllowed
<1>3. mode = "cool" => Both \/ OwnFamily = "cooling"
  BY DEF OwnFamily, SetpointAllowed, Both
<1> QED
  BY <1>1, <1>2, <1>3 DEF OperationMode, ZoneWhats, Whats, Families, ModeOf

LEMMA SetTemperatureStep ==
    ASSUME ConstantsAssumption, Inv, NEW t \in Temperatures, NEW mode, SetTemperature(t, mode)
    PROVE  Inv'
<1> DEFINE what == [op |-> "manual", family |-> OperationMode(mode)]
<1>1. what \in ZoneWhats /\ (mode \in {"heat", "cool"} => ModeOf(what) = mode)
  BY SetpointMode DEF Inv, SetTemperature
<1>2. t \in Int /\ 500 <= t /\ t <= 4000
  BY DEF ConstantsAssumption, SetTemperature
<1>3. Encode(t) \in Int
  BY <1>2, HalfDegrees
<1>4. /\ zone' = what /\ setpoint' = Encode(t)
      /\ told' = told \ {"what", "setpoint"}
      /\ UNCHANGED <<profile, shown, valves>>
  BY DEF SetTemperature
<1>5. /\ asked' \in [mode : Modes \union {None}, preset : Presets \union {None},
                     temperature : Temperatures \union {None}]
      /\ asked'.temperature = t /\ asked'.preset = None
      /\ asked'.mode = IF mode \in {"heat", "cool"} THEN mode ELSE None
  <2> DEFINE m == IF mode \in {"heat", "cool"} THEN mode ELSE None
  <2>1. m \in Modes \union {None}  BY DEF Modes
  <2>2. asked' = [[NothingAsked EXCEPT !.temperature = t] EXCEPT !.mode = m]
    BY DEF SetTemperature
  <2> HIDE DEF m
  <2>4. asked' = [mode |-> m, preset |-> None, temperature |-> t]
    BY <2>2 DEF NothingAsked
  <2> QED
    BY <2>1, <2>4 DEF m
<1> HIDE DEF what
<1>6. TypeOK' /\ AskedType'
  BY <1>1, <1>3, <1>4, <1>5 DEF Inv, TypeOK, AskedType, shown, ZoneWhats
<1>7. ZoneObeys'
  BY <1>1, <1>2, <1>4, <1>5 DEF ZoneObeys, ZoneWhats, Both, OwnFamily, Supports, ModeOf
<1>8. EntityShows'
  BY <1>4 DEF EntityShows
<1>9. ShowsWhatItOffers' /\ ActionIsReported'
  BY <1>4, ShownStays
<1> QED
  BY <1>6, <1>7, <1>8, <1>9 DEF Inv

LEMMA WhatReportedStep == ASSUME ConstantsAssumption, Inv, WhatReported PROVE Inv'
<1>1. /\ hvacMode' = ModeOf(zone) /\ presetMode' = PresetOf(zone)
      /\ hvacAction' = IF zone.op = "off" THEN "off" ELSE "idle"
  <2>1. zone.family \in Families  BY DEF Inv, TypeOK, Whats
  <2> QED
    BY <2>1 DEF WhatReported, ApplyMode, ModeOf, PresetOf, Families
<1>2. /\ zone \in ZoneWhats /\ zone \in Whats
      /\ ModeOf(zone) \in HvacModes /\ PresetOf(zone) \in PresetModes \union {None}
      /\ PresetOf(zone) = "antifreeze" => ModeOf(zone) = "heat"
      /\ PresetOf(zone) = "thermal_protection" => ModeOf(zone) = "cool"
      /\ PresetOf(zone) = "generic_protection" => ModeOf(zone) = "auto"
  BY ZoneShows DEF Inv, ZoneObeys
<1>3. ModeOf(zone) \in Modes /\ PresetOf(zone) \in Presets \union {None}
  BY <1>2 DEF HvacModes, PresetModes, Modes, Presets
<1>4. ModeOf(zone) = "off" <=> zone.op = "off"
  BY DEF ModeOf
<1>5. /\ told' = told \union {"what", "mode"}
      /\ UNCHANGED <<profile, targetTemperature, zone, setpoint, valves, asked>>
  BY DEF WhatReported, plant
<1>6. TypeOK' /\ AskedType'
  BY <1>1, <1>3, <1>5 DEF Inv, TypeOK, AskedType
<1>7. ZoneObeys'
  BY <1>5 DEF Inv, ZoneObeys, ZoneWhats, Both, OwnFamily, Supports, ModeOf, PresetOf
<1>8. EntityShows'
  BY <1>1, <1>5 DEF Inv, EntityShows, ModeOf, PresetOf
<1>9. ShowsWhatItOffers'
  BY <1>1, <1>2, <1>5
     DEF Inv, ShowsWhatItOffers, SetpointAllowed, HvacModes, PresetModes, Both, Supports
<1>10. ActionIsReported'
  BY <1>1, <1>4, <1>5 DEF ActionIsReported, Inv, TypeOK
<1> QED
  BY <1>6, <1>7, <1>8, <1>9, <1>10 DEF Inv

LEMMA UnknownReportedStep == ASSUME ConstantsAssumption, Inv, UnknownReported PROVE Inv'
<1> USE DEF UnknownReported, plant
<1>1. TypeOK' /\ AskedType'
  BY DEF Inv, TypeOK, AskedType
<1>2. ZoneObeys'
  BY DEF Inv, ZoneObeys, ZoneWhats, Both, OwnFamily, Supports, ModeOf, PresetOf
<1>3. EntityShows'
  BY DEF Inv, EntityShows
<1>4. ShowsWhatItOffers'
  BY DEF Inv, ShowsWhatItOffers, SetpointAllowed, HvacModes, PresetModes, Both, Supports,
     ConstantsAssumption, Presets
<1>5. ActionIsReported'
  BY DEF Inv, ActionIsReported
<1> QED
  BY <1>1, <1>2, <1>3, <1>4, <1>5 DEF Inv

LEMMA SetpointReportedStep == ASSUME ConstantsAssumption, Inv, SetpointReported PROVE Inv'
<1> USE DEF SetpointReported, plant
<1>1. TypeOK' /\ AskedType'
  BY DEF Inv, TypeOK, AskedType
<1>2. ZoneObeys'
  BY DEF Inv, ZoneObeys, ZoneWhats, Both, OwnFamily, Supports, ModeOf, PresetOf
<1>3. EntityShows'
  BY DEF Inv, EntityShows, ModeOf, PresetOf
<1>4. ShowsWhatItOffers'
  BY DEF Inv, ShowsWhatItOffers, SetpointAllowed, HvacModes, PresetModes, Both, Supports
<1>5. ActionIsReported'
  BY DEF Inv, ActionIsReported
<1> QED
  BY <1>1, <1>2, <1>3, <1>4, <1>5 DEF Inv

LEMMA OutputReportedStep == ASSUME ConstantsAssumption, Inv, OutputReported PROVE Inv'
<1> USE DEF OutputReported, plant
<1>1. TypeOK' /\ AskedType'
  BY DEF Inv, TypeOK, AskedType, OutputShown
<1>2. ZoneObeys'
  BY DEF Inv, ZoneObeys, ZoneWhats, Both, OwnFamily, Supports, ModeOf, PresetOf
<1>3. EntityShows'
  BY DEF Inv, EntityShows, ModeOf, PresetOf
<1>4. ShowsWhatItOffers'
  BY DEF Inv, ShowsWhatItOffers, SetpointAllowed, HvacModes, PresetModes, Both, Supports
<1>5. ActionIsReported'
  <2>1. valves = {} \/ "heating" \in valves \/ "cooling" \in valves
    BY DEF Inv, TypeOK
  <2>2. valves = {"cooling"} <=> "cooling" \in valves /\ "heating" \notin valves
    BY DEF Inv, TypeOK
  <2>3. None \notin Modes /\ "off" \in Modes  BY DEF ConstantsAssumption, Modes
  <2> QED
    BY <2>1, <2>2, <2>3 DEF Inv, ActionIsReported, OutputShown
<1> QED
  BY <1>1, <1>2, <1>3, <1>4, <1>5 DEF Inv

LEMMA ZoneChangesStep == ASSUME ConstantsAssumption, Inv, ZoneChanges PROVE Inv'
<1>1. PICK what \in ZoneWhats : Obeys(what, NothingAsked)
  BY DEF ZoneChanges, Obeys
<1>2. /\ NothingAsked \in [mode : Modes \union {None}, preset : Presets \union {None},
                           temperature : {None}]
      /\ NothingAsked.mode = None /\ NothingAsked.preset = None
  BY DEF NothingAsked
<1> QED
  BY <1>1, <1>2, ObeysStep

LEMMA OutputsChangeStep == ASSUME ConstantsAssumption, Inv, OutputsChange PROVE Inv'
<1> USE DEF OutputsChange, shown
<1>1. TypeOK' /\ AskedType'
  BY DEF Inv, TypeOK, AskedType
<1>2. ZoneObeys'
  BY DEF Inv, ZoneObeys, ZoneWhats, Both, OwnFamily, Supports, ModeOf, PresetOf
<1>3. EntityShows'
  BY DEF Inv, EntityShows, ModeOf, PresetOf
<1>4. ShowsWhatItOffers'
  BY DEF Inv, ShowsWhatItOffers, SetpointAllowed, HvacModes, PresetModes, Both, Supports
<1>5. ActionIsReported'
  BY DEF Inv, ActionIsReported
<1> QED
  BY <1>1, <1>2, <1>3, <1>4, <1>5 DEF Inv

LEMMA Stutters == ASSUME Inv, UNCHANGED vars PROVE Inv'
<1> USE DEF vars, shown, plant, Inv
<1>1. TypeOK' /\ AskedType'
  BY DEF TypeOK, AskedType
<1>2. ZoneObeys' /\ EntityShows'
  BY DEF ZoneObeys, EntityShows, ZoneWhats, Both, OwnFamily, Supports, ModeOf, PresetOf
<1>3. ShowsWhatItOffers' /\ ActionIsReported'
  BY DEF ShowsWhatItOffers, SetpointAllowed, HvacModes, PresetModes, Both, Supports,
     ActionIsReported
<1> QED
  BY <1>1, <1>2, <1>3

LEMMA StepInv == ASSUME ConstantsAssumption, Inv, [Next]_vars PROVE Inv'
<1>1. CASE \E mode \in HvacModes : SetHvacMode(mode)  BY <1>1, SetHvacModeStep
<1>2. CASE \E preset \in PresetModes : SetPresetMode(preset)  BY <1>2, SetPresetModeStep
<1>3. CASE \E t \in Temperatures, mode \in HvacModes \union {hvacMode} : SetTemperature(t, mode)
  BY <1>3, SetTemperatureStep
<1>4. CASE WhatReported  BY <1>4, WhatReportedStep
<1>5. CASE UnknownReported  BY <1>5, UnknownReportedStep
<1>6. CASE SetpointReported  BY <1>6, SetpointReportedStep
<1>7. CASE OutputReported  BY <1>7, OutputReportedStep
<1>8. CASE ZoneChanges  BY <1>8, ZoneChangesStep
<1>9. CASE OutputsChange  BY <1>9, OutputsChangeStep
<1>10. CASE UNCHANGED vars  BY <1>10, Stutters
<1> QED
  BY <1>1, <1>2, <1>3, <1>4, <1>5, <1>6, <1>7, <1>8, <1>9, <1>10 DEF Next

\* What the invariant says to the user.
LEMMA InvShows == ASSUME ConstantsAssumption, Inv PROVE ObeyedIsShown
<1>1. asked.temperature # None => asked.temperature \in Int
  BY DEF Inv, AskedType, ConstantsAssumption
<1>2. asked.temperature # None =>
        /\ Encode(asked.temperature) \in 50..400 /\ Encode(asked.temperature) % 5 = 0
        /\ 10 * Encode(asked.temperature) - asked.temperature \in -25..25
  BY <1>1, HalfDegrees DEF Inv, ZoneObeys
<1> QED
  BY <1>2 DEF Inv, ZoneObeys, EntityShows, ObeyedIsShown

\* Whatever the profile, commands, frames and changes of the zone alternate, the entity
\* keeps the types, shows what the user asked for once the zone has said so, the action of
\* its outputs as far as its frames tell it, and only modes and presets it offers.
THEOREM ZoneInvariance == ConstantsAssumption => (Spec => []Inv)
<1>1. SUFFICES ASSUME ConstantsAssumption PROVE Spec => []Inv
  OBVIOUS
<1>2. Init => Inv  BY <1>1, InitInv
<1>3. Inv /\ [Next]_vars => Inv'  BY <1>1, StepInv
<1> QED
  BY <1>2, <1>3, PTL DEF Spec
=============================================================================
