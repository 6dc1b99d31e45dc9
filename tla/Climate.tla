------------------------------ MODULE Climate ------------------------------
(***************************************************************************)
(* One thermoregulation zone (climate.py, protocol/thermoregulation.py):   *)
(* the commands of its climate entity, the frames of the zone, and what    *)
(* the entity shows after each of them.                                    *)
(*                                                                         *)
(* A WHAT of the WHO=4 catalogue is an operation of a family: the hundreds *)
(* of its number are the family (1 heating, 2 conditioning, 3 generic) and *)
(* the rest the operation (02 protection, 03 off, 10 manual, 11 program);  *)
(* the bare WHATs 1 and 0 are operation "on".  Temperatures the user sets  *)
(* are in hundredths of a degree, those on the wire in tenths.             *)
(***************************************************************************)
EXTENDS Integers

CONSTANTS
    Profiles,       \* the capability sets a zone may be configured with
    Temperatures,   \* setpoints the user may ask for
    None            \* a Python None

Modes == {"off", "heat", "cool", "auto"}
Presets == {"antifreeze", "thermal_protection", "generic_protection"}

\* What the constants must be.
ConstantsAssumption ==
    /\ Profiles \subseteq SUBSET {"heating", "cooling"}
    /\ Temperatures \subseteq Int
    /\ None \notin Int /\ None \notin Modes \union Presets

Families == {"heating", "cooling", "generic"}
Whats ==
    {w \in [op : {"on", "protection", "off", "manual", "program"}, family : Families] :
        w.op = "on" => w.family # "generic"}

VARIABLES
    profile,    \* the capabilities the entity was built with
    hvacMode, hvacAction, presetMode, targetTemperature,    \* _attr_...
    zone,       \* external: the WHAT the zone is in
    setpoint,   \* external: the zone's setpoint
    valves,     \* external: the outputs that are active
    asked,      \* history: the user's last request, while the zone obeys it
    told        \* history: "what", "setpoint", "output": reported since it last changed;
                \* "mode": a mode was reported since the output was

shown   == <<hvacMode, hvacAction, presetMode, targetTemperature>>
plant   == <<zone, setpoint, valves>>
vars    == <<profile, shown, plant, asked, told>>

\* _supports_heating and _supports_cooling: a zone without profile has both.
Supports(family) == family \in profile \/ profile = {}

Both == Supports("heating") /\ Supports("cooling")
OwnFamily == IF Both THEN "generic" ELSE IF Supports("heating") THEN "heating" ELSE "cooling"

\* _attr_hvac_modes and _attr_preset_modes.
HvacModes ==
    {"off", "auto"} \union (IF Supports("heating") THEN {"heat"} ELSE {})
                    \union (IF Supports("cooling") THEN {"cool"} ELSE {})
PresetModes ==
    (IF Supports("heating") THEN {"antifreeze"} ELSE {})
    \union (IF Supports("cooling") THEN {"thermal_protection"} ELSE {})
    \union (IF Both THEN {"generic_protection"} ELSE {})

\* What a zone of this profile sends: its own family, or any when it has both.
ZoneWhats == {w \in Whats : Both \/ w.family = OwnFamily}

NothingAsked == [mode |-> None, preset |-> None, temperature |-> None]

Init ==
    /\ profile \in Profiles
    /\ hvacMode = None /\ hvacAction = None /\ presetMode = None
    /\ targetTemperature = None
    /\ zone \in ZoneWhats
    /\ setpoint = 200
    /\ valves \in SUBSET {"heating", "cooling"}
    /\ asked = NothingAsked
    /\ told = {}

----------------------------------------------------------------------------
(* Commands.                                                               *)

\* Variant: off and auto always address the zone generically.
WhatForModeGeneric(mode) ==
    CASE mode = "heat" -> [op |-> "manual", family |-> "heating"]
      [] mode = "cool" -> [op |-> "manual", family |-> "cooling"]
      [] mode = "off"  -> [op |-> "off", family |-> "generic"]
      [] mode = "auto" -> [op |-> "manual", family |-> OwnFamily]

\* _what_for_hvac_mode, for a mode of HvacModes; others raise.
WhatForMode(mode) ==
    CASE mode = "heat" -> [op |-> "manual", family |-> "heating"]
      [] mode = "cool" -> [op |-> "manual", family |-> "cooling"]
      [] mode = "off"  -> [op |-> "off", family |-> OwnFamily]
      [] mode = "auto" -> [op |-> "program", family |-> OwnFamily]

\* _what_for_preset, for a preset of PresetModes; others raise.
WhatForPreset(preset) ==
    [op |-> "protection",
     family |-> CASE preset = "antifreeze" -> "heating"
                  [] preset = "thermal_protection" -> "cooling"
                  [] preset = "generic_protection" -> "generic"]

\* _operation_mode_for_setpoint raises for a mode the profile excludes.
SetpointAllowed(mode) ==
    /\ mode = "heat" => Supports("heating")
    /\ mode = "cool" => Supports("cooling")
OperationMode(mode) ==
    CASE mode = "heat" -> "heating" [] mode = "cool" -> "cooling" [] OTHER -> OwnFamily

\* encode_setpoint_temperature, int(value * 2 + 0.5) / 2 in tenths.
Encode(t) == 5 * ((2 * t + 50) \div 100)

\* The zone obeys a mode command: build_zone_mode_command(where, what).
Obeys(what, request) ==
    /\ zone' = what
    /\ asked' = request
    /\ told' = told \ {"what"}
    /\ UNCHANGED <<profile, shown, setpoint, valves>>

SetHvacMode(mode) == Obeys(WhatForMode(mode), [NothingAsked EXCEPT !.mode = mode])

SetPresetMode(preset) == Obeys(WhatForPreset(preset), [NothingAsked EXCEPT !.preset = preset])

\* async_set_temperature with a mode of its own or the one shown: the zone goes to
\* manual operation of the family at the setpoint it was sent.
SetTemperature(t, mode) ==
    /\ 500 <= t /\ t <= 4000
    /\ SetpointAllowed(mode)
    /\ setpoint' = Encode(t)
    /\ zone' = [op |-> "manual", family |-> OperationMode(mode)]
    /\ asked' = [NothingAsked EXCEPT !.temperature = t,
                                     !.mode = IF mode \in {"heat", "cool"} THEN mode ELSE None]
    /\ told' = told \ {"what", "setpoint"}
    /\ UNCHANGED <<profile, shown, valves>>

----------------------------------------------------------------------------
(* Frames: _handle_event.                                                  *)

\* Variant: the preset is only ever set.
ApplyModeKeepingPreset(what) ==
    /\ hvacMode' = IF what.op = "off" THEN "off"
                 ELSE IF what.op = "program" \/ what.family = "generic" THEN "auto"
                 ELSE IF what.family = "heating" THEN "heat"
                 ELSE "cool"
    /\ hvacAction' = IF what.op = "off" THEN "off" ELSE "idle"
    /\ presetMode' = IF what.op # "protection" THEN presetMode
                     ELSE CASE what.family = "heating" -> "antifreeze"
                            [] what.family = "cooling" -> "thermal_protection"
                            [] OTHER -> "generic_protection"

\* _apply_mode of a state in THERMOREGULATION_STATE_MAP.
ApplyMode(what) ==
    /\ hvacMode' = IF what.op = "off" THEN "off"
                 ELSE IF what.op = "program" \/ what.family = "generic" THEN "auto"
                 ELSE IF what.family = "heating" THEN "heat"
                 ELSE "cool"
    /\ hvacAction' = IF what.op = "off" THEN "off" ELSE "idle"
    /\ presetMode' = IF what.op # "protection" THEN None
                     ELSE CASE what.family = "heating" -> "antifreeze"
                            [] what.family = "cooling" -> "thermal_protection"
                            [] OTHER -> "generic_protection"

\* *4*WHAT*WHERE## or the second value of DIM=12.  The temperature a DIM=0 or
\* DIM=12 frame also gives is taken as it is and left out.
WhatReported ==
    /\ ApplyMode(zone)
    /\ told' = told \union {"what", "mode"}
    /\ UNCHANGED <<profile, targetTemperature, plant, asked>>

\* DIM=12 with a second value the map does not know: only the preset is cleared.
UnknownReported ==
    /\ presetMode' = None
    /\ told' = told \ {"what"}
    /\ UNCHANGED <<profile, hvacMode, hvacAction, targetTemperature, plant, asked>>

SetpointReported ==
    /\ targetTemperature' = setpoint
    /\ told' = told \union {"setpoint"}
    /\ UNCHANGED <<profile, hvacMode, hvacAction, presetMode, plant, asked>>

\* Variant: the two values of DIM=19 in the other order.
OutputShownSwapped ==
    hvacAction' = IF "cooling" \in valves THEN "heating"
                  ELSE IF "heating" \in valves THEN "cooling"
                  ELSE IF hvacMode = "off" THEN "off"
                  ELSE IF hvacMode = None THEN hvacAction
                  ELSE "idle"

\* DIM=19, the conditioning valve first: the heating output prevails; with both
\* idle and no mode known the action stays.
OutputShown ==
    hvacAction' = IF "heating" \in valves THEN "heating"
                  ELSE IF "cooling" \in valves THEN "cooling"
                  ELSE IF hvacMode = "off" THEN "off"
                  ELSE IF hvacMode = None THEN hvacAction
                  ELSE "idle"

OutputReported ==
    /\ OutputShown
    /\ told' = (told \union {"output"}) \ {"mode"}
    /\ UNCHANGED <<profile, hvacMode, presetMode, targetTemperature, plant, asked>>

\* The zone is operated from elsewhere, or its program goes on (external).
ZoneChanges ==
    /\ zone' \in ZoneWhats
    /\ asked' = NothingAsked
    /\ told' = told \ {"what"}
    /\ UNCHANGED <<profile, shown, setpoint, valves>>

\* Its outputs follow the temperature (external).
OutputsChange ==
    /\ valves' \in SUBSET {"heating", "cooling"}
    /\ told' = told \ {"output"}
    /\ UNCHANGED <<profile, shown, zone, setpoint, asked>>

Next ==
    \/ \E mode \in HvacModes : SetHvacMode(mode)
    \/ \E preset \in PresetModes : SetPresetMode(preset)
    \/ \E t \in Temperatures, mode \in HvacModes \union {hvacMode} : SetTemperature(t, mode)
    \/ WhatReported \/ UnknownReported \/ SetpointReported \/ OutputReported
    \/ ZoneChanges \/ OutputsChange

Spec == Init /\ [][Next]_vars

----------------------------------------------------------------------------
(* Properties.                                                             *)

\* The types of the variables.
TypeOK ==
    /\ profile \in Profiles
    /\ hvacMode \in Modes \union {None}
    /\ hvacAction \in {"off", "idle", "heating", "cooling", None}
    /\ presetMode \in Presets \union {None}
    /\ targetTemperature \in Int \union {None}
    /\ zone \in Whats
    /\ setpoint \in Int
    /\ valves \subseteq {"heating", "cooling"}
    /\ asked.temperature \in Temperatures \union {None}
    /\ told \subseteq {"what", "setpoint", "output", "mode"}

\* What the user chose is what the entity shows once the zone that obeyed it has said
\* so: the tables of commands (climate.py:187-225) and of states (thermoregulation.py:
\* 49-64, climate.py:280-312) are inverse for every profile, and a confirmed setpoint is
\* the one asked for to the nearest half degree (climate.py:170, thermoregulation.py:
\* 123-129).
ObeyedIsShown ==
    /\ "what" \in told =>
        /\ asked.mode # None => hvacMode = asked.mode
        /\ asked.preset # None => presetMode = asked.preset
    /\ asked.temperature # None =>
        /\ setpoint \in 50..400 /\ setpoint % 5 = 0
        /\ 10 * setpoint - asked.temperature \in -25..25
        /\ "setpoint" \in told => targetTemperature = setpoint

\* The action shown is evidence or the lack of it.  As long as the last DIM=19 frame is
\* true, "heating" and "cooling" are shown only for an output that is open, and an open
\* output is not shown for one reason only: a mode or a DIM=12 frame came after it, which
\* sets the action to "idle", or "off" with the mode, without a look at the outputs
\* (climate.py:261-272, 285-312).  The action is "off" with mode off only.  With both
\* outputs idle before any mode is known the code keeps the action, so that a "heating"
\* told at start may outlive its valve.
ActionIsReported ==
    /\ hvacAction = "off" => hvacMode = "off"
    /\ hvacMode = "off" => hvacAction # "idle"
    /\ "output" \in told /\ (hvacMode # None \/ valves # {}) =>
        /\ hvacAction = "heating" => "heating" \in valves
        /\ hvacAction = "cooling" => valves = {"cooling"}
        /\ hvacAction \notin {"heating", "cooling"} => valves = {} \/ "mode" \in told
    /\ "mode" \in told => hvacAction \in {"off", "idle"}

\* As long as the zone keeps to its profile, the entity shows only modes and presets
\* it offers, and so the setpoint can be changed without naming a mode: a mode of the
\* other family would make set_temperature fail (climate.py:182, 229-234).  A protection
\* preset never outlives the mode it belongs to, through any sequence of mode, probe and
\* unknown frames (climate.py:282).
ShowsWhatItOffers ==
    /\ hvacMode \in HvacModes \union {None}
    /\ presetMode \in PresetModes \union {None}
    /\ SetpointAllowed(hvacMode)
    /\ presetMode = "antifreeze" => hvacMode = "heat"
    /\ presetMode = "thermal_protection" => hvacMode = "cool"
    /\ presetMode = "generic_protection" => hvacMode = "auto"
=============================================================================
