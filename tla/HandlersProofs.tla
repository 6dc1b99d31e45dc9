--------------------------- MODULE HandlersProofs ---------------------------
(***************************************************************************)
(* Proofs about Handlers.  The invariants of its parts are those of        *)
(* ClimateProofs and AlarmProofs, and for Protocol one that is proved      *)
(* here: first what the parser makes of each frame there is, then what the *)
(* entities show of it, then the steps.  Each holds while the behaviour is *)
(* its part's.                                                             *)
(***************************************************************************)
EXTENDS Handlers, SequenceTheorems, TLAPS

ZP == INSTANCE ClimateProofs WITH asked <- zoneAsked
AP == INSTANCE AlarmProofs WITH
        Partitions <- House.partitions, Requests <- House.requests,
        MaxChanges <- House.maxChanges,
        MaxPartition <- 8, Nothing <- None, shown <- alarmShown, asked <- armedWith
BP == INSTANCE AlarmProofs WITH
        Partitions <- Flat.partitions, Requests <- Flat.requests, MaxChanges <- Flat.maxChanges,
        MaxPartition <- 8, Nothing <- None, shown <- alarmShown, asked <- armedWith

----------------------------------------------------------------------------
(* ClimateProofs has the definitions of Climate, and AlarmProofs those of  *)
(* Alarm.                                                                  *)

LEMMA SameZone ==
    /\ Z!ConstantsAssumption <=> ZP!ConstantsAssumption
    /\ Z!Init <=> ZP!Init
    /\ [Z!Next]_(Z!vars) <=> [ZP!Next]_(ZP!vars)
    /\ Z!TypeOK <=> ZP!TypeOK
    /\ Z!ObeyedIsShown <=> ZP!ObeyedIsShown
    /\ Z!ActionIsReported <=> ZP!ActionIsReported
    /\ Z!ShowsWhatItOffers <=> ZP!ShowsWhatItOffers
BY DEF Z!Modes, ZP!Modes, Z!Presets, ZP!Presets, Z!ConstantsAssumption, ZP!ConstantsAssumption,
       Z!Families, ZP!Families, Z!Whats, ZP!Whats, Z!shown, ZP!shown, Z!plant, ZP!plant,
       Z!vars, ZP!vars, Z!Supports, ZP!Supports, Z!Both, ZP!Both, Z!OwnFamily, ZP!OwnFamily,
       Z!HvacModes, ZP!HvacModes, Z!PresetModes, ZP!PresetModes, Z!ZoneWhats, ZP!ZoneWhats,
       Z!NothingAsked, ZP!NothingAsked, Z!Init, ZP!Init, Z!WhatForMode, ZP!WhatForMode,
       Z!WhatForPreset, ZP!WhatForPreset, Z!SetpointAllowed, ZP!SetpointAllowed,
       Z!OperationMode, ZP!OperationMode, Z!Encode, ZP!Encode, Z!Obeys, ZP!Obeys,
       Z!SetHvacMode, ZP!SetHvacMode, Z!SetPresetMode, ZP!SetPresetMode, Z!SetTemperature,
       ZP!SetTemperature, Z!ApplyMode, ZP!ApplyMode, Z!WhatReported, ZP!WhatReported,
       Z!UnknownReported, ZP!UnknownReported, Z!SetpointReported, ZP!SetpointReported,
       Z!OutputShown, ZP!OutputShown, Z!OutputReported, ZP!OutputReported, Z!ZoneChanges,
       ZP!ZoneChanges, Z!OutputsChange, ZP!OutputsChange, Z!Next, ZP!Next, Z!TypeOK, ZP!TypeOK,
       Z!ObeyedIsShown, ZP!ObeyedIsShown, Z!ActionIsReported, ZP!ActionIsReported,
       Z!ShowsWhatItOffers, ZP!ShowsWhatItOffers

LEMMA SameHouse ==
    /\ A!ConstantsAssumption <=> AP!ConstantsAssumption
    /\ A!Init <=> AP!Init
    /\ [A!Next]_(A!vars) <=> [AP!Next]_(AP!vars)
    /\ A!TypeOK <=> AP!TypeOK
    /\ A!SensorsFollowTheCentral <=> AP!SensorsFollowTheCentral
    /\ A!PanelFollowsTheCentral <=> AP!PanelFollowsTheCentral
    /\ A!ArmedAsAsked <=> AP!ArmedAsAsked
BY DEF A!SensorStates, AP!SensorStates, A!PanelStates, AP!PanelStates, A!ConstantsAssumption,
       AP!ConstantsAssumption, A!Point, AP!Point, A!Panel, AP!Panel, A!Sensors, AP!Sensors,
       A!Points, AP!Points, A!Engaged, AP!Engaged, A!Disengaged, AP!Disengaged, A!Triggers,
       AP!Triggers, A!On, AP!On, A!Off, AP!Off, A!WhatsOf, AP!WhatsOf, A!Frames, AP!Frames,
       A!system, AP!system, A!history, AP!history, A!vars, AP!vars, A!Exists, AP!Exists,
       A!Blank, AP!Blank, A!Init, AP!Init, A!Setup, AP!Setup, A!Dispose, AP!Dispose,
       A!LoadOrUnload, AP!LoadOrUnload, A!InventoryChanges, AP!InventoryChanges, A!PanelShows,
       AP!PanelShows, A!SensorShows, AP!SensorShows, A!Dispatch, AP!Dispatch, A!Tells,
       AP!Tells, A!Sends, AP!Sends, A!Answer, AP!Answer, A!Asked, AP!Asked, A!AskFails,
       AP!AskFails, A!Becomes, AP!Becomes, A!CentralChanges, AP!CentralChanges, A!AlarmRaised,
       AP!AlarmRaised, A!PanelCommand, AP!PanelCommand, A!Listed, AP!Listed, A!Normalized,
       AP!Normalized, A!LoadedGateway, AP!LoadedGateway, A!ArmPartitions, AP!ArmPartitions,
       A!SetPartition, AP!SetPartition, A!Next, AP!Next, A!TypeOK, AP!TypeOK, A!Known,
       AP!Known, A!SensorsFollowTheCentral, AP!SensorsFollowTheCentral,
       A!PanelFollowsTheCentral, AP!PanelFollowsTheCentral, A!ArmedAsAsked, AP!ArmedAsAsked

LEMMA SameFlat ==
    /\ B!ConstantsAssumption <=> BP!ConstantsAssumption
    /\ B!Init <=> BP!Init
    /\ [B!Next]_(B!vars) <=> [BP!Next]_(BP!vars)
    /\ B!TypeOK <=> BP!TypeOK
    /\ B!SensorsFollowTheCentral <=> BP!SensorsFollowTheCentral
    /\ B!PanelFollowsTheCentral <=> BP!PanelFollowsTheCentral
    /\ B!ArmedAsAsked <=> BP!ArmedAsAsked
BY DEF B!SensorStates, BP!SensorStates, B!PanelStates, BP!PanelStates, B!ConstantsAssumption,
       BP!ConstantsAssumption, B!Point, BP!Point, B!Panel, BP!Panel, B!Sensors, BP!Sensors,
       B!Points, BP!Points, B!Engaged, BP!Engaged, B!Disengaged, BP!Disengaged, B!Triggers,
       BP!Triggers, B!On, BP!On, B!Off, BP!Off, B!WhatsOf, BP!WhatsOf, B!Frames, BP!Frames,
       B!system, BP!system, B!history, BP!history, B!vars, BP!vars, B!Exists, BP!Exists,
       B!Blank, BP!Blank, B!Init, BP!Init, B!Setup, BP!Setup, B!Dispose, BP!Dispose,
       B!LoadOrUnload, BP!LoadOrUnload, B!InventoryChanges, BP!InventoryChanges, B!PanelShows,
       BP!PanelShows, B!SensorShows, BP!SensorShows, B!Dispatch, BP!Dispatch, B!Tells,
       BP!Tells, B!Sends, BP!Sends, B!Answer, BP!Answer, B!Asked, BP!Asked, B!AskFails,
       BP!AskFails, B!Becomes, BP!Becomes, B!CentralChanges, BP!CentralChanges, B!AlarmRaised,
       BP!AlarmRaised, B!PanelCommand, BP!PanelCommand, B!Listed, BP!Listed, B!Normalized,
       BP!Normalized, B!LoadedGateway, BP!LoadedGateway, B!ArmPartitions, BP!ArmPartitions,
       B!SetPartition, BP!SetPartition, B!Next, BP!Next, B!TypeOK, BP!TypeOK, B!Known,
       BP!Known, B!SensorsFollowTheCentral, BP!SensorsFollowTheCentral,
       B!PanelFollowsTheCentral, BP!PanelFollowsTheCentral, B!ArmedAsAsked, BP!ArmedAsAsked

----------------------------------------------------------------------------
(* What the parser makes of the frames there are.                          *)

LEMMA FieldTexts ==
    /\ \A t : P!Plain(t).hash = "none" /\ P!Plain(t).text = t
    /\ \A t : P!Hash(t).hash = "front" /\ P!Hash(t).text = t
BY DEF P!Plain, P!Hash

LEMMA OneTwoThree == (\A i \in 1..3 : i = 1 \/ i = 2 \/ i = 3) /\ 3 # 4
OBVIOUS

LEMMA ParsedCommand ==
    ASSUME NEW who, NEW what, NEW text, who # "", what # "", text # ""
    PROVE  P!ParseFrame(P!BuildCommand(who, what, P!Plain(text))) =
               P!Standard(who, what, P!Plain(text))
<1> DEFINE f == <<P!Plain(who), P!Plain(what), P!Plain(text)>>
<1>1. Len(f) = 3 /\ f[1] = P!Plain(who) /\ f[2] = P!Plain(what) /\ f[3] = P!Plain(text)
  OBVIOUS
<1>2. P!BuildCommand(who, what, P!Plain(text)).request = FALSE
      /\ P!BuildCommand(who, what, P!Plain(text)).fields = f
  BY DEF P!BuildCommand
<1> HIDE DEF f
<1>3. f[1].text = who /\ f[2].text = what /\ f[3].text = text
      /\ f[1].hash = "none" /\ f[2].hash = "none" /\ f[3].hash = "none"
  BY <1>1, FieldTexts
<1>4. \A i \in 1..3 : f[i].hash = "none" /\ f[i].text # ""
  BY <1>3, OneTwoThree
<1> QED
  <2>1. f[3].hash # "front"  BY <1>3
  <2> QED
    BY <1>1, <1>2, <1>3, <1>4, <2>1, OneTwoThree, ZenonT(30) DEF P!ParseFrame

\* The answer to a dimension request, and its event, with the values it has.
LEMMA ParsedDimension ==
    ASSUME NEW who, NEW where, NEW dimension, NEW values \in Seq(Int)
    PROVE  P!ParseFrame(P!Dimension(who, where, dimension, values)) =
               [who |-> who, what |-> None, where |-> P!Plain(where), dimension |-> dimension,
                values |-> values]
<1> DEFINE h == <<P!Plain(who), P!Plain(where), P!Plain(dimension)>>
           f == h \o P!Values(values)
           e == P!ParseFrame(P!Dimension(who, where, dimension, values))
<1>1. h \in Seq({P!Plain(who), P!Plain(where), P!Plain(dimension)}) /\ Len(h) = 3
  OBVIOUS
<1>2. P!Values(values) \in Seq({P!Plain(n) : n \in Int}) /\ Len(P!Values(values)) = Len(values)
      /\ \A i \in 1..Len(values) : P!Values(values)[i] = P!Plain(values[i])
  BY DEF P!Values
<1>3. /\ Len(f) = 3 + Len(values) /\ Len(values) \in Nat
      /\ f[1] = P!Plain(who) /\ f[2] = P!Plain(where) /\ f[3] = P!Plain(dimension)
      /\ \A i \in 1..Len(values) : f[i + 3] = P!Plain(values[i])
  <2> DEFINE S == {P!Plain(who), P!Plain(where), P!Plain(dimension)}
                    \union {P!Plain(n) : n \in Int}
  <2>1. h \in Seq(S) /\ P!Values(values) \in Seq(S)
    BY <1>2
  <2>2. /\ Len(f) = Len(h) + Len(P!Values(values))
        /\ \A i \in 1..Len(f) : f[i] = IF i <= Len(h) THEN h[i] ELSE P!Values(values)[i - Len(h)]
    BY <2>1, ConcatProperties
  <2>3. Len(values) \in Nat  OBVIOUS
  <2>4. h[1] = P!Plain(who) /\ h[2] = P!Plain(where) /\ h[3] = P!Plain(dimension)
    OBVIOUS
  <2> HIDE DEF h, f, S
  <2>5. Len(f) = 3 + Len(values)  BY <2>2, <1>1, <1>2
  <2>6. 1 \in 1..Len(f) /\ 2 \in 1..Len(f) /\ 3 \in 1..Len(f)
    BY <2>3, <2>5
  <2>7. f[1] = h[1] /\ f[2] = h[2] /\ f[3] = h[3]
    BY <2>2, <2>6, <1>1
  <2>8. ASSUME NEW i \in 1..Len(values) PROVE f[i + 3] = P!Plain(values[i])
    BY <2>2, <2>3, <2>5, <1>1, <1>2
  <2> QED
    BY <2>3, <2>4, <2>5, <2>7, <2>8
<1>4. P!Dimension(who, where, dimension, values).request = TRUE
      /\ P!Dimension(who, where, dimension, values).fields = f
  BY DEF P!Dimension
<1> HIDE DEF f
<1>5. Len(f) >= 3 /\ P!Plain(dimension).hash # "front"
  BY <1>3 DEF P!Plain
<1>6. e = [who |-> f[1].text, what |-> None, where |-> f[2], dimension |-> f[3].text,
           values |-> [i \in 1..(Len(f) - 3) |-> f[i + 3].text]]
  BY <1>3, <1>4, <1>5 DEF P!ParseFrame
<1>7. [i \in 1..(Len(f) - 3) |-> f[i + 3].text] = values
  <2>1. Len(f) - 3 = Len(values)  BY <1>3
  <2>2. \A i \in 1..Len(values) : f[i + 3].text = values[i]
    BY <1>3, FieldTexts
  <2>3. values = [i \in 1..Len(values) |-> values[i]]
    OBVIOUS
  <2> QED
    BY <2>1, <2>2, <2>3
<1>8. f[1].text = who /\ f[3].text = dimension
  BY <1>3 DEF P!Plain
<1> QED
  BY <1>3, <1>6, <1>7, <1>8

\* A write is no event: its dimension has the "#" of a write.
LEMMA ParsedWrite ==
    ASSUME NEW who, NEW where, NEW dimension, NEW values \in Seq(Int)
    PROVE  P!ParseFrame(P!BuildDimensionWrite(who, where, dimension, values)) = P!NoEvent
<1> DEFINE h == <<P!Plain(who), where, P!Hash(dimension)>>
           f == h \o P!Values(values)
<1>1. P!Values(values) \in Seq({P!Plain(n) : n \in Int})
  BY DEF P!Values
<1>2. f[3] = P!Hash(dimension)
  <2> DEFINE S == {P!Plain(who), where, P!Hash(dimension)} \union {P!Plain(n) : n \in Int}
  <2>1. h \in Seq(S) /\ P!Values(values) \in Seq(S) /\ Len(h) = 3 /\ h[3] = P!Hash(dimension)
    BY <1>1
  <2>2. /\ Len(f) = Len(h) + Len(P!Values(values)) /\ Len(P!Values(values)) \in Nat
        /\ \A i \in 1..Len(f) : f[i] = IF i <= Len(h) THEN h[i] ELSE P!Values(values)[i - Len(h)]
    BY <2>1, ConcatProperties, LenProperties
  <2> HIDE DEF h, f, S
  <2>3. 3 \in 1..Len(f)  BY <2>1, <2>2
  <2> QED
    BY <2>1, <2>2, <2>3
<1>3. P!BuildDimensionWrite(who, where, dimension, values).request = TRUE
      /\ P!BuildDimensionWrite(who, where, dimension, values).fields = f
  BY DEF P!BuildDimensionWrite
<1> HIDE DEF f
<1> QED
  <2>1. ~(f[3].hash # "front")  BY <1>2, FieldTexts
  <2> QED
    BY <2>1, <1>3 DEF P!ParseFrame

\* Nor is the request of a whole status; that of a dimension is an event without values.
LEMMA ParsedStatusRequest ==
    ASSUME NEW who, NEW where
    PROVE  P!ParseFrame(P!BuildStatusRequest(who, where)) = P!NoEvent
BY DEF P!BuildStatusRequest, P!ParseFrame

LEMMA ParsedDimensionRequest ==
    ASSUME NEW who, NEW where, NEW dimension
    PROVE  LET e == P!ParseFrame(P!BuildDimensionRequest(who, where, dimension))
           IN  e.who = who /\ e.what = None /\ e.values = <<>>
<1> DEFINE f == <<P!Plain(who), where, P!Plain(dimension)>>
<1>1. Len(f) = 3 /\ f[1] = P!Plain(who) /\ f[3] = P!Plain(dimension)
  OBVIOUS
<1>2. P!BuildDimensionRequest(who, where, dimension).request = TRUE
      /\ P!BuildDimensionRequest(who, where, dimension).fields = f
  BY DEF P!BuildDimensionRequest
<1> HIDE DEF f
<1>3. f[1].text = who /\ f[3].hash # "front"
  BY <1>1 DEF P!Plain
<1>4. [i \in 1..(Len(f) - 3) |-> f[i + 3].text] = <<>>
  BY <1>1
<1>5. P!ParseFrame(P!BuildDimensionRequest(who, where, dimension)) =
          [who |-> f[1].text, what |-> None, where |-> f[2], dimension |-> f[3].text,
           values |-> [i \in 1..(Len(f) - 3) |-> f[i + 3].text]]
  <2>1. Len(f) >= 3  BY <1>1
  <2> QED
    BY <1>2, <1>3, <2>1, ZenonT(30) DEF P!ParseFrame
<1> QED
  BY <1>3, <1>4, <1>5

\* Whatever an event is, its family is that of the frame.
LEMMA ParsedFamily ==
    ASSUME NEW frame
    PROVE  P!ParseFrame(frame).who \in {frame.fields[1].text, None}
BY DEF P!ParseFrame, P!NoEvent, P!Standard

----------------------------------------------------------------------------
(* What the entities show of the events.                                   *)

\* Events of other families, none among them, show nothing; nor does a malformed status.
LEMMA OtherFamily ==
    ASSUME NEW e, e.who \notin {"1", "2", "18"}
    PROVE  P!Handled(e) = pointShown
<1>1. e.who # "1" /\ e.who # "2" /\ e.who # "18"  OBVIOUS
<1> QED
  BY ONLY <1>1, ZenonT(30) DEF P!Handled

LEMMA HandledLight ==
    ASSUME NEW e, e.who = "1", e.where = P!Plain(P!Lamp), e.what \in {"0", "1"}
    PROVE  P!Handled(e) = [pointShown EXCEPT !.light = IF e.what = "1" THEN "on" ELSE "off"]
<1>1. e.who # "2" /\ e.who # "18"  OBVIOUS
<1> QED
  BY ONLY <1>1, e.who = "1", e.where = P!Plain(P!Lamp), e.what \in {"0", "1"}, ZenonT(30)
     DEF P!Handled

LEMMA HandledMotion ==
    ASSUME NEW e, e.who = "2", e.where = P!Plain(P!Shutter), e.what \in {"0", "1", "2"},
           e.dimension # "10"
    PROVE  P!Handled(e) = [pointShown EXCEPT !.motion = CASE e.what = "0" -> "stopped"
                                                   [] e.what = "1" -> "opening"
                                                   [] OTHER -> "closing"]
<1>1. e.who # "1" /\ e.who # "18"  OBVIOUS
<1> QED
  BY ONLY <1>1, e.who = "2", e.where = P!Plain(P!Shutter), e.what \in {"0", "1", "2"},
     e.dimension # "10", ZenonT(30) DEF P!Handled

LEMMA HandledStatus ==
    ASSUME NEW e, e.who = "2", e.where = P!Plain(P!Shutter), e.what \notin {"0", "1", "2"},
           e.dimension = "10"
    PROVE  LET status == P!DecodeShutterStatus(e.values)
           IN  P!Handled(e) = IF status = P!NoStatus THEN pointShown
                            ELSE [pointShown EXCEPT !.motion = status.motion,
                                                    !.level = status.level]
<1>1. e.who # "1" /\ e.who # "18"  OBVIOUS
<1> QED
  BY ONLY <1>1, e.who = "2", e.where = P!Plain(P!Shutter), e.what \notin {"0", "1", "2"},
     e.dimension = "10", ZenonT(30) DEF P!Handled

LEMMA HandledPower ==
    ASSUME NEW e, e.who = "18", e.where = P!Plain(P!Meter), e.dimension = "113"
    PROVE  LET power == P!DecodeActivePower(e.values)
           IN  P!Handled(e) = IF power = None THEN pointShown
                              ELSE [pointShown EXCEPT !.power = power]
<1>1. e.who # "1" /\ e.who # "2"  OBVIOUS
<1> QED
  BY ONLY <1>1, e.who = "18", e.where = P!Plain(P!Meter), e.dimension = "113", ZenonT(30)
     DEF P!Handled

\* An event without values or state shows nothing.
LEMMA HandledRequest ==
    ASSUME P!ConstantsAssumption, NEW e, e.what = None, e.values = <<>>
    PROVE  P!Handled(e) = pointShown
<1>1. e.what \notin {"0", "1", "2"} /\ e.what \notin {"0", "1"}
  BY DEF P!ConstantsAssumption
<1>2. P!DecodeShutterStatus(e.values) = P!NoStatus
  BY DEF P!DecodeShutterStatus
<1>3. P!DecodeActivePower(e.values) = None
  BY DEF P!DecodeActivePower
<1> QED
  BY ONLY <1>1, <1>2, <1>3, ZenonT(30) DEF P!Handled

----------------------------------------------------------------------------
(* The steps.                                                              *)

ActualType ==
    [light : P!Lights, motion : P!Motions,
     level : Levels \union {P!LevelUnknown}, power : Powers]
ShownType ==
    [light : P!Lights \union {None}, motion : P!Motions \union {None},
     level : Levels \union {None}, power : Powers \union {None}]

\* What of a state of the endpoints is shown, when facets are not in doubt.
Matches(s, a, facets) ==
    /\ "light" \in facets => s.light = a.light
    /\ "motion" \in facets => s.motion = a.motion
    /\ "level" \in facets => s.level = IF a.level = P!LevelUnknown THEN None ELSE a.level
    /\ "power" \in facets => s.power = a.power

PointsInv == P!TypeOK /\ P!ReportedIsShown

LEMMA PointsParts ==
    /\ PointsInv <=>
        /\ actual \in ActualType /\ pointShown \in ShownType /\ due \subseteq P!Facets
        /\ kind \in {"none", "command", "write", "request", "report", "garbled"}
        /\ Matches(pointShown, actual, P!Facets \ due)
    /\ PointsInv' <=>
        /\ actual' \in ActualType /\ pointShown' \in ShownType /\ due' \subseteq P!Facets
        /\ kind' \in {"none", "command", "write", "request", "report", "garbled"}
        /\ Matches(pointShown', actual', P!Facets \ due')
<1>1. P!ReportedIsShown <=> Matches(pointShown, actual, P!Facets \ due)
  BY DEF P!ReportedIsShown, Matches, P!Facets
<1>2. P!ReportedIsShown' <=> Matches(pointShown', actual', P!Facets \ due')
  BY DEF P!ReportedIsShown, Matches, P!Facets
<1>3. P!TypeOK <=>
        /\ actual \in ActualType /\ pointShown \in ShownType /\ due \subseteq P!Facets
        /\ kind \in {"none", "command", "write", "request", "report", "garbled"}
  BY DEF P!TypeOK, ActualType, ShownType
<1>4. P!TypeOK' <=>
        /\ actual' \in ActualType /\ pointShown' \in ShownType /\ due' \subseteq P!Facets
        /\ kind' \in {"none", "command", "write", "request", "report", "garbled"}
  BY DEF P!TypeOK, ActualType, ShownType
<1> QED
  BY ONLY <1>1, <1>2, <1>3, <1>4 DEF PointsInv

LEMMA PointsInit == ASSUME P!ConstantsAssumption, P!Init PROVE PointsInv
<1>1. actual \in ActualType /\ due = P!Facets /\ kind = "none"
  BY DEF P!Init, ActualType, P!Motions
<1>2. pointShown \in ShownType
  BY DEF P!Init, ShownType, P!Facets
<1> QED
  BY <1>1, <1>2, PointsParts DEF Matches

\* The frame of a command shows what it orders.
LEMMA LightFrame ==
    ASSUME P!ConstantsAssumption, pointShown \in ShownType, NEW state \in P!Lights
    PROVE  LET s == P!Handled(P!ParseFrame(P!BuildCommand("1", IF state = "on" THEN "1" ELSE "0",
                                                    P!Plain(P!Lamp))))
           IN  s \in ShownType /\ s = [pointShown EXCEPT !.light = state]
<1> DEFINE w == IF state = "on" THEN "1" ELSE "0"
           e == P!Standard("1", w, P!Plain(P!Lamp))
<1>1. w # "" /\ w \in {"0", "1"}  OBVIOUS
<1>2. P!Lamp # "" /\ "1" # ""  BY DEF P!Lamp
<1>3. P!ParseFrame(P!BuildCommand("1", w, P!Plain(P!Lamp))) = e
  BY <1>1, <1>2, ParsedCommand
<1>4. e.who = "1" /\ e.where = P!Plain(P!Lamp) /\ e.what = w
  BY DEF P!Standard
<1>5. P!Handled(e) = [pointShown EXCEPT !.light = IF w = "1" THEN "on" ELSE "off"]
  BY <1>1, <1>4, HandledLight
<1>6. (IF w = "1" THEN "on" ELSE "off") = state
  BY DEF P!Lights
<1>7. [pointShown EXCEPT !.light = state] \in ShownType
  BY DEF ShownType
<1> HIDE DEF e, w
<1> QED
  BY <1>3, <1>5, <1>6, <1>7 DEF w

LEMMA CoverFrame ==
    ASSUME P!ConstantsAssumption, pointShown \in ShownType, NEW motion \in P!Motions
    PROVE  LET s == P!Handled(P!ParseFrame(P!BuildCommand("2",
                        CASE motion = "stopped" -> "0" [] motion = "opening" -> "1"
                          [] OTHER -> "2", P!Plain(P!Shutter))))
           IN  s \in ShownType /\ s = [pointShown EXCEPT !.motion = motion]
<1> DEFINE w == CASE motion = "stopped" -> "0" [] motion = "opening" -> "1" [] OTHER -> "2"
           e == P!Standard("2", w, P!Plain(P!Shutter))
<1>0. /\ motion = "stopped" => w = "0"
      /\ motion = "opening" => w = "1"
      /\ motion = "closing" => w = "2"
  OBVIOUS
<1> HIDE DEF w
<1>1. w # "" /\ w \in {"0", "1", "2"}  BY <1>0 DEF P!Motions
<1>2. P!Shutter # "" /\ "2" # ""  BY DEF P!Shutter
<1>3. P!ParseFrame(P!BuildCommand("2", w, P!Plain(P!Shutter))) = e
  BY <1>1, <1>2, ParsedCommand
<1>4. e.who = "2" /\ e.where = P!Plain(P!Shutter) /\ e.what = w /\ e.dimension = None
  BY DEF P!Standard
<1>5. e.dimension # "10"
  BY <1>4 DEF P!ConstantsAssumption
<1>6. P!Handled(e) = [pointShown EXCEPT !.motion = CASE e.what = "0" -> "stopped"
                                              [] e.what = "1" -> "opening"
                                              [] OTHER -> "closing"]
  BY <1>1, <1>4, <1>5, HandledMotion
<1>7. motion = CASE e.what = "0" -> "stopped" [] e.what = "1" -> "opening" [] OTHER -> "closing"
  BY <1>0, <1>4 DEF P!Motions
<1>8. [pointShown EXCEPT !.motion = motion] \in ShownType
  BY DEF ShownType
<1> HIDE DEF e
<1> QED
  BY <1>3, <1>6, <1>7, <1>8 DEF w

\* A report shows what it says of the shutter, and of the meter.
LEMMA ShutterFrame ==
    ASSUME P!ConstantsAssumption, actual \in ActualType, pointShown \in ShownType,
           NEW status \in 10..14,
           status \in CASE actual.motion = "stopped" -> {10}
                        [] actual.motion = "opening" -> {11, 13}
                        [] OTHER -> {12, 14}
    PROVE  LET s == P!Handled(P!ParseFrame(P!Dimension("2", P!Shutter, "10",
                                                       <<status, actual.level, 1, 0>>)))
           IN  /\ s \in ShownType
               /\ s = [pointShown EXCEPT !.motion = actual.motion,
                                    !.level = IF actual.level = P!LevelUnknown THEN None
                                              ELSE actual.level]
<1> DEFINE values == <<status, actual.level, 1, 0>>
           level == IF actual.level = P!LevelUnknown THEN None ELSE actual.level
           e == [who |-> "2", what |-> None, where |-> P!Plain(P!Shutter), dimension |-> "10",
                 values |-> values]
<1>1. actual.motion \in P!Motions /\ actual.level \in 0..100 \union {P!LevelUnknown}
      /\ actual.level \in Levels \union {P!LevelUnknown}
  BY DEF ActualType, P!ConstantsAssumption
<1>2. values \in Seq(Int) /\ Len(values) = 4 /\ values[1] = status /\ values[2] = actual.level
  BY <1>1 DEF P!LevelUnknown
<1> HIDE DEF values
<1>3. P!ParseFrame(P!Dimension("2", P!Shutter, "10", values)) = e
  BY <1>2, ParsedDimension
<1>4. P!Motion(status) = actual.motion
  <2>1. CASE actual.motion = "stopped"
    BY <2>1 DEF P!Motion
  <2>2. CASE actual.motion = "opening"
    BY <2>2 DEF P!Motion
  <2>3. CASE actual.motion = "closing"
    BY <2>3 DEF P!Motion
  <2> QED
    BY <1>1, <2>1, <2>2, <2>3 DEF P!Motions
<1>5. P!DecodeShutterStatus(values) = [motion |-> actual.motion, level |-> level]
  BY <1>1, <1>2, <1>4 DEF P!DecodeShutterStatus
<1>6. P!DecodeShutterStatus(values) # P!NoStatus
  <2>1. actual.motion # None  BY <1>1 DEF P!ConstantsAssumption
  <2> QED
    BY <1>5, <2>1 DEF P!NoStatus
<1>7. None \notin {"0", "1", "2"}
  BY DEF P!ConstantsAssumption
<1>8. P!Handled(e) = [pointShown EXCEPT !.motion = actual.motion, !.level = level]
  <2>1. /\ e.who = "2" /\ e.where = P!Plain(P!Shutter) /\ e.dimension = "10"
        /\ e.what \notin {"0", "1", "2"} /\ e.values = values
    BY <1>7
  <2> HIDE DEF e, level
  <2>2. P!Handled(e) = [pointShown EXCEPT !.motion = P!DecodeShutterStatus(e.values).motion,
                                   !.level = P!DecodeShutterStatus(e.values).level]
    BY <2>1, <1>6, HandledStatus
  <2> QED
    BY <2>1, <2>2, <1>5
<1>9. [pointShown EXCEPT !.motion = actual.motion, !.level = level] \in ShownType
  BY <1>1 DEF ShownType
<1> HIDE DEF e
<1> QED
  BY <1>3, <1>8, <1>9 DEF values

LEMMA MeterFrame ==
    ASSUME P!ConstantsAssumption, actual \in ActualType, pointShown \in ShownType
    PROVE  LET s == P!Handled(P!ParseFrame(P!Dimension("18", P!Meter, "113", <<actual.power>>)))
           IN  s \in ShownType /\ s = [pointShown EXCEPT !.power = actual.power]
<1> DEFINE values == <<actual.power>>
           e == [who |-> "18", what |-> None, where |-> P!Plain(P!Meter), dimension |-> "113",
                 values |-> values]
<1>1. actual.power \in Powers /\ actual.power \in Int /\ actual.power # None
  BY DEF ActualType, P!ConstantsAssumption
<1>2. values \in Seq(Int) /\ Len(values) = 1 /\ values[1] = actual.power
  BY <1>1
<1> HIDE DEF values
<1>3. P!ParseFrame(P!Dimension("18", P!Meter, "113", values)) = e
  BY <1>2, ParsedDimension
<1>4. P!DecodeActivePower(values) = actual.power
  BY <1>2 DEF P!DecodeActivePower
<1>5. P!Handled(e) = [pointShown EXCEPT !.power = actual.power]
  BY <1>1, <1>4, HandledPower
<1>6. [pointShown EXCEPT !.power = actual.power] \in ShownType
  BY <1>1 DEF ShownType
<1> HIDE DEF e
<1> QED
  BY <1>3, <1>5, <1>6 DEF values

\* What the remaining frames show: nothing.
LEMMA RequestFrame ==
    ASSUME P!ConstantsAssumption, NEW frame \in P!StatusRequests \union P!DimensionRequests
    PROVE  P!Handled(P!ParseFrame(frame)) = pointShown
<1>1. CASE frame \in P!StatusRequests
  <2>1. P!ParseFrame(frame) = P!NoEvent
    BY <1>1, ParsedStatusRequest DEF P!StatusRequests
  <2>2. P!NoEvent.what = None /\ P!NoEvent.values = <<>>
    BY DEF P!NoEvent, P!Standard
  <2> QED
    BY <2>1, <2>2, HandledRequest
<1>2. CASE frame \in P!DimensionRequests
  <2>1. \E who, where, dimension : frame = P!BuildDimensionRequest(who, where, dimension)
    BY <1>2 DEF P!DimensionRequests
  <2>2. P!ParseFrame(frame).what = None /\ P!ParseFrame(frame).values = <<>>
    BY <2>1, ParsedDimensionRequest
  <2> QED
    BY <2>2, HandledRequest
<1> QED
  BY <1>1, <1>2

LEMMA WriteFrame ==
    ASSUME P!ConstantsAssumption, NEW level \in Levels
    PROVE  P!Handled(P!ParseFrame(P!BuildGoToLevel(P!Shutter, level))) = pointShown
<1>1. <<level>> \in Seq(Int)
  BY DEF P!ConstantsAssumption
<1>2. P!ParseFrame(P!BuildGoToLevel(P!Shutter, level)) = P!NoEvent
  BY <1>1, ParsedWrite DEF P!BuildGoToLevel
<1>3. P!NoEvent.what = None /\ P!NoEvent.values = <<>>
  BY DEF P!NoEvent, P!Standard
<1> QED
  BY <1>2, <1>3, HandledRequest

LEMMA OtherFrame ==
    ASSUME P!ConstantsAssumption, NEW frame \in P!OtherCommands \union P!AlarmEvents
    PROVE  P!Handled(P!ParseFrame(frame)) = pointShown
<1>1. frame.fields[1].text \in {"0", "4", "5", "6"}
  <2>1. \E who \in {"0", "4", "5", "6"} : frame.fields[1] = P!Plain(who)
    <3>1. CASE frame \in {[request |-> FALSE, fields |-> <<P!Plain("5"), P!Plain("8")>>],
                          [request |-> FALSE, fields |-> <<P!Plain("5"), P!Inside("8#1256")>>]}
      BY <3>1
    <3>2. CASE frame \in {P!BuildCommand("5", "11", P!Hash("1")),
                          P!BuildCommand("6", "10", P!Plain("1")),
                          P!BuildCommand("0", "1", P!Plain(P!Lamp)),
                          P!BuildCommand("4", "110", P!Hash("1")),
                          P!BuildCommand("5", "15", P!Hash("1"))}
      BY <3>2 DEF P!BuildCommand
    <3>3. CASE frame = P!BuildDimensionWrite("4", P!Hash("1"), "14", <<215, 1>>)
      <4> DEFINE h == <<P!Plain("4"), P!Hash("1"), P!Hash("14")>>
                 S == {P!Plain("4"), P!Hash("1"), P!Hash("14")} \union {P!Plain(n) : n \in Int}
      <4>1. h \in Seq(S) /\ Len(h) = 3 /\ h[1] = P!Plain("4")
        OBVIOUS
      <4>2. P!Values(<<215, 1>>) \in Seq(S)
        <5>1. <<215, 1>> \in Seq(Int)  OBVIOUS
        <5> QED
          BY <5>1 DEF P!Values
      <4>3. frame.fields = h \o P!Values(<<215, 1>>)
        BY <3>3 DEF P!BuildDimensionWrite
      <4> HIDE DEF h, S
      <4>4. (h \o P!Values(<<215, 1>>))[1] = h[1]
        BY <4>1, <4>2, ConcatProperties, LenProperties
      <4> QED
        BY <4>1, <4>3, <4>4
    <3>4. CASE frame = [request |-> FALSE,
                        fields |-> <<P!Plain("5"), P!Plain("8"), P!Plain(""), P!Plain("")>>]
      BY <3>4
    <3> QED
      BY <3>1, <3>2, <3>3, <3>4 DEF P!OtherCommands, P!AlarmEvents
  <2> QED
    BY <2>1, FieldTexts
<1>2. P!ParseFrame(frame).who \in {"0", "4", "5", "6", None}
  BY <1>1, ParsedFamily
<1>3. P!ParseFrame(frame).who \notin {"1", "2", "18"}
  BY <1>2 DEF P!ConstantsAssumption
<1> QED
  BY <1>3, OtherFamily

LEMMA GarbledFrame ==
    ASSUME P!ConstantsAssumption, NEW values \in Payloads
    PROVE  /\ P!Handled(P!ParseFrame(P!Dimension("2", P!Shutter, "10", values))) = pointShown
           /\ Len(values) # 1 =>
                P!Handled(P!ParseFrame(P!Dimension("18", P!Meter, "113", values))) = pointShown
<1>1. values \in Seq(Int) /\ None \notin {"0", "1", "2"}
  BY DEF P!ConstantsAssumption
<1>2. P!DecodeShutterStatus(values) = P!NoStatus
  BY DEF P!ConstantsAssumption, P!DecodeShutterStatus
<1>3. P!Handled(P!ParseFrame(P!Dimension("2", P!Shutter, "10", values))) = pointShown
  <2> DEFINE e == P!ParseFrame(P!Dimension("2", P!Shutter, "10", values))
  <2>1. /\ e.who = "2" /\ e.where = P!Plain(P!Shutter) /\ e.what = None /\ e.dimension = "10"
        /\ e.values = values
    BY <1>1, ParsedDimension
  <2> HIDE DEF e
  <2>2. e.what \notin {"0", "1", "2"}  BY <2>1, <1>1
  <2> QED
    BY <2>1, <2>2, <1>2, HandledStatus DEF e
<1>4. Len(values) # 1 =>
          P!Handled(P!ParseFrame(P!Dimension("18", P!Meter, "113", values))) = pointShown
  <2> DEFINE e == P!ParseFrame(P!Dimension("18", P!Meter, "113", values))
  <2>1. e.who = "18" /\ e.where = P!Plain(P!Meter) /\ e.dimension = "113" /\ e.values = values
    BY <1>1, ParsedDimension
  <2> HIDE DEF e
  <2>2. Len(values) # 1 => P!DecodeActivePower(values) = None
    BY DEF P!DecodeActivePower
  <2> QED
    BY <2>1, <2>2, HandledPower DEF e
<1> QED
  BY <1>3, <1>4

\* The kinds of the frames that tell nothing.
Silent == {"request", "write", "garbled"}

LEMMA LightCommandStep ==
    ASSUME P!ConstantsAssumption, PointsInv, P!LightCommand
    PROVE  PointsInv' /\ (kind' \in Silent => pointShown' = pointShown)
<1>1. PICK state \in P!Lights :
          /\ actual' = [actual EXCEPT !.light = state] /\ due' = due \union {"light"}
          /\ P!Relayed(P!BuildCommand("1", IF state = "on" THEN "1" ELSE "0", P!Plain(P!Lamp)),
                       "command")
  BY DEF P!LightCommand
<1>2. \/ /\ kind' = "command" /\ pointShown' \in ShownType
         /\ pointShown' = [pointShown EXCEPT !.light = state]
      \/ kind' = kind /\ pointShown' = pointShown
  BY <1>1, PointsParts, LightFrame DEF P!Relayed, P!Dispatched
<1> QED
  BY <1>1, <1>2, PointsParts DEF ActualType, ShownType, Matches, P!Facets, Silent

LEMMA CoverCommandStep ==
    ASSUME P!ConstantsAssumption, PointsInv, P!CoverCommand
    PROVE  PointsInv' /\ (kind' \in Silent => pointShown' = pointShown)
<1>1. PICK motion \in P!Motions :
          /\ actual' = [actual EXCEPT !.motion = motion] /\ due' = due \union {"motion", "level"}
          /\ P!Relayed(P!BuildCommand("2", CASE motion = "stopped" -> "0"
                                             [] motion = "opening" -> "1"
                                             [] OTHER -> "2", P!Plain(P!Shutter)), "command")
  BY DEF P!CoverCommand
<1>2. \/ /\ kind' = "command" /\ pointShown' \in ShownType
         /\ pointShown' = [pointShown EXCEPT !.motion = motion]
      \/ kind' = kind /\ pointShown' = pointShown
  BY <1>1, PointsParts, CoverFrame DEF P!Relayed, P!Dispatched
<1> QED
  BY <1>1, <1>2, PointsParts DEF ActualType, ShownType, Matches, P!Facets, Silent

LEMMA CoverLevelStep ==
    ASSUME P!ConstantsAssumption, PointsInv, P!CoverLevel
    PROVE  PointsInv' /\ (kind' \in Silent => pointShown' = pointShown)
<1>1. PICK level \in Levels :
          /\ actual' = [actual EXCEPT !.motion = "stopped", !.level = level]
          /\ due' = due \union {"motion", "level"}
          /\ P!Relayed(P!BuildGoToLevel(P!Shutter, level), "write")
  BY DEF P!CoverLevel
<1>2. (kind' = "write" \/ kind' = kind) /\ pointShown' = pointShown
  BY <1>1, WriteFrame DEF P!Relayed, P!Dispatched
<1>3. actual' \in ActualType
  BY <1>1, PointsParts DEF ActualType, P!Motions
<1>4. /\ actual'.light = actual.light /\ actual'.power = actual.power
      /\ Matches(pointShown, actual, P!Facets \ due)
  BY <1>1, PointsParts DEF ActualType
<1>5. Matches(pointShown', actual', P!Facets \ due')
  BY <1>1, <1>2, <1>4 DEF Matches, P!Facets
<1>6. due' \subseteq P!Facets /\ pointShown' \in ShownType
      /\ kind' \in {"none", "command", "write", "request", "report", "garbled"}
  BY <1>1, <1>2, PointsParts DEF P!Facets
<1> QED
  BY <1>2, <1>3, <1>5, <1>6, PointsParts

LEMMA RequestedStep ==
    ASSUME P!ConstantsAssumption, PointsInv, P!Requested
    PROVE  PointsInv' /\ (kind' \in Silent => pointShown' = pointShown)
<1>1. /\ kind' = "request" \/ kind' = kind
      /\ pointShown' = pointShown /\ due' = P!Facets /\ actual' = actual
  BY RequestFrame DEF P!Requested, P!Relayed, P!Dispatched
<1> QED
  BY <1>1, PointsParts DEF Matches

LEMMA OtherTrafficStep ==
    ASSUME P!ConstantsAssumption, PointsInv, P!OtherTraffic
    PROVE  PointsInv' /\ (kind' \in Silent => pointShown' = pointShown)
<1>1. /\ kind' \in {"write", "command", "report", kind} /\ pointShown' = pointShown
      /\ due' = due /\ actual' = actual
  BY OtherFrame DEF P!OtherTraffic, P!Relayed, P!Dispatched
<1> QED
  BY <1>1, PointsParts DEF Matches

LEMMA ChangedStep ==
    ASSUME P!ConstantsAssumption, PointsInv, P!Changed
    PROVE  PointsInv' /\ (kind' \in Silent => pointShown' = pointShown)
<1>1. pointShown' = pointShown /\ kind' = kind
  BY DEF P!Changed
<1>2. /\ actual \in ActualType /\ due \subseteq P!Facets
      /\ Matches(pointShown, actual, P!Facets \ due)
  BY PointsParts
<1>3. /\ actual' \in ActualType /\ due' \subseteq P!Facets
      /\ Matches(pointShown', actual', P!Facets \ due')
  <2>1. CASE \E level \in Levels \union {P!LevelUnknown} :
                /\ actual' = [actual EXCEPT !.motion = "stopped", !.level = level]
                /\ due' = due \union {"motion", "level"}
    BY <2>1, <1>1, <1>2 DEF ActualType, P!Motions, Matches, P!Facets
  <2>2. CASE /\ \E power \in Powers : actual' = [actual EXCEPT !.power = power]
             /\ due' = due \union {"power"}
    BY <2>2, <1>1, <1>2 DEF ActualType, Matches, P!Facets
  <2> QED
    BY <2>1, <2>2 DEF P!Changed
<1> QED
  BY <1>1, <1>3, PointsParts

LEMMA LightReportsStep ==
    ASSUME P!ConstantsAssumption, PointsInv, P!LightReports
    PROVE  PointsInv' /\ (kind' \in Silent => pointShown' = pointShown)
<1>1. actual.light \in P!Lights /\ pointShown \in ShownType
  BY PointsParts DEF ActualType
<1>2. /\ kind' = "report" /\ pointShown' = [pointShown EXCEPT !.light = actual.light]
      /\ pointShown' \in ShownType /\ actual' = actual /\ due' = due \ {"light"}
  BY <1>1, LightFrame DEF P!LightReports, P!Dispatched
<1> QED
  BY <1>1, <1>2, PointsParts DEF Matches, P!Facets, Silent, ShownType

LEMMA ShutterReportsStep ==
    ASSUME P!ConstantsAssumption, PointsInv, P!ShutterReports
    PROVE  PointsInv' /\ (kind' \in Silent => pointShown' = pointShown)
<1>1. actual \in ActualType /\ pointShown \in ShownType
  BY PointsParts
<1>2. /\ kind' = "report" /\ pointShown' \in ShownType /\ actual' = actual
      /\ due' = due \ {"motion", "level"}
      /\ pointShown' = [pointShown EXCEPT !.motion = actual.motion,
                                !.level = IF actual.level = P!LevelUnknown THEN None
                                          ELSE actual.level]
  BY <1>1, ShutterFrame DEF P!ShutterReports, P!Dispatched
<1> QED
  BY <1>1, <1>2, PointsParts DEF Matches, P!Facets, Silent, ShownType

LEMMA MeterReportsStep ==
    ASSUME P!ConstantsAssumption, PointsInv, P!MeterReports
    PROVE  PointsInv' /\ (kind' \in Silent => pointShown' = pointShown)
<1>1. actual \in ActualType /\ pointShown \in ShownType
  BY PointsParts
<1>2. /\ kind' = "report" /\ pointShown' = [pointShown EXCEPT !.power = actual.power]
      /\ pointShown' \in ShownType /\ actual' = actual /\ due' = due \ {"power"}
  BY <1>1, MeterFrame DEF P!MeterReports, P!Dispatched
<1> QED
  BY <1>1, <1>2, PointsParts DEF Matches, P!Facets, Silent, ShownType

LEMMA GarbledStep ==
    ASSUME P!ConstantsAssumption, PointsInv, P!Garbled
    PROVE  PointsInv' /\ (kind' \in Silent => pointShown' = pointShown)
<1>1. kind' = "garbled" /\ pointShown' = pointShown /\ due' = due /\ actual' = actual
  BY GarbledFrame DEF P!Garbled, P!Dispatched
<1> QED
  BY <1>1, PointsParts DEF Matches

LEMMA PointsStutter ==
    ASSUME PointsInv, UNCHANGED P!vars PROVE PointsInv' /\ pointShown' = pointShown
BY PointsParts DEF P!vars, Matches

LEMMA PointsStep ==
    ASSUME P!ConstantsAssumption, PointsInv, [P!Next]_(P!vars)
    PROVE  PointsInv' /\ (kind' \in Silent => pointShown' = pointShown)
<1>1. CASE P!LightCommand  BY <1>1, LightCommandStep
<1>2. CASE P!CoverCommand  BY <1>2, CoverCommandStep
<1>3. CASE P!CoverLevel  BY <1>3, CoverLevelStep
<1>4. CASE P!Requested  BY <1>4, RequestedStep
<1>5. CASE P!OtherTraffic  BY <1>5, OtherTrafficStep
<1>6. CASE P!Changed  BY <1>6, ChangedStep
<1>7. CASE P!LightReports  BY <1>7, LightReportsStep
<1>8. CASE P!ShutterReports  BY <1>8, ShutterReportsStep
<1>9. CASE P!MeterReports  BY <1>9, MeterReportsStep
<1>10. CASE P!Garbled  BY <1>10, GarbledStep
<1>11. CASE UNCHANGED P!vars  BY <1>11, PointsStutter
<1> QED
  BY <1>1, <1>2, <1>3, <1>4, <1>5, <1>6, <1>7, <1>8, <1>9, <1>10, <1>11 DEF P!Next

----------------------------------------------------------------------------
(* The composition.                                                        *)

\* The invariant of each part, while the behaviour is that part's.
Inv ==
    /\ part \in {"zone", "alarm", "panel", "points"}
    /\ part = "zone" => ZP!Inv
    /\ part = "alarm" => AP!Inv
    /\ part = "panel" => BP!Inv
    /\ part = "points" => PointsInv

LEMMA InitInv == Init => Inv
<1>1. Z!Init => ZP!Inv  BY ConstantsAssumption, SameZone, ZP!InitInv
<1>2. A!Init => AP!Inv  BY ConstantsAssumption, SameHouse, AP!InitInv
<1>3. B!Init => BP!Inv  BY ConstantsAssumption, SameFlat, BP!InitInv
<1>4. P!Init => PointsInv  BY ConstantsAssumption, PointsInit
<1> QED
  BY <1>1, <1>2, <1>3, <1>4 DEF Init, Inv

\* A step is one of the behaviour's part, and a stuttering step of Protocol in the others.
LEMMA StepInv ==
    ASSUME Inv, [Next]_vars
    PROVE  /\ Inv'
           /\ UNCHANGED P!vars \/ (kind' \in Silent => pointShown' = pointShown)
<1>1. part' = part
  BY DEF Next, vars
<1>2. CASE part = "zone"
  <2>1. [Z!Next]_(Z!vars) /\ UNCHANGED pointVars
    BY <1>2 DEF Next, vars, zoneVars, Z!vars, Z!shown, Z!plant
  <2>2. ZP!Inv'
    BY <1>2, <2>1, ConstantsAssumption, SameZone, ZP!StepInv DEF Inv
  <2> QED
    BY <1>1, <1>2, <2>1, <2>2 DEF Inv, pointVars, P!vars
<1>3. CASE part = "alarm"
  <2>1. [A!Next]_(A!vars) /\ UNCHANGED pointVars
    BY <1>3 DEF Next, vars, alarmVars, A!vars, A!system, A!history
  <2>2. AP!Inv'
    BY <1>3, <2>1, ConstantsAssumption, SameHouse, AP!StepInv DEF Inv
  <2> QED
    BY <1>1, <1>3, <2>1, <2>2 DEF Inv, pointVars, P!vars
<1>4. CASE part = "panel"
  <2>1. [B!Next]_(B!vars) /\ UNCHANGED pointVars
    BY <1>4 DEF Next, vars, alarmVars, B!vars, B!system, B!history
  <2>2. BP!Inv'
    BY <1>4, <2>1, ConstantsAssumption, SameFlat, BP!StepInv DEF Inv
  <2> QED
    BY <1>1, <1>4, <2>1, <2>2 DEF Inv, pointVars, P!vars
<1>5. CASE part = "points"
  <2>1. [P!Next]_(P!vars)
    BY <1>5 DEF Next, vars, pointVars, P!vars
  <2>2. PointsInv' /\ (kind' \in Silent => pointShown' = pointShown)
    BY <1>5, <2>1, ConstantsAssumption, PointsStep DEF Inv
  <2> QED
    BY <1>1, <1>5, <2>2 DEF Inv
<1> QED
  BY <1>2, <1>3, <1>4, <1>5 DEF Inv

\* The invariant holds in every state of every part.
THEOREM Invariance == Spec => []Inv
<1>1. Inv /\ [Next]_vars => Inv'  BY StepInv
<1> QED
  BY InitInv, <1>1, PTL DEF Spec

\* What it says of the zone's entity, of the alarm's, and of light, shutter and meter.
LEMMA InvZone ==
    ASSUME Inv, part = "zone"
    PROVE  Z!TypeOK /\ Z!ObeyedIsShown /\ Z!ActionIsReported /\ Z!ShowsWhatItOffers
<1>1. ZP!ConstantsAssumption /\ ZP!Inv
  BY ConstantsAssumption, SameZone DEF Inv
<1>2. ZP!TypeOK /\ ZP!ActionIsReported /\ ZP!ShowsWhatItOffers
  BY <1>1 DEF ZP!Inv
<1> QED
  BY <1>1, <1>2, SameZone, ZP!InvShows

LEMMA InvHouse ==
    ASSUME Inv, part = "alarm"
    PROVE  /\ A!TypeOK /\ A!SensorsFollowTheCentral
           /\ A!PanelFollowsTheCentral /\ A!ArmedAsAsked
<1>1. AP!ConstantsAssumption /\ AP!Inv
  BY ConstantsAssumption, SameHouse DEF Inv
<1>2. AP!TypeOK /\ AP!ArmedAsAsked
  BY <1>1 DEF AP!Inv
<1> QED
  BY <1>1, <1>2, SameHouse, AP!InvShows

LEMMA InvFlat ==
    ASSUME Inv, part = "panel"
    PROVE  /\ B!TypeOK /\ B!SensorsFollowTheCentral
           /\ B!PanelFollowsTheCentral /\ B!ArmedAsAsked
<1>1. BP!ConstantsAssumption /\ BP!Inv
  BY ConstantsAssumption, SameFlat DEF Inv
<1>2. BP!TypeOK /\ BP!ArmedAsAsked
  BY <1>1 DEF BP!Inv
<1> QED
  BY <1>1, <1>2, SameFlat, BP!InvShows

\* The variables of the part at work keep their types.
THEOREM Typing == Spec => []TypeOK
<1>1. Inv => TypeOK
  BY InvZone, InvHouse, InvFlat DEF Inv, PointsInv, TypeOK
<1> QED
  BY Invariance, <1>1, PTL

\* Whatever profile a zone has and however commands, frames and changes of the zone by
\* itself alternate, a mode, preset or setpoint the zone was asked for is what its
\* entity shows once the zone has reported.
THEOREM ZoneObeyed == Spec => []ObeyedIsShown
<1>1. Inv => ObeyedIsShown  BY InvZone DEF ObeyedIsShown
<1> QED
  BY Invariance, <1>1, PTL

\* As long as a zone's last output report is true, its entity shows heating or cooling only
\* for an open output, and misses an open one only after a mode or DIM=12 frame, which
\* leaves the action idle or off.  Until a mode is known, idle outputs change nothing.
THEOREM ActionReported == Spec => []ActionIsReported
<1>1. Inv => ActionIsReported  BY InvZone DEF ActionIsReported
<1> QED
  BY Invariance, <1>1, PTL

\* A zone's entity never shows a mode or preset that it does not offer, nor two that
\* do not fit, whatever the zone reports.
THEOREM OffersWhatItShows == Spec => []ShowsWhatItOffers
<1>1. Inv => ShowsWhatItOffers  BY InvZone DEF ShowsWhatItOffers
<1> QED
  BY Invariance, <1>1, PTL

\* However the frames of an answer are ordered, whichever changes are lost and whenever
\* the alarm is loaded, unloaded, added or removed, a sensor that missed nothing shows
\* the central's state of its own point.
THEOREM SensorsFollow == Spec => []SensorsFollowTheCentral
<1>1. Inv => SensorsFollowTheCentral  BY InvHouse, InvFlat DEF SensorsFollowTheCentral
<1> QED
  BY Invariance, <1>1, PTL

\* So does the panel with the arming, and it is triggered only if there was an alarm since
\* the arming last changed, or an answer told of one.
THEOREM PanelFollows == Spec => []PanelFollowsTheCentral
<1>1. Inv => PanelFollowsTheCentral  BY InvHouse, InvFlat DEF PanelFollowsTheCentral
<1> QED
  BY Invariance, <1>1, PTL

\* A list of partitions a user passes arms exactly those it names, or none.
THEOREM ArmsAsAsked == Spec => []ArmedAsAsked
<1>1. Inv => ArmedAsAsked  BY InvHouse, InvFlat DEF ArmedAsAsked
<1> QED
  BY Invariance, <1>1, PTL

\* Whatever frames of their own and other families are relayed, light, shutter and meter
\* show what was last reported or commanded.
THEOREM ReportsShown == Spec => []ReportedIsShown
<1>1. Inv => ReportedIsShown  BY DEF Inv, PointsInv, ReportedIsShown
<1> QED
  BY Invariance, <1>1, PTL

\* No relayed request or write and no malformed answer changes what they show.
THEOREM QuestionsAreSilent == Spec => QuestionsShowNothing
<1>1. Inv /\ [Next]_vars =>
        [kind' \in {"request", "write", "garbled"} => pointShown' = pointShown]_(P!vars)
  BY StepInv DEF Silent
<1> QED
  BY Invariance, <1>1, PTL DEF Spec, QuestionsShowNothing, P!QuestionsShowNothing
=============================================================================
