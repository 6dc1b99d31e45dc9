------------------------------ MODULE Protocol ------------------------------
(***************************************************************************)
(* From frames to entity states (protocol/, and the handlers of light.py,  *)
(* cover.py and sensor.py): what the builders of the integration write,    *)
(* what the parser makes of each frame when the MH201 relays it, and what  *)
(* a light, an advanced shutter and an energy meter show after it.         *)
(*                                                                         *)
(* A frame "*a*b*c##" or "*#a*b*c##" is its fields and whether it begins   *)
(* with "*#".  A field is its text and where it has a "#": nowhere, in     *)
(* front or inside.                                                        *)
(***************************************************************************)
EXTENDS Integers, Sequences

CONSTANTS
    Levels,     \* positions of the shutter that occur
    Powers,     \* measured powers that occur
    Payloads,   \* values of malformed DIM=10 frames
    None        \* a Python None

LevelUnknown == 255

Lights == {"off", "on"}
Motions == {"stopped", "opening", "closing"}

\* What the constants must be.
ConstantsAssumption ==
    /\ Levels \subseteq 0..100 /\ Powers \subseteq Int
    /\ Payloads \subseteq Seq(Int)
    /\ \A values \in Payloads :
        Len(values) < 2 \/ values[1] \notin 10..14 \/ values[2] \notin 0..100 \union {LevelUnknown}
    /\ None \notin Int
    /\ None \notin Lights \union Motions \union {"0", "1", "2", "10", "18", "113"}

VARIABLES
    actual,     \* external: the state of the three endpoints
    due,        \* what changed or was asked for, and is not reported yet
    shown,      \* what their entities show
    kind        \* history: what the last frame on the event channel was

vars == <<actual, due, shown, kind>>

Facets == {"light", "motion", "level", "power"}
Lamp == "21"
Shutter == "11"
Meter == "51"

Init ==
    /\ actual \in [light : Lights, motion : {"stopped"},
                   level : Levels \union {LevelUnknown}, power : Powers]
    /\ due = Facets
    /\ shown = [x \in Facets |-> None]
    /\ kind = "none"

----------------------------------------------------------------------------
(* Builders.                                                               *)

Plain(text) == [hash |-> "none", text |-> text]
Hash(text) == [hash |-> "front", text |-> text]
Inside(text) == [hash |-> "inside", text |-> text]
Values(numbers) == [i \in DOMAIN numbers |-> Plain(numbers[i])]

BuildCommand(who, what, where) ==
    [request |-> FALSE, fields |-> <<Plain(who), Plain(what), where>>]
BuildStatusRequest(who, where) == [request |-> TRUE, fields |-> <<Plain(who), where>>]
BuildDimensionRequest(who, where, dimension) ==
    [request |-> TRUE, fields |-> <<Plain(who), where, Plain(dimension)>>]

\* Also the answer to a dimension request.
Dimension(who, where, dimension, values) ==
    [request |-> TRUE,
     fields |-> <<Plain(who), Plain(where), Plain(dimension)>> \o Values(values)]
BuildDimensionWrite(who, where, dimension, values) ==
    [request |-> TRUE,
     fields |-> <<Plain(who), where, Hash(dimension)>> \o Values(values)]

\* build_go_to_level: the priority is part of the dimension field.
BuildGoToLevel(where, level) == BuildDimensionWrite("2", Plain(where), "11#001", <<level>>)

\* The requests the integration makes: of the whole status, of one dimension.
StatusRequests ==
    {BuildStatusRequest("1", Plain(Lamp)), BuildStatusRequest("2", Plain(Shutter)),
     BuildStatusRequest("5", Plain("0")), BuildStatusRequest("5", Hash("1"))}
DimensionRequests ==
    {BuildDimensionRequest("2", Plain(Shutter), "10"),
     BuildDimensionRequest("18", Plain(Meter), "113")}
    \union {BuildDimensionRequest("4", w, d) : w \in {Plain("1"), Hash("1")}, d \in {"0", "12", "14"}}

\* Commands of the other families, which none of the three endpoints obeys:
\* arming with and without a mask of partitions, one partition, a door, a
\* scenario, a climate mode of a central zone, a setpoint.
OtherCommands ==
    {[request |-> FALSE, fields |-> <<Plain("5"), Plain("8")>>],
     [request |-> FALSE, fields |-> <<Plain("5"), Inside("8#1256")>>],
     BuildCommand("5", "11", Hash("1")), BuildCommand("6", "10", Plain("1")),
     BuildCommand("0", "1", Plain(Lamp)), BuildCommand("4", "110", Hash("1")),
     BuildDimensionWrite("4", Hash("1"), "14", <<215, 1>>)}

\* Events no builder makes: the alarm's, with an empty field for the central.
AlarmEvents ==
    {[request |-> FALSE, fields |-> <<Plain("5"), Plain("8"), Plain(""), Plain("")>>],
     BuildCommand("5", "15", Hash("1"))}

----------------------------------------------------------------------------
(* The parser.                                                             *)

Standard(who, what, where) ==
    [who |-> who, what |-> what, where |-> where, dimension |-> None, values |-> <<>>]
NoEvent == Standard(None, None, None)

\* parse_frame: its four patterns, then the dimension frames; NoEvent where it gives None.
ParseFrame(frame) ==
    LET f == frame.fields
        who == f[1].text
    IN  IF ~frame.request
        THEN CASE Len(f) = 3 /\ \A i \in 1..3 : f[i].hash = "none" /\ f[i].text # "" ->
                    Standard(who, f[2].text, f[3])
               [] Len(f) = 3 /\ who \in {"4", "5"} /\ f[2].hash = "none" /\ f[3].hash = "front" ->
                    Standard(who, f[2].text, f[3])
               [] Len(f) = 4 /\ who = "5" /\ f[2].hash = "none" /\ f[3] = Plain("") /\ f[4] = Plain("") ->
                    Standard(who, f[2].text, Plain("0"))
               [] OTHER -> NoEvent
        ELSE IF Len(f) >= 3 /\ f[3].hash # "front"
             THEN [who |-> who, what |-> None, where |-> f[2], dimension |-> f[3].text,
                   values |-> [i \in 1..(Len(f) - 3) |-> f[i + 3].text]]
             ELSE NoEvent

\* Variant: single steps are no motion.
MotionNoSteps(status) ==
    CASE status = 11 -> "opening" [] status = 12 -> "closing" [] OTHER -> "stopped"

\* is_opening and is_closing of AdvancedShutterStatus: moving, or one step.
Motion(status) ==
    CASE status \in {11, 13} -> "opening" [] status \in {12, 14} -> "closing" [] OTHER -> "stopped"

NoStatus == [motion |-> None, level |-> None]

\* Variant: the level is not checked.
DecodeAnyLevel(values) ==
    IF Len(values) < 2 \/ values[1] \notin 10..14 THEN NoStatus
    ELSE [motion |-> Motion(values[1]),
          level |-> IF values[2] = LevelUnknown THEN None ELSE values[2]]

DecodeShutterStatus(values) ==
    IF Len(values) < 2 \/ values[1] \notin 10..14 \/ values[2] \notin 0..100 \union {LevelUnknown}
    THEN NoStatus
    ELSE [motion |-> Motion(values[1]),
          level |-> IF values[2] = LevelUnknown THEN None ELSE values[2]]

\* Variant: no value is no power.
DecodeNoPower(values) ==
    IF values = <<>> THEN 0 ELSE IF Len(values) = 1 THEN values[1] ELSE None

DecodeActivePower(values) == IF Len(values) = 1 THEN values[1] ELSE None

\* normalize_frame and the _handle_event of the three entities: what they show then.
Handled(e) ==
    LET status == DecodeShutterStatus(e.values)
        power  == DecodeActivePower(e.values)
    IN  CASE e.who = "1" /\ e.where = Plain(Lamp) /\ e.what \in {"0", "1"} ->
                [shown EXCEPT !.light = IF e.what = "1" THEN "on" ELSE "off"]
          [] e.who = "2" /\ e.where = Plain(Shutter) /\ e.dimension = "10" /\ status # NoStatus ->
                [shown EXCEPT !.motion = status.motion, !.level = status.level]
          [] e.who = "2" /\ e.where = Plain(Shutter) /\ e.what \in {"0", "1", "2"} ->
                [shown EXCEPT !.motion = CASE e.what = "0" -> "stopped" [] e.what = "1" -> "opening"
                                           [] OTHER -> "closing"]
          [] e.who = "18" /\ e.where = Plain(Meter) /\ e.dimension = "113" /\ power # None ->
                [shown EXCEPT !.power = power]
          [] OTHER -> shown

\* A frame of a kind comes in on the event channel.
Dispatched(frame, what) ==
    /\ kind' = what
    /\ shown' = Handled(ParseFrame(frame))

----------------------------------------------------------------------------
(* The bus: clients write, the endpoints obey, change and report.          *)

\* What a client writes is relayed to the event channel, or not.
Relayed(frame, what) ==
    \/ Dispatched(frame, what)
    \/ UNCHANGED <<shown, kind>>

LightCommand ==
    \E state \in Lights :
        /\ actual' = [actual EXCEPT !.light = state]
        /\ due' = due \union {"light"}
        /\ Relayed(BuildCommand("1", IF state = "on" THEN "1" ELSE "0", Plain(Lamp)), "command")

CoverCommand ==
    \E motion \in Motions :
        /\ actual' = [actual EXCEPT !.motion = motion]
        /\ due' = due \union {"motion", "level"}
        /\ Relayed(BuildCommand("2", CASE motion = "stopped" -> "0" [] motion = "opening" -> "1"
                                       [] OTHER -> "2", Plain(Shutter)), "command")

\* async_set_cover_position, once the shutter has got there.
CoverLevel ==
    \E level \in Levels :
        /\ actual' = [actual EXCEPT !.motion = "stopped", !.level = level]
        /\ due' = due \union {"motion", "level"}
        /\ Relayed(BuildGoToLevel(Shutter, level), "write")

Requested ==
    /\ \E frame \in StatusRequests \union DimensionRequests : Relayed(frame, "request")
    /\ due' = Facets
    /\ UNCHANGED actual

OtherTraffic ==
    /\ \/ \E frame \in OtherCommands :
            Relayed(frame, IF frame.request THEN "write" ELSE "command")
       \/ \E frame \in AlarmEvents : Dispatched(frame, "report")
    /\ UNCHANGED <<actual, due>>

\* By hand, or by itself.
Changed ==
    \/ /\ \E level \in Levels \union {LevelUnknown} :
            actual' = [actual EXCEPT !.motion = "stopped", !.level = level]
       /\ due' = due \union {"motion", "level"}
       /\ UNCHANGED <<shown, kind>>
    \/ /\ \E power \in Powers : actual' = [actual EXCEPT !.power = power]
       /\ due' = due \union {"power"}
       /\ UNCHANGED <<shown, kind>>

LightReports ==
    /\ Dispatched(BuildCommand("1", IF actual.light = "on" THEN "1" ELSE "0", Plain(Lamp)), "report")
    /\ due' = due \ {"light"}
    /\ UNCHANGED actual

ShutterReports ==
    /\ \E status \in 10..14 :
        /\ status \in CASE actual.motion = "stopped" -> {10} [] actual.motion = "opening" -> {11, 13}
                          [] OTHER -> {12, 14}
        /\ Dispatched(Dimension("2", Shutter, "10", <<status, actual.level, 1, 0>>), "report")
    /\ due' = due \ {"motion", "level"}
    /\ UNCHANGED actual

MeterReports ==
    /\ Dispatched(Dimension("18", Meter, "113", <<actual.power>>), "report")
    /\ due' = due \ {"power"}
    /\ UNCHANGED actual

Garbled ==
    /\ \E values \in Payloads :
        \/ Dispatched(Dimension("2", Shutter, "10", values), "garbled")
        \/ /\ Len(values) # 1
           /\ Dispatched(Dimension("18", Meter, "113", values), "garbled")
    /\ UNCHANGED <<actual, due>>

Next ==
    \/ LightCommand \/ CoverCommand \/ CoverLevel
    \/ Requested \/ OtherTraffic \/ Changed
    \/ LightReports \/ ShutterReports \/ MeterReports \/ Garbled

Spec == Init /\ [][Next]_vars

----------------------------------------------------------------------------
(* Properties.                                                             *)

\* The types of the variables.
TypeOK ==
    /\ actual \in [light : Lights, motion : Motions,
                   level : Levels \union {LevelUnknown}, power : Powers]
    /\ due \subseteq Facets
    /\ shown \in [light : Lights \union {None}, motion : Motions \union {None},
                  level : Levels \union {None}, power : Powers \union {None}]
    /\ kind \in {"none", "command", "write", "request", "report", "garbled"}

\* What the entities show is what was last reported or commanded, in its own unit: no
\* relayed frame of any other family, address or form, and no malformed payload, is
\* taken for a state, and an unknown position stays unknown.
ReportedIsShown ==
    \A x \in Facets \ due :
        shown[x] = IF x = "level" /\ actual[x] = LevelUnknown THEN None ELSE actual[x]

\* A question is not an answer: a request or a write that is relayed changes nothing
\* that is shown.
QuestionsShowNothing ==
    [][kind' \in {"request", "write", "garbled"} => shown' = shown]_vars
=============================================================================
