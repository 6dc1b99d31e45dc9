------------------------------ MODULE Handlers ------------------------------
(***************************************************************************)
(* The handlers of Climate, Alarm and Protocol side by side.  They share   *)
(* nothing: a behaviour is one of Climate, of Alarm or of Protocol, as     *)
(* part says, and the variables of the others stay at Absent.  Alarm has   *)
(* two instances, which differ in size.                                    *)
(***************************************************************************)
EXTENDS Integers, Sequences

CONSTANTS
    Profiles, Temperatures,     \* of Climate
    House, Flat,                \* of Alarm: [partitions, requests, maxChanges]
    Levels, Powers, Payloads,   \* of Protocol
    None, Absent

VARIABLES
    part,
    profile, hvacMode, hvacAction, presetMode, targetTemperature, zone, setpoint, valves,
    zoneAsked, told,
    loaded, present, alarmShown, toAsk, inbox, central, alarm, changes, missed, reread,
    unanswered, armedWith,
    actual, due, pointShown, kind

Z == INSTANCE Climate WITH asked <- zoneAsked
A == INSTANCE Alarm WITH
        Partitions <- House.partitions, Requests <- House.requests, MaxChanges <- House.maxChanges,
        MaxPartition <- 8, Nothing <- None, shown <- alarmShown, asked <- armedWith
B == INSTANCE Alarm WITH
        Partitions <- Flat.partitions, Requests <- Flat.requests, MaxChanges <- Flat.maxChanges,
        MaxPartition <- 8, Nothing <- None, shown <- alarmShown, asked <- armedWith
P == INSTANCE Protocol WITH shown <- pointShown

ASSUME ConstantsAssumption ==
    /\ Z!ConstantsAssumption
    /\ A!ConstantsAssumption /\ B!ConstantsAssumption
    /\ P!ConstantsAssumption

zoneVars ==
    <<profile, hvacMode, hvacAction, presetMode, targetTemperature, zone, setpoint, valves,
      zoneAsked, told>>
alarmVars ==
    <<loaded, present, alarmShown, toAsk, inbox, central, alarm, changes, missed, reread,
      unanswered, armedWith>>
pointVars == <<actual, due, pointShown, kind>>
vars == <<part, zoneVars, alarmVars, pointVars>>

NoZone ==
    /\ profile = Absent /\ hvacMode = Absent /\ hvacAction = Absent /\ presetMode = Absent
    /\ targetTemperature = Absent /\ zone = Absent /\ setpoint = Absent /\ valves = Absent
    /\ zoneAsked = Absent /\ told = Absent
NoAlarm ==
    /\ loaded = Absent /\ present = Absent /\ alarmShown = Absent /\ toAsk = Absent
    /\ inbox = Absent /\ central = Absent /\ alarm = Absent /\ changes = Absent
    /\ missed = Absent /\ reread = Absent /\ unanswered = Absent /\ armedWith = Absent
NoPoints == actual = Absent /\ due = Absent /\ pointShown = Absent /\ kind = Absent

Init ==
    \/ part = "zone" /\ Z!Init /\ NoAlarm /\ NoPoints
    \/ part = "alarm" /\ A!Init /\ NoZone /\ NoPoints
    \/ part = "panel" /\ B!Init /\ NoZone /\ NoPoints
    \/ part = "points" /\ P!Init /\ NoZone /\ NoAlarm

Next ==
    \/ part = "zone" /\ Z!Next /\ UNCHANGED <<part, alarmVars, pointVars>>
    \/ part = "alarm" /\ A!Next /\ UNCHANGED <<part, zoneVars, pointVars>>
    \/ part = "panel" /\ B!Next /\ UNCHANGED <<part, zoneVars, pointVars>>
    \/ part = "points" /\ P!Next /\ UNCHANGED <<part, zoneVars, alarmVars>>

Spec == Init /\ [][Next]_vars

----------------------------------------------------------------------------
(* The properties of the three modules, each where it applies.             *)

\* The types of the variables.
TypeOK ==
    /\ part = "zone" => Z!TypeOK
    /\ part = "alarm" => A!TypeOK
    /\ part = "panel" => B!TypeOK
    /\ part = "points" => P!TypeOK

\* What the user asked of a thermoregulation zone is what its entity shows.
ObeyedIsShown == part = "zone" => Z!ObeyedIsShown

\* Heating and cooling are shown for open outputs only, unless these changed since; an open
\* output goes unshown if a mode was reported since.
ActionIsReported == part = "zone" => Z!ActionIsReported

\* A zone's entity shows only modes and presets it offers, and that fit each other.
ShowsWhatItOffers == part = "zone" => Z!ShowsWhatItOffers

\* The alarm's sensors show the central's state of their own point.
SensorsFollowTheCentral ==
    /\ part = "alarm" => A!SensorsFollowTheCentral
    /\ part = "panel" => B!SensorsFollowTheCentral

\* The alarm panel is triggered for an alarm since the arming only, and forgets one to an
\* answer only.
PanelFollowsTheCentral ==
    /\ part = "alarm" => A!PanelFollowsTheCentral
    /\ part = "panel" => B!PanelFollowsTheCentral

\* The alarm panel is triggered for an alarm in progress only.
AlarmShownIsInProgress ==
    /\ part = "alarm" => A!AlarmShownIsInProgress
    /\ part = "panel" => B!AlarmShownIsInProgress

\* A list of partitions arms exactly those it names, or none.
ArmedAsAsked ==
    /\ part = "alarm" => A!ArmedAsAsked
    /\ part = "panel" => B!ArmedAsAsked

\* Lights, shutters and meters show what was last reported or commanded.
ReportedIsShown == part = "points" => P!ReportedIsShown

\* Relayed requests and writes, and malformed frames, show nothing.
QuestionsShowNothing == P!QuestionsShowNothing
=============================================================================
