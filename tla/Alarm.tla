------------------------------- MODULE Alarm -------------------------------
(***************************************************************************)
(* The burglar alarm of one gateway (WHO=5): its control panel             *)
(* (alarm_control_panel.py), the partition, battery, network and technical *)
(* sensors of its group (binary_sensor.py), and the actions that arm it    *)
(* (services.py, protocol/alarm.py).                                       *)
(*                                                                         *)
(* A point is what one entity shows.  The central unit is known by the     *)
(* last WHAT it has for every point, and sends it with the WHERE of the    *)
(* point: 0 for the central, n for "#n", which zone n and auxiliary n      *)
(* share.  Frames arrive at once here, late and lost ones are in           *)
(* EntityState; but the frames of one answer come in any order.            *)
(***************************************************************************)
EXTENDS Integers, Sequences

CONSTANTS
    Partitions,     \* the zones the central has, and the auxiliaries of the same numbers
    MaxPartition,   \* MAX_LEGACY_PARTITIONS
    Requests,       \* partition lists a user may pass to the actions
    Nothing,        \* a Python None
    MaxChanges      \* bound: changes of the central

SensorStates == {"on", "off"}
PanelStates == {"armed_away", "disarmed", "triggered"}

\* What the constants must be.
ConstantsAssumption ==
    /\ MaxPartition \in 0..9
    /\ Partitions \subseteq 1..MaxPartition
    /\ Requests \subseteq Seq(Int)
    /\ Nothing \notin SensorStates \union PanelStates
    /\ MaxChanges \in Nat

Point(kind, n) == [kind |-> kind, where |-> n]
Panel == Point("panel", 0)
Sensors ==
    {Point("battery", 0), Point("network", 0)}
    \union {Point(kind, n) : kind \in {"zone", "technical"}, n \in Partitions}
Points == {Panel} \union Sensors

\* The WHATs of protocol/alarm.py that turn a sensor on and off.
Engaged == 8
Disengaged == 9
Triggers == {12, 15, 16, 17, 31}
On  == [battery |-> {4, 10}, network |-> {7}, zone |-> {11}, technical |-> {12}]
Off == [battery |-> {5},     network |-> {6}, zone |-> {18}, technical |-> {13}]

WhatsOf(p) ==
    IF p = Panel THEN {Engaged, Disengaged} ELSE On[p.kind] \union Off[p.kind]

Frames ==
    {[where |-> p.where, what |-> w] : p \in Points, w \in UNION {WhatsOf(q) : q \in Points}}
    \union [where : Partitions, what : Triggers]

VARIABLES
    loaded,     \* the config entry is LOADED
    present,    \* the inventory has the alarm
    shown,      \* what each entity shows
    toAsk,      \* the entities whose first status request is to be made
    inbox,      \* the frames that are being dispatched
    central,    \* external: the central's WHAT for each point
    alarm,      \* external: the kinds of alarm since the central was armed or disarmed
    changes,    \* bound
    missed,     \* history: points whose last frame was lost
    reread,     \* history: what an answer told the panel since: "arming", "alarm"
    unanswered, \* history: entities whose first request failed
    asked       \* history: the list the central was last armed with, while it holds

system  == <<central, alarm, changes>>
history == <<missed, reread, unanswered, asked>>
vars    == <<loaded, present, shown, toAsk, inbox, system, history>>

Exists == loaded /\ present
Blank == [p \in Points |-> Nothing]

Init ==
    /\ loaded = FALSE /\ present \in BOOLEAN
    /\ shown = Blank
    /\ toAsk = {} /\ inbox = {}
    /\ central = [p \in Points |->
                    IF p = Panel THEN Disengaged ELSE CHOOSE w \in Off[p.kind] : TRUE]
    /\ alarm = {}
    /\ changes = 0
    /\ missed = {} /\ reread = {} /\ unanswered = {}
    /\ asked = Nothing

----------------------------------------------------------------------------
(* The entities of the group.                                              *)

\* The entities are built, and every one asks once for its state.
Setup ==
    /\ shown' = Blank
    /\ toAsk' = Points
    /\ missed' = {} /\ reread' = {} /\ unanswered' = {}

Dispose ==
    /\ shown' = Blank
    /\ toAsk' = {}
    /\ missed' = {} /\ reread' = {} /\ unanswered' = {}

\* async_setup_entry and the unloading of the entry.
LoadOrUnload ==
    /\ inbox = {}
    /\ loaded' = ~loaded
    /\ IF present /\ ~loaded THEN Setup ELSE Dispose
    /\ UNCHANGED <<present, inbox, system, asked>>

\* _device_added and _device_removed.
InventoryChanges ==
    /\ inbox = {}
    /\ present' = ~present
    /\ IF loaded /\ ~present THEN Setup ELSE Dispose
    /\ UNCHANGED <<loaded, inbox, system, asked>>

\* Variant: an alarm is not overwritten by the state of arming.
PanelLatched(frame) ==
    CASE frame.what \in Triggers -> "triggered"
      [] shown[Panel] # "triggered" /\ frame.where = 0 /\ frame.what = Engaged -> "armed_away"
      [] shown[Panel] # "triggered" /\ frame.where = 0 /\ frame.what = Disengaged -> "disarmed"
      [] OTHER -> shown[Panel]

\* BticinoAlarmControlPanel._handle_event.
PanelShows(frame) ==
    CASE frame.what \in Triggers -> "triggered"
      [] frame.where = 0 /\ frame.what = Engaged -> "armed_away"
      [] frame.where = 0 /\ frame.what = Disengaged -> "disarmed"
      [] OTHER -> shown[Panel]

\* Variant: the WHERE is not looked at.
SensorAnywhere(p, frame) ==
    CASE frame.what \in On[p.kind] -> "on"
      [] frame.what \in Off[p.kind] -> "off"
      [] OTHER -> shown[p]

\* _handle_event of the binary sensors.
SensorShows(p, frame) ==
    CASE frame.where = p.where /\ frame.what \in On[p.kind] -> "on"
      [] frame.where = p.where /\ frame.what \in Off[p.kind] -> "off"
      [] OTHER -> shown[p]

Dispatch(frame) ==
    /\ inbox' = inbox \ {frame}
    /\ shown' = IF ~Exists THEN shown
                ELSE [p \in Points |-> IF p = Panel THEN PanelShows(frame)
                                                    ELSE SensorShows(p, frame)]
    /\ UNCHANGED <<loaded, present, toAsk, system, history>>

\* The point a frame tells of; an alarm is told to the panel.
Tells(p, frame) ==
    \/ p.where = frame.where /\ frame.what \in WhatsOf(p)
    \/ p = Panel /\ frame.what \in Triggers

\* The frames of a change are dispatched if the event channel is up, else lost.
Sends(frames) ==
    LET about == {p \in Points : \E f \in frames : Tells(p, f)}
    IN  \/ inbox' = frames /\ missed' = missed \ about
        \/ inbox' = {} /\ missed' = IF Exists THEN missed \union about ELSE missed

----------------------------------------------------------------------------
(* Status requests.                                                        *)

\* What the central answers: a zone's state, or the system's, with the alarms in
\* progress or without (external).
Answer(p) ==
    IF p.kind = "zone" THEN {{[where |-> p.where, what |-> central[p]]}}
    ELSE LET state == {[where |-> 0, what |-> central[q]] : q \in {r \in Points : r.where = 0}}
             alarms == {[where |-> q.where, what |-> 12] :
                            q \in {r \in Points : r.kind = "technical" /\ central[r] = 12}}
         IN  {state \union extra : extra \in SUBSET alarms}

\* _async_request_initial_state of an entity is answered...
Asked(p) ==
    /\ inbox = {} /\ p \in toAsk
    /\ toAsk' = toAsk \ {p}
    /\ inbox' \in Answer(p)
    /\ missed' = missed \ {q \in Points : \E f \in inbox' : Tells(q, f)}
    /\ reread' = reread \union {r \in {"arming", "alarm"} :
                    \E f \in inbox' : IF r = "arming" THEN f.where = 0 ELSE f.what \in Triggers}
    /\ UNCHANGED <<loaded, present, shown, system, unanswered, asked>>

\* ...or fails, which only that entity is the worse for.
AskFails(p) ==
    /\ inbox = {} /\ p \in toAsk
    /\ toAsk' = toAsk \ {p}
    /\ unanswered' = unanswered \union {p}
    /\ UNCHANGED <<loaded, present, shown, inbox, system, missed, reread, asked>>

----------------------------------------------------------------------------
(* The central, and the actions of the user.                               *)

\* The central's points become those of state; arming and disarming end an alarm.
Becomes(state) ==
    /\ inbox = {} /\ changes < MaxChanges
    /\ changes' = changes + 1
    /\ central' = state
    /\ LET arming == state[Panel] # central[Panel]
           frames == {[where |-> p.where, what |-> state[p]] :
                        p \in {q \in Points : state[q] # central[q]}}
           technical == \E f \in frames : f.what \in Triggers
       IN  /\ alarm' = (IF arming THEN {} ELSE alarm)
                           \union (IF technical THEN {"technical"} ELSE {})
           /\ Sends(frames)
           /\ reread' = IF arming \/ technical THEN {} ELSE reread
    /\ UNCHANGED <<loaded, present, shown, toAsk, unanswered>>

\* Zones and auxiliaries change, supplies fail and return, someone uses the keypad.
CentralChanges ==
    /\ \E p \in Points : \E w \in WhatsOf(p) \ {central[p]} :
        Becomes([central EXCEPT ![p] = w])
    /\ asked' = Nothing

\* Intrusion, tampering, panic or silent alarm.
AlarmRaised ==
    /\ inbox = {} /\ changes < MaxChanges
    /\ changes' = changes + 1
    /\ alarm' = alarm \union {"burglar"}
    /\ \E n \in Partitions, w \in Triggers \ {12} : Sends({[where |-> n, what |-> w]})
    /\ reread' = {}
    /\ UNCHANGED <<loaded, present, shown, toAsk, central, unanswered, asked>>

\* async_alarm_arm_away and async_alarm_disarm, obeyed; the panel waits for a frame.
PanelCommand ==
    /\ Exists
    /\ \E w \in WhatsOf(Panel) \ {central[Panel]} : Becomes([central EXCEPT ![Panel] = w])
    /\ asked' = Nothing

Listed(request) == {request[i] : i \in 1..Len(request)}

\* Variant: what is out of range is ignored.
InRangeSome(request) ==
    IF Listed(request) \intersect 1..MaxPartition = {} THEN Nothing
    ELSE Listed(request) \intersect 1..MaxPartition

\* _normalize_partitions; Nothing where it raises.
Normalized(request) ==
    IF request = <<>> \/ ~(Listed(request) \subseteq 1..MaxPartition) THEN Nothing
    ELSE Listed(request)

\* The zones the central reads in the digits alarm_arm_partitions writes after "#", one
\* by one and in any order.
Digits(n) == IF n < 10 THEN {n} ELSE {n \div 10, n % 10}
Mask(S) == UNION {Digits(n) : n \in S}

\* _loaded_gateway raises for an entry that is unknown, foreign or not LOADED.
LoadedGateway == loaded

\* arm_alarm_partitions, obeyed by the central: the listed zones are active, the
\* others are partialized.  Refused requests and entries not loaded change nothing.
ArmPartitions(request) ==
    /\ LoadedGateway
    /\ Normalized(request) # Nothing
    /\ Becomes([p \in Points |->
                  CASE p = Panel -> Engaged
                    [] p.kind = "zone" -> IF p.where \in Mask(Normalized(request)) THEN 11 ELSE 18
                    [] OTHER -> central[p]])
    /\ asked' = request

\* set_alarm_partition, obeyed.
SetPartition(n, active) ==
    /\ LoadedGateway
    /\ n \in 1..MaxPartition
    /\ Point("zone", n) \in Points
    /\ Becomes([central EXCEPT ![Point("zone", n)] = IF active THEN 11 ELSE 18])
    /\ asked' = Nothing

Next ==
    \/ LoadOrUnload \/ InventoryChanges
    \/ \E frame \in inbox : Dispatch(frame)
    \/ \E p \in toAsk : Asked(p) \/ AskFails(p)
    \/ CentralChanges \/ AlarmRaised \/ PanelCommand
    \/ \E request \in Requests : ArmPartitions(request)
    \/ \E n \in Partitions, active \in BOOLEAN : SetPartition(n, active)

Spec == Init /\ [][Next]_vars

----------------------------------------------------------------------------
(* Properties.                                                             *)

\* The types of the variables.
TypeOK ==
    /\ loaded \in BOOLEAN /\ present \in BOOLEAN
    /\ \A p \in Sensors : shown[p] \in SensorStates \union {Nothing}
    /\ shown[Panel] \in PanelStates \union {Nothing}
    /\ toAsk \subseteq Points /\ unanswered \subseteq Points /\ missed \subseteq Points
    /\ inbox \subseteq Frames
    /\ \A p \in Points : central[p] \in WhatsOf(p)
    /\ alarm \subseteq {"technical", "burglar"} /\ reread \subseteq {"arming", "alarm"}
    /\ changes \in 0..MaxChanges
    /\ asked \in Requests \union {Nothing}

Known(p) == inbox = {} /\ shown[p] # Nothing /\ p \notin missed

\* A sensor that shows a state shows the central's, unless the last frame about it
\* was lost: zone n and auxiliary n share a WHERE, battery and network another, and
\* frames about all of them come in any order (binary_sensor.py:130-246).  Once every
\* request of the group was answered, nothing but the technical alarms, of which the
\* central tells only those in progress, is unknown.
SensorsFollowTheCentral ==
    /\ \A p \in Sensors : Known(p) =>
        shown[p] = IF central[p] \in On[p.kind] THEN "on" ELSE "off"
    /\ Exists /\ toAsk = {} /\ inbox = {} =>
        \A p \in Points \ unanswered : p.kind # "technical" => shown[p] # Nothing

\* The panel shows an alarm only if there was one since the system was last armed or
\* disarmed, or an answer named a technical alarm that outlasted the arming, and else
\* whether it is armed.  An alarm goes unshown only if its frame was lost, or if the
\* answer to a status request told that the system is armed after it
\* (alarm_control_panel.py:71-76; a dozen entities make that request, each when added).
\* The end of an alarm is no part of it, see AlarmShownIsInProgress.
PanelFollowsTheCentral ==
    Known(Panel) =>
        /\ shown[Panel] = "triggered" => alarm # {} \/ "alarm" \in reread
        /\ shown[Panel] # "triggered" =>
            shown[Panel] = IF central[Panel] = Engaged THEN "armed_away" ELSE "disarmed"
        /\ alarm # {} /\ "arming" \notin reread => shown[Panel] = "triggered"

\* A panel that was told everything is triggered for an alarm in progress: a burglar
\* alarm since the arming, or a technical alarm that was not reset (USAGE.md:213 and 258,
\* docs/protocol.md:103).
AlarmShownIsInProgress ==
    inbox = {} /\ missed = {} /\ shown[Panel] = "triggered" =>
        "burglar" \in alarm \/ \E p \in Points : p.kind = "technical" /\ central[p] = 12

\* An accepted list arms exactly the partitions it names, in whatever order and however
\* often it names them, and one that names an impossible one is refused as a whole, so
\* that no number becomes two digits: what is armed is never less than what was asked for,
\* nor more (protocol/alarm.py:71-78, 107-123).
ArmedAsAsked ==
    asked # Nothing =>
        /\ central[Panel] = Engaged
        /\ \A i \in 1..Len(asked) : asked[i] \in 1..MaxPartition
        /\ \A n \in Partitions : central[Point("zone", n)] = 11 <=> n \in Listed(asked)
=============================================================================
