---------------------------- MODULE AlarmProofs ----------------------------
(***************************************************************************)
(* Proofs about Alarm.  The properties hold when no frame is on its way;   *)
(* the inductive invariant adds what holds between the frames of one       *)
(* answer, in whatever order they come: what the frames in the inbox say   *)
(* is true, and an entity that does not show the central's state yet is    *)
(* about to be told.                                                       *)
(***************************************************************************)
EXTENDS Alarm, TLAPS

\* A frame that says what the central has for p.
About(p, frame) == frame.where = p.where /\ frame.what \in WhatsOf(p)
IsAlarm(frame) == frame.what \in Triggers
ForPanel == {f \in inbox : IsAlarm(f) \/ About(Panel, f)}

\* What the central's WHAT for a sensor, and for the panel, is shown as.
SensorState(p) == IF central[p] \in On[p.kind] THEN "on" ELSE "off"
ArmedState == IF central[Panel] = Engaged THEN "armed_away" ELSE "disarmed"

CentralType == central \in [Points -> Nat]

\* Without entities, nothing is shown or to be asked for.
NoEntities == ~Exists => shown = Blank /\ toAsk = {}

\* The frames on their way are true of the central, of its alarm, and of its arming.
InboxIsTrue ==
    \A f \in inbox :
        /\ \A p \in Points : About(p, f) => f.what = central[p]
        /\ IsAlarm(f) => alarm # {} \/ "alarm" \in reread
        /\ About(Panel, f) => alarm = {} \/ "arming" \in reread

\* A sensor that was told of every change shows the central's state, or is being told.
SensorsAreTold ==
    \A p \in Sensors \ missed :
        shown[p] # Nothing => shown[p] = SensorState(p) \/ \E f \in inbox : About(p, f)

\* So is an entity whose request was answered.
AnswersAreShown ==
    Exists => \A p \in Points \ (unanswered \union toAsk) :
        p.kind # "technical" => shown[p] # Nothing \/ \E f \in inbox : About(p, f)

\* And the panel.
PanelShown ==
    /\ shown[Panel] = "triggered" => alarm # {} \/ "alarm" \in reread
    /\ shown[Panel] # "triggered" => shown[Panel] = ArmedState
    /\ alarm # {} /\ "arming" \notin reread => shown[Panel] = "triggered"
PanelIsTold ==
    shown[Panel] # Nothing /\ Panel \notin missed => ForPanel # {} \/ PanelShown

\* The inductive invariant.
Inv ==
    /\ TypeOK
    /\ CentralType
    /\ NoEntities
    /\ InboxIsTrue
    /\ SensorsAreTold
    /\ AnswersAreShown
    /\ PanelIsTold
    /\ ArmedAsAsked

----------------------------------------------------------------------------
(* The points and their WHATs.                                             *)

\* What there is to know of a point's WHATs: those of the kinds have nothing in
\* common, but that a technical alarm is one of the triggers.
LEMMA WhatsTable ==
    ASSUME NEW p \in Points
    PROVE  \/ p = Panel /\ WhatsOf(p) = {8, 9}
           \/ p.kind = "battery" /\ p = Point("battery", 0) /\ p # Panel
                /\ On[p.kind] = {4, 10} /\ Off[p.kind] = {5} /\ WhatsOf(p) = {4, 5, 10}
           \/ p.kind = "network" /\ p = Point("network", 0) /\ p # Panel
                /\ On[p.kind] = {7} /\ Off[p.kind] = {6} /\ WhatsOf(p) = {6, 7}
           \/ p.kind = "zone" /\ p.where \in Partitions /\ p = Point("zone", p.where) /\ p # Panel
                /\ On[p.kind] = {11} /\ Off[p.kind] = {18} /\ WhatsOf(p) = {11, 18}
           \/ p.kind = "technical" /\ p.where \in Partitions /\ p = Point("technical", p.where)
                /\ p # Panel
                /\ On[p.kind] = {12} /\ Off[p.kind] = {13} /\ WhatsOf(p) = {12, 13}
<1>1. CASE p = Panel
  BY <1>1 DEF WhatsOf, Engaged, Disengaged
<1>2. CASE p = Point("battery", 0)
  BY <1>2 DEF WhatsOf, On, Off, Point, Panel
<1>3. CASE p = Point("network", 0)
  BY <1>3 DEF WhatsOf, On, Off, Point, Panel
<1>4. CASE \E n \in Partitions : p = Point("zone", n)
  BY <1>4 DEF WhatsOf, On, Off, Point, Panel
<1>5. CASE \E n \in Partitions : p = Point("technical", n)
  BY <1>5 DEF WhatsOf, On, Off, Point, Panel
<1> QED
  BY <1>1, <1>2, <1>3, <1>4, <1>5 DEF Points, Sensors

LEMMA PointTypes ==
    ASSUME ConstantsAssumption, NEW p \in Points
    PROVE  /\ p.where \in Nat /\ WhatsOf(p) \subseteq Nat
           /\ p \in Sensors <=> p # Panel
           /\ p.kind \in {"zone", "technical"} => p.where # 0
           /\ p.kind \notin {"zone", "technical"} => p.where = 0
<1>1. \A n \in Partitions : n \in Nat /\ n # 0
  BY DEF ConstantsAssumption
<1>2. Panel \in Points /\ Panel.kind = "panel" /\ Panel.where = 0
  BY DEF Points, Panel, Point
<1>3. p \in Sensors <=> p # Panel
  <2>1. Panel \notin Sensors
    <3>1. \A s \in Sensors : s.kind \in {"battery", "network", "zone", "technical"}
      BY DEF Sensors, Point
    <3> QED
      BY <3>1 DEF Panel, Point
  <2> QED
    BY <2>1 DEF Points
<1>4. p = Point("battery", 0) \/ p = Point("network", 0) => p.where = 0
  BY DEF Point
<1> QED
  BY <1>1, <1>2, <1>3, <1>4, WhatsTable

\* A frame is about one point.
LEMMA OnePoint ==
    ASSUME ConstantsAssumption, NEW p \in Points, NEW q \in Points, NEW f,
           About(p, f), f.where = q.where, f.what \in WhatsOf(q)
    PROVE  p = q
<1>1. p.where = q.where /\ WhatsOf(p) \intersect WhatsOf(q) # {}
  BY DEF About
<1>2. \A n \in Partitions : n # 0
  BY DEF ConstantsAssumption
<1> QED
  BY ONLY <1>1, <1>2, WhatsTable, p \in Points, q \in Points

\* The triggers of a frame about a point.
LEMMA PanelWhats ==
    ASSUME ConstantsAssumption
    PROVE  /\ Panel \in Points /\ Panel \notin Sensors /\ Panel.where = 0 /\ Panel.kind = "panel"
           /\ WhatsOf(Panel) = {8, 9} /\ Engaged = 8 /\ Disengaged = 9
           /\ \A f : About(Panel, f) => ~IsAlarm(f)
           /\ \A f : About(Panel, f) <=> f.where = 0 /\ f.what \in {8, 9}
<1>1. Panel \in Points /\ Panel \notin Sensors /\ Panel.where = 0 /\ Panel.kind = "panel"
  <2>1. Panel \in Points  BY DEF Points
  <2> QED
    BY <2>1, PointTypes DEF Panel, Point
<1>2. WhatsOf(Panel) = {8, 9} /\ Engaged = 8 /\ Disengaged = 9
  BY DEF WhatsOf, Engaged, Disengaged
<1> QED
  BY <1>1, <1>2 DEF About, IsAlarm, Triggers

\* A sensor's WHAT is of one side.
LEMMA SensorSides ==
    ASSUME ConstantsAssumption, NEW p \in Sensors
    PROVE  /\ p \in Points /\ p # Panel
           /\ WhatsOf(p) = On[p.kind] \union Off[p.kind] /\ On[p.kind] \intersect Off[p.kind] = {}
<1>1. p \in Points /\ p # Panel  BY PanelWhats DEF Points
<1>2. WhatsOf(p) = On[p.kind] \union Off[p.kind]  BY <1>1 DEF WhatsOf
<1>3. On[p.kind] \intersect Off[p.kind] = {}
  BY <1>1, WhatsTable
<1> QED
  BY <1>1, <1>2, <1>3

----------------------------------------------------------------------------
(* The initial states, and what loading and the inventory do.              *)

LEMMA InitialWhats ==
    ASSUME NEW p \in Points
    PROVE  (IF p = Panel THEN Disengaged ELSE CHOOSE w \in Off[p.kind] : TRUE)
               \in WhatsOf(p) \intersect Nat
<1>1. CASE p = Panel
  BY <1>1 DEF WhatsOf, Disengaged
<1>2. CASE p # Panel
  <2>1. (CHOOSE w \in Off[p.kind] : TRUE) \in Off[p.kind]
    BY <1>2, WhatsTable
  <2>2. Off[p.kind] \subseteq Nat
    BY <1>2, WhatsTable
  <2> QED
    BY <1>2, <2>1, <2>2 DEF WhatsOf
<1> QED
  BY <1>1, <1>2

\* With nothing shown and no frame on its way, there is little to show.
LEMMA BlankInv ==
    ASSUME ConstantsAssumption, TypeOK, CentralType, ArmedAsAsked,
           shown = Blank, inbox = {}, ~Exists => toAsk = {}, Exists => toAsk = Points
    PROVE  Inv
<1>1. \A p \in Points : shown[p] = Nothing  BY DEF Blank
<1>2. Panel \in Points /\ Sensors \subseteq Points  BY DEF Points
<1> QED
  BY <1>1, <1>2 DEF Inv, NoEntities, InboxIsTrue, SensorsAreTold, AnswersAreShown, PanelIsTold

LEMMA InitInv == ASSUME ConstantsAssumption, Init PROVE Inv
<1>1. \A p \in Points : central[p] \in WhatsOf(p) \intersect Nat
  BY InitialWhats DEF Init
<1>2. CentralType
  BY <1>1 DEF Init, CentralType
<1>3. TypeOK
  <2>1. \A p \in Points : shown[p] = Nothing  BY DEF Init, Blank
  <2>2. Panel \in Points /\ Sensors \subseteq Points  BY DEF Points
  <2>3. changes \in 0..MaxChanges  BY DEF Init, ConstantsAssumption
  <2>4. \A p \in Sensors : shown[p] \in SensorStates \union {Nothing}
    BY <2>1, <2>2
  <2>5. \A p \in Points : central[p] \in WhatsOf(p)
    BY <1>1
  <2> QED
    BY <2>1, <2>2, <2>3, <2>4, <2>5 DEF Init, TypeOK
<1>4. ArmedAsAsked /\ shown = Blank /\ inbox = {} /\ toAsk = {} /\ ~Exists
  BY DEF Init, ArmedAsAsked, Exists
<1> QED
  BY <1>2, <1>3, <1>4, BlankInv

\* async_setup_entry, the unloading, and changes of the inventory: what is shown is
\* built anew or gone.
LEMMA BuiltAnew ==
    ASSUME ConstantsAssumption, Inv, inbox = {}, UNCHANGED <<inbox, system, asked>>,
           loaded' \in BOOLEAN, present' \in BOOLEAN,
           IF loaded' /\ present' THEN Setup ELSE Dispose
    PROVE  Inv'
<1>1. /\ shown' = Blank /\ inbox' = {}
      /\ toAsk' = IF loaded' /\ present' THEN Points ELSE {}
      /\ missed' = {} /\ reread' = {} /\ unanswered' = {}
  BY DEF Setup, Dispose
<1>2. \A p \in Points : shown'[p] = Nothing  BY <1>1 DEF Blank
<1>3. Panel \in Points /\ Sensors \subseteq Points  BY DEF Points
<1>4. TypeOK'
  BY <1>1, <1>2, <1>3 DEF Inv, TypeOK, system
<1>5. CentralType' /\ ArmedAsAsked'
  BY DEF Inv, CentralType, ArmedAsAsked, system
<1>6. NoEntities' /\ AnswersAreShown'
  BY <1>1 DEF NoEntities, AnswersAreShown, Exists, Blank
<1>7. InboxIsTrue' /\ SensorsAreTold' /\ PanelIsTold'
  BY <1>1, <1>2, <1>3 DEF InboxIsTrue, SensorsAreTold, PanelIsTold
<1> QED
  BY <1>4, <1>5, <1>6, <1>7 DEF Inv

LEMMA LoadOrUnloadStep == ASSUME ConstantsAssumption, Inv, LoadOrUnload PROVE Inv'
<1>1. loaded' \in BOOLEAN /\ present' \in BOOLEAN
  BY DEF LoadOrUnload, Inv, TypeOK
<1>2. IF loaded' /\ present' THEN Setup ELSE Dispose
  BY DEF LoadOrUnload
<1> QED
  BY <1>1, <1>2, BuiltAnew DEF LoadOrUnload

LEMMA InventoryChangesStep == ASSUME ConstantsAssumption, Inv, InventoryChanges PROVE Inv'
<1>1. loaded' \in BOOLEAN /\ present' \in BOOLEAN
  BY DEF InventoryChanges, Inv, TypeOK
<1>2. IF loaded' /\ present' THEN Setup ELSE Dispose
  BY DEF InventoryChanges
<1> QED
  BY <1>1, <1>2, BuiltAnew DEF InventoryChanges

----------------------------------------------------------------------------
(* A frame is dispatched.                                                  *)

\* A frame about a sensor makes it show the central's state; others change nothing.
LEMMA SensorIsTold ==
    ASSUME ConstantsAssumption, Inv, NEW frame \in inbox, NEW p \in Sensors
    PROVE  /\ About(p, frame) => SensorShows(p, frame) = SensorState(p)
           /\ ~About(p, frame) => SensorShows(p, frame) = shown[p]
<1>1. /\ p \in Points /\ WhatsOf(p) = On[p.kind] \union Off[p.kind]
      /\ On[p.kind] \intersect Off[p.kind] = {}
  BY SensorSides
<1>2. About(p, frame) => frame.what = central[p]
  BY <1>1 DEF Inv, InboxIsTrue
<1> QED
  BY <1>1, <1>2 DEF About, SensorShows, SensorState

\* A frame for the panel makes it show an alarm or the arming; others change nothing.
LEMMA PanelIsTriggered ==
    ASSUME ConstantsAssumption, Inv, NEW frame \in inbox
    PROVE  /\ IsAlarm(frame) => PanelShows(frame) = "triggered"
           /\ About(Panel, frame) => PanelShows(frame) = ArmedState
           /\ ~IsAlarm(frame) /\ ~About(Panel, frame) => PanelShows(frame) = shown[Panel]
<1>1. /\ About(Panel, frame) => ~IsAlarm(frame)
      /\ About(Panel, frame) <=> frame.where = 0 /\ frame.what \in {8, 9}
      /\ Engaged = 8 /\ Disengaged = 9 /\ Panel \in Points
  BY PanelWhats
<1>2. About(Panel, frame) => frame.what = central[Panel]
  BY <1>1 DEF Inv, InboxIsTrue
<1>3. IsAlarm(frame) => PanelShows(frame) = "triggered"
  BY <1>1 DEF PanelShows, IsAlarm, Triggers
<1>4. About(Panel, frame) => PanelShows(frame) = ArmedState
  BY <1>1, <1>2 DEF PanelShows, IsAlarm, ArmedState
<1>5. ~IsAlarm(frame) /\ ~About(Panel, frame) => PanelShows(frame) = shown[Panel]
  BY <1>1 DEF PanelShows, IsAlarm
<1> QED
  BY <1>3, <1>4, <1>5

LEMMA DispatchStep ==
    ASSUME ConstantsAssumption, Inv, NEW frame \in inbox, Dispatch(frame) PROVE Inv'
<1>1. /\ inbox' = inbox \ {frame}
      /\ UNCHANGED <<loaded, present, toAsk, central, alarm, changes, missed, reread,
                     unanswered, asked>>
  BY DEF Dispatch, system, history
<1>2. Panel \in Points /\ Panel \notin Sensors /\ \A p \in Sensors : p \in Points /\ p # Panel
  BY PanelWhats, SensorSides
<1>3. ~Exists => shown' = shown
  BY DEF Dispatch
<1>4. Exists => /\ shown'[Panel] = PanelShows(frame)
                /\ \A p \in Sensors : shown'[p] = SensorShows(p, frame)
  BY <1>2 DEF Dispatch
<1>5. /\ Nothing \notin {"on", "off", "armed_away", "disarmed", "triggered"}
      /\ \A p \in Sensors : SensorState(p) \in SensorStates
      /\ ArmedState \in PanelStates
  BY DEF ConstantsAssumption, SensorStates, PanelStates, SensorState, ArmedState
<1>6. TypeOK'
  <2>1. \A p \in Sensors : shown'[p] \in SensorStates \union {Nothing}
    BY <1>3, <1>4, <1>5, SensorIsTold DEF Inv, TypeOK
  <2>2. shown'[Panel] \in PanelStates \union {Nothing}
    BY <1>3, <1>4, <1>5, PanelIsTriggered DEF Inv, TypeOK, PanelStates
  <2> QED
    BY <1>1, <2>1, <2>2 DEF Inv, TypeOK
<1>7. CentralType' /\ ArmedAsAsked'
  BY <1>1 DEF Inv, CentralType, ArmedAsAsked
<1>8. NoEntities'
  BY <1>1, <1>3 DEF Inv, NoEntities, Exists, Blank
<1>9. InboxIsTrue'
  BY <1>1 DEF Inv, InboxIsTrue
<1>10. SensorsAreTold'
  <2> SUFFICES ASSUME NEW p \in Sensors, p \notin missed, shown'[p] # Nothing
               PROVE  shown'[p] = SensorState(p) \/ \E f \in inbox' : About(p, f)
    BY <1>1 DEF SensorsAreTold, SensorState
  <2>1. CASE Exists /\ About(p, frame)
    BY <2>1, <1>4, SensorIsTold
  <2>2. CASE ~Exists \/ ~About(p, frame)
    <3>1. shown'[p] = shown[p]
      BY <2>2, <1>3, <1>4, SensorIsTold
    <3>2. CASE Exists
      BY <3>1, <3>2, <2>2, <1>1 DEF Inv, SensorsAreTold
    <3>3. CASE ~Exists
      BY <3>1, <3>3, <1>2 DEF Inv, NoEntities, Blank
    <3> QED
      BY <3>2, <3>3
  <2> QED
    BY <2>1, <2>2
<1>11. AnswersAreShown'
  <2> SUFFICES ASSUME Exists, NEW p \in Points \ (unanswered \union toAsk), p.kind # "technical"
               PROVE  shown'[p] # Nothing \/ \E f \in inbox' : About(p, f)
    BY <1>1 DEF AnswersAreShown, Exists
  <2>1. CASE About(p, frame)
    <3>1. CASE p = Panel
      BY <3>1, <2>1, <1>4, <1>5, PanelIsTriggered DEF PanelStates
    <3>2. CASE p # Panel
      <4>1. p \in Sensors  BY <3>2, PointTypes
      <4> QED
        BY <4>1, <2>1, <1>4, <1>5, SensorIsTold DEF SensorStates
    <3> QED
      BY <3>1, <3>2
  <2>2. CASE ~About(p, frame)
    <3>1. shown[p] # Nothing \/ \E f \in inbox' : About(p, f)
      BY <2>2, <1>1 DEF Inv, AnswersAreShown
    <3>2. shown[p] # Nothing => shown'[p] # Nothing
      <4>1. CASE p = Panel
        BY <4>1, <2>2, <1>4, <1>5, PanelIsTriggered
      <4>2. CASE p # Panel
        <5>1. p \in Sensors  BY <4>2, PointTypes
        <5> QED
          BY <5>1, <2>2, <1>4, SensorIsTold
      <4> QED
        BY <4>1, <4>2
    <3> QED
      BY <3>1, <3>2
  <2> QED
    BY <2>1, <2>2
<1>12. PanelIsTold'
  <2> SUFFICES ASSUME shown'[Panel] # Nothing, Panel \notin missed, ForPanel' = {}
               PROVE  PanelShown'
    BY <1>1 DEF PanelIsTold
  <2>1. Exists
    BY <1>2, <1>3 DEF Inv, NoEntities, Blank
  <2>2. CASE IsAlarm(frame)
    <3>1. shown'[Panel] = "triggered"  BY <2>1, <2>2, <1>4, PanelIsTriggered
    <3>2. alarm # {} \/ "alarm" \in reread  BY <2>2 DEF Inv, InboxIsTrue
    <3> QED
      BY <3>1, <3>2, <1>1 DEF PanelShown
  <2>3. CASE About(Panel, frame)
    <3>1. shown'[Panel] = ArmedState  BY <2>1, <2>3, <1>4, PanelIsTriggered
    <3>2. alarm = {} \/ "arming" \in reread  BY <2>3 DEF Inv, InboxIsTrue
    <3>3. ArmedState # "triggered"  BY DEF ArmedState
    <3> QED
      BY <3>1, <3>2, <3>3, <1>1 DEF PanelShown, ArmedState
  <2>4. CASE ~IsAlarm(frame) /\ ~About(Panel, frame)
    <3>1. shown'[Panel] = shown[Panel]  BY <2>1, <2>4, <1>4, PanelIsTriggered
    <3>2. ForPanel = {}  BY <2>4, <1>1 DEF ForPanel
    <3>3. PanelShown  BY <3>1, <3>2 DEF Inv, PanelIsTold
    <3> QED
      BY <3>1, <3>3, <1>1 DEF PanelShown, ArmedState
  <2> QED
    BY <2>2, <2>3, <2>4
<1> QED
  BY <1>6, <1>7, <1>8, <1>9, <1>10, <1>11, <1>12 DEF Inv

----------------------------------------------------------------------------
(* Status requests.                                                        *)

\* What the invariant says of what is shown survives a step that changes neither the
\* entities nor the central, if what arrives is true and explains what was not missed.
LEMMA Told ==
    ASSUME ConstantsAssumption, Inv, inbox = {},
           UNCHANGED <<loaded, present, shown, central, alarm, changes, asked>>,
           toAsk' \subseteq toAsk, unanswered' \subseteq Points, inbox' \subseteq Frames,
           reread' \subseteq {"arming", "alarm"}, missed' \subseteq missed,
           InboxIsTrue', AnswersAreShown',
           \A p \in Sensors \ missed' : p \in missed => \E f \in inbox' : About(p, f),
           IF ForPanel' = {} THEN reread' = reread /\ (Panel \in missed => Panel \in missed')
                             ELSE TRUE
    PROVE  Inv'
<1>1. TypeOK'
  BY DEF Inv, TypeOK
<1>2. CentralType' /\ ArmedAsAsked'
  BY DEF Inv, CentralType, ArmedAsAsked
<1>3. NoEntities'
  BY DEF Inv, NoEntities, Exists, Blank
<1>4. SensorsAreTold'
  <2> SUFFICES ASSUME NEW p \in Sensors, p \notin missed', shown[p] # Nothing
               PROVE  shown[p] = SensorState(p) \/ \E f \in inbox' : About(p, f)
    BY DEF SensorsAreTold, SensorState
  <2> QED
    BY DEF Inv, SensorsAreTold
<1>5. PanelIsTold'
  <2> SUFFICES ASSUME shown[Panel] # Nothing, Panel \notin missed', ForPanel' = {}
               PROVE  PanelShown'
    BY DEF PanelIsTold
  <2>1. ForPanel = {}  BY DEF ForPanel
  <2>2. PanelShown  BY <2>1 DEF Inv, PanelIsTold
  <2> QED
    BY <2>2 DEF PanelShown, ArmedState
<1> QED
  BY <1>1, <1>2, <1>3, <1>4, <1>5 DEF Inv

\* What an answer is made of.
LEMMA AnswerFrames ==
    ASSUME ConstantsAssumption, TypeOK, NEW p \in Points, NEW answer \in Answer(p),
           NEW f \in answer
    PROVE  \E q \in Points :
               /\ f = [where |-> q.where, what |-> central[q]]
               /\ q = p \/ (p.kind # "zone" /\ (q.where = 0 \/ central[q] = 12))
<1>1. CASE p.kind = "zone"
  BY <1>1 DEF Answer
<1>2. CASE p.kind # "zone"
  BY <1>2 DEF Answer
<1> QED
  BY <1>1, <1>2

\* A request for the system's state is answered with all of it.
LEMMA AnswerIsComplete ==
    ASSUME ConstantsAssumption, TypeOK, NEW p \in Points, NEW answer \in Answer(p)
    PROVE  /\ p.kind = "zone" => answer = {[where |-> p.where, what |-> central[p]]}
           /\ p.kind # "zone" => \A q \in Points :
                  q.where = 0 => [where |-> 0, what |-> central[q]] \in answer
BY DEF Answer

LEMMA AskedStep ==
    ASSUME ConstantsAssumption, Inv, NEW p \in toAsk, Asked(p) PROVE Inv'
<1>1. /\ inbox = {} /\ toAsk' = toAsk \ {p} /\ inbox' \in Answer(p)
      /\ missed' = missed \ {q \in Points : \E f \in inbox' : Tells(q, f)}
      /\ reread' = reread \union {r \in {"arming", "alarm"} :
              \E f \in inbox' : IF r = "arming" THEN f.where = 0 ELSE f.what \in Triggers}
      /\ UNCHANGED <<loaded, present, shown, central, alarm, changes, unanswered, asked>>
  BY DEF Asked, system
<1>2. p \in Points /\ Panel \in Points /\ TypeOK /\ \A q \in Sensors : q \in Points /\ q # Panel
  BY PanelWhats, SensorSides DEF Inv, TypeOK
<1>3. \A q \in Points : central[q] \in WhatsOf(q)
  BY DEF Inv, TypeOK
<1>4. \A f \in inbox' : \E q \in Points :
          /\ f = [where |-> q.where, what |-> central[q]] /\ About(q, f)
          /\ q = p \/ (p.kind # "zone" /\ (q.where = 0 \/ central[q] = 12))
  BY <1>1, <1>2, <1>3, AnswerFrames DEF About
<1>5. inbox' \subseteq Frames
  BY <1>3, <1>4 DEF Frames
<1>6. \A q \in Points, f \in inbox' : About(q, f) => f.what = central[q]
  BY <1>4, OnePoint DEF About
<1>7. p.kind # "zone" => \E f \in inbox' : f.where = 0 /\ About(Panel, f)
  BY <1>1, <1>2, <1>3, AnswerIsComplete, PanelWhats DEF About
<1>8. p.kind = "zone" => \A f \in inbox' : ~IsAlarm(f) /\ ~About(Panel, f) /\ f.where # 0
  <2> SUFFICES ASSUME p.kind = "zone", NEW f \in inbox'
               PROVE  ~IsAlarm(f) /\ ~About(Panel, f) /\ f.where # 0
    OBVIOUS
  <2>1. f.where = p.where /\ f.what \in WhatsOf(p)
    BY <1>4 DEF About
  <2>2. p.where # 0 /\ WhatsOf(p) = {11, 18}
    BY <1>2, PointTypes, WhatsTable DEF Panel, Point
  <2> QED
    BY <2>1, <2>2, PanelWhats DEF IsAlarm, Triggers
<1>9. InboxIsTrue'
  <2> SUFFICES ASSUME NEW f \in inbox'
               PROVE  /\ \A q \in Points : About(q, f) => f.what = central[q]
                      /\ IsAlarm(f) => "alarm" \in reread'
                      /\ About(Panel, f) => "arming" \in reread'
    BY <1>1 DEF InboxIsTrue
  <2>1. IsAlarm(f) => "alarm" \in reread'
    BY <1>1 DEF IsAlarm
  <2>2. About(Panel, f) => "arming" \in reread'
    BY <1>1, PanelWhats
  <2> QED
    BY <2>1, <2>2, <1>6
<1>10. AnswersAreShown'
  <2> SUFFICES ASSUME Exists, NEW q \in Points \ (unanswered \union (toAsk \ {p})),
                      q.kind # "technical"
               PROVE  shown[q] # Nothing \/ \E f \in inbox' : About(q, f)
    BY <1>1 DEF AnswersAreShown, Exists
  <2>1. CASE q # p
    BY <2>1, <1>1 DEF Inv, AnswersAreShown
  <2>2. CASE q = p
    <3> DEFINE f == [where |-> p.where, what |-> central[p]]
    <3>1. f \in inbox'
      <4>1. CASE p.kind = "zone"
        BY <4>1, <1>1, <1>2, AnswerIsComplete
      <4>2. CASE p.kind # "zone"
        <5>1. p.where = 0  BY <4>2, <2>2, <1>2, PointTypes
        <5> QED
          BY <5>1, <4>2, <1>1, <1>2, AnswerIsComplete
      <4> QED
        BY <4>1, <4>2
    <3>2. About(p, f)
      BY <1>2, <1>3 DEF About
    <3> QED
      BY <3>1, <3>2, <2>2
  <2> QED
    BY <2>1, <2>2
<1>11. \A q \in Sensors \ missed' : q \in missed => \E f \in inbox' : About(q, f)
  BY <1>1, <1>2 DEF Tells, About
<1>12. ForPanel' = {} => reread' = reread /\ (Panel \in missed => Panel \in missed')
  <2> SUFFICES ASSUME ForPanel' = {}
               PROVE  reread' = reread /\ (Panel \in missed => Panel \in missed')
    OBVIOUS
  <2>1. \A f \in inbox' : ~IsAlarm(f) /\ ~About(Panel, f)
    BY DEF ForPanel
  <2>2. p.kind = "zone"
    BY <2>1, <1>7
  <2>3. reread' = reread
    BY <2>2, <1>1, <1>8 DEF IsAlarm
  <2> QED
    BY <2>1, <2>3, <1>1 DEF Tells, About, IsAlarm
<1>13. reread' \subseteq {"arming", "alarm"} /\ missed' \subseteq missed /\ unanswered' \subseteq Points
  BY <1>1 DEF Inv, TypeOK
<1> QED
  BY <1>1, <1>5, <1>9, <1>10, <1>11, <1>12, <1>13, Told

LEMMA AskFailsStep ==
    ASSUME ConstantsAssumption, Inv, NEW p \in toAsk, AskFails(p) PROVE Inv'
<1>1. /\ inbox = {} /\ inbox' = {} /\ toAsk' = toAsk \ {p}
      /\ unanswered' = unanswered \union {p}
      /\ UNCHANGED <<loaded, present, shown, central, alarm, changes, missed, reread, asked>>
  BY DEF AskFails, system
<1>2. unanswered' \subseteq Points /\ reread' \subseteq {"arming", "alarm"}
  BY <1>1 DEF Inv, TypeOK
<1>3. InboxIsTrue'
  BY <1>1 DEF InboxIsTrue
<1>4. AnswersAreShown'
  BY <1>1 DEF Inv, AnswersAreShown, Exists
<1> QED
  BY <1>1, <1>2, <1>3, <1>4, Told

----------------------------------------------------------------------------
(* The central changes.                                                    *)

\* What the panel shows of an alarm and of the arming survives a change that has
\* nothing to do with either.
LEMMA PanelStays ==
    ASSUME Inv, inbox = {}, shown'[Panel] = shown[Panel], alarm' = alarm, reread' = reread,
           central'[Panel] = central[Panel], Panel \in missed => Panel \in missed'
    PROVE  PanelIsTold'
<1> SUFFICES ASSUME shown'[Panel] # Nothing, Panel \notin missed' PROVE PanelShown'
  BY DEF PanelIsTold
<1>1. ForPanel = {}  BY DEF ForPanel
<1>2. PanelShown  BY <1>1 DEF Inv, PanelIsTold
<1> QED
  BY <1>2 DEF PanelShown, ArmedState

\* A change either arms or disarms, or it raises an alarm, or does neither; it is sent,
\* or the points it is about are missed.
LEMMA BecomesInv ==
    ASSUME ConstantsAssumption, Inv, NEW state \in [Points -> Nat],
           \A p \in Points : state[p] \in WhatsOf(p),
           state[Panel] # central[Panel] =>
               \A p \in Points : state[p] # central[p] => state[p] \notin Triggers,
           Becomes(state), asked' \in Requests \union {Nothing}, ArmedAsAsked'
    PROVE  Inv'
<1> DEFINE arming == state[Panel] # central[Panel]
           frames == {[where |-> p.where, what |-> state[p]] :
                        p \in {q \in Points : state[q] # central[q]}}
           about == {p \in Points : \E f \in frames : Tells(p, f)}
<1>1. /\ inbox = {} /\ changes < MaxChanges /\ changes' = changes + 1 /\ central' = state
      /\ UNCHANGED <<loaded, present, shown, toAsk, unanswered>>
      /\ \/ inbox' = frames /\ missed' = missed \ about
         \/ inbox' = {} /\ missed' = IF Exists THEN missed \union about ELSE missed
  BY DEF Becomes, Sends
<1>2. /\ alarm' = (IF arming THEN {} ELSE alarm)
                      \union (IF \E f \in frames : f.what \in Triggers THEN {"technical"} ELSE {})
      /\ reread' = IF arming \/ \E f \in frames : f.what \in Triggers THEN {} ELSE reread
  BY DEF Becomes
<1>3. /\ Panel \in Points /\ Panel \notin Sensors /\ Panel.where = 0 /\ WhatsOf(Panel) = {8, 9}
      /\ \A p \in Sensors : p \in Points /\ p # Panel
  BY PanelWhats, SensorSides
<1>4. \A f \in frames : \E p \in Points :
          /\ f = [where |-> p.where, what |-> state[p]] /\ About(p, f) /\ state[p] # central[p]
  BY DEF About
<1>5. \A p \in Points : state[p] # central[p] => \E f \in frames : About(p, f)
  <2> SUFFICES ASSUME NEW p \in Points, state[p] # central[p]
               PROVE  \E f \in frames : About(p, f)
    OBVIOUS
  <2> DEFINE f == [where |-> p.where, what |-> state[p]]
  <2>1. f \in frames  OBVIOUS
  <2>2. About(p, f)  BY DEF About
  <2> QED
    BY <2>1, <2>2
<1>6. \A p \in Points, f \in frames : About(p, f) => f.what = state[p] /\ state[p] # central[p]
  <2> SUFFICES ASSUME NEW p \in Points, NEW f \in frames, About(p, f)
               PROVE  f.what = state[p] /\ state[p] # central[p]
    OBVIOUS
  <2>1. PICK q \in Points : /\ f = [where |-> q.where, what |-> state[q]]
                            /\ About(q, f) /\ state[q] # central[q]
    BY <1>4
  <2>2. p = q  BY <2>1, OnePoint DEF About
  <2> QED
    BY <2>1, <2>2
<1>7. \A f \in frames : IsAlarm(f) => ~arming
  BY <1>4 DEF IsAlarm
<1>8. \A f \in frames : About(Panel, f) => arming
  BY <1>3, <1>6
<1> HIDE DEF frames, arming
<1>9. TypeOK'
  <2>1. changes' \in 0..MaxChanges  BY <1>1 DEF Inv, TypeOK, ConstantsAssumption
  <2>2. frames \subseteq Frames  BY <1>4 DEF Frames, About
  <2>3. inbox' \subseteq Frames /\ missed' \subseteq Points
    BY <2>2, <1>1 DEF Inv, TypeOK
  <2>4. alarm' \subseteq {"technical", "burglar"} /\ reread' \subseteq {"arming", "alarm"}
    BY <1>2 DEF Inv, TypeOK
  <2> QED
    BY <2>1, <2>3, <2>4, <1>1 DEF Inv, TypeOK
<1>10. CentralType' /\ NoEntities'
  BY <1>1 DEF Inv, CentralType, NoEntities, Exists, Blank
<1>11. InboxIsTrue'
  <2> SUFFICES ASSUME NEW f \in inbox'
               PROVE  /\ \A p \in Points : About(p, f) => f.what = state[p]
                      /\ IsAlarm(f) => alarm' # {} \/ "alarm" \in reread'
                      /\ About(Panel, f) => alarm' = {} \/ "arming" \in reread'
    BY <1>1 DEF InboxIsTrue
  <2>1. f \in frames  BY <1>1
  <2>2. IsAlarm(f) => alarm' # {}  BY <2>1, <1>2 DEF IsAlarm
  <2>3. About(Panel, f) => alarm' = {}  BY <2>1, <1>2, <1>7, <1>8 DEF IsAlarm
  <2> QED
    BY <2>1, <2>2, <2>3, <1>6
<1>12. SensorsAreTold'
  <2> SUFFICES ASSUME NEW p \in Sensors, p \notin missed', shown[p] # Nothing
               PROVE  shown[p] = SensorState(p)' \/ \E f \in inbox' : About(p, f)
    BY <1>1 DEF SensorsAreTold
  <2>1. Exists  BY <1>3 DEF Inv, NoEntities, Blank
  <2>2. CASE state[p] # central[p]
    <3>1. p \in about  BY <2>2, <1>3, <1>5 DEF Tells, About
    <3> QED
      BY <2>1, <2>2, <3>1, <1>1, <1>3, <1>5
  <2>3. CASE state[p] = central[p]
    <3>1. \A f \in frames : ~About(p, f)  BY <2>3, <1>3, <1>6
    <3>2. p \notin about  BY <3>1, <1>3 DEF Tells, About
    <3>3. p \notin missed  BY <3>2, <1>1
    <3> QED
      BY <2>3, <3>3, <1>1 DEF Inv, SensorsAreTold, SensorState
  <2> QED
    BY <2>2, <2>3
<1>13. AnswersAreShown'
  BY <1>1 DEF Inv, AnswersAreShown, Exists
<1>14. PanelIsTold'
  <2>1. CASE arming \/ \E f \in frames : IsAlarm(f)
    <3>1. \E f \in frames : IsAlarm(f) \/ About(Panel, f)
      BY <2>1, <1>3, <1>5 DEF arming
    <3>2. Panel \in about  BY <3>1, <1>3 DEF Tells, About, IsAlarm
    <3>3. CASE inbox' = frames
      BY <3>1, <3>3 DEF PanelIsTold, ForPanel
    <3>4. CASE Panel \in missed'
      BY <3>4 DEF PanelIsTold
    <3>5. CASE ~Exists
      BY <3>5, <1>1, <1>3 DEF Inv, NoEntities, Blank, PanelIsTold
    <3> QED
      BY <3>2, <3>3, <3>4, <3>5, <1>1
  <2>2. CASE ~arming /\ \A f \in frames : ~IsAlarm(f)
    <3>1. Panel \notin about  BY <2>2, <1>3, <1>8 DEF Tells, About, IsAlarm
    <3>2. alarm' = alarm /\ reread' = reread
      BY <2>2, <1>2 DEF IsAlarm, Inv, TypeOK
    <3> QED
      BY <2>2, <3>1, <3>2, <1>1, PanelStays DEF arming
  <2> QED
    BY <2>1, <2>2
<1> QED
  BY <1>9, <1>10, <1>11, <1>12, <1>13, <1>14 DEF Inv

\* One point changes.
LEMMA OneChange ==
    ASSUME ConstantsAssumption, Inv, NEW p \in Points, NEW w \in WhatsOf(p),
           Becomes([central EXCEPT ![p] = w]), asked' = Nothing
    PROVE  Inv'
<1> DEFINE state == [central EXCEPT ![p] = w]
<1>1. \A q \in Points : central[q] \in WhatsOf(q)
  BY DEF Inv, TypeOK
<1>2. /\ \A q \in Points : state[q] = IF q = p THEN w ELSE central[q]
      /\ state \in [Points -> Nat]
  BY PointTypes DEF Inv, CentralType
<1>3. \A q \in Points : state[q] \in WhatsOf(q)
  BY <1>1, <1>2
<1>4. ASSUME state[Panel] # central[Panel], NEW q \in Points, state[q] # central[q]
      PROVE  state[q] \notin Triggers
  <2>1. q = p /\ p = Panel /\ state[q] = w  BY <1>2, <1>4, PanelWhats
  <2>2. w \in {8, 9}  BY <2>1, PanelWhats
  <2> HIDE DEF state
  <2> QED
    BY <2>1, <2>2 DEF Triggers
<1>5. ArmedAsAsked'
  BY DEF ArmedAsAsked
<1> HIDE DEF state
<1>6. Becomes(state)  BY DEF state
<1> QED
  BY <1>2, <1>3, <1>4, <1>5, <1>6, BecomesInv

LEMMA CentralChangesStep == ASSUME ConstantsAssumption, Inv, CentralChanges PROVE Inv'
BY OneChange DEF CentralChanges

LEMMA PanelCommandStep == ASSUME ConstantsAssumption, Inv, PanelCommand PROVE Inv'
BY OneChange, PanelWhats DEF PanelCommand

LEMMA SetPartitionStep ==
    ASSUME ConstantsAssumption, Inv, NEW n \in Partitions, NEW active \in BOOLEAN,
           SetPartition(n, active)
    PROVE  Inv'
<1> DEFINE p == Point("zone", n)
           w == IF active THEN 11 ELSE 18
<1>1. p \in Points /\ p.kind = "zone"
  BY DEF SetPartition, Point
<1>2. WhatsOf(p) = {11, 18}
  BY <1>1, WhatsTable DEF Panel, Point
<1>3. w \in WhatsOf(p)  BY <1>2
<1>4. Becomes([central EXCEPT ![p] = w]) /\ asked' = Nothing
  BY DEF SetPartition
<1> HIDE DEF p, w
<1> QED
  BY <1>1, <1>3, <1>4, OneChange

\* An accepted list is read as what it names: its numbers have one digit each.
LEMMA Accepted ==
    ASSUME ConstantsAssumption, NEW request, Normalized(request) # Nothing
    PROVE  Mask(Normalized(request)) = Listed(request) /\ Listed(request) \subseteq 1..MaxPartition
<1>1. Normalized(request) = Listed(request) /\ Listed(request) \subseteq 1..MaxPartition
  BY DEF Normalized
<1>2. \A n \in Listed(request) : Digits(n) = {n}
  BY <1>1 DEF Digits, ConstantsAssumption
<1>3. \A n : n \in Mask(Listed(request)) <=> n \in Listed(request)
  BY <1>2 DEF Mask
<1> QED
  BY <1>1, <1>3

LEMMA ArmPartitionsStep ==
    ASSUME ConstantsAssumption, Inv, NEW request \in Requests, ArmPartitions(request)
    PROVE  Inv'
<1> DEFINE listed == Mask(Normalized(request))
           state == [p \in Points |->
                       CASE p = Panel -> Engaged
                         [] p.kind = "zone" -> IF p.where \in listed THEN 11 ELSE 18
                         [] OTHER -> central[p]]
<1>1. listed = Listed(request) /\ Listed(request) \subseteq 1..MaxPartition
  BY Accepted DEF ArmPartitions
<1>2. Becomes(state) /\ asked' = request
  BY DEF ArmPartitions
<1> HIDE DEF listed
<1>3. Panel \in Points /\ Panel.kind = "panel" /\ Engaged = 8 /\ WhatsOf(Panel) = {8, 9}
  BY PanelWhats
<1>4. /\ \A p \in Points : central[p] \in WhatsOf(p) /\ central[p] \in Nat
      /\ \A p \in Points : p.kind = "zone" => WhatsOf(p) = {11, 18}
  <2>1. \A p \in Points : central[p] \in WhatsOf(p) /\ central[p] \in Nat
    BY DEF Inv, TypeOK, CentralType
  <2>2. \A p \in Points : p.kind = "zone" => WhatsOf(p) = {11, 18}
    BY <1>3, WhatsTable
  <2> QED
    BY <2>1, <2>2
<1>5. ASSUME NEW p \in Points
      PROVE  /\ p = Panel => state[p] = 8
             /\ p.kind = "zone" => state[p] = IF p.where \in listed THEN 11 ELSE 18
             /\ p # Panel /\ p.kind # "zone" => state[p] = central[p]
  <2>1. CASE p = Panel  BY <2>1, <1>3
  <2>2. CASE p # Panel /\ p.kind = "zone"  BY <2>2
  <2>3. CASE p # Panel /\ p.kind # "zone"  BY <2>3
  <2> QED
    BY <2>1, <2>2, <2>3, <1>3
<1>6. DOMAIN state = Points /\ state = [p \in Points |-> state[p]]
  OBVIOUS
<1> HIDE DEF state
<1>7. \A p \in Points : state[p] \in WhatsOf(p) /\ state[p] \in Nat
  BY <1>3, <1>4, <1>5
<1>8. state \in [Points -> Nat]
  BY <1>6, <1>7
<1>9. \A p \in Points : state[p] # central[p] => state[p] \notin Triggers
  <2>1. \A p \in Points : state[p] # central[p] => state[p] \in {8, 11, 18}
    BY <1>3, <1>5
  <2> QED
    BY <2>1 DEF Triggers
<1>10. central' = state  BY <1>2 DEF Becomes
<1>11. ArmedAsAsked'
  <2>1. \A n \in Partitions : Point("zone", n) \in Points
            /\ Point("zone", n).kind = "zone" /\ Point("zone", n).where = n
    <3> SUFFICES ASSUME NEW n \in Partitions
                 PROVE  /\ Point("zone", n) \in Points
                        /\ Point("zone", n).kind = "zone" /\ Point("zone", n).where = n
      OBVIOUS
    <3>1. Point("zone", n) \in {Point(kind, m) : kind \in {"zone", "technical"}, m \in Partitions}
      OBVIOUS
    <3>2. Point("zone", n) \in Points  BY <3>1 DEF Points, Sensors
    <3> QED
      BY <3>2 DEF Point
  <2>2. \A n \in Partitions : central'[Point("zone", n)] = 11 <=> n \in Listed(request)
    BY <2>1, <1>1, <1>5, <1>10
  <2>3. \A i \in 1..Len(request) : request[i] \in 1..MaxPartition
    BY <1>1 DEF Listed
  <2>4. central'[Panel] = Engaged  BY <1>3, <1>5, <1>10
  <2> QED
    BY <2>2, <2>3, <2>4, <1>2 DEF ArmedAsAsked
<1> QED
  BY <1>2, <1>7, <1>8, <1>9, <1>11, BecomesInv

LEMMA AlarmRaisedStep == ASSUME ConstantsAssumption, Inv, AlarmRaised PROVE Inv'
<1>1. PICK n \in Partitions, w \in Triggers \ {12} : Sends({[where |-> n, what |-> w]})
  BY DEF AlarmRaised
<1> DEFINE f == [where |-> n, what |-> w]
           about == {p \in Points : \E g \in {f} : Tells(p, g)}
<1>2. /\ inbox = {} /\ changes < MaxChanges /\ changes' = changes + 1
      /\ alarm' = alarm \union {"burglar"} /\ reread' = {}
      /\ UNCHANGED <<loaded, present, shown, toAsk, central, unanswered, asked>>
      /\ \/ inbox' = {f} /\ missed' = missed \ about
         \/ inbox' = {} /\ missed' = IF Exists THEN missed \union about ELSE missed
  BY <1>1 DEF AlarmRaised, Sends
<1>3. Panel \in Points /\ Panel \notin Sensors /\ \A p \in Sensors : p \in Points /\ p # Panel
  BY PanelWhats, SensorSides
<1>4. f.what = w /\ w \in {15, 16, 17, 31} /\ IsAlarm(f) /\ f \in Frames
  BY DEF Triggers, IsAlarm, Frames
<1>5. \A p \in Points : ~About(p, f)
  BY <1>4, WhatsTable DEF About
<1>6. Panel \in about /\ \A p \in Sensors : p \notin about
  BY <1>3, <1>4, <1>5 DEF Tells, About, IsAlarm
<1> HIDE DEF f, about
<1>7. TypeOK'
  <2>1. changes' \in 0..MaxChanges  BY <1>2 DEF Inv, TypeOK, ConstantsAssumption
  <2>2. inbox' \subseteq Frames /\ missed' \subseteq Points
    BY <1>2, <1>4 DEF Inv, TypeOK, about
  <2> QED
    BY <2>1, <2>2, <1>2 DEF Inv, TypeOK
<1>8. CentralType' /\ NoEntities' /\ ArmedAsAsked'
  BY <1>2 DEF Inv, CentralType, NoEntities, ArmedAsAsked, Exists, Blank
<1>9. InboxIsTrue'
  BY <1>2, <1>3, <1>5 DEF InboxIsTrue
<1>10. SensorsAreTold'
  BY <1>2, <1>6 DEF Inv, SensorsAreTold, SensorState
<1>11. AnswersAreShown'
  BY <1>2 DEF Inv, AnswersAreShown, Exists
<1>12. PanelIsTold'
  <2>1. CASE inbox' = {f}
    BY <2>1, <1>4 DEF PanelIsTold, ForPanel
  <2>2. CASE Panel \in missed'
    BY <2>2 DEF PanelIsTold
  <2>3. CASE ~Exists
    BY <2>3, <1>2, <1>3 DEF Inv, NoEntities, Blank, PanelIsTold
  <2> QED
    BY <2>1, <2>2, <2>3, <1>2, <1>6
<1> QED
  BY <1>7, <1>8, <1>9, <1>10, <1>11, <1>12 DEF Inv

----------------------------------------------------------------------------
LEMMA Stutters == ASSUME Inv, UNCHANGED vars PROVE Inv'
<1> USE DEF vars, system, history, Inv
<1>1. TypeOK' /\ CentralType' /\ ArmedAsAsked'
  BY DEF TypeOK, CentralType, ArmedAsAsked
<1>2. NoEntities' /\ InboxIsTrue' /\ AnswersAreShown'
  BY DEF NoEntities, InboxIsTrue, AnswersAreShown, Exists, Blank
<1>3. SensorsAreTold' /\ PanelIsTold'
  BY DEF SensorsAreTold, PanelIsTold, SensorState, ForPanel, PanelShown, ArmedState
<1> QED
  BY <1>1, <1>2, <1>3

LEMMA StepInv == ASSUME ConstantsAssumption, Inv, [Next]_vars PROVE Inv'
<1>1. CASE LoadOrUnload  BY <1>1, LoadOrUnloadStep
<1>2. CASE InventoryChanges  BY <1>2, InventoryChangesStep
<1>3. CASE \E frame \in inbox : Dispatch(frame)  BY <1>3, DispatchStep
<1>4. CASE \E p \in toAsk : Asked(p) \/ AskFails(p)  BY <1>4, AskedStep, AskFailsStep
<1>5. CASE CentralChanges  BY <1>5, CentralChangesStep
<1>6. CASE AlarmRaised  BY <1>6, AlarmRaisedStep
<1>7. CASE PanelCommand  BY <1>7, PanelCommandStep
<1>8. CASE \E request \in Requests : ArmPartitions(request)  BY <1>8, ArmPartitionsStep
<1>9. CASE \E n \in Partitions, active \in BOOLEAN : SetPartition(n, active)
  BY <1>9, SetPartitionStep
<1>10. CASE UNCHANGED vars  BY <1>10, Stutters
<1> QED
  BY <1>1, <1>2, <1>3, <1>4, <1>5, <1>6, <1>7, <1>8, <1>9, <1>10 DEF Next

\* What the invariant says when no frame is on its way.
LEMMA InvShows ==
    ASSUME ConstantsAssumption, Inv PROVE SensorsFollowTheCentral /\ PanelFollowsTheCentral
<1>1. ASSUME NEW p \in Sensors, Known(p)
      PROVE  shown[p] = IF central[p] \in On[p.kind] THEN "on" ELSE "off"
  BY <1>1 DEF Inv, SensorsAreTold, Known, SensorState
<1>2. Exists /\ toAsk = {} /\ inbox = {} =>
        \A p \in Points \ unanswered : p.kind # "technical" => shown[p] # Nothing
  BY DEF Inv, AnswersAreShown
<1>3. PanelFollowsTheCentral
  BY DEF Inv, PanelIsTold, ForPanel, PanelShown, ArmedState, PanelFollowsTheCentral, Known
<1> QED
  BY <1>1, <1>2, <1>3 DEF SensorsFollowTheCentral

\* However the frames of an answer are ordered, whichever are lost, and whenever the
\* alarm is loaded, unloaded, added or removed, sensors and panel follow the central,
\* and an accepted list of partitions arms exactly those it names.
THEOREM AlarmInvariance == ConstantsAssumption => (Spec => []Inv)
<1>1. SUFFICES ASSUME ConstantsAssumption PROVE Spec => []Inv
  OBVIOUS
<1>2. Init => Inv  BY <1>1, InitInv
<1>3. Inv /\ [Next]_vars => Inv'  BY <1>1, StepInv
<1> QED
  BY <1>2, <1>3, PTL DEF Spec
=============================================================================
