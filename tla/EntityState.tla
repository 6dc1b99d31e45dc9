---------------------------- MODULE EntityState ----------------------------
(***************************************************************************)
(* What the entities of one gateway show of the bus (entity.py and the     *)
(* handlers of light.py, cover.py, sensor.py): subscription, availability, *)
(* the status requests made once when an entity is added, and the two ways *)
(* a state reaches it, event frames read one by one and the answers of an  *)
(* exchange, dispatched together when the exchange has ended.              *)
(*                                                                         *)
(* A point is one thing the bus knows (a light is on, a cover's motion, a  *)
(* cover's position).  Its states are numbered in the order in which they  *)
(* hold, and a frame gives the number of each point it reports.  Which     *)
(* session fails when, and who waits for the command lock, is in Gateway;  *)
(* here an exchange is one at a time and ends or fails.                    *)
(***************************************************************************)
EXTENDS Integers, Sequences

CONSTANTS
    Entities,
    Points,
    Watches,    \* the points an entity's _handle_event takes from a frame
    Asks,       \* the status requests it makes when added: the points of each
    Commands,   \* the points its commands write
    Reports,    \* the sets of points that one event frame reports
    NoEntity,
    NoPoint,
    MaxState,   \* bound: the last state of each point
    MaxStream   \* bound: unread frames on the event stream

ASSUME ConstantsAssumption ==
    /\ Watches \in [Entities -> SUBSET Points]
    /\ Asks \in [Entities -> Seq(SUBSET Points)]
    /\ Commands \in [Entities -> SUBSET Points]
    /\ Reports \subseteq SUBSET Points
    /\ \A p \in Points : \E s \in Reports : p \in s
    /\ NoEntity \notin Entities /\ NoPoint \notin Points
    /\ MaxState \in [Points -> Nat] /\ MaxStream \in Nat

Unknown == -1
States == UNION {0..MaxState[p] : p \in Points}

VARIABLES
    bus,        \* the state every point is in
    stream,     \* event frames sent and not yet read
    eventUp,    \* _event_connected
    commandUp,  \* _command_connected
    exchange,   \* the running exchange, see ExchangeTypes
    life,       \* "out", "built" (constructed) or "added" (subscribed)
    asking,     \* index in Asks of the request an added entity is at
    shown,      \* the state an entity shows of each point it watches
    available,  \* _attr_available
    read,       \* history: the newest state an event frame delivered
    late        \* history: an answer older than that was dispatched after it

channels == <<eventUp, commandUp>>
entity   == <<life, asking, shown, available>>
history  == <<read, late>>
vars     == <<bus, stream, channels, exchange, entity, history>>

Connected == commandUp /\ eventUp
Running == exchange.by # NoEntity
Idle == [by |-> NoEntity, want |-> {}, write |-> NoPoint, got |-> <<>>]
AllAsked(e) == asking[e] > Len(Asks[e])
Blank(e) == [p \in Watches[e] |-> Unknown]

\* A frame gives the state of some points; the answers of an exchange are kept as
\* one such function, since the later of two answers about a point prevails.
Frames == UNION {[s -> States] : s \in SUBSET Points}
ExchangeTypes ==
    [by : Entities \union {NoEntity}, want : SUBSET Points,
     write : Points \union {NoPoint}, got : Frames]

Init ==
    /\ bus = [p \in Points |-> 0]
    /\ stream = <<>>
    /\ eventUp = TRUE /\ commandUp = TRUE
    /\ exchange = Idle
    /\ life = [e \in Entities |-> "out"]
    /\ asking = [e \in Entities |-> 1]
    /\ shown = [e \in Entities |-> Blank(e)]
    /\ available = [e \in Entities |-> FALSE]
    /\ read = [p \in Points |-> 0]
    /\ late = [p \in Points |-> FALSE]

----------------------------------------------------------------------------
(* gateway.py as the entities see it.                                      *)

\* _set_command_connected and _set_event_connected: whoever has registered a
\* connection listener hears of a change of the aggregate.
SetConnected(c, v) ==
    /\ commandUp' = c /\ eventUp' = v
    /\ available' = [e \in Entities |->
                        IF life[e] = "added" /\ Connected # (c /\ v) THEN c /\ v ELSE available[e]]

\* Variant: one entity per frame, the first that handles it.
ShowOnce(frame) ==
    LET takers == {e \in Entities : life[e] = "added" /\ Watches[e] \intersect DOMAIN frame # {}}
    IN  shown' = [e \in Entities |->
                    IF takers # {} /\ e = CHOOSE t \in takers : TRUE
                    THEN [p \in Watches[e] |-> IF p \in DOMAIN frame THEN frame[p] ELSE shown[e][p]]
                    ELSE shown[e]]

\* _dispatch_raw: every subscribed entity takes from the frame what it watches.
Show(frame) ==
    shown' = [e \in Entities |->
                IF life[e] # "added" THEN shown[e]
                ELSE [p \in Watches[e] |-> IF p \in DOMAIN frame THEN frame[p] ELSE shown[e][p]]]

EventRead ==
    /\ eventUp /\ stream # <<>>
    /\ stream' = Tail(stream)
    /\ LET frame == Head(stream)
       IN  /\ Show(frame)
           /\ read' = [p \in Points |-> IF p \in DOMAIN frame THEN frame[p] ELSE read[p]]
           /\ late' = [p \in Points |-> late[p] /\ p \notin DOMAIN frame]
    /\ UNCHANGED <<bus, channels, exchange, life, asking, available>>

\* The event stream ends; what it still held is gone.
EventLost ==
    /\ eventUp
    /\ stream' = <<>>
    /\ SetConnected(commandUp, FALSE)
    /\ UNCHANGED <<bus, exchange, life, asking, shown, history>>

EventBack ==
    /\ ~eventUp
    /\ SetConnected(commandUp, TRUE)
    /\ UNCHANGED <<bus, stream, exchange, life, asking, shown, history>>

CommandBack ==
    /\ ~commandUp /\ ~Running
    /\ SetConnected(TRUE, eventUp)
    /\ UNCHANGED <<bus, stream, exchange, life, asking, shown, history>>

----------------------------------------------------------------------------
(* The bus and the gateway device (external).                              *)

\* A point changes, and the gateway sends a frame to an open event session.
Change(p) ==
    /\ bus[p] < MaxState[p]
    /\ bus' = [bus EXCEPT ![p] = @ + 1]
    /\ IF ~eventUp THEN UNCHANGED stream
       ELSE /\ Len(stream) < MaxStream
            /\ \E s \in Reports : p \in s /\ stream' = Append(stream, [q \in s |-> bus'[q]])

BusChanges ==
    /\ \E p \in Points : Change(p)
    /\ UNCHANGED <<channels, exchange, entity, history>>

\* The gateway answers one of the points a status request asks for.
GatewayAnswers ==
    /\ \E p \in exchange.want :
        exchange' = [exchange EXCEPT !.want = @ \ {p},
                                     !.got = [q \in DOMAIN @ \union {p} |->
                                                 IF q = p THEN bus[p] ELSE @[q]]]
    /\ UNCHANGED <<bus, stream, channels, entity, history>>

\* The gateway carries out the written command.
GatewayActs ==
    /\ exchange.write # NoPoint
    /\ Change(exchange.write)
    /\ exchange' = [exchange EXCEPT !.write = NoPoint]
    /\ UNCHANGED <<channels, entity, history>>

----------------------------------------------------------------------------
(* BticinoEntity.                                                          *)

Construct(e) ==
    /\ life[e] = "out"
    /\ life' = [life EXCEPT ![e] = "built"]
    /\ available' = [available EXCEPT ![e] = Connected]
    /\ UNCHANGED <<bus, stream, channels, exchange, asking, shown, history>>

\* Variant: the listener is registered without being called.
AddedUntold(e) ==
    /\ life[e] = "built"
    /\ life' = [life EXCEPT ![e] = "added"]
    /\ UNCHANGED <<bus, stream, channels, exchange, asking, shown, available, history>>

\* async_added_to_hass: add_connection_listener calls the new listener at once;
\* the task that makes the status requests is created last.
AddedToHass(e) ==
    /\ life[e] = "built"
    /\ life' = [life EXCEPT ![e] = "added"]
    /\ available' = [available EXCEPT ![e] = Connected]
    /\ UNCHANGED <<bus, stream, channels, exchange, asking, shown, history>>

\* async_will_remove_from_hass, and the request task is cancelled: what the stream
\* holds of its reply stays there for the next exchange (see Gateway.OwnReply).
Removed(e) ==
    /\ life[e] = "added"
    /\ life' = [life EXCEPT ![e] = "out"]
    /\ shown' = [shown EXCEPT ![e] = Blank(e)]
    /\ available' = [available EXCEPT ![e] = FALSE]
    /\ asking' = [asking EXCEPT ![e] = 1]
    /\ exchange' = IF exchange.by = e THEN [Idle EXCEPT !.got = exchange.got] ELSE exchange
    /\ UNCHANGED <<bus, stream, channels, history>>

\* async_send reaches the exchange, on the session there is or on a new one.
Begin(e, want, write) ==
    /\ life[e] = "added" /\ ~Running
    /\ exchange' = [by |-> e, want |-> want, write |-> write, got |-> exchange.got]
    /\ SetConnected(TRUE, eventUp)

Request(e) ==
    /\ ~AllAsked(e)
    /\ Begin(e, Asks[e][asking[e]], NoPoint)
    /\ UNCHANGED <<bus, stream, life, asking, shown, history>>

\* Variant: the command's effect is shown when it is sent.
CommandOptimistic(e, p) ==
    /\ AllAsked(e)
    /\ Begin(e, {}, p)
    /\ shown' = [shown EXCEPT ![e] = [q \in DOMAIN @ |-> IF q = p THEN bus[p] + 1 ELSE @[q]]]
    /\ UNCHANGED <<bus, stream, life, asking, history>>

\* async_turn_on, async_open_cover, ...: nothing is shown until a frame says so.
Command(e, p) ==
    /\ AllAsked(e)
    /\ Begin(e, {}, p)
    /\ UNCHANGED <<bus, stream, life, asking, shown, history>>

\* Variant: every exchange of the entity counts.
NextAlways == asking' = [asking EXCEPT ![exchange.by] = @ + 1]

\* A task is at its next request, whether the last succeeded, was refused or failed.
NextRequest ==
    asking' = [asking EXCEPT ![exchange.by] = IF AllAsked(exchange.by) THEN @ ELSE @ + 1]

\* The exchange ends with ACK or NACK: the answers read are dispatched either way.
ExchangeEnds ==
    /\ Running
    /\ LET answer == exchange.got
       IN  /\ Show(answer)
           /\ late' = [p \in Points |->
                          late[p] \/ (p \in DOMAIN answer /\ answer[p] < read[p])]
    /\ NextRequest
    /\ exchange' = Idle
    /\ UNCHANGED <<bus, stream, channels, life, available, read>>

\* Variant: the error ends the request task.
ExchangeFailsForGood ==
    /\ Running
    /\ asking' = [asking EXCEPT ![exchange.by] = Len(Asks[exchange.by]) + 1]
    /\ exchange' = Idle
    /\ SetConnected(FALSE, eventUp)
    /\ UNCHANGED <<bus, stream, life, shown, history>>

\* The connect, the write or the wait for the reply fails: the session is closed
\* and the error is swallowed by the request task, or raised to the user.
ExchangeFails ==
    /\ Running
    /\ NextRequest
    /\ exchange' = Idle
    /\ SetConnected(FALSE, eventUp)
    /\ UNCHANGED <<bus, stream, life, shown, history>>

----------------------------------------------------------------------------
EntityStep(e) ==
    \/ Construct(e) \/ AddedToHass(e) \/ Removed(e) \/ Request(e)
    \/ \E p \in Commands[e] : Command(e, p)

Next ==
    \/ EventRead \/ EventLost \/ EventBack \/ CommandBack
    \/ BusChanges \/ GatewayAnswers \/ GatewayActs
    \/ ExchangeEnds \/ ExchangeFails
    \/ \E e \in Entities : EntityStep(e)

\* asyncio runs what is ready, and every wait of an exchange has a time limit.
Fairness ==
    /\ WF_vars(EventRead)
    /\ WF_vars(ExchangeEnds \/ ExchangeFails)
    /\ \A e \in Entities : SF_vars(Request(e))

Spec == Init /\ [][Next]_vars /\ Fairness

----------------------------------------------------------------------------
(* Properties.                                                             *)

\* The types of the variables.
TypeOK ==
    /\ bus \in [Points -> States]
    /\ stream \in Seq(Frames) /\ Len(stream) <= MaxStream
    /\ eventUp \in BOOLEAN /\ commandUp \in BOOLEAN
    /\ exchange \in ExchangeTypes
    /\ life \in [Entities -> {"out", "built", "added"}]
    /\ DOMAIN asking = Entities /\ DOMAIN shown = Entities
    /\ \A e \in Entities : /\ asking[e] \in 1..(Len(Asks[e]) + 1)
                          /\ shown[e] \in [Watches[e] -> States \union {Unknown}]
    /\ available \in [Entities -> BOOLEAN]
    /\ read \in [Points -> States] /\ late \in [Points -> BOOLEAN]

\* A subscribed entity is available exactly while both channels are up, although
\* it was constructed, and read the flag, in another step than it subscribed, and
\* is told of changes only (entity.py:35, 73, 123-126; gateway.py:430-445).
AvailableIsConnected ==
    \A e \in Entities : life[e] = "added" => available[e] = Connected

\* No entity ever shows a state the bus has not been in: commands, failures and
\* reconnections show nothing of their own (climate.py:125, CHANGELOG.md:55).
NothingInvented ==
    \A e \in Entities : \A p \in Watches[e] : shown[e][p] <= bus[p]

\* The frame that tells the state of p is on the stream, or never will be: it was
\* sent while the event channel was down or lost with it.
OnStream(p) == \E i \in 1..Len(stream) : p \in DOMAIN stream[i] /\ stream[i][p] = bus[p]
NeverRead(p) == read[p] # bus[p] /\ ~OnStream(p)

\* A subscribed entity shows an old state for three reasons only: the newer frame is
\* still to be read, it was lost with the event channel (the request at entity.py:77
\* is not repeated), or an answer prepared before it was dispatched after it
\* (gateway.py:299).  An entity that asks while events arrive is not otherwise stale.
StaleForAReason ==
    \A e \in Entities : \A p \in Watches[e] :
        life[e] = "added" /\ shown[e][p] # Unknown /\ shown[e][p] # bus[p]
            => OnStream(p) \/ NeverRead(p) \/ late[p]

\* The exchange of an entity's request i is running.
Making(e, i) == exchange.by = e /\ asking[e] = i

\* Every request of an added entity is made, in particular those after one that failed
\* or was refused, and its task ends, unless the entity is removed (cover.py:84-96,
\* climate.py:143-155).
RequestsEnd ==
    \A e \in Entities :
        /\ \A i \in 1..Len(Asks[e]) :
              (life[e] = "added" /\ asking[e] <= i) ~> (Making(e, i) \/ life[e] # "added")
        /\ (life[e] = "added" /\ ~AllAsked(e)) ~> (AllAsked(e) \/ life[e] # "added")
=============================================================================
