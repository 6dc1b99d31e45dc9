------------------------- MODULE EntityStateProofs -------------------------
(***************************************************************************)
(* Theorems about EntityState, for any entities, points and requests: what *)
(* an entity says of its availability is true, what it shows has been, and *)
(* where it is old, one of three reasons is why.                           *)
(***************************************************************************)
EXTENDS EntityState, SequenceTheorems, TLAPS

\* What the two safety proofs need to know of the shape of the state.
Shape ==
    /\ eventUp \in BOOLEAN /\ commandUp \in BOOLEAN
    /\ life \in [Entities -> {"out", "built", "added"}]
    /\ available \in [Entities -> BOOLEAN]

\* AvailableIsConnected is inductive once the shape is known.
AvailInv == Shape /\ AvailableIsConnected

\* A change of the flags reaches every subscribed entity.
LEMMA SetConnectedStep ==
  ASSUME AvailInv, NEW c \in BOOLEAN, NEW v \in BOOLEAN, SetConnected(c, v), UNCHANGED life
  PROVE  AvailInv'
  BY DEF AvailInv, Shape, AvailableIsConnected, SetConnected, Connected

\* What leaves the flags, the lives and the availability alone.
LEMMA OtherStep ==
  ASSUME AvailInv, UNCHANGED <<channels, life, available>>
  PROVE  AvailInv'
  BY DEF AvailInv, Shape, AvailableIsConnected, Connected, channels

\* Every step keeps the invariant.
LEMMA AvailStep == AvailInv /\ [Next]_vars => AvailInv'
<1> SUFFICES ASSUME AvailInv, [Next]_vars PROVE AvailInv'
  OBVIOUS
<1>0. eventUp \in BOOLEAN /\ commandUp \in BOOLEAN
  BY DEF AvailInv, Shape
<1>1. CASE EventRead
  BY <1>1, OtherStep DEF EventRead
<1>2. CASE EventLost
  BY <1>0, <1>2, SetConnectedStep DEF EventLost
<1>3. CASE EventBack
  BY <1>0, <1>3, SetConnectedStep DEF EventBack
<1>4. CASE CommandBack
  BY <1>0, <1>4, SetConnectedStep DEF CommandBack
<1>5. CASE BusChanges
  BY <1>5, OtherStep DEF BusChanges, entity
<1>6. CASE GatewayAnswers
  BY <1>6, OtherStep DEF GatewayAnswers, entity
<1>7. CASE GatewayActs
  BY <1>7, OtherStep DEF GatewayActs, entity
<1>8. CASE ExchangeEnds
  BY <1>8, OtherStep DEF ExchangeEnds
<1>9. CASE ExchangeFails
  BY <1>0, <1>9, SetConnectedStep DEF ExchangeFails
<1>10. ASSUME NEW e \in Entities, EntityStep(e) PROVE AvailInv'
  <2>1. CASE Construct(e)
    BY <2>1 DEF Construct, AvailInv, Shape, AvailableIsConnected, Connected, channels
  <2>2. CASE AddedToHass(e)
    BY <2>2 DEF AddedToHass, AvailInv, Shape, AvailableIsConnected, Connected, channels
  <2>3. CASE Removed(e)
    BY <2>3 DEF Removed, AvailInv, Shape, AvailableIsConnected, Connected, channels
  <2>4. CASE Request(e)
    BY <1>0, <2>4, SetConnectedStep DEF Request, Begin
  <2>5. CASE \E p \in Commands[e] : Command(e, p)
    BY <1>0, <2>5, SetConnectedStep DEF Command, Begin
  <2> QED
    BY <1>10, <2>1, <2>2, <2>3, <2>4, <2>5 DEF EntityStep
<1>11. CASE UNCHANGED vars
  BY <1>11, OtherStep DEF vars, entity
<1> QED
  BY <1>1, <1>2, <1>3, <1>4, <1>5, <1>6, <1>7, <1>8, <1>9, <1>10, <1>11 DEF Next

\* A subscribed entity is available exactly while both channels are up, for any number
\* of entities constructed and added between any changes of the channels.
THEOREM AvailabilityIsTrue == Spec => []AvailableIsConnected
<1>1. Init => AvailInv
  BY DEF Init, AvailInv, Shape, AvailableIsConnected
<1>2. AvailInv => AvailableIsConnected
  BY DEF AvailInv
<1> QED
  BY <1>1, <1>2, AvailStep, PTL DEF Spec

----------------------------------------------------------------------------
(* Types.                                                                  *)

\* The states of a point are among the states of all.
LEMMA StatesOfPoint ==
  /\ States \subseteq Nat
  /\ \A p \in Points : \A n \in 0..MaxState[p] : n \in States
  BY ConstantsAssumption DEF States

\* The shape of frames.
LEMMA FrameType ==
  ASSUME NEW f
  PROVE  f \in Frames <=> \E s \in SUBSET Points : f \in [s -> States]
  BY DEF Frames

\* One more answer makes a frame of a frame.
LEMMA OneMore ==
  ASSUME NEW f \in Frames, NEW p \in Points, NEW n \in States
  PROVE  [q \in DOMAIN f \union {p} |-> IF q = p THEN n ELSE f[q]] \in Frames
<1>1. PICK s \in SUBSET Points : f \in [s -> States]
  BY FrameType
<1>2. [q \in DOMAIN f \union {p} |-> IF q = p THEN n ELSE f[q]] \in [s \union {p} -> States]
  BY <1>1
<1>3. s \union {p} \in SUBSET Points
  OBVIOUS
<1> QED
  BY <1>2, <1>3, FrameType

\* The types of TypeOK that several steps need, each by itself.
ShownType ==
    /\ DOMAIN shown = Entities
    /\ \A e \in Entities : shown[e] \in [Watches[e] -> States \union {Unknown}]
AskingType ==
    /\ DOMAIN asking = Entities
    /\ \A e \in Entities : asking[e] \in 1..(Len(Asks[e]) + 1)
BusType ==
    /\ bus \in [Points -> States]
    /\ stream \in Seq(Frames) /\ Len(stream) <= MaxStream
FlagsType == eventUp \in BOOLEAN /\ commandUp \in BOOLEAN /\ available \in [Entities -> BOOLEAN]
HistoryType == read \in [Points -> States] /\ late \in [Points -> BOOLEAN]

\* Together they are TypeOK.
LEMMA TypeParts ==
  TypeOK <=> /\ ShownType /\ AskingType /\ BusType /\ FlagsType /\ HistoryType
             /\ exchange \in ExchangeTypes
             /\ life \in [Entities -> {"out", "built", "added"}]
  BY DEF TypeOK, ShownType, AskingType, BusType, FlagsType, HistoryType

\* What entities show of a frame is typed.
LEMMA ShowType ==
  ASSUME TypeOK, NEW frame \in Frames, Show(frame)
  PROVE  ShownType'
<1>1. PICK s \in SUBSET Points : frame \in [s -> States]
  BY FrameType
<1>2. ASSUME NEW e \in Entities
      PROVE  shown'[e] \in [Watches[e] -> States \union {Unknown}]
  <2>1. shown[e] \in [Watches[e] -> States \union {Unknown}]
    BY DEF TypeOK
  <2>2. shown'[e] = IF life[e] # "added" THEN shown[e]
                    ELSE [p \in Watches[e] |-> IF p \in DOMAIN frame THEN frame[p] ELSE shown[e][p]]
    BY DEF Show
  <2>3. ASSUME NEW p \in Watches[e]
        PROVE  (IF p \in DOMAIN frame THEN frame[p] ELSE shown[e][p]) \in States \union {Unknown}
    BY <1>1, <2>1
  <2> QED
    BY <2>1, <2>2, <2>3
<1>3. DOMAIN shown' = Entities
  BY DEF Show
<1> QED
  BY <1>2, <1>3 DEF ShownType

\* A change of a point is typed.
LEMMA ChangeType ==
  ASSUME TypeOK, NEW p \in Points, Change(p)
  PROVE  /\ bus' \in [Points -> States]
         /\ stream' \in Seq(Frames) /\ Len(stream') <= MaxStream
         /\ bus'[p] = bus[p] + 1
         /\ \A q \in Points \ {p} : bus'[q] = bus[q]
         /\ \/ stream' = stream
            \/ \E s \in SUBSET Points :
                  /\ [q \in s |-> bus'[q]] \in Frames
                  /\ stream' = Append(stream, [q \in s |-> bus'[q]])
<1>1. bus \in [Points -> States] /\ stream \in Seq(Frames) /\ Len(stream) <= MaxStream
  BY DEF TypeOK
<1>2. /\ bus[p] \in Nat /\ MaxState[p] \in Nat /\ MaxStream \in Nat
  BY <1>1, StatesOfPoint, ConstantsAssumption
<1>3. bus[p] + 1 \in 0..MaxState[p]
  BY <1>2 DEF Change
<1>4. /\ bus' \in [Points -> States] /\ bus'[p] = bus[p] + 1
      /\ \A q \in Points \ {p} : bus'[q] = bus[q]
  BY <1>1, <1>3, StatesOfPoint DEF Change
<1>5. CASE ~eventUp
  BY <1>1, <1>4, <1>5 DEF Change
<1>6. CASE eventUp
  <2>1. PICK s \in Reports : stream' = Append(stream, [q \in s |-> bus'[q]])
    BY <1>6 DEF Change
  <2>2. s \in SUBSET Points
    BY ConstantsAssumption
  <2>3. [q \in s |-> bus'[q]] \in [s -> States]
    BY <1>4, <2>2
  <2>4. [q \in s |-> bus'[q]] \in Frames
    BY <2>2, <2>3, FrameType
  <2>5. Len(stream) < MaxStream
    BY <1>6 DEF Change
  <2>6. stream' \in Seq(Frames) /\ Len(stream') = Len(stream) + 1
    BY <1>1, <2>1, <2>4, AppendProperties
  <2>7. Len(stream') <= MaxStream
    BY <1>1, <1>2, <2>5, <2>6, LenProperties
  <2> QED
    BY <1>4, <2>1, <2>2, <2>4, <2>6, <2>7
<1> QED
  BY <1>5, <1>6

\* A task's next request is one it has, or the end of them.
LEMMA NextRequestType ==
  ASSUME TypeOK, Running, NextRequest
  PROVE  /\ DOMAIN asking' = Entities
         /\ \A e \in Entities : asking'[e] \in 1..(Len(Asks[e]) + 1)
<1>1. exchange.by \in Entities
  BY DEF TypeOK, ExchangeTypes, Running
<1>2. DOMAIN asking' = Entities
  BY DEF NextRequest, TypeOK
<1>3. ASSUME NEW e \in Entities
      PROVE  asking'[e] \in 1..(Len(Asks[e]) + 1)
  <2>1. asking[e] \in 1..(Len(Asks[e]) + 1) /\ Len(Asks[e]) \in Nat
    BY ConstantsAssumption DEF TypeOK
  <2>2. asking'[e] = IF e = exchange.by /\ ~AllAsked(e) THEN asking[e] + 1 ELSE asking[e]
    BY DEF NextRequest, TypeOK
  <2> QED
    BY <2>1, <2>2 DEF AllAsked
<1> QED
  BY <1>2, <1>3

\* The flags are, whoever sets them.
LEMMA FlagsStep ==
  ASSUME TypeOK, NEW c \in BOOLEAN, NEW v \in BOOLEAN, SetConnected(c, v)
  PROVE  FlagsType'
  BY DEF TypeOK, FlagsType, SetConnected, Connected

\* Every step keeps the types.
LEMMA TypeStep == TypeOK /\ [Next]_vars => TypeOK'
<1> SUFFICES ASSUME TypeOK, [Next]_vars PROVE TypeOK'
  OBVIOUS
<1>0. /\ ShownType /\ AskingType /\ BusType /\ FlagsType /\ HistoryType
      /\ exchange \in ExchangeTypes
      /\ life \in [Entities -> {"out", "built", "added"}]
  BY TypeParts
<1>t. /\ ShownType' /\ AskingType' /\ BusType' /\ FlagsType' /\ HistoryType'
      /\ exchange' \in ExchangeTypes
      /\ life' \in [Entities -> {"out", "built", "added"}]
      => TypeOK'
  BY DEF TypeOK, ShownType, AskingType, BusType, FlagsType, HistoryType
<1>i. eventUp \in BOOLEAN /\ commandUp \in BOOLEAN
  BY DEF TypeOK
<1>s. UNCHANGED shown => ShownType'
  BY <1>0 DEF ShownType
<1>a. UNCHANGED asking => AskingType'
  BY <1>0 DEF AskingType
<1>b. UNCHANGED <<bus, stream>> => BusType'
  BY <1>0 DEF BusType
<1>f. UNCHANGED <<channels, available>> => FlagsType'
  BY <1>0 DEF FlagsType, channels
<1>h. UNCHANGED history => HistoryType'
  BY <1>0 DEF HistoryType, history
<1>e. Idle \in ExchangeTypes
  <2>1. <<>> \in [{} -> States] /\ {} \in SUBSET Points
    OBVIOUS
  <2> QED
    BY <2>1, FrameType DEF Idle, ExchangeTypes
<1>1. CASE EventRead
  <2>1. Head(stream) \in Frames /\ Tail(stream) \in Seq(Frames)
        /\ Len(Tail(stream)) = Len(stream) - 1
    BY <1>0, <1>1, HeadTailProperties DEF EventRead, BusType
  <2>2. PICK s \in SUBSET Points : Head(stream) \in [s -> States]
    BY <2>1, FrameType
  <2>3. BusType'
    BY <1>0, <1>1, <2>1, LenProperties, ConstantsAssumption DEF EventRead, BusType
  <2>4. HistoryType'
    BY <1>0, <1>1, <2>2 DEF EventRead, HistoryType
  <2>5. ShownType'
    BY <1>1, <2>1, ShowType DEF EventRead
  <2> QED
    BY <1>0, <1>1, <1>a, <1>f, <2>3, <2>4, <2>5, <1>t DEF EventRead
<1>2. CASE EventLost
  <2>1. BusType'
    BY <1>0, <1>2, ConstantsAssumption DEF EventLost, BusType
  <2>2. FlagsType'
    BY <1>i, <1>2, FlagsStep DEF EventLost
  <2> QED
    BY <1>0, <1>2, <1>s, <1>a, <1>h, <2>1, <2>2, <1>t DEF EventLost
<1>3. CASE EventBack \/ CommandBack
  <2>1. FlagsType'
    BY <1>i, <1>3, FlagsStep DEF EventBack, CommandBack
  <2> QED
    BY <1>0, <1>3, <1>s, <1>a, <1>b, <1>h, <2>1, <1>t DEF EventBack, CommandBack
<1>4. CASE BusChanges
  <2>1. BusType'
    BY <1>4, ChangeType DEF BusChanges, BusType
  <2> QED
    BY <1>0, <1>4, <1>s, <1>a, <1>f, <1>h, <2>1, <1>t DEF BusChanges, entity
<1>5. CASE GatewayAnswers
  <2>1. PICK p \in exchange.want :
          exchange' = [exchange EXCEPT !.want = @ \ {p},
                                       !.got = [q \in DOMAIN @ \union {p} |->
                                                   IF q = p THEN bus[p] ELSE @[q]]]
    BY <1>5 DEF GatewayAnswers
  <2>2. exchange.got \in Frames /\ p \in Points /\ bus[p] \in States
    BY <1>0 DEF ExchangeTypes, BusType
  <2>3. exchange'.got \in Frames
    BY <1>0, <2>1, <2>2, OneMore DEF ExchangeTypes
  <2>4. exchange' \in ExchangeTypes
    BY <1>0, <2>1, <2>3 DEF ExchangeTypes
  <2> QED
    BY <1>0, <1>5, <1>s, <1>a, <1>b, <1>f, <1>h, <2>4, <1>t DEF GatewayAnswers, entity
<1>6. CASE GatewayActs
  <2>1. exchange.write \in Points
    BY <1>0, <1>6 DEF GatewayActs, ExchangeTypes
  <2>2. BusType'
    BY <1>6, <2>1, ChangeType DEF GatewayActs, BusType
  <2>3. exchange' \in ExchangeTypes
    BY <1>0, <1>6 DEF GatewayActs, ExchangeTypes
  <2> QED
    BY <1>0, <1>6, <1>s, <1>a, <1>f, <1>h, <2>2, <2>3, <1>t DEF GatewayActs, entity
<1>7. CASE ExchangeEnds
  <2>1. exchange.got \in Frames
    BY <1>0 DEF ExchangeTypes
  <2>2. ShownType'
    BY <1>7, <2>1, ShowType DEF ExchangeEnds
  <2>3. HistoryType'
    BY <1>0, <1>7 DEF ExchangeEnds, HistoryType
  <2>4. AskingType'
    BY <1>7, NextRequestType DEF ExchangeEnds, AskingType
  <2> QED
    BY <1>0, <1>7, <1>e, <1>b, <1>f, <2>2, <2>3, <2>4, <1>t DEF ExchangeEnds
<1>8. CASE ExchangeFails
  <2>1. AskingType'
    BY <1>8, NextRequestType DEF ExchangeFails, AskingType
  <2>2. FlagsType'
    BY <1>i, <1>8, FlagsStep DEF ExchangeFails
  <2> QED
    BY <1>0, <1>8, <1>e, <1>s, <1>b, <1>h, <2>1, <2>2, <1>t DEF ExchangeFails
<1>9. ASSUME NEW e \in Entities, EntityStep(e) PROVE TypeOK'
  <2>1. CASE Construct(e) \/ AddedToHass(e)
    <3>1. /\ life' \in [Entities -> {"out", "built", "added"}]
          /\ FlagsType'
      BY <1>0, <2>1 DEF Construct, AddedToHass, FlagsType, channels, Connected
    <3> QED
      BY <1>0, <2>1, <1>s, <1>a, <1>b, <1>h, <3>1, <1>t DEF Construct, AddedToHass
  <2>2. CASE Removed(e)
    <3>1. /\ life' \in [Entities -> {"out", "built", "added"}]
          /\ FlagsType'
      BY <1>0, <2>2 DEF Removed, FlagsType, channels
    <3>2. ShownType'
      BY <1>0, <2>2 DEF Removed, ShownType, Blank
    <3>3. AskingType'
      BY <1>0, <2>2, ConstantsAssumption DEF Removed, AskingType
    <3>4. exchange' \in ExchangeTypes
      BY <1>0, <1>e, <2>2 DEF Removed, ExchangeTypes, Idle
    <3> QED
      BY <1>0, <2>2, <1>b, <1>h, <3>1, <3>2, <3>3, <3>4, <1>t DEF Removed
  <2>3. ASSUME NEW want \in SUBSET Points, NEW write \in Points \union {NoPoint},
               Begin(e, want, write),
               UNCHANGED <<bus, stream, life, asking, shown, history>>
        PROVE  TypeOK'
    <3>1. FlagsType'
      BY <1>i, <2>3, FlagsStep DEF Begin
    <3>2. exchange' \in ExchangeTypes
      BY <1>0, <2>3 DEF Begin, ExchangeTypes
    <3> QED
      BY <1>0, <2>3, <1>s, <1>a, <1>b, <1>h, <3>1, <3>2, <1>t
  <2>4. CASE Request(e)
    <3>1. Asks[e][asking[e]] \in SUBSET Points
      BY <1>0, <2>4, ConstantsAssumption DEF Request, AllAsked, AskingType
    <3> QED
      BY <2>3, <2>4, <3>1 DEF Request
  <2>5. CASE \E p \in Commands[e] : Command(e, p)
    BY <2>3, <2>5, ConstantsAssumption DEF Command
  <2> QED
    BY <1>9, <2>1, <2>2, <2>4, <2>5 DEF EntityStep
<1>10. CASE UNCHANGED vars
  BY <1>0, <1>10, <1>s, <1>a, <1>b, <1>f, <1>h, <1>t DEF vars, entity
<1> QED
  BY <1>1, <1>2, <1>3, <1>4, <1>5, <1>6, <1>7, <1>8, <1>9, <1>10 DEF Next

\* The bus, the stream, exchanges and entities are of their types.
THEOREM EntityTypes == Spec => []TypeOK
<1>1. Init => TypeOK
  <2> SUFFICES ASSUME Init PROVE TypeOK
    OBVIOUS
  <2>1. \A p \in Points : 0 \in States
    BY StatesOfPoint, ConstantsAssumption
  <2>2. <<>> \in [{} -> States] /\ {} \in SUBSET Points
    OBVIOUS
  <2>3. exchange \in ExchangeTypes
    BY <2>2, FrameType DEF Init, Idle, ExchangeTypes
  <2>4. \A e \in Entities : Len(Asks[e]) \in Nat
    BY ConstantsAssumption
  <2> QED
    BY <2>1, <2>3, <2>4, ConstantsAssumption DEF Init, TypeOK, Blank
<1> QED
  BY <1>1, TypeStep, PTL DEF Spec

----------------------------------------------------------------------------
(* Nothing is invented.                                                    *)

\* No frame that is under way, on the stream or among the answers of the exchange, tells
\* of a state the bus has not been in.
Told(frame) == \A p \in DOMAIN frame : frame[p] <= bus[p]
InventInv ==
    /\ TypeOK
    /\ NothingInvented
    /\ Told(exchange.got)
    /\ \A i \in 1..Len(stream) : Told(stream[i])

\* The parts that a step may disturb, each by itself.
StreamTold == \A i \in 1..Len(stream) : Told(stream[i])

\* States are numbers, and a point's only grow.
LEMMA States1 ==
  ASSUME TypeOK
  PROVE  /\ bus \in [Points -> Nat]
         /\ \A f \in Frames : DOMAIN f \subseteq Points /\ \A p \in DOMAIN f : f[p] \in Nat
         /\ \A e \in Entities : /\ Watches[e] \subseteq Points
                                /\ shown[e] \in [Watches[e] -> Int]
<1>1. bus \in [Points -> Nat]
  BY StatesOfPoint DEF TypeOK
<1>2. ASSUME NEW f \in Frames
      PROVE  DOMAIN f \subseteq Points /\ \A p \in DOMAIN f : f[p] \in Nat
  <2>1. PICK s \in SUBSET Points : f \in [s -> States]
    BY FrameType
  <2> QED
    BY <2>1, StatesOfPoint
<1>3. ASSUME NEW e \in Entities
      PROVE  Watches[e] \subseteq Points /\ shown[e] \in [Watches[e] -> Int]
  <2>1. Watches[e] \subseteq Points
    BY ConstantsAssumption
  <2>2. shown[e] \in [Watches[e] -> States \union {Unknown}]
    BY DEF TypeOK
  <2>3. States \union {Unknown} \subseteq Int
    BY StatesOfPoint DEF Unknown
  <2> QED
    BY <2>1, <2>2, <2>3
<1> QED
  BY <1>1, <1>2, <1>3

\* What was true of a frame stays true.
Grows == /\ bus \in [Points -> Nat] /\ bus' \in [Points -> Nat]
         /\ \A p \in Points : bus[p] <= bus'[p]
LEMMA StillTold ==
  ASSUME Grows, NEW f \in Frames, Told(f), DOMAIN f \subseteq Points,
         \A p \in DOMAIN f : f[p] \in Nat
  PROVE  \A p \in DOMAIN f : f[p] <= bus'[p]
<1> TAKE p \in DOMAIN f
<1>1. p \in Points /\ f[p] \in Nat /\ f[p] <= bus[p]
  BY DEF Told
<1>2. bus[p] \in Nat /\ bus'[p] \in Nat /\ bus[p] <= bus'[p]
  BY <1>1 DEF Grows
<1> QED
  BY <1>1, <1>2

\* Showing a frame invents nothing.
LEMMA ShowStep ==
  ASSUME InventInv, NEW frame \in Frames, Told(frame), Show(frame), UNCHANGED bus
  PROVE  NothingInvented'
<1>1. \A e \in Entities : \A p \in Watches[e] :
        shown'[e][p] = IF life[e] = "added" /\ p \in DOMAIN frame THEN frame[p] ELSE shown[e][p]
  <2> TAKE e \in Entities
  <2> TAKE p \in Watches[e]
  <2>1. shown'[e] = IF life[e] # "added" THEN shown[e]
                    ELSE [q \in Watches[e] |-> IF q \in DOMAIN frame THEN frame[q] ELSE shown[e][q]]
    BY DEF Show
  <2> QED
    BY <2>1
<1> QED
  BY <1>1 DEF InventInv, NothingInvented, Told

\* Where nothing is shown, what is shown stays true.
LEMMA UnshownStep ==
  ASSUME InventInv, Grows, UNCHANGED shown
  PROVE  NothingInvented'
<1> SUFFICES ASSUME NEW e \in Entities, NEW p \in Watches[e]
             PROVE  shown[e][p] <= bus'[p]
  BY DEF NothingInvented
<1>1. p \in Points /\ shown[e][p] \in Int /\ shown[e][p] <= bus[p]
  BY States1 DEF InventInv, NothingInvented
<1>2. bus[p] \in Nat /\ bus'[p] \in Nat /\ bus[p] <= bus'[p]
  BY <1>1 DEF Grows
<1> QED
  BY <1>1, <1>2

\* A change is on the stream as it is, if at all.
LEMMA ChangeStep ==
  ASSUME InventInv, NEW p \in Points, Change(p)
  PROVE  Grows /\ StreamTold'
<1>1. TypeOK /\ bus \in [Points -> Nat]
  BY States1 DEF InventInv
<1>2. /\ bus' \in [Points -> States]
      /\ bus'[p] = bus[p] + 1
      /\ \A q \in Points \ {p} : bus'[q] = bus[q]
      /\ \/ stream' = stream
         \/ \E s \in SUBSET Points :
               /\ [q \in s |-> bus'[q]] \in Frames
               /\ stream' = Append(stream, [q \in s |-> bus'[q]])
  BY <1>1, ChangeType
<1>3. bus' \in [Points -> Nat]
  BY <1>2, StatesOfPoint
<1>4. Grows
  BY <1>1, <1>2, <1>3 DEF Grows
<1>5. stream \in Seq(Frames)
  BY <1>1 DEF TypeOK
<1>6. ASSUME NEW i \in 1..Len(stream)
      PROVE  \A q \in DOMAIN stream[i] : stream[i][q] <= bus'[q]
  <2>1. stream[i] \in Frames
    BY <1>5, LenProperties
  <2>2. Told(stream[i])
    BY DEF InventInv
  <2> QED
    BY <1>1, <1>4, <2>1, <2>2, StillTold, States1
<1>7. CASE stream' = stream
  BY <1>4, <1>6, <1>7 DEF StreamTold, Told
<1>8. CASE \E s \in SUBSET Points :
               /\ [q \in s |-> bus'[q]] \in Frames
               /\ stream' = Append(stream, [q \in s |-> bus'[q]])
  <2>1. PICK s \in SUBSET Points :
               /\ [q \in s |-> bus'[q]] \in Frames
               /\ stream' = Append(stream, [q \in s |-> bus'[q]])
    BY <1>8
  <2> DEFINE new == [q \in s |-> bus'[q]]
  <2>2. /\ Len(stream) \in Nat /\ Len(stream') = Len(stream) + 1
        /\ stream'[Len(stream) + 1] = new
        /\ \A i \in 1..Len(stream) : stream'[i] = stream[i]
    BY <1>5, <2>1, AppendProperties, LenProperties
  <2>3. \A q \in DOMAIN new : new[q] <= bus'[q]
    BY <1>3
  <2> HIDE DEF new
  <2>4. ASSUME NEW i \in 1..Len(stream')
        PROVE  \A q \in DOMAIN stream'[i] : stream'[i][q] <= bus'[q]
    <3>1. i \in 1..Len(stream) \/ i = Len(stream) + 1
      BY <2>2
    <3> QED
      BY <1>6, <2>2, <2>3, <3>1
  <2> QED
    BY <1>4, <2>4 DEF StreamTold, Told
<1> QED
  BY <1>2, <1>4, <1>7, <1>8

\* Every step keeps the invariant.
LEMMA InventStep == InventInv /\ [Next]_vars => InventInv'
<1> SUFFICES ASSUME InventInv, [Next]_vars PROVE InventInv'
  OBVIOUS
<1>0. /\ TypeOK' /\ TypeOK /\ StreamTold /\ Told(exchange.got)
      /\ bus \in [Points -> Nat] /\ stream \in Seq(Frames) /\ exchange.got \in Frames
  BY TypeStep, States1 DEF InventInv, StreamTold, TypeOK, ExchangeTypes
<1>q. NothingInvented' /\ Told(exchange.got)' /\ StreamTold' => InventInv'
  BY <1>0 DEF InventInv, StreamTold
<1>n. UNCHANGED <<bus, shown>> => NothingInvented'
  BY DEF InventInv, NothingInvented
<1>s. UNCHANGED <<bus, stream>> => StreamTold'
  BY <1>0 DEF StreamTold, Told
<1>x. UNCHANGED bus /\ (exchange'.got = exchange.got \/ exchange'.got = <<>>) => Told(exchange.got)'
  BY <1>0 DEF Told
<1>1. CASE EventRead
  <2>1. Head(stream) \in Frames /\ Head(stream) = stream[1] /\ 1 \in 1..Len(stream)
    BY <1>0, <1>1, HeadTailProperties, LenProperties DEF EventRead
  <2>2. NothingInvented'
    BY <1>0, <1>1, <2>1, ShowStep DEF EventRead, StreamTold
  <2>3. StreamTold'
    <3>1. /\ Len(Tail(stream)) = Len(stream) - 1 /\ Len(stream) \in Nat
          /\ \A i \in 1..Len(Tail(stream)) : Tail(stream)[i] = stream[i + 1]
      BY <1>0, <1>1, HeadTailProperties, LenProperties DEF EventRead
    <3>2. \A i \in 1..Len(Tail(stream)) : i + 1 \in 1..Len(stream)
      BY <3>1
    <3> QED
      BY <1>0, <1>1, <3>1, <3>2 DEF EventRead, StreamTold, Told
  <2> QED
    BY <1>1, <1>q, <1>x, <2>2, <2>3 DEF EventRead
<1>2. CASE EventLost
  <2>1. StreamTold'
    BY <1>2 DEF EventLost, StreamTold
  <2> QED
    BY <1>2, <1>n, <1>x, <1>q, <2>1 DEF EventLost
<1>3. CASE EventBack \/ CommandBack
  BY <1>3, <1>n, <1>s, <1>x, <1>q DEF EventBack, CommandBack
<1>4. CASE BusChanges
  <2>1. Grows /\ StreamTold'
    BY <1>4, ChangeStep DEF BusChanges
  <2>2. NothingInvented'
    BY <1>4, <2>1, UnshownStep DEF BusChanges, entity
  <2>3. Told(exchange.got)'
    BY <1>0, <1>4, <2>1, StillTold, States1 DEF BusChanges, Told
  <2> QED
    BY <1>q, <2>1, <2>2, <2>3
<1>5. CASE GatewayAnswers
  <2>1. PICK p \in exchange.want :
          exchange' = [exchange EXCEPT !.want = @ \ {p},
                                       !.got = [q \in DOMAIN @ \union {p} |->
                                                   IF q = p THEN bus[p] ELSE @[q]]]
    BY <1>5 DEF GatewayAnswers
  <2>2. p \in Points
    BY <1>0 DEF TypeOK, ExchangeTypes
  <2>3. exchange'.got = [q \in DOMAIN exchange.got \union {p} |->
                            IF q = p THEN bus[p] ELSE exchange.got[q]]
    BY <1>0, <2>1 DEF TypeOK, ExchangeTypes
  <2>4. bus' = bus
    BY <1>5 DEF GatewayAnswers
  <2>5. Told(exchange.got)'
    BY <1>0, <2>2, <2>3, <2>4 DEF Told
  <2> QED
    BY <1>5, <1>n, <1>s, <1>q, <2>5 DEF GatewayAnswers, entity
<1>6. CASE GatewayActs
  <2>1. exchange.write \in Points
    BY <1>0, <1>6 DEF GatewayActs, TypeOK, ExchangeTypes
  <2>2. Grows /\ StreamTold'
    BY <1>6, <2>1, ChangeStep DEF GatewayActs
  <2>3. NothingInvented'
    BY <1>6, <2>2, UnshownStep DEF GatewayActs, entity
  <2>4. exchange'.got = exchange.got
    BY <1>0, <1>6 DEF GatewayActs, TypeOK, ExchangeTypes
  <2>5. Told(exchange.got)'
    BY <1>0, <2>2, <2>4, StillTold, States1 DEF Told
  <2> QED
    BY <1>q, <2>2, <2>3, <2>5
<1>7. CASE ExchangeEnds
  <2>1. NothingInvented'
    BY <1>0, <1>7, ShowStep DEF ExchangeEnds
  <2>2. exchange'.got = <<>> /\ UNCHANGED <<bus, stream>>
    BY <1>7 DEF ExchangeEnds, Idle
  <2> QED
    BY <1>q, <1>s, <1>x, <2>1, <2>2
<1>8. CASE ExchangeFails
  <2>1. exchange'.got = <<>> /\ UNCHANGED <<bus, stream, shown>>
    BY <1>8 DEF ExchangeFails, Idle
  <2> QED
    BY <1>q, <1>n, <1>s, <1>x, <2>1
<1>9. ASSUME NEW e \in Entities, EntityStep(e) PROVE InventInv'
  <2>1. CASE Construct(e) \/ AddedToHass(e)
    BY <2>1, <1>n, <1>s, <1>x, <1>q DEF Construct, AddedToHass
  <2>2. CASE Removed(e)
    <3>1. exchange'.got = exchange.got /\ UNCHANGED <<bus, stream>>
      BY <2>2 DEF Removed, Idle
    <3>2. \A p \in Points : Unknown <= bus[p]
      BY <1>0 DEF Unknown
    <3>3. \A f \in Entities : \A p \in Watches[f] :
            shown'[f][p] = IF f = e THEN Unknown ELSE shown[f][p]
      BY <1>0, <2>2 DEF Removed, Blank, TypeOK
    <3>4. \A f \in Entities : Watches[f] \subseteq Points
      BY ConstantsAssumption
    <3>5. NothingInvented'
      BY <3>1, <3>2, <3>3, <3>4 DEF InventInv, NothingInvented
    <3> QED
      BY <1>q, <1>s, <1>x, <3>1, <3>5
  <2>3. ASSUME NEW want, NEW write, Begin(e, want, write), UNCHANGED <<bus, stream, shown>>
        PROVE  InventInv'
    <3>1. exchange'.got = exchange.got
      BY <2>3 DEF Begin
    <3> QED
      BY <1>q, <1>n, <1>s, <1>x, <2>3, <3>1
  <2>4. CASE Request(e)
    BY <2>3, <2>4 DEF Request
  <2>5. CASE \E p \in Commands[e] : Command(e, p)
    BY <2>3, <2>5 DEF Command
  <2> QED
    BY <1>9, <2>1, <2>2, <2>4, <2>5 DEF EntityStep
<1>10. CASE UNCHANGED vars
  BY <1>10, <1>n, <1>s, <1>x, <1>q DEF vars, entity
<1> QED
  BY <1>1, <1>2, <1>3, <1>4, <1>5, <1>6, <1>7, <1>8, <1>9, <1>10 DEF Next

LEMMA InventInvariance == Spec => []InventInv
<1>1. Init /\ TypeOK => InventInv
  <2> SUFFICES ASSUME Init, TypeOK PROVE InventInv
    OBVIOUS
  <2>1. \A e \in Entities : Watches[e] \subseteq Points
    BY ConstantsAssumption
  <2> QED
    BY <2>1 DEF Init, InventInv, NothingInvented, Told, Idle, Blank, Unknown
<1> QED
  BY <1>1, EntityTypes, InventStep, PTL DEF Spec

\* No entity ever shows a state the bus has not been in, through every loss of a channel,
\* failing or cancelled exchange, command and reconnection.
THEOREM NothingIsInvented == Spec => []NothingInvented
<1>1. InventInv => NothingInvented
  BY DEF InventInv
<1> QED
  BY <1>1, InventInvariance, PTL

----------------------------------------------------------------------------
(* What is stale is stale for a reason.                                    *)

\* What an entity shows it has shown since it was added, and is no older than the newest
\* event frame read, unless an older answer was dispatched after that.
ShownIsRead ==
    \A e \in Entities : \A p \in Watches[e] :
        \/ shown[e][p] = Unknown
        \/ life[e] = "added" /\ (late[p] \/ read[p] <= shown[e][p])

StaleInv == InventInv /\ ShownIsRead

\* Where neither lives nor anything shown or delivered changes, it stays so.
LEMMA OldStep ==
  ASSUME ShownIsRead, UNCHANGED <<shown, history>>,
         \A e \in Entities : life'[e] = life[e] \/ life'[e] = "added"
  PROVE  ShownIsRead'
  BY DEF ShownIsRead, history

\* What a step shows of a frame, entity by entity and point by point.
LEMMA Shows ==
  ASSUME NEW frame, Show(frame), NEW e \in Entities, NEW p \in Watches[e]
  PROVE  shown'[e][p] = IF life[e] = "added" /\ p \in DOMAIN frame THEN frame[p] ELSE shown[e][p]
<1>1. shown'[e] = IF life[e] # "added" THEN shown[e]
                  ELSE [q \in Watches[e] |-> IF q \in DOMAIN frame THEN frame[q] ELSE shown[e][q]]
  BY DEF Show
<1> QED
  BY <1>1

\* Every step keeps it.
LEMMA StaleStep == StaleInv /\ [Next]_vars => StaleInv'
<1> SUFFICES ASSUME StaleInv, [Next]_vars PROVE ShownIsRead'
  BY InventStep DEF StaleInv
<1>0. /\ ShownIsRead /\ TypeOK
      /\ \A e \in Entities : Watches[e] \subseteq Points
      /\ read \in [Points -> Nat] /\ late \in [Points -> BOOLEAN]
      /\ DOMAIN life = Entities /\ DOMAIN shown = Entities
  BY ConstantsAssumption, StatesOfPoint DEF StaleInv, InventInv, TypeOK
<1>1. CASE EventRead
  <2> DEFINE frame == Head(stream)
  <2>1. frame \in Frames
    BY <1>0, <1>1, HeadTailProperties DEF EventRead, TypeOK
  <2>2. /\ Show(frame) /\ life' = life
        /\ \A p \in Points : read'[p] = IF p \in DOMAIN frame THEN frame[p] ELSE read[p]
        /\ \A p \in Points : late'[p] <=> late[p] /\ p \notin DOMAIN frame
    BY <1>0, <1>1 DEF EventRead
  <2>3. \A p \in DOMAIN frame : frame[p] \in Nat
    BY <1>0, <2>1, States1
  <2> HIDE DEF frame
  <2> SUFFICES ASSUME NEW e \in Entities, NEW p \in Watches[e], shown'[e][p] # Unknown
               PROVE  life[e] = "added" /\ (late'[p] \/ read'[p] <= shown'[e][p])
    BY <2>2 DEF ShownIsRead
  <2>4. p \in Points
    BY <1>0
  <2>5. shown'[e][p] = IF life[e] = "added" /\ p \in DOMAIN frame THEN frame[p] ELSE shown[e][p]
    BY <2>2, Shows
  <2>6. CASE life[e] = "added" /\ p \in DOMAIN frame
    BY <2>2, <2>3, <2>4, <2>5, <2>6
  <2>7. CASE ~(life[e] = "added" /\ p \in DOMAIN frame)
    BY <1>0, <2>2, <2>4, <2>5, <2>7 DEF ShownIsRead
  <2> QED
    BY <2>6, <2>7
<1>2. CASE ExchangeEnds
  <2> DEFINE answer == exchange.got
  <2>1. /\ Show(answer) /\ life' = life /\ read' = read
        /\ \A p \in Points :
              late'[p] <=> late[p] \/ (p \in DOMAIN answer /\ answer[p] < read[p])
    BY <1>0, <1>2 DEF ExchangeEnds
  <2>2. \A p \in DOMAIN answer : answer[p] \in Nat
    BY <1>0, States1 DEF TypeOK, ExchangeTypes
  <2> HIDE DEF answer
  <2> SUFFICES ASSUME NEW e \in Entities, NEW p \in Watches[e], shown'[e][p] # Unknown
               PROVE  life[e] = "added" /\ (late'[p] \/ read[p] <= shown'[e][p])
    BY <2>1 DEF ShownIsRead
  <2>3. p \in Points /\ read[p] \in Nat
    BY <1>0
  <2>4. shown'[e][p] = IF life[e] = "added" /\ p \in DOMAIN answer THEN answer[p] ELSE shown[e][p]
    BY <2>1, Shows
  <2>5. CASE life[e] = "added" /\ p \in DOMAIN answer
    BY <2>1, <2>2, <2>3, <2>4, <2>5
  <2>6. CASE ~(life[e] = "added" /\ p \in DOMAIN answer)
    BY <1>0, <2>1, <2>3, <2>4, <2>6 DEF ShownIsRead
  <2> QED
    BY <2>5, <2>6
<1>3. CASE EventLost \/ EventBack \/ CommandBack
  BY <1>0, <1>3, OldStep DEF EventLost, EventBack, CommandBack
<1>4. CASE BusChanges \/ GatewayAnswers \/ GatewayActs
  BY <1>0, <1>4, OldStep DEF BusChanges, GatewayAnswers, GatewayActs, entity
<1>5. CASE ExchangeFails
  BY <1>0, <1>5, OldStep DEF ExchangeFails
<1>6. ASSUME NEW e \in Entities, EntityStep(e) PROVE ShownIsRead'
  <2>1. CASE Construct(e)
    <3>1. \A f \in Entities \ {e} : life'[f] = life[f]
      BY <1>0, <2>1 DEF Construct
    <3>2. \A p \in Watches[e] : shown'[e][p] = Unknown
      BY <1>0, <2>1 DEF Construct, ShownIsRead
    <3> QED
      BY <1>0, <2>1, <3>1, <3>2 DEF Construct, ShownIsRead, history
  <2>2. CASE AddedToHass(e)
    BY <1>0, <2>2, OldStep DEF AddedToHass
  <2>3. CASE Removed(e)
    <3>1. /\ \A f \in Entities \ {e} : life'[f] = life[f] /\ shown'[f] = shown[f]
          /\ \A p \in Watches[e] : shown'[e][p] = Unknown
      BY <1>0, <2>3 DEF Removed, Blank
    <3> QED
      BY <1>0, <2>3, <3>1 DEF Removed, ShownIsRead, history
  <2>4. CASE Request(e) \/ \E p \in Commands[e] : Command(e, p)
    BY <1>0, <2>4, OldStep DEF Request, Command
  <2> QED
    BY <1>6, <2>1, <2>2, <2>3, <2>4 DEF EntityStep
<1>7. CASE UNCHANGED vars
  BY <1>0, <1>7, OldStep DEF vars, entity
<1> QED
  BY <1>1, <1>2, <1>3, <1>4, <1>5, <1>6, <1>7 DEF Next

\* What an entity shows that is old is about to be overtaken by a frame on the stream, or
\* was by one that was never read, or came as an answer after it: StaleInv leaves no other
\* reason, since what is shown is then as new as what was read, and that as the bus.
THEOREM StaleHasAReason == Spec => []StaleForAReason
<1>1. Init /\ InventInv => StaleInv
  BY DEF Init, StaleInv, ShownIsRead, Blank
<1>2. StaleInv => StaleForAReason
  <2> SUFFICES ASSUME StaleInv, NEW e \in Entities, NEW p \in Watches[e],
                      shown[e][p] # Unknown, read[p] = bus[p], ~late[p]
               PROVE  shown[e][p] = bus[p]
    BY DEF StaleForAReason, NeverRead
  <2>1. TypeOK /\ p \in Points /\ shown[e][p] <= bus[p] /\ read[p] <= shown[e][p]
    BY ConstantsAssumption DEF StaleInv, InventInv, NothingInvented, ShownIsRead
  <2>2. bus[p] \in Nat /\ shown[e][p] \in Int
    BY <2>1, States1
  <2> QED
    BY <2>1, <2>2
<1> QED
  BY <1>1, <1>2, InventInvariance, StaleStep, PTL DEF Spec
=============================================================================
