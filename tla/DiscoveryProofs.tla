--------------------------- MODULE DiscoveryProofs ---------------------------
(***************************************************************************)
(* Theorems about Discovery, for any scans, keys and probes: its types,    *)
(* that no scan leaves its listener behind, and that what a scan finds is  *)
(* the evidence of the frames that passed while it ran.                    *)
(***************************************************************************)
EXTENDS Discovery, TLAPS

\* ListensWhileRunning is inductive with the shape of the two variables it is about.
ListenInv ==
    /\ stage \in [Scans -> {"idle", "listening", "probing", "done", "failed"}]
    /\ listening \in [Scans -> BOOLEAN]
    /\ ListensWhileRunning

\* A scan that starts listens.
LEMMA StartStep ==
  ASSUME ListenInv, NEW s \in Scans, NEW how \in {"listening", "probing"}, Start(s, how)
  PROVE  ListenInv'
  BY DEF ListenInv, ListensWhileRunning, Running, Start

\* One that leaves does not.
LEMMA LeaveStep ==
  ASSUME ListenInv, NEW s \in Scans, NEW how \in {"done", "failed"}, Leave(s, how)
  PROVE  ListenInv'
  BY DEF ListenInv, ListensWhileRunning, Running, Leave

\* Whoever waits goes on listening.
LEMMA WaitStep ==
  ASSUME ListenInv, UNCHANGED <<stage, listening>>
  PROVE  ListenInv'
  BY DEF ListenInv, ListensWhileRunning, Running

\* Every step keeps the invariant.
LEMMA ListenStep == ListenInv /\ [Next]_vars => ListenInv'
<1> SUFFICES ASSUME ListenInv, [Next]_vars PROVE ListenInv'
  OBVIOUS
<1>1. CASE \E frame \in Frames : BusEvent(frame)
  BY <1>1, WaitStep DEF BusEvent
<1>2. ASSUME NEW s \in Scans, PassiveListen(s) PROVE ListenInv'
  BY <1>2, StartStep DEF PassiveListen
<1>3. ASSUME NEW s \in Scans, ActiveScan(s) PROVE ListenInv'
  BY <1>3, StartStep DEF ActiveScan
<1>4. ASSUME NEW s \in Scans, Probe(s) PROVE ListenInv'
  <2>1. CASE Answered(s)
    BY <2>1, WaitStep DEF Answered
  <2>2. CASE Rejected(s)
    BY <2>2, WaitStep DEF Rejected
  <2>3. CASE Fails(s)
    BY <2>3, LeaveStep DEF Fails
  <2> QED
    BY <1>4, <2>1, <2>2, <2>3 DEF Probe
<1>5. ASSUME NEW s \in Scans, Cancelled(s) PROVE ListenInv'
  BY <1>5, LeaveStep DEF Cancelled
<1>6. ASSUME NEW s \in Scans, Ends(s) PROVE ListenInv'
  BY <1>6, LeaveStep DEF Ends
<1>7. CASE UNCHANGED vars
  BY <1>7, WaitStep DEF vars
<1> QED
  BY <1>1, <1>2, <1>3, <1>4, <1>5, <1>6, <1>7 DEF Next

\* However a scan ends, after whatever probes and with however many others running, its
\* listener is gone; and as long as it runs it listens.
THEOREM ListenersAreRemoved == Spec => []ListensWhileRunning
<1>1. Init => ListenInv
  BY DEF Init, ListenInv, ListensWhileRunning, Running
<1>2. ListenInv => ListensWhileRunning
  BY DEF ListenInv
<1> QED
  BY <1>1, <1>2, ListenStep, PTL DEF Spec

----------------------------------------------------------------------------
(* What frames make of the devices found.                                   *)

\* The function After is defined by exists for as many frames as an exchange has, at
\* most, so that the equations of its definition hold.
LEMMA AfterEquations ==
  ASSUME NEW d, NEW frames, NEW keys, NEW source, Len(frames) \in 0..2
  PROVE  \E u : /\ After(d, frames, keys, source) = u[Len(frames)]
                /\ u[0] = d
                /\ \A i \in 1..Len(frames) : u[i] = Taken(u[i - 1], frames[i], keys, source)
<1> DEFINE F(u) == [i \in 0..Len(frames) |->
                      IF i = 0 THEN d ELSE Taken(u[i - 1], frames[i], keys, source)]
           upTo == CHOOSE u : u = F(u)
           one == Taken(d, frames[1], keys, source)
           g == [i \in 0..Len(frames) |-> IF i = 0 THEN d ELSE IF i = 1 THEN one
                                          ELSE Taken(one, frames[2], keys, source)]
<1>1. After(d, frames, keys, source) = upTo[Len(frames)]
  BY DEF After
<1>2. g = F(g)
  <2>1. \A i \in 0..Len(frames) : i \in {0, 1, 2}
    <3>1. PICK n \in 0..2 : n = Len(frames)
      OBVIOUS
    <3>2. \A i \in 0..n : i \in {0, 1, 2}
      BY ONLY n \in 0..2
    <3> QED
      BY ONLY <3>1, <3>2
  <2>2. \A i \in 0..Len(frames) :
            g[i] = IF i = 0 THEN d ELSE Taken(g[i - 1], frames[i], keys, source)
    BY <2>1
  <2> HIDE DEF one
  <2>3. g = [i \in 0..Len(frames) |-> g[i]]
    OBVIOUS
  <2> HIDE DEF g
  <2> QED
    BY <2>2, <2>3
<1> HIDE DEF F, g
<1>3. upTo = F(upTo)
  BY ONLY <1>2, Zenon DEF upTo
<1> HIDE DEF upTo
<1>4. /\ upTo[0] = d
      /\ \A i \in 1..Len(frames) : upTo[i] = Taken(upTo[i - 1], frames[i], keys, source)
  BY <1>3 DEF F
<1> QED
  BY <1>1, <1>4

\* After no frame, one, and two.
LEMMA AfterNone ==
  ASSUME NEW d, NEW keys, NEW source
  PROVE  After(d, <<>>, keys, source) = d
  BY AfterEquations

LEMMA AfterOne ==
  ASSUME NEW d, NEW f, NEW keys, NEW source
  PROVE  After(d, <<f>>, keys, source) = Taken(d, f, keys, source)
<1> DEFINE s == <<f>>
<1>1. Len(s) = 1 /\ s[1] = f
  OBVIOUS
<1> HIDE DEF s
<1>2. After(d, s, keys, source) = Taken(d, f, keys, source)
  BY <1>1, AfterEquations
<1> QED
  BY <1>2 DEF s

LEMMA AfterTwo ==
  ASSUME NEW d, NEW f, NEW g, NEW keys, NEW source
  PROVE  After(d, <<f, g>>, keys, source) = Taken(Taken(d, f, keys, source), g, keys, source)
<1> DEFINE s == <<f, g>>
<1>1. Len(s) = 2 /\ s[1] = f /\ s[2] = g
  OBVIOUS
<1> HIDE DEF s
<1>2. After(d, s, keys, source) = Taken(Taken(d, f, keys, source), g, keys, source)
  BY <1>1, AfterEquations
<1> QED
  BY <1>2 DEF s

----------------------------------------------------------------------------
(* Devices that are the evidence of frames.                                *)

KeysOf(frames) == {f.key : f \in frames}
Proved(k, frames) == UNION {f.caps : f \in {g \in frames : g.key = k}}

\* devices are what the frames prove, those of keys found actively.
Right(devices, frames, keys) ==
    /\ frames \subseteq Frames
    /\ keys \subseteq ToSet(Probes) \intersect KeysOf(frames)
    /\ DOMAIN devices = KeysOf(frames) \ Groups
    /\ \A k \in DOMAIN devices :
        /\ devices[k].caps = Proved(k, frames)
        /\ devices[k].source \in {"passive", "active"}
        /\ devices[k].source = "active" <=> k \in keys

\* The probed addresses are those of endpoints.
LEMMA ProbesAreEndpoints ==
  /\ Len(Probes) \in Nat
  /\ \A i \in 1..Len(Probes) : Probes[i] \in Keys \ (Groups \union Scenarios)
                               /\ Probes[i] \in ToSet(Probes)
  /\ ToSet(Probes) \subseteq Keys \ (Groups \union Scenarios)
<1>1. Probes \in Seq(Keys \ (Groups \union Scenarios))
  BY ConstantsAssumption
<1>2. /\ Len(Probes) \in Nat /\ DOMAIN Probes = 1..Len(Probes)
      /\ \A i \in 1..Len(Probes) : Probes[i] \in Keys \ (Groups \union Scenarios)
  BY <1>1
<1> QED
  BY <1>2 DEF ToSet

\* One more frame proves what it proves, of its key.
LEMMA ProvedMore ==
  ASSUME NEW frames, NEW f
  PROVE  /\ KeysOf(frames \union {f}) = KeysOf(frames) \union {f.key}
         /\ Proved(f.key, frames \union {f}) = Proved(f.key, frames) \union f.caps
         /\ \A k : k # f.key => Proved(k, frames \union {f}) = Proved(k, frames)
  BY DEF Proved, KeysOf

\* Nothing is proved of a key that no frame is about.
LEMMA ProvedOfNone ==
  ASSUME NEW frames, NEW k, k \notin KeysOf(frames)
  PROVE  Proved(k, frames) = {}
  BY DEF KeysOf, Proved

\* What one of the frames proves is among what they do.
LEMMA ProvedByOne ==
  ASSUME NEW frames, NEW f \in frames
  PROVE  f.caps \subseteq Proved(f.key, frames)
  BY DEF Proved

\* A scan that hears a frame.
LEMMA HearOne ==
  ASSUME NEW d, NEW frames, NEW keys, Right(d, frames, keys), NEW f \in Frames
  PROVE  Right(Taken(d, f, Keys, "passive"), frames \union {f}, keys)
<1>1. PICK more : more = frames \union {f}
  OBVIOUS
<1>2. /\ KeysOf(more) = KeysOf(frames) \union {f.key}
      /\ Proved(f.key, more) = Proved(f.key, frames) \union f.caps
      /\ \A k : k # f.key => Proved(k, more) = Proved(k, frames)
  BY <1>1, ProvedMore
<1>3. f.key \in Keys
  BY DEF Frames
<1>4. more \subseteq Frames /\ keys \subseteq ToSet(Probes) \intersect KeysOf(more)
  BY <1>1, <1>2 DEF Right
<1>5. PICK s : s = Taken(d, f, Keys, "passive")
  OBVIOUS
<1>6. CASE f.key \in Groups
  <2>1. s = d
    BY <1>5, <1>6 DEF Taken, IsEndpoint
  <2>2. \A k \in DOMAIN d : k # f.key
    BY <1>6 DEF Right
  <2>3. DOMAIN d = KeysOf(more) \ Groups
    BY <1>2, <1>6 DEF Right
  <2>4. Right(s, more, keys)
    BY <1>2, <1>4, <2>1, <2>2, <2>3 DEF Right
  <2> QED
    BY <1>1, <1>5, <2>4
<1>7. CASE f.key \notin Groups
  <2>1. s = Store(d, Evidence(f, "passive"))
    BY <1>3, <1>5, <1>7 DEF Taken, IsEndpoint
  <2>2. /\ DOMAIN s = DOMAIN d \union {f.key}
        /\ \A k \in DOMAIN d : k # f.key => s[k] = d[k]
        /\ f.key \notin DOMAIN d => s[f.key].caps = f.caps /\ s[f.key].source = "passive"
        /\ f.key \in DOMAIN d =>
                /\ s[f.key].caps = d[f.key].caps \union f.caps
                /\ s[f.key].source = d[f.key].source
    BY <2>1 DEF Store, Evidence
  <2>3. DOMAIN s = KeysOf(more) \ Groups
    BY <1>2, <1>7, <2>2 DEF Right
  <2>4. ASSUME NEW k \in DOMAIN s
        PROVE  /\ s[k].caps = Proved(k, more)
               /\ s[k].source \in {"passive", "active"}
               /\ s[k].source = "active" <=> k \in keys
    <3>1. CASE k # f.key
      BY <1>2, <2>2, <2>4, <3>1 DEF Right
    <3>2. CASE k = f.key /\ k \in DOMAIN d
      BY <1>2, <2>2, <3>2 DEF Right
    <3>3. CASE k = f.key /\ k \notin DOMAIN d
      <4>1. k \notin KeysOf(frames) /\ k \notin keys
        BY <1>7, <3>3 DEF Right
      <4> QED
        BY <1>2, <2>2, <3>3, <4>1, ProvedOfNone
    <3> QED
      BY <3>1, <3>2, <3>3
  <2>5. Right(s, more, keys)
    BY <1>4, <2>3, <2>4 DEF Right
  <2> QED
    BY <1>1, <1>5, <2>5
<1> QED
  BY <1>6, <1>7

\* A scan that takes a frame it has heard as the answer of the address it probes.
LEMMA ConfirmOne ==
  ASSUME NEW d, NEW frames, NEW keys, Right(d, frames, keys), NEW f \in frames,
         NEW t \in ToSet(Probes)
  PROVE  Right(Taken(d, f, {t}, "active"), frames, IF f.key = t THEN keys \union {t} ELSE keys)
<1>1. CASE f.key # t
  <2>1. Taken(d, f, {t}, "active") = d
    BY <1>1 DEF Taken
  <2> QED
    BY <1>1, <2>1
<1>2. CASE f.key = t
  <2>1. t \in Keys /\ t \notin Groups
    BY ProbesAreEndpoints
  <2>2. PICK s : s = Taken(d, f, {t}, "active")
    OBVIOUS
  <2>3. s = Store(d, Evidence(f, "active"))
    BY <1>2, <2>1, <2>2 DEF Taken, IsEndpoint
  <2>4. t \in KeysOf(frames) /\ t \in DOMAIN d
    BY <1>2, <2>1 DEF Right, KeysOf
  <2>5. /\ DOMAIN s = DOMAIN d
        /\ \A k \in DOMAIN d : k # t => s[k] = d[k]
        /\ s[t].caps = d[t].caps \union f.caps /\ s[t].source = "active"
    BY <1>2, <2>3, <2>4 DEF Store, Evidence
  <2>6. f.caps \subseteq Proved(t, frames) /\ d[t].caps = Proved(t, frames)
    BY <1>2, <2>4, ProvedByOne DEF Right
  <2>7. PICK more : more = keys \union {t}
    OBVIOUS
  <2>8. Right(s, frames, more)
    BY <2>4, <2>5, <2>6, <2>7 DEF Right
  <2> QED
    BY <1>2, <2>2, <2>7, <2>8
<1> QED
  BY <1>1, <1>2

\* A scan that hears the frames of an exchange.
LEMMA HearAll ==
  ASSUME NEW d, NEW frames, NEW keys, Right(d, frames, keys), NEW responses \in Responses
  PROVE  Right(After(d, responses, Keys, "passive"), frames \union ToSet(responses), keys)
<1>1. CASE responses = <<>>
  <2>1. frames \union ToSet(<<>>) = frames
    BY DEF ToSet
  <2> QED
    BY <1>1, <2>1, AfterNone
<1>2. ASSUME NEW f \in Frames, responses = <<f>>
      PROVE  Right(After(d, responses, Keys, "passive"), frames \union ToSet(responses), keys)
  <2>1. ToSet(<<f>>) = {f}
    BY DEF ToSet
  <2> QED
    BY <1>2, <2>1, AfterOne, HearOne
<1>3. ASSUME NEW f \in Frames, NEW g \in Frames, responses = <<f, g>>
      PROVE  Right(After(d, responses, Keys, "passive"), frames \union ToSet(responses), keys)
  <2>1. frames \union ToSet(<<f, g>>) = (frames \union {f}) \union {g}
    BY DEF ToSet
  <2>2. Right(Taken(d, f, Keys, "passive"), frames \union {f}, keys)
    BY HearOne
  <2>3. Right(Taken(Taken(d, f, Keys, "passive"), g, Keys, "passive"),
              (frames \union {f}) \union {g}, keys)
    BY <2>2, HearOne
  <2> QED
    BY <1>3, <2>1, <2>3, AfterTwo
<1>4. \/ responses = <<>>
      \/ \E f \in Frames : responses = <<f>>
      \/ \E f, g \in Frames : responses = <<f, g>>
  BY DEF Responses
<1> QED
  BY <1>1, <1>2, <1>3, <1>4

\* A scan that takes the answers among them for those of the address it probes.
LEMMA ConfirmAll ==
  ASSUME NEW d, NEW frames, NEW keys, Right(d, frames, keys),
         NEW responses \in Responses, ToSet(responses) \subseteq frames, NEW t \in ToSet(Probes)
  PROVE  Right(After(d, responses, {t}, "active"), frames,
               IF \E i \in 1..Len(responses) : responses[i].key = t
               THEN keys \union {t} ELSE keys)
<1>1. CASE responses = <<>>
  BY <1>1, AfterNone
<1>2. ASSUME NEW f \in Frames, responses = <<f>>
      PROVE  Right(After(d, responses, {t}, "active"), frames,
               IF \E i \in 1..Len(responses) : responses[i].key = t
               THEN keys \union {t} ELSE keys)
  <2>1. f \in frames
    BY <1>2 DEF ToSet
  <2>2. (\E i \in 1..Len(responses) : responses[i].key = t) <=> f.key = t
    BY <1>2
  <2>3. Right(Taken(d, f, {t}, "active"), frames, IF f.key = t THEN keys \union {t} ELSE keys)
    BY <2>1, ConfirmOne
  <2> QED
    BY <1>2, <2>2, <2>3, AfterOne
<1>3. ASSUME NEW f \in Frames, NEW g \in Frames, responses = <<f, g>>
      PROVE  Right(After(d, responses, {t}, "active"), frames,
               IF \E i \in 1..Len(responses) : responses[i].key = t
               THEN keys \union {t} ELSE keys)
  <2>0. PICK one, two, first, second :
          /\ one = Taken(d, f, {t}, "active") /\ two = Taken(one, g, {t}, "active")
          /\ first = (IF f.key = t THEN keys \union {t} ELSE keys)
          /\ second = (IF g.key = t THEN first \union {t} ELSE first)
    OBVIOUS
  <2>1. f \in frames /\ g \in frames
    BY <1>3 DEF ToSet
  <2>2. (\E i \in 1..Len(responses) : responses[i].key = t) <=> f.key = t \/ g.key = t
    BY <1>3
  <2>3. Right(one, frames, first)
    BY <2>0, <2>1, ConfirmOne
  <2>4. Right(two, frames, second)
    BY <2>0, <2>1, <2>3, ConfirmOne
  <2>5. second = IF f.key = t \/ g.key = t THEN keys \union {t} ELSE keys
    BY <2>0
  <2>6. After(d, responses, {t}, "active") = two
    BY <2>0, <1>3, AfterTwo
  <2> QED
    BY <2>2, <2>4, <2>5, <2>6
<1>4. \/ responses = <<>>
      \/ \E f \in Frames : responses = <<f>>
      \/ \E f, g \in Frames : responses = <<f, g>>
  BY DEF Responses
<1> QED
  BY <1>1, <1>2, <1>3, <1>4

----------------------------------------------------------------------------
(* The invariant.                                                          *)

\* Every scan has found what passed while it ran, also when it has ended.
FoundInv ==
    /\ ListenInv
    /\ at \in [Scans -> 1..(Len(Probes) + 1)] /\ scenarios \in [Scans -> BOOLEAN]
    /\ DOMAIN found = Scans /\ DOMAIN seen = Scans /\ DOMAIN confirmed = Scans
    /\ \A s \in Scans : Right(found[s], seen[s], confirmed[s])

LEMMA NothingIsRight == Right(Nothing, {}, {})
  BY DEF Right, Nothing, KeysOf

\* A step that leaves the evidence alone, and every probe.
LEMMA Still ==
  ASSUME FoundInv, ListenInv', UNCHANGED <<at, found, seen, confirmed>>,
         scenarios' \in [Scans -> BOOLEAN]
  PROVE  FoundInv'
  BY DEF FoundInv, Right

\* A scan that starts has found nothing.
LEMMA StartFound ==
  ASSUME FoundInv, NEW s \in Scans, NEW how \in {"listening", "probing"}, Start(s, how),
         scenarios' \in [Scans -> BOOLEAN]
  PROVE  FoundInv'
<1>1. ListenInv'
  BY StartStep DEF FoundInv
<1>2. /\ DOMAIN found' = Scans /\ DOMAIN seen' = Scans /\ DOMAIN confirmed' = Scans
      /\ at' \in [Scans -> 1..(Len(Probes) + 1)]
  BY ProbesAreEndpoints DEF FoundInv, Start
<1>3. ASSUME NEW r \in Scans PROVE Right(found'[r], seen'[r], confirmed'[r])
  <2>1. CASE r = s
    <3>1. found'[r] = Nothing /\ seen'[r] = {} /\ confirmed'[r] = {}
      BY <2>1 DEF FoundInv, Start
    <3> QED
      BY <3>1, NothingIsRight
  <2>2. CASE r # s
    <3>1. found'[r] = found[r] /\ seen'[r] = seen[r] /\ confirmed'[r] = confirmed[r]
      BY <2>2 DEF FoundInv, Start
    <3> QED
      BY <3>1 DEF FoundInv
  <2> QED
    BY <2>1, <2>2
<1> QED
  BY <1>1, <1>2, <1>3 DEF FoundInv, Right

\* The frames of an exchange are heard by the scans that run, and witnessed.
LEMMA HeardIsRight ==
  ASSUME FoundInv, NEW responses \in Responses, Witness(responses)
  PROVE  \A s \in Scans :
            /\ Right(Heard(responses)[s], seen'[s], confirmed[s])
            /\ Running(s) => ToSet(responses) \subseteq seen'[s]
<1> SUFFICES ASSUME NEW s \in Scans
             PROVE  /\ Right(Heard(responses)[s], seen'[s], confirmed[s])
                    /\ Running(s) => ToSet(responses) \subseteq seen'[s]
  OBVIOUS
<1>1. Right(found[s], seen[s], confirmed[s]) /\ (listening[s] <=> Running(s))
  BY DEF FoundInv, ListenInv, ListensWhileRunning
<1>2. CASE Running(s)
  <2>1. /\ Heard(responses)[s] = After(found[s], responses, Keys, "passive")
        /\ seen'[s] = seen[s] \union ToSet(responses)
    BY <1>1, <1>2 DEF Heard, Witness
  <2> QED
    BY <1>1, <2>1, HearAll
<1>3. CASE ~Running(s)
  BY <1>1, <1>3 DEF Heard, Witness
<1> QED
  BY <1>2, <1>3

\* A probe goes on to the next address.
LEMMA ProbesOn ==
  ASSUME FoundInv, NEW s \in Scans, MoreProbes(s), at' = [at EXCEPT ![s] = @ + 1]
  PROVE  at' \in [Scans -> 1..(Len(Probes) + 1)]
<1>1. at[s] \in 1..Len(Probes)
  BY ProbesAreEndpoints DEF FoundInv, MoreProbes
<1> QED
  BY <1>1, ProbesAreEndpoints DEF FoundInv

\* Frames that are heard, and nothing is confirmed by.
LEMMA OnlyHeard ==
  ASSUME FoundInv, NEW responses \in Responses, found' = Heard(responses), Witness(responses),
         UNCHANGED <<stage, scenarios, listening, confirmed>>,
         at' \in [Scans -> 1..(Len(Probes) + 1)]
  PROVE  FoundInv'
<1>1. ListenInv'
  BY WaitStep DEF FoundInv
<1>2. DOMAIN found' = Scans /\ DOMAIN seen' = Scans
  BY DEF Heard, Witness
<1>3. \A s \in Scans : Right(found'[s], seen'[s], confirmed'[s])
  BY HeardIsRight
<1> QED
  BY <1>1, <1>2, <1>3 DEF FoundInv, Right

\* A probe that is answered.
LEMMA AnsweredFound ==
  ASSUME FoundInv, NEW s \in Scans, Answered(s)
  PROVE  FoundInv'
<1>1. /\ MoreProbes(s) /\ at' = [at EXCEPT ![s] = @ + 1]
      /\ UNCHANGED <<stage, scenarios, listening>>
  BY DEF Answered
<1>2. ListenInv' /\ at' \in [Scans -> 1..(Len(Probes) + 1)]
  BY <1>1, ProbesOn, WaitStep DEF FoundInv
<1>3. PICK responses \in Responses :
        /\ found' = [Heard(responses) EXCEPT ![s] = After(@, responses, {Target(s)}, "active")]
        /\ Witness(responses)
        /\ confirmed' = [confirmed EXCEPT ![s] =
                            IF \E i \in 1..Len(responses) : responses[i].key = Target(s)
                            THEN @ \union {Target(s)} ELSE @]
  BY DEF Answered
<1> DEFINE heard == Heard(responses)
<1>4. \A r \in Scans : /\ Right(heard[r], seen'[r], confirmed[r])
                       /\ Running(r) => ToSet(responses) \subseteq seen'[r]
  BY <1>3, HeardIsRight
<1>5. DOMAIN heard = Scans /\ DOMAIN seen' = Scans
  BY <1>3 DEF Heard, Witness
<1> HIDE DEF heard
<1>6. DOMAIN found' = Scans /\ DOMAIN confirmed' = Scans
  BY <1>3, <1>5 DEF FoundInv, heard
<1>7. Running(s) /\ Target(s) \in ToSet(Probes)
  <2>1. at[s] \in 1..Len(Probes)
    BY <1>1, ProbesAreEndpoints DEF FoundInv, MoreProbes
  <2> QED
    BY <1>1, <2>1, ProbesAreEndpoints DEF MoreProbes, Running, Target
<1>8. ASSUME NEW r \in Scans PROVE Right(found'[r], seen'[r], confirmed'[r])
  <2>1. CASE r = s
    <3>1. /\ found'[s] = After(heard[s], responses, {Target(s)}, "active")
          /\ confirmed'[s] = IF \E i \in 1..Len(responses) : responses[i].key = Target(s)
                             THEN confirmed[s] \union {Target(s)} ELSE confirmed[s]
      BY <1>3, <1>5 DEF FoundInv, heard
    <3>2. /\ Right(heard[s], seen'[s], confirmed[s])
          /\ ToSet(responses) \subseteq seen'[s]
      BY <1>4, <1>7
    <3>3. Right(After(heard[s], responses, {Target(s)}, "active"), seen'[s],
                IF \E i \in 1..Len(responses) : responses[i].key = Target(s)
                THEN confirmed[s] \union {Target(s)} ELSE confirmed[s])
      BY ONLY <1>7, <3>2, ConfirmAll, responses \in Responses
    <3> QED
      BY <2>1, <3>1, <3>3
  <2>2. CASE r # s
    <3>1. found'[r] = heard[r] /\ confirmed'[r] = confirmed[r]
      BY <1>3, <1>5, <2>2 DEF FoundInv, heard
    <3> QED
      BY <1>4, <3>1
  <2> QED
    BY <2>1, <2>2
<1> QED
  BY <1>1, <1>2, <1>5, <1>6, <1>8 DEF FoundInv, Right

\* Every step keeps the invariant.
LEMMA FoundStep == FoundInv /\ [Next]_vars => FoundInv'
<1> SUFFICES ASSUME FoundInv, [Next]_vars PROVE FoundInv'
  OBVIOUS
<1>0. ListenInv'
  BY ListenStep DEF FoundInv
<1>1. ASSUME NEW frame \in Frames, BusEvent(frame) PROVE FoundInv'
  <2>1. <<frame>> \in Responses
    BY DEF Responses
  <2> QED
    BY <1>1, <2>1, OnlyHeard DEF BusEvent, FoundInv
<1>2. ASSUME NEW s \in Scans, PassiveListen(s) PROVE FoundInv'
  BY <1>2, StartFound DEF PassiveListen, FoundInv
<1>3. ASSUME NEW s \in Scans, ActiveScan(s) PROVE FoundInv'
  BY <1>3, StartFound DEF ActiveScan, FoundInv
<1>4. ASSUME NEW s \in Scans, Rejected(s) PROVE FoundInv'
  BY <1>4, ProbesOn, OnlyHeard DEF Rejected
<1>5. ASSUME NEW s \in Scans, Fails(s) PROVE FoundInv'
  BY <1>0, <1>5, Still DEF Fails, FoundInv
<1>6. ASSUME NEW s \in Scans, Cancelled(s) PROVE FoundInv'
  BY <1>0, <1>6, Still DEF Cancelled, FoundInv
<1>7. ASSUME NEW s \in Scans, Ends(s) PROVE FoundInv'
  BY <1>0, <1>7, Still DEF Ends, FoundInv
<1>8. CASE UNCHANGED vars
  BY <1>0, <1>8, Still DEF vars, FoundInv
<1> QED
  BY <1>1, <1>2, <1>3, <1>4, <1>5, <1>6, <1>7, <1>8, AnsweredFound DEF Next, Probe

\* For any scans, keys and probes, and exchanges of at most two frames.
THEOREM FoundInvariance == Spec => []FoundInv
<1>1. Init => FoundInv
  <2>1. Init => ListenInv
    BY DEF Init, ListenInv, ListensWhileRunning, Running
  <2>2. Init => \A s \in Scans : Right(found[s], seen[s], confirmed[s])
    BY NothingIsRight DEF Init
  <2> QED
    BY <2>1, <2>2, ProbesAreEndpoints DEF Init, FoundInv
<1> QED
  BY <1>1, FoundStep, PTL DEF Spec

\* Stages, probes and findings are of their types.
THEOREM TypesCorrect == Spec => []TypeOK
<1>1. FoundInv => TypeOK
  <2> SUFFICES ASSUME FoundInv, NEW s \in Scans
               PROVE  /\ DOMAIN found[s] \subseteq Keys \ Groups
                      /\ \A k \in DOMAIN found[s] :
                            /\ found[s][k].caps \subseteq Proof[k]
                            /\ found[s][k].source \in {"passive", "active"}
                      /\ seen[s] \subseteq Frames
                      /\ confirmed[s] \subseteq Keys
    BY DEF FoundInv, ListenInv, TypeOK
  <2>1. Right(found[s], seen[s], confirmed[s])
    BY DEF FoundInv
  <2>2. \A f \in seen[s] : f.key \in Keys /\ f.caps \subseteq Proof[f.key]
    BY <2>1 DEF Right, Frames
  <2>3. \A k : Proved(k, seen[s]) \subseteq Proof[k]
    BY <2>2 DEF Proved
  <2>4. KeysOf(seen[s]) \subseteq Keys
    BY <2>2 DEF KeysOf
  <2> QED
    BY <2>1, <2>3, <2>4, ProbesAreEndpoints DEF Right
<1> QED
  BY <1>1, FoundInvariance, PTL

\* What a scan finds is a function of the frames that passed while it ran, whatever their
\* order and whatever the other scans do.
THEOREM FoundIsTheEvidence == Spec => []FoundIsEvidence
<1>1. FoundInv => FoundIsEvidence
  <2> SUFFICES ASSUME FoundInv, NEW s \in Scans
               PROVE  /\ \A k \in DOMAIN SortedFound(s) :
                            /\ SortedFound(s)[k].source = "active" => k \in ToSet(Probes)
                            /\ k \in Scenarios => scenarios[s]
                      /\ DOMAIN found[s] = {f.key : f \in seen[s]} \ Groups
                      /\ \A k \in DOMAIN found[s] :
                            /\ found[s][k].caps = UNION {f.caps : f \in {g \in seen[s] : g.key = k}}
                            /\ found[s][k].source = "active" <=> k \in confirmed[s]
    BY DEF FoundIsEvidence
  <2>1. Right(found[s], seen[s], confirmed[s])
    BY DEF FoundInv
  <2> QED
    BY <2>1 DEF Right, SortedFound, KeysOf, Proved
<1> QED
  BY <1>1, FoundInvariance, PTL
=============================================================================
