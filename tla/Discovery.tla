----------------------------- MODULE Discovery -----------------------------
(***************************************************************************)
(* The scans of discovery.py: passive learning and active discovery, run   *)
(* by options flows on one gateway, several at a time if the user opens    *)
(* several.  A scan is a listener of the gateway's events while it waits,  *)
(* and an active one also probes addresses one by one.                     *)
(*                                                                         *)
(* A frame is the key WHO-WHERE it is about and the optional capability it *)
(* proves (position control, a thermal direction).  The gateway dispatches *)
(* the responses of an exchange to every listener before async_send        *)
(* returns them or raises (gateway.py:299-302).                            *)
(***************************************************************************)
EXTENDS Integers, SequencesExt

CONSTANTS
    Scans,      \* BticinoDiscovery objects, one per options flow
    Keys,       \* WHO-WHERE of the bus's frames
    Groups,     \* those with a "#WHERE" other than WHO=4: no endpoints
    Scenarios,  \* those with WHO=0
    Probes,     \* the addresses an active scan probes, in order
    Proof       \* the optional capabilities frames about a key may prove

ASSUME ConstantsAssumption ==
    /\ Groups \subseteq Keys /\ Scenarios \subseteq Keys
    /\ Probes \in Seq(Keys \ (Groups \union Scenarios))
    /\ DOMAIN Proof = Keys

Frames == {f \in [key : Keys, caps : UNION {SUBSET Proof[k] : k \in Keys}] :
              f.caps \subseteq Proof[f.key]}

\* What the gateway may send before the final ACK or NACK: an answer, none, and frames
\* about something else.
Responses == {<<>>} \union {<<f>> : f \in Frames} \union {<<f, g>> : f, g \in Frames}

VARIABLES
    stage,      \* "idle", "listening", "probing", "done" or "failed"
    at,         \* index of the next probe
    scenarios,  \* include_scenarios
    listening,  \* _on_event is a listener of the gateway
    found,      \* _found
    seen,       \* history: the frames dispatched while the scan ran
    confirmed   \* history: keys that answered a probe of this scan

vars == <<stage, at, scenarios, listening, found, seen, confirmed>>

Running(s) == stage[s] \in {"listening", "probing"}
Nothing == [k \in {} |-> k]

Init ==
    /\ stage = [s \in Scans |-> "idle"]
    /\ at = [s \in Scans |-> 1]
    /\ scenarios = [s \in Scans |-> FALSE]
    /\ listening = [s \in Scans |-> FALSE]
    /\ found = [s \in Scans |-> Nothing]
    /\ seen = [s \in Scans |-> {}]
    /\ confirmed = [s \in Scans |-> {}]

----------------------------------------------------------------------------
(* Evidence.                                                               *)

\* Variant: the latest evidence decides.
StoreLatest(devices, evidence) ==
    [k \in DOMAIN devices \union {evidence.key} |->
        IF k # evidence.key THEN devices[k]
        ELSE [caps |-> evidence.caps \union IF k \in DOMAIN devices THEN devices[k].caps ELSE {},
              source |-> evidence.source]]

\* _store_found_device: capabilities add up, and only active evidence changes the
\* source.
Store(devices, evidence) ==
    LET k == evidence.key
        new == [caps |-> evidence.caps, source |-> evidence.source]
        old == devices[k]
        merged == [caps |-> old.caps \union evidence.caps,
                   source |-> IF evidence.source = "active" THEN "active" ELSE old.source]
    IN  [j \in DOMAIN devices \union {k} |->
            IF j # k THEN devices[j] ELSE IF k \in DOMAIN devices THEN merged ELSE new]

\* Variant: groups are devices.
IsAnything(frame) == frame.key \in Keys

\* _device_from_event gives a device for it.
IsEndpoint(frame) == frame.key \notin Groups

Evidence(frame, source) == [key |-> frame.key, caps |-> frame.caps, source |-> source]

\* What is found once frame is taken as evidence from source, if it is about one of keys.
Taken(devices, frame, keys, source) ==
    IF IsEndpoint(frame) /\ frame.key \in keys THEN Store(devices, Evidence(frame, source))
    ELSE devices

\* found after frames, in their order.
After(devices, frames, keys, source) ==
    LET upTo[i \in 0..Len(frames)] ==
            IF i = 0 THEN devices ELSE Taken(upTo[i - 1], frames[i], keys, source)
    IN  upTo[Len(frames)]

\* Every scan that listens has heard frames: _on_event.
Heard(frames) ==
    [s \in Scans |-> IF listening[s] THEN After(found[s], frames, Keys, "passive") ELSE found[s]]

Witness(frames) ==
    seen' = [s \in Scans |-> IF Running(s) THEN seen[s] \union ToSet(frames) ELSE seen[s]]

----------------------------------------------------------------------------
(* Scans.                                                                  *)

\* async_passive_listen and async_active_scan up to their first await.
Start(s, how) ==
    /\ ~Running(s)
    /\ stage' = [stage EXCEPT ![s] = how]
    /\ at' = [at EXCEPT ![s] = 1]
    /\ listening' = [listening EXCEPT ![s] = TRUE]
    /\ found' = [found EXCEPT ![s] = Nothing]
    /\ seen' = [seen EXCEPT ![s] = {}]
    /\ confirmed' = [confirmed EXCEPT ![s] = {}]

PassiveListen(s) ==
    /\ Start(s, "listening")
    /\ scenarios' = [scenarios EXCEPT ![s] = TRUE]

ActiveScan(s) ==
    /\ Start(s, "probing")
    /\ \E include \in BOOLEAN : scenarios' = [scenarios EXCEPT ![s] = include]

\* A frame arrives on the event channel, or in an exchange of anyone else.
BusEvent(frame) ==
    /\ found' = Heard(<<frame>>)
    /\ Witness(<<frame>>)
    /\ UNCHANGED <<stage, at, scenarios, listening, confirmed>>

MoreProbes(s) == stage[s] = "probing" /\ at[s] <= Len(Probes)
Target(s) == Probes[at[s]]

\* _probe_status, acknowledged: the responses about its address are stored once more, as
\* active.
Answered(s) ==
    /\ MoreProbes(s)
    /\ \E responses \in Responses :
        LET heard == Heard(responses)
        IN  /\ found' = [heard EXCEPT ![s] = After(@, responses, {Target(s)}, "active")]
            /\ Witness(responses)
            /\ confirmed' = [confirmed EXCEPT ![s] =
                                IF \E i \in 1..Len(responses) : responses[i].key = Target(s)
                                THEN @ \union {Target(s)} ELSE @]
    /\ at' = [at EXCEPT ![s] = @ + 1]
    /\ UNCHANGED <<stage, scenarios, listening>>

\* _probe_status, rejected: the responses before the NACK were dispatched all the same.
Rejected(s) ==
    /\ MoreProbes(s)
    /\ \E responses \in Responses : found' = Heard(responses) /\ Witness(responses)
    /\ at' = [at EXCEPT ![s] = @ + 1]
    /\ UNCHANGED <<stage, scenarios, listening, confirmed>>

\* Variant: the listener is removed when the scan succeeds.
LeaveListening(s, how) ==
    /\ stage' = [stage EXCEPT ![s] = how]
    /\ listening' = [listening EXCEPT ![s] = (how # "done")]

\* The finally clause.
Leave(s, how) ==
    /\ stage' = [stage EXCEPT ![s] = how]
    /\ listening' = [listening EXCEPT ![s] = FALSE]

\* Any other error of the gateway aborts the scan, as does its cancellation.
Fails(s) ==
    /\ MoreProbes(s)
    /\ Leave(s, "failed")
    /\ UNCHANGED <<at, scenarios, found, seen, confirmed>>
Cancelled(s) ==
    /\ Running(s)
    /\ Leave(s, "failed")
    /\ UNCHANGED <<at, scenarios, found, seen, confirmed>>

\* Variant: the scan waits for a first device.
EndsWithFindings(s) ==
    /\ Running(s) /\ ~MoreProbes(s)
    /\ DOMAIN found[s] # {}
    /\ Leave(s, "done")
    /\ UNCHANGED <<at, scenarios, found, seen, confirmed>>

\* The listening time is over.
Ends(s) ==
    /\ Running(s) /\ ~MoreProbes(s)
    /\ Leave(s, "done")
    /\ UNCHANGED <<at, scenarios, found, seen, confirmed>>

\* _sorted_found, what a scan returns.
SortedFound(s) ==
    [k \in {j \in DOMAIN found[s] : scenarios[s] \/ j \notin Scenarios} |-> found[s][k]]

Probe(s) == Answered(s) \/ Rejected(s) \/ Fails(s)

Next ==
    \/ \E frame \in Frames : BusEvent(frame)
    \/ \E s \in Scans : PassiveListen(s) \/ ActiveScan(s) \/ Probe(s) \/ Cancelled(s) \/ Ends(s)

\* async_send has time limits, and sleeps end.
Fairness == \A s \in Scans : WF_vars(Probe(s)) /\ WF_vars(Ends(s))

Spec == Init /\ [][Next]_vars /\ Fairness

----------------------------------------------------------------------------
(* Properties.                                                             *)

\* The types of the variables.
TypeOK ==
    /\ stage \in [Scans -> {"idle", "listening", "probing", "done", "failed"}]
    /\ at \in [Scans -> 1..(Len(Probes) + 1)]
    /\ scenarios \in [Scans -> BOOLEAN] /\ listening \in [Scans -> BOOLEAN]
    /\ \A s \in Scans :
        /\ DOMAIN found[s] \subseteq Keys \ Groups
        /\ \A k \in DOMAIN found[s] : /\ found[s][k].caps \subseteq Proof[k]
                                      /\ found[s][k].source \in {"passive", "active"}
        /\ seen[s] \subseteq Frames
        /\ confirmed[s] \subseteq Keys

\* What a scan has found depends on the frames that passed while it ran and not on
\* their order, nor on other scans: every endpoint seen, all that any frame proved of it,
\* "active" exactly if it answered a probe of this scan (discovery.py:281-288, 361-373;
\* the listener is told of the same answers).  What a finished scan returns is that
\* without the scenarios nobody asked for (discovery.py:375-382), and so what Inventory
\* assumes of its Findings.
FoundIsEvidence ==
    \A s \in Scans : stage[s] # "idle" =>
        /\ \A k \in DOMAIN SortedFound(s) :
            /\ SortedFound(s)[k].source = "active" => k \in ToSet(Probes)
            /\ k \in Scenarios => scenarios[s]
        /\ DOMAIN found[s] = {f.key : f \in seen[s]} \ Groups
        /\ \A k \in DOMAIN found[s] :
            /\ found[s][k].caps = UNION {f.caps : f \in {g \in seen[s] : g.key = k}}
            /\ found[s][k].source = "active" <=> k \in confirmed[s]

\* No listener is left behind, however a scan ends, and none is missing while it runs
\* (discovery.py:239-240, 259-260): a leaked one would go on changing a list that the
\* options flow presents for selection.
ListensWhileRunning == \A s \in Scans : listening[s] <=> Running(s)

\* Every scan ends, whatever the gateway answers and however busy the bus is.
ScanEnds == \A s \in Scans : Running(s) ~> ~Running(s)
=============================================================================
