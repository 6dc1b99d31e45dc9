--------------------------- MODULE MCEntityState ---------------------------
(* An instance of EntityState: the two climate entities of one zone, which discovery *)
(* learns from frames with WHERE 1 and with WHERE #1 (discovery.py:309).  Each takes *)
(* the frames of both (climate.py:251), and makes three requests when added.  The    *)
(* measured temperature, which the first asks for and the third too, is left out.    *)
EXTENDS EntityState

CONSTANTS zone, hashZone, setpoint, mode

MCWatches == [e \in Entities |-> Points]
MCAsks == [e \in Entities |-> <<{}, {setpoint}, {mode}>>]
MCCommands == [e \in Entities |-> IF e = zone THEN {mode} ELSE {}]
MCReports == {{mode}, {setpoint}}
MCMaxState == [p \in Points |-> IF p = mode THEN 2 ELSE 0]
=============================================================================
