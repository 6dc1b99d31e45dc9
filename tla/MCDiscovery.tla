---------------------------- MODULE MCDiscovery ----------------------------
(* An instance of Discovery: an advanced shutter that is probed, a scenario and *)
(* a group that are not.                                                       *)
EXTENDS Discovery

MCProbes == <<"2-21">>
MCProof == [k \in Keys |-> IF k = "2-21" THEN {"position_control"} ELSE {}]
=============================================================================
