----------------------------- MODULE MCHandlers -----------------------------
(* An instance of Handlers.  Climate has every profile, and setpoints at the   *)
(* limits, beyond them, on a half degree, and to either side of where rounding *)
(* turns.  The larger alarm has two partitions and one change of the central,  *)
(* the smaller one partition and two changes; the lists of partitions are      *)
(* empty, repeat themselves, or leave the range at either end.  Protocol has   *)
(* values on both sides of every limit.                                        *)
EXTENDS Handlers

MCProfiles == SUBSET {"heating", "cooling"}
MCTemperatures == {499, 1975, 4000}
MCHouse ==
    [partitions |-> {1, 2}, requests |-> {<<>>, <<2, 1, 2>>, <<1, 0>>, <<8>>, <<12>>}, maxChanges |-> 1]
MCFlat == [partitions |-> {1}, requests |-> {<<1>>}, maxChanges |-> 2]
MCLevels == {0, 100}
MCPowers == {0, -300}
MCPayloads == {<<>>, <<10>>, <<9, 50>>, <<15, 0>>, <<10, 101>>, <<10, 254>>}
=============================================================================
