------------------------- MODULE MCGatewayIdentity -------------------------
(* An instance of GatewayIdentity with five installations: gateways added and  *)
(* moved to fresh addresses; two entries reconfigured while their gateways      *)
(* swap addresses; an entry of version 2 beside a complete one; two of version  *)
(* 2; and one of version 2 with discovery that learns anything or nothing.     *)
EXTENDS GatewayIdentity, TLC

CONSTANTS A, B, w, x, y, z

Setting(configured, legacy, kinds, complete, reuse, addresses, maxMoves) ==
    [configured |-> configured, legacy |-> legacy, kinds |-> kinds, complete |-> complete,
     reuse |-> reuse, addresses |-> addresses, maxMoves |-> maxMoves]

MCSettings ==
    {Setting({}, {}, {"user", "ssdp", "reconfigure"}, TRUE, FALSE, {w, x, y, z}, 2),
     Setting({A, B}, {}, {"reconfigure"}, FALSE, TRUE, {x, y, z}, 2),
     Setting({A}, {B}, {"reconfigure"}, TRUE, TRUE, {x, y, z}, 2),
     Setting({}, {A, B}, {"reconfigure"}, TRUE, TRUE, {x, y}, 1),
     Setting({}, {A}, {"ssdp", "reconfigure"}, FALSE, TRUE, {x, y}, 1)}

\* Flows are not told apart.
Symmetry == Permutations(Flows)
=============================================================================
