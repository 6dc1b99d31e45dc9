----------------------------- MODULE MCGateway -----------------------------
(* Instances of Gateway for TLC; the constants are model values of the cfg,   *)
(* and nothing is symmetric, for most instances check liveness.               *)
EXTENDS Gateway
=============================================================================
