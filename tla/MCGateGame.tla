----------------------------- MODULE MCGateGame -----------------------------
(* Instances of GateGame for TLC. *)
EXTENDS GateGame

CONSTANTS c1, g1, g2

OneClient == {c1}
TwoLinks == {g1, g2}
=============================================================================
