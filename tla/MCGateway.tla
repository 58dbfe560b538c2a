----------------------------- MODULE MCGateway ------------------------------
(* Instances of Gateway for TLC.                                           *)
EXTENDS Gateway, TLC

CONSTANTS alpha, beta, g1, g2, t1, t2

\* base_port is a port of its own, so names and tabs are not told apart.
MCSymmetry == Permutations(Names) \cup Permutations(Tabs) \cup Permutations(Gates)
=============================================================================
