---------------------------- MODULE MCStateRoot -----------------------------
(* Instances of StateRoot for TLC.                                         *)
EXTENDS StateRoot, TLC

CONSTANTS p1, p2, flash, pro
=============================================================================
