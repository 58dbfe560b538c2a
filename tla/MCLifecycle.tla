---------------------------- MODULE MCLifecycle -----------------------------
(* Instances of Lifecycle for TLC.                                         *)
EXTENDS Lifecycle, TLC

\* Neither processes nor process ids are told apart.
MCSymmetry == Permutations(Procs) \cup Permutations(Pids)
=============================================================================
