---------------------------- MODULE MCBFExecutor ----------------------------
(* Small instances of BFExecutor for TLC. *)
EXTENDS BFExecutor, TLC

CONSTANTS o1, o2, f1, f2, c1, c2

Symmetry == Permutations(Owners) \cup Permutations(Futures) \cup Permutations(Callers)
=============================================================================
