------------------------- MODULE MCOperationJournal -------------------------
(* Small instances of OperationJournal for TLC. *)
EXTENDS OperationJournal, TLC

CONSTANTS o1, o2, r1, r2, d1, d2, c1, c2

Symmetry == Permutations(Owners) \cup Permutations(RequestIds)
                \cup Permutations(Digests) \cup Permutations(Callers)
=============================================================================
