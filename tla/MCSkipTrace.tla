---------------------------- MODULE MCSkipTrace ----------------------------
(* Instance of SkipTrace for TLC. *)
EXTENDS SkipTrace, TLC

CONSTANTS l1, l2, k1, k2

Symmetry == Permutations(Lookups) \cup Permutations(KeyCalls)
=============================================================================
