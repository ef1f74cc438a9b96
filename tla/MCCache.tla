------------------------------ MODULE MCCache ------------------------------
(* Two callers of Get race with Set, Invalidate, Clear and the eviction    *)
(* loop on a cache of two entries.                                         *)
EXTENDS Cache, TLC

Symmetry == Permutations(Keys) \cup Permutations(Callers)
=============================================================================
