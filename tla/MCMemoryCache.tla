---------------------------- MODULE MCMemoryCache ----------------------------
(* A small instance of MemoryCache: a machine integer of two bits, with    *)
(* every counter at or next to the boundary.                               *)
EXTENDS MemoryCache, TLC

CONSTANTS k1, k2, text

MCTTLs == {-1, 1}
Symmetry == Permutations(Keys)
=============================================================================
