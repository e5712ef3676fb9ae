------------------------------ MODULE MCTaskApi ------------------------------
(* A small instance of TaskApi.                                            *)
EXTENDS TaskApi, TLC

CONSTANTS t1, r1, r2

Symmetry == Permutations(Requests)
=============================================================================
