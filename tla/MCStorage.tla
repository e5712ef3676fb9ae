------------------------------ MODULE MCStorage ------------------------------
(* A small instance of Storage: a directory d that holds a file x and a    *)
(* directory e that holds a file z.                                        *)
EXTENDS Storage, TLC

CONSTANTS d, e, x, z, v1, v2, c1, c2, i1, i2, i3

PathsIn == Root :> {} @@ d :> {Root} @@ e :> {Root, d} @@ x :> {Root, d} @@ z :> {Root, d, e}
Alphabetical == Root :> 0 @@ d :> 1 @@ e :> 2 @@ z :> 3 @@ x :> 4
LongAndShort == v1 :> 2 @@ v2 :> 1

Symmetry == Permutations({i1, i2, i3}) \cup Permutations(Clients)

\* The content of an inode nobody can reach any more makes no difference.
View == IF driver = "s3" THEN s3Vars
  ELSE <<node, call, disturbed, steady, calls,
         [i \in Inodes \ FreeInodes |-> <<data[i], torn[i]>>]>>
=============================================================================
