------------------------------ MODULE MCOdmSave ------------------------------
(* Small instances of OdmSave.                                             *)
EXTENDS OdmSave, TLC

CONSTANTS h1, h2, d1, d2, name, note, legacy, updatedAt, zero, val

MCProjections == {ModelFields, ModelFields \ {note}}
\* note is omitempty, and absent at first.
MCSeeds == {[f \in Fields \cup Undeclared |-> IF f = note THEN Absent ELSE val]}
Symmetry == Permutations(Handles) \cup Permutations(Ids)
=============================================================================
