----------------------------- MODULE OdmQueries -----------------------------
(***************************************************************************)
(* A program that queries models: it builds queries and runs one, or it    *)
(* has a page that a Get fetched (execute.go:68-112) and whose relations   *)
(* are loaded onto it before the Get returns.                              *)
(***************************************************************************)
EXTENDS OdmQuery, OdmRelations

VARIABLE at     \* where the program is

vars == <<at, queryVars, relationVars>>

Init ==
  \/ at = "query" /\ QueryInit /\ RelationsUnused
  \/ at = "relations" /\ RelationsInit /\ QueryUnused

Next ==
  /\ \/ at = "query" /\ QueryNext /\ UNCHANGED relationVars
     \/ at = "relations" /\ RelationsNext /\ UNCHANGED queryVars
  /\ UNCHANGED at

Spec == Init /\ [][Next]_vars
=============================================================================
