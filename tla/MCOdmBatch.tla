----------------------------- MODULE MCOdmBatch -----------------------------
(***************************************************************************)
(* A small instance of OdmBatch: three models, and batches that hold all,  *)
(* one of them twice, a nil, or nothing.                                   *)
(***************************************************************************)
EXTENDS OdmBatch

CONSTANTS m1, m2, m3

Of(op, on, ordered, inner) ==
  [op |-> op, on |-> on, ordered |-> ordered, inner |-> inner]

TheCalls ==
  { Of("CreateMany", <<m1, m2, m3>>, TRUE, FALSE),
    Of("CreateMany", <<m1, m2, m3>>, FALSE, FALSE),
    Of("CreateMany", <<m1, m1>>, FALSE, FALSE), Of("CreateMany", <<m1, Nil>>, TRUE, FALSE),
    Of("CreateMany", <<>>, TRUE, FALSE), Of("Create", <<m1>>, TRUE, FALSE), Of("Save", <<m1>>, TRUE, FALSE),
    Of("Save", <<m2>>, TRUE, FALSE) }

TheCallbacks ==
  { <<Of("CreateMany", <<m1, m2>>, TRUE, TRUE)>>,
    <<Of("Create", <<m1>>, TRUE, TRUE), Of("Save", <<m2>>, TRUE, TRUE)>>,
    <<Of("Save", <<m1>>, TRUE, FALSE), Of("Create", <<m2>>, TRUE, TRUE)>> }
=============================================================================
