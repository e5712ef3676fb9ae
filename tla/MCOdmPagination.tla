--------------------------- MODULE MCOdmPagination ---------------------------
(* Small instances of OdmPagination.                                       *)
EXTENDS OdmPagination

CONSTANTS createdAt, rank, idKey

By(key, dir) == [key |-> key, dir |-> dir]

MCSortValues == {1, 2}
\* By one field either way, by two in different directions, unsorted, and by
\* _id ahead of another field.
MCQueries ==
  { <<By(createdAt, Desc)>>,
    <<By(createdAt, Asc)>>,
    <<By(createdAt, Asc), By(rank, Desc)>>,
    <<>>,
    <<By(idKey, Desc), By(rank, Asc)>> }
MCOneQuery == { <<By(createdAt, Asc)>> }
NullableValues == {1, Null, Missing}
=============================================================================
