----------------------------- MODULE MCOdmQuery -----------------------------
(***************************************************************************)
(* Queries over six documents, live and trashed, whose field n is a        *)
(* number, null or absent; relations over two parents and two related      *)
(* documents whose keys are one value, two, one twice, null or absent.     *)
(***************************************************************************)
EXTENDS OdmQueries

Doc(n, deleted) == [n |-> n, deleted_at |-> deleted, updated_at |-> Earlier]
TheDocs == <<Doc(1, Absent), Doc(1, Earlier), Doc(2, Absent), Doc(2, Earlier),
             Doc(Null, Absent), Doc(Absent, Earlier)>>
TheConditions ==
  { {d \in Shapes : d.n \in Numbers /\ d.n >= 2},
    {d \in Shapes : d.n \in {1, Null}} }
TheStaged == { <<"$set", "n", 2>>, <<"$inc", "n", 1>>, <<"$set", "updated_at", 0>> }
TheOrders == { <<"n", -1>> }
TheCounts == {-1, 1}

TheKeys == {1, 2, NullKey}
Stored(ref, trashed) == [_id |-> <<>>, ref |-> ref, trashed |-> trashed]
TheRefs == {Missing, <<>>, <<NullKey>>, <<1>>, <<1, 2>>, <<2, 2>>}
ThePages == {<<one, two>> : one, two \in TheRefs}
TheRelated ==
  {NoDocument, Stored(<<1>>, FALSE), Stored(<<2, 1>>, FALSE), Stored(<<1, 1>>, FALSE),
   Stored(<<NullKey>>, FALSE), Stored(Missing, FALSE), Stored(<<1>>, TRUE)}
TheRewritten == {NoDocument, Stored(<<1>>, TRUE), Stored(<<2>>, FALSE)}

Relates(kind, parentKey, relatedKey, nested) ==
  [kind |-> kind, collection |-> "related", parentKey |-> parentKey,
   relatedKey |-> relatedKey, nested |-> nested]
HasOne == Relates("one", "_id", "ref", <<>>)
BelongsTo == Relates("one", "ref", "_id", <<>>)
BelongsToMany == Relates("many", "ref", "_id", <<>>)
ManyToMany == Relates("many", "ref", "ref", <<>>)
HasMany == Relates("many", "_id", "ref", <<BelongsTo>>)
TheRelations == {HasOne, BelongsTo, BelongsToMany, ManyToMany, HasMany}
TheWiths == {<<HasOne, BelongsTo>>, <<BelongsToMany>>, <<ManyToMany>>, <<HasMany>>}
=============================================================================
