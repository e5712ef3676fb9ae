---------------------------- MODULE OdmRelations ----------------------------
(***************************************************************************)
(* Eager loading (src/odm/relation.go, has_one.go, has_many.go,            *)
(* belongs_to.go, belongs_to_many.go): Get has read a page of parents and  *)
(* now runs one query per relation, and per relation of that relation,     *)
(* while other programs write the related collections.  Keys are read from *)
(* the bytes of the documents; the related documents are indexed by theirs *)
(* and copied onto the parents.                                            *)
(***************************************************************************)
EXTENDS Integers, Sequences, FiniteSets, SequencesExt

CONSTANTS
  Collections,    \* the related collections
  RelatedIds,     \* the _ids in them
  Keys,           \* what documents are related by: _ids and other values
  NullKey,        \* the key null
  Missing,        \* a field that is not there
  NoDocument,
  ParentPages,    \* the pages Get reads: what the fields "ref" of the parents hold
  RelatedDocs,    \* what a related document may be at the start
  Rewritten,      \* what a writer may make of it
  Relations,      \* the relations models declare
  Withs,          \* those that queries load
  MaxWrites       \* bound on the writes beside the load

\* A field holds the sequence of its keys: one for a scalar, one per element
\* for an array.  A relation reads parentKey and matches relatedKey.
Values == {Missing} \cup Seq(Keys)
Documents == [_id : Values, ref : Values, trashed : BOOLEAN]

ASSUME DocumentsAssumption ==
  /\ RelatedIds \subseteq Nat \cap Keys /\ IsFiniteSet(RelatedIds) /\ MaxWrites \in Nat
  /\ \A page \in ParentPages : page \in Seq(Values) /\ DOMAIN page \subseteq Keys
  /\ RelatedDocs \cup Rewritten \subseteq Documents \cup {NoDocument}
ASSUME RelationsAssumption ==
  /\ \A r \in Relations :
       /\ r.collection \in Collections /\ r.kind \in {"one", "many"}
       /\ r.parentKey \in {"_id", "ref"} /\ r.relatedKey \in {"_id", "ref"}
       /\ r.nested \in Seq(Relations)
  /\ Withs \subseteq Seq(Relations)

VARIABLES
  related,   \* collection -> _id -> document
  stack,     \* the loads under way, outermost first: the models of one level
             \* and the relations still to be loaded onto them
  writes     \* how many writes happened beside them

relationVars == <<related, stack, writes>>

-----------------------------------------------------------------------------
\* fieldKeys: a document without the field contributes no key.
fieldKeys(raw, field) == IF raw[field] = Missing THEN <<>> ELSE raw[field]
KeysOf(raw, field) == Range(fieldKeys(raw, field))

\* documentKeys: the distinct values to match against.
documentKeys(models, field) == UNION {KeysOf(models[i].raw, field) : i \in DOMAIN models}

\* MongoDB's $in: null also selects documents without the field.
In(raw, field, values) ==
  \/ KeysOf(raw, field) \cap values # {}
  \/ raw[field] = Missing /\ NullKey \in values

\* Numbers in their order.
InOrder(S) ==
  CHOOSE s \in [1 .. Cardinality(S) -> S] : \A i, j \in DOMAIN s : i < j => s[i] < s[j]

Model(raw) == [raw |-> raw, loaded |-> <<>>]

\* relatedDocuments: one query, which runs under the related model's scope.
Visible(c, i) == related[c][i] # NoDocument /\ ~related[c][i].trashed
relatedDocuments(c, field, values) ==
  LET found == {i \in RelatedIds : Visible(c, i) /\ In(related[c][i], field, values)}
  IN [k \in 1 .. Cardinality(found) |-> Model(related[c][InOrder(found)[k]])]

\* groupByKey: key -> the places of the documents that hold it, as often as
\* they hold it.
\* Mutation of Places: an array is indexed under its first element alone.
FirstPlace(raw, field, key) ==
  LET keys == fieldKeys(raw, field) IN IF keys # <<>> /\ keys[1] = key THEN {1} ELSE {}
Places(raw, field, key) ==
  LET keys == fieldKeys(raw, field) IN {j \in DOMAIN keys : keys[j] = key}
groupByKey(models, field) ==
  [key \in documentKeys(models, field) |->
     FlattenSeq([i \in DOMAIN models |->
       [j \in 1 .. Cardinality(Places(models[i].raw, field, key)) |-> i]])]

\* matchesFor: without repeats and in the order they came in; but the group
\* of a single key is taken as it is.
Group(grouped, key) == IF key \in DOMAIN grouped THEN grouped[key] ELSE <<>>
matchesFor(keys, grouped) ==
  IF Len(keys) = 1 THEN Group(grouped, keys[1])
  ELSE InOrder(UNION {Range(Group(grouped, keys[k])) : k \in DOMAIN keys})

-----------------------------------------------------------------------------
Top == stack[Len(stack)]
\* The relation being loaded; it says which side holds which key.
Relation == Head(Top.todo)
Below == SubSeq(stack, 1, Len(stack) - 1)
Loading == stack # <<>>

\* attachFirst, attachNil, attachEmpty and the loop of loadMany: what each
\* model of a level gets.  A relation of many copies the related models, one
\* of one points at them; nothing changes them any more.
Kept(relation, places) ==
  IF relation.kind = "one" /\ places # <<>> THEN <<places[1]>> ELSE places
Given(model, relation, children) ==
  LET matches == matchesFor(fieldKeys(model.raw, relation.parentKey),
                            groupByKey(children, relation.relatedKey))
      places == Kept(relation, matches)
  IN [k \in DOMAIN places |-> children[places[k]]]
Attached(models, relation, children) ==
  [i \in DOMAIN models |->
     [models[i] EXCEPT !.loaded = Append(@, Given(models[i], relation, children))]]

Done(frame, children) ==
  [frame EXCEPT !.todo = Tail(@), !.models = Attached(@, Head(frame.todo), children)]

\* No parent has a key: nothing is asked of the database.
LoadNothing ==
  /\ Loading /\ Top.todo # <<>>
  /\ documentKeys(Top.models, Relation.parentKey) = {}
  /\ stack' = Append(Below, Done(Top, <<>>))
  /\ UNCHANGED <<related, writes>>

\* The query of one relation.  Its own relations are loaded onto what it
\* found before that is copied onto the parents.
Load ==
  /\ Loading /\ Top.todo # <<>>
  /\ LET values == documentKeys(Top.models, Relation.parentKey) IN
     /\ values # {}
     /\ stack' = Append(stack,
          [todo |-> Relation.nested, seen |-> related[Relation.collection],
           models |-> relatedDocuments(Relation.collection, Relation.relatedKey, values)])
  /\ UNCHANGED <<related, writes>>

Attach ==
  /\ Len(stack) > 1 /\ Top.todo = <<>>
  /\ stack' = Append(SubSeq(stack, 1, Len(stack) - 2),
                     Done(stack[Len(stack) - 1], Top.models))
  /\ UNCHANGED <<related, writes>>

\* A failed query fails the whole Get.
LoadFails ==
  /\ Loading /\ Top.todo # <<>>
  /\ stack' = <<>>
  /\ UNCHANGED <<related, writes>>

Write ==
  /\ Loading /\ writes < MaxWrites
  /\ writes' = writes + 1
  /\ \E c \in Collections, i \in RelatedIds, d \in Rewritten :
       related' = [related EXCEPT ![c][i] = IF d = NoDocument THEN d ELSE [d EXCEPT !["_id"] = <<i>>]]
  /\ UNCHANGED stack

-----------------------------------------------------------------------------
Parent(i, ref) == Model([_id |-> <<i>>, ref |-> ref, trashed |-> FALSE])
RelationsInit ==
  /\ \E docs \in [Collections -> [RelatedIds -> RelatedDocs]] :
       related = [c \in Collections |-> [i \in RelatedIds |->
         IF docs[c][i] = NoDocument THEN NoDocument
         ELSE [docs[c][i] EXCEPT !["_id"] = <<i>>]]]
  /\ \E with \in Withs, page \in ParentPages :
       stack = <<[todo |-> with, seen |-> <<>>,
                  models |-> [k \in DOMAIN page |-> Parent(k, page[k])]]>>
  /\ writes = 0

RelationsUnused ==
  /\ related = [c \in Collections |-> [i \in RelatedIds |-> NoDocument]]
  /\ stack = <<>> /\ writes = 0

RelationsNext == LoadNothing \/ Load \/ Attach \/ LoadFails \/ Write
RelationsSpec == RelationsInit /\ [][RelationsNext]_relationVars

-----------------------------------------------------------------------------
\* The documents a parent should be given: those that were there and visible
\* at the one query of the relation and share a key with it.
Joined(parent, relation, seen) ==
  {i \in DOMAIN seen : /\ seen[i] # NoDocument /\ ~seen[i].trashed
                       /\ KeysOf(seen[i], relation.relatedKey)
                            \cap KeysOf(parent.raw, relation.parentKey) # {}}
Raws(models) == [k \in DOMAIN models |-> models[k].raw]

\* One key of a parent, held twice by an array: the one case in which a
\* related document comes twice (relation.go:182-189).
Repeats(parent, relation, seen) ==
  LET keys == fieldKeys(parent.raw, relation.parentKey) IN
  Len(keys) = 1 /\ \E i \in DOMAIN seen : seen[i] # NoDocument /\
                     Cardinality(Places(seen[i], relation.relatedKey, keys[1])) > 1

IsJoin(parent, relation, seen, got) ==
  LET joined == Joined(parent, relation, seen)
      wanted == InOrder(joined)
      kept == IF relation.kind = "one" /\ wanted # <<>> THEN <<wanted[1]>> ELSE wanted
  IN /\ \/ Raws(got) = [k \in DOMAIN kept |-> seen[kept[k]]]
        \/ /\ Repeats(parent, relation, seen) /\ relation.kind = "many"
           /\ Range(Raws(got)) = {seen[k] : k \in joined}
     /\ \A k \in DOMAIN got : Len(got[k].loaded) = Len(relation.nested)

\* Every parent gets exactly what a join of it with the related collection,
\* as it was at the query, selects: no trash, no other parent's documents,
\* whatever the arrays on either side and whatever is written beside the
\* load; each with its own relations loaded (relation.go:67-246,
\* has_many.go:76-112, has_one.go:48-85).
RelationsAreJoins ==
  [][Len(stack) > 1 /\ Len(stack') = Len(stack) - 1 =>
       LET relation == Head(stack[Len(stack) - 1].todo)
           parents == stack'[Len(stack')].models
       IN \A i \in DOMAIN parents :
            IsJoin(parents[i], relation, Top.seen,
                   parents[i].loaded[Len(parents[i].loaded)])]_relationVars
=============================================================================
