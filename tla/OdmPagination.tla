---------------------------- MODULE OdmPagination ----------------------------
(***************************************************************************)
(* CursorPaginate (src/odm/pagination.go, cursor.go): one caller pages     *)
(* through a query by handing each page's cursor back, while other         *)
(* programs insert, delete and rewrite the documents the query matches.    *)
(*                                                                         *)
(* A page is one Find with the filter "after the cursor", the query's sort *)
(* and a limit of one more than asked for.  Documents are what the query's *)
(* own filter matches; only their sort fields are kept.                    *)
(***************************************************************************)
EXTENDS Integers, Sequences, FiniteSets

CONSTANTS
  Ids,         \* the _ids, which are the last tie-breaker: integers
  SortFields,  \* the fields a query may sort on, besides _id
  IdKey,       \* "_id"
  SortValues,  \* what a sort field may hold: integers, Null or Missing
  Null, Missing,
  NoDoc, NoCursor,
  Queries,     \* the sorts of the queries that are paged
  MaxLimit,    \* the largest page size
  MaxWrites    \* bound on what other programs do

Asc == 1
Desc == -1

ASSUME IdsAssumption == Ids \subseteq Int /\ IsFiniteSet(Ids)
ASSUME ValuesAssumption ==
  SortValues \subseteq Int \cup {Null, Missing} /\ Null \notin Int /\ Missing \notin Int
ASSUME KeysAssumption == IdKey \notin SortFields
ASSUME BoundsAssumption == MaxLimit \in Nat \ {0} /\ MaxWrites \in Nat
ASSUME NoDocAssumption == NoDoc \notin [SortFields -> SortValues]

\* A cursor holds the sort it was minted under and one key for each field.
Key == Int \cup {Null}
SortSpecs == [key : SortFields \cup {IdKey}, dir : {Asc, Desc}]
ASSUME QueriesAssumption == Queries \subseteq Seq(SortSpecs)
ASSUME NoCursorAssumption == NoCursor \notin [sorts : Seq(SortSpecs), keys : Seq(Key)]

VARIABLES
  docs,     \* the documents the query matches: _id -> sort fields, or NoDoc
  writes,   \* how often other programs have written
  status,   \* of the paging: "start", "more" or "done"
  cursor,   \* NextCursor of the last page: its sort and the keys of its last
            \* document; NoCursor before the first page and after the last
  order,    \* history: the sort the paging was started with
  times,    \* history: how often each document has been returned
  stable,   \* history: the documents that were there at the first page and
            \* have been neither deleted nor rewritten since
  quiet     \* history: nothing has been written since the last page

paging == <<status, cursor>>
history == <<order, times, stable, quiet>>
vars == <<docs, writes, paging, history>>

Documents == {i \in Ids : docs[i] # NoDoc}

-----------------------------------------------------------------------------
(* What MongoDB makes of sort keys.  A missing field sorts as null, and    *)
(* null before every number; but $gt and $lt compare within one type only, *)
(* and no null is above or below another.                                  *)

SortsBefore(a, b) == b # Null /\ (a # Null => a < b)
GreaterThan(a, b) == a # Null /\ b # Null /\ a > b
LessThan(a, b) == a # Null /\ b # Null /\ a < b

\* A document's sort keys, as the server compares them.
KeysOf(sorts, i) ==
  [n \in 1 .. Len(sorts) |->
     IF sorts[n].key = IdKey THEN i
     ELSE IF docs[i][sorts[n].key] = Missing THEN Null
     ELSE docs[i][sorts[n].key]]

\* The order the server returns documents in.
Precedes(sorts, a, b) ==
  \E n \in 1 .. Len(sorts) :
    /\ \A m \in 1 .. n - 1 : a[m] = b[m]
    /\ IF sorts[n].dir = Asc THEN SortsBefore(a[n], b[n]) ELSE SortsBefore(b[n], a[n])

Smaller(m, n) == IF m < n THEN m ELSE n

\* The sets that a sort and a limit of n select from the documents S: n of
\* them, or all, that precede the others.
First(sorts, S, n) ==
  {P \in SUBSET S :
     /\ Cardinality(P) = Smaller(n, Cardinality(S))
     /\ \A i \in P, j \in S \ P : Precedes(sorts, KeysOf(sorts, i), KeysOf(sorts, j))}

-----------------------------------------------------------------------------
\* paginationSorts: _id is appended unless the sort already has it, in the
\* direction of the last field.
PaginationSorts(s) ==
  IF \E n \in 1 .. Len(s) : s[n].key = IdKey THEN s
  ELSE Append(s, [key |-> IdKey, dir |-> IF s = <<>> THEN Asc ELSE s[Len(s)].dir])

\* Mutation of Keyset: no equality prefixes.
KeysetOfFirst(sorts, keys, k) ==
  IF sorts[1].dir = Desc THEN LessThan(k[1], keys[1]) ELSE GreaterThan(k[1], keys[1])

\* keysetFilter: a document with the keys k is after the cursor's.
Keyset(sorts, keys, k) ==
  \E n \in 1 .. Len(sorts) :
    /\ \A m \in 1 .. n - 1 : k[m] = keys[m]
    /\ IF sorts[n].dir = Desc THEN LessThan(k[n], keys[n]) ELSE GreaterThan(k[n], keys[n])

\* seekQuery: what there is to fetch.
Seek(sorts) ==
  {i \in Documents : cursor # NoCursor => Keyset(sorts, cursor.keys, KeysOf(sorts, i))}

\* Mutation of HasMore: a full page is taken to mean there is more.
HasMoreWhenFull(fetched, page, limit) == Cardinality(page) = limit

\* One document more than the page holds is fetched: its only job is to exist.
HasMore(fetched, page, limit) == fetched # page

\* Mutation of CursorFits: sameSort compares the fields and not the directions.
CursorFitsFields(sorts) ==
  cursor # NoCursor => /\ Len(cursor.sorts) = Len(sorts)
                       /\ \A n \in 1 .. Len(sorts) : cursor.sorts[n].key = sorts[n].key

\* decodeCursor and sameSort: the cursor was minted under this sort.
CursorFits(sorts) == cursor # NoCursor => cursor.sorts = sorts

\* cursorKeys: the document carries every field the sort uses.
HasSortFields(sorts, i) ==
  \A n \in 1 .. Len(sorts) : sorts[n].key # IdKey => docs[i][sorts[n].key] # Missing

Return(page) ==
  times' = [i \in Ids |-> (IF status = "start" THEN 0 ELSE times[i])
                          + (IF i \in page THEN 1 ELSE 0)]

\* The history a page leaves, the first one opening it.
Note(sorts, page) ==
  /\ Return(page)
  /\ order' = IF status = "start" THEN sorts ELSE order
  /\ stable' = IF status = "start" THEN Documents ELSE stable
  /\ quiet' = TRUE

\* Mutation of Finish: the last page keeps the cursor it was sought with.
FinishWithCursor == status' = "done" /\ UNCHANGED cursor

\* finishPage with no document beyond the page: no cursor.
Finish == status' = "done" /\ cursor' = NoCursor

\* finishPage with more to come: the cursor is minted from the last document.
Continue(sorts, last) ==
  status' = "more" /\ cursor' = [sorts |-> sorts, keys |-> KeysOf(sorts, last)]

LastPage ==
  /\ status # "done"
  /\ \E s \in Queries, limit \in 1 .. MaxLimit :
       LET sorts == PaginationSorts(s) IN
       /\ CursorFits(sorts)
       /\ \E fetched \in First(sorts, Seek(sorts), limit + 1) :
          \E page \in First(sorts, fetched, limit) :
            /\ ~HasMore(fetched, page, limit)
            /\ Note(sorts, page)
  /\ Finish
  /\ UNCHANGED <<docs, writes>>

\* Without every sort field on the last document the call fails instead, and
\* changes nothing.
Page ==
  /\ status # "done"
  /\ \E s \in Queries, limit \in 1 .. MaxLimit :
       LET sorts == PaginationSorts(s) IN
       /\ CursorFits(sorts)
       /\ \E fetched \in First(sorts, Seek(sorts), limit + 1) :
          \E page \in First(sorts, fetched, limit) :
            /\ HasMore(fetched, page, limit)
            /\ Note(sorts, page)
            /\ \E last \in page :
                 /\ \A i \in page \ {last} :
                      Precedes(sorts, KeysOf(sorts, i), KeysOf(sorts, last))
                 /\ HasSortFields(sorts, last)
                 /\ Continue(sorts, last)
  /\ UNCHANGED <<docs, writes>>

-----------------------------------------------------------------------------
(* Other programs.                                                         *)

Write(i, doc) ==
  /\ writes < MaxWrites
  /\ writes' = writes + 1
  /\ docs' = [docs EXCEPT ![i] = doc]
  /\ stable' = stable \ {i}
  /\ quiet' = FALSE
  /\ UNCHANGED <<paging, order, times>>

Insert(i) == docs[i] = NoDoc /\ \E doc \in [SortFields -> SortValues] : Write(i, doc)
Rewrite(i) ==
  docs[i] # NoDoc /\ \E doc \in [SortFields -> SortValues] : doc # docs[i] /\ Write(i, doc)
Delete(i) == docs[i] # NoDoc /\ Write(i, NoDoc)

Init ==
  /\ docs \in [Ids -> [SortFields -> SortValues] \cup {NoDoc}]
  /\ writes = 0
  /\ status = "start"
  /\ cursor = NoCursor
  /\ order = <<>>
  /\ times = [i \in Ids |-> 0]
  /\ stable = {}
  /\ quiet = FALSE

Next ==
  \/ Page
  \/ LastPage
  \/ \E i \in Ids : Insert(i) \/ Rewrite(i) \/ Delete(i)

Spec == Init /\ [][Next]_vars

-----------------------------------------------------------------------------
Sorts == {PaginationSorts(s) : s \in Queries}

TypeOK ==
  /\ docs \in [Ids -> [SortFields -> SortValues] \cup {NoDoc}]
  /\ writes \in 0 .. MaxWrites
  /\ status \in {"start", "more", "done"}
  /\ status = "more" <=> cursor # NoCursor
  /\ cursor # NoCursor => /\ cursor.sorts \in Sorts
                          /\ cursor.keys \in [1 .. Len(cursor.sorts) -> Key]
  /\ times \in [Ids -> Nat]
  /\ stable \subseteq Documents

\* "A cursor over them would skip or repeat rows": no document that stays put
\* while the caller pages is returned twice, and once the caller has been
\* told there is no more, every one of them has been returned.
ExactlyOnce ==
  /\ \A i \in stable : times[i] <= 1
  /\ status = "done" => \A i \in stable : times[i] = 1

\* Pages continue one another: the documents that stayed put are returned in
\* the query's order, none before one that sorts ahead of it.
InOrder ==
  \A i, j \in stable :
    times[j] > 0 /\ Precedes(order, KeysOf(order, i), KeysOf(order, j)) => times[i] > 0

\* "Hand page.NextCursor back as Cursor for the page after, while
\* page.HasMore says there is one": as long as nothing is written in between,
\* the next page is not empty.
HasMoreHonest ==
  status = "more" /\ quiet => Seek(cursor.sorts) # {}
=============================================================================
