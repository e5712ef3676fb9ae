------------------------- MODULE OdmPaginationProofs -------------------------
(***************************************************************************)
(* Proofs about OdmPagination, for any documents, sorts, page sizes and    *)
(* concurrent writes, when every sort field of every document holds a      *)
(* number: the keyset filter is then exactly the order the server sorts    *)
(* by, and paging returns what stays put exactly once and in order.        *)
(***************************************************************************)
EXTENDS OdmPagination, FiniteSetTheorems, TLAPS

Numbers == SortValues \subseteq Int

SortSeqs == Seq(SortSpecs)
Keys(sorts) == [1 .. Len(sorts) -> Int]

-----------------------------------------------------------------------------
(* Sort keys and their order.                                              *)

\* Whatever the query sorts by, the pagination sorts by _id as well.
LEMMA SortsType ==
  ASSUME NEW s \in Queries
  PROVE  /\ PaginationSorts(s) \in SortSeqs
         /\ \E n \in 1 .. Len(PaginationSorts(s)) : PaginationSorts(s)[n].key = IdKey
<1>1. s \in SortSeqs
  BY QueriesAssumption DEF SortSeqs, SortSpecs
<1>2. CASE \E n \in 1 .. Len(s) : s[n].key = IdKey
  <2>1. PaginationSorts(s) = s
    BY <1>2 DEF PaginationSorts
  <2> QED
    BY <1>1, <1>2, <2>1
<1>3. CASE ~\E n \in 1 .. Len(s) : s[n].key = IdKey
  <2> DEFINE e == [key |-> IdKey, dir |-> IF s = <<>> THEN Asc ELSE s[Len(s)].dir]
  <2>1. PaginationSorts(s) = Append(s, e)
    BY <1>3 DEF PaginationSorts
  <2>2. e \in SortSpecs
    <3>1. s # <<>> => s[Len(s)] \in SortSpecs
      BY <1>1 DEF SortSeqs
    <3>2. s # <<>> => s[Len(s)].dir \in {Asc, Desc}
      BY <3>1 DEF SortSpecs
    <3> QED
      BY <3>2 DEF SortSpecs
  <2>3. Append(s, e) \in SortSeqs /\ Len(Append(s, e)) = Len(s) + 1
        /\ Append(s, e)[Len(s) + 1] = e
    BY <1>1, <2>2 DEF SortSeqs
  <2>4. Len(s) + 1 \in 1 .. Len(s) + 1
    BY <1>1 DEF SortSeqs
  <2> QED
    BY <2>1, <2>3, <2>4
<1> QED
  BY <1>2, <1>3

\* A document's keys can be kept in a cursor, and are integers if its sort
\* fields are.
LEMMA CursorKeysType ==
  ASSUME TypeOK, NEW sorts \in SortSeqs, NEW i \in Documents
  PROVE  KeysOf(sorts, i) \in [1 .. Len(sorts) -> Key]
<1>1. docs[i] \in [SortFields -> SortValues] /\ i \in Int
  BY IdsAssumption DEF Documents, TypeOK
<1>2. ASSUME NEW n \in 1 .. Len(sorts), sorts[n].key # IdKey
      PROVE  docs[i][sorts[n].key] \in Int \cup {Null, Missing}
  <2>1. sorts[n] \in SortSpecs
    BY DEF SortSeqs
  <2>2. sorts[n].key \in SortFields
    BY <1>2, <2>1 DEF SortSpecs
  <2> QED
    BY <1>1, <2>2, ValuesAssumption
<1>3. \A n \in 1 .. Len(sorts) :
        (IF sorts[n].key = IdKey THEN i
         ELSE IF docs[i][sorts[n].key] = Missing THEN Null
         ELSE docs[i][sorts[n].key]) \in Key
  BY <1>1, <1>2 DEF Key
<1> QED
  BY <1>3 DEF KeysOf

LEMMA KeysType ==
  ASSUME Numbers, TypeOK, NEW sorts \in SortSeqs, NEW i \in Documents
  PROVE  KeysOf(sorts, i) \in Keys(sorts)
<1>1. docs[i] \in [SortFields -> SortValues] /\ i \in Int
  BY IdsAssumption DEF Documents, TypeOK
<1>2. ASSUME NEW n \in 1 .. Len(sorts)
      PROVE  /\ sorts[n].key \in SortFields \cup {IdKey}
             /\ sorts[n].key # IdKey => docs[i][sorts[n].key] \in Int
                                        /\ docs[i][sorts[n].key] # Missing
  <2>1. sorts[n] \in SortSpecs
    BY DEF SortSeqs
  <2>2. sorts[n].key \in SortFields \cup {IdKey}
    BY <2>1 DEF SortSpecs
  <2>3. ASSUME sorts[n].key # IdKey PROVE docs[i][sorts[n].key] \in SortValues
    BY <1>1, <2>2, <2>3
  <2> QED
    BY <2>2, <2>3, ValuesAssumption DEF Numbers
<1>3. \A n \in 1 .. Len(sorts) :
        (IF sorts[n].key = IdKey THEN i
         ELSE IF docs[i][sorts[n].key] = Missing THEN Null
         ELSE docs[i][sorts[n].key]) \in Int
  BY <1>1, <1>2
<1> QED
  BY <1>3 DEF KeysOf, Keys

\* On numbers, the keyset filter says what the server's order says.
LEMMA KeysetIsOrder ==
  ASSUME NEW sorts \in SortSeqs, NEW a \in Keys(sorts), NEW b \in Keys(sorts)
  PROVE  Keyset(sorts, a, b) <=> Precedes(sorts, a, b)
<1>1. ASSUME NEW n \in 1 .. Len(sorts)
      PROVE  /\ a[n] \in Int /\ b[n] \in Int /\ sorts[n].dir \in {Asc, Desc}
             /\ a[n] # Null /\ b[n] # Null
  <2>1. sorts[n] \in SortSpecs
    BY DEF SortSeqs
  <2>2. sorts[n].dir \in {Asc, Desc}
    BY <2>1 DEF SortSpecs
  <2>3. a[n] \in Int /\ b[n] \in Int
    BY DEF Keys
  <2> QED
    BY <2>2, <2>3, ValuesAssumption
<1>2. ASSUME NEW n \in 1 .. Len(sorts)
      PROVE  (IF sorts[n].dir = Desc THEN LessThan(b[n], a[n]) ELSE GreaterThan(b[n], a[n]))
             <=> (IF sorts[n].dir = Asc THEN SortsBefore(a[n], b[n])
                  ELSE SortsBefore(b[n], a[n]))
  BY <1>1 DEF LessThan, GreaterThan, SortsBefore, Asc, Desc
<1>3. ASSUME NEW n \in 1 .. Len(sorts)
      PROVE  (\A m \in 1 .. n - 1 : b[m] = a[m]) <=> (\A m \in 1 .. n - 1 : a[m] = b[m])
  OBVIOUS
<1> QED
  BY <1>2, <1>3 DEF Keyset, Precedes

\* Comparing one pair of keys, in the direction of one sort field.
Before(dir, x, y) == IF dir = Asc THEN SortsBefore(x, y) ELSE SortsBefore(y, x)

LEMMA PrecedesIrreflexive ==
  ASSUME NEW sorts \in SortSeqs, NEW a \in Keys(sorts)
  PROVE  ~Precedes(sorts, a, a)
<1>1. ASSUME NEW n \in 1 .. Len(sorts) PROVE ~SortsBefore(a[n], a[n])
  BY ValuesAssumption DEF SortsBefore, Keys
<1> QED
  BY <1>1 DEF Precedes

LEMMA PrecedesTransitive ==
  ASSUME NEW sorts \in SortSeqs, NEW a \in Keys(sorts), NEW b \in Keys(sorts),
         NEW c \in Keys(sorts), Precedes(sorts, a, b), Precedes(sorts, b, c)
  PROVE  Precedes(sorts, a, c)
<1> DEFINE N == 1 .. Len(sorts)
           Lex(x, y, n) == /\ \A m \in 1 .. n - 1 : x[m] = y[m]
                           /\ Before(sorts[n].dir, x[n], y[n])
<1>1. PICK p \in N : Lex(a, b, p)
  BY DEF Precedes, Before
<1>2. PICK q \in N : Lex(b, c, q)
  BY DEF Precedes, Before
<1>3. \A n \in N : a[n] \in Int /\ b[n] \in Int /\ c[n] \in Int
  BY DEF Keys
<1>4. Len(sorts) \in Nat /\ p \in Int /\ q \in Int
  BY DEF SortSeqs
<1>5. CASE p < q
  <2>1. \A m \in 1 .. p - 1 : a[m] = c[m]
    BY <1>1, <1>2, <1>4, <1>5
  <2>2. b[p] = c[p]
    BY <1>2, <1>4, <1>5
  <2> QED
    BY <1>1, <2>1, <2>2 DEF Precedes, Before
<1>6. CASE q < p
  <2>1. \A m \in 1 .. q - 1 : a[m] = c[m]
    BY <1>1, <1>2, <1>4, <1>6
  <2>2. a[q] = b[q]
    BY <1>1, <1>4, <1>6
  <2> QED
    BY <1>2, <2>1, <2>2 DEF Precedes, Before
<1>7. CASE p = q
  <2>1. \A m \in 1 .. p - 1 : a[m] = c[m]
    BY <1>1, <1>2, <1>7
  <2>2. Before(sorts[p].dir, a[p], c[p])
    BY <1>1, <1>2, <1>3, <1>7, ValuesAssumption DEF Before, SortsBefore
  <2> QED
    BY <2>1, <2>2 DEF Precedes, Before
<1> QED
  BY <1>4, <1>5, <1>6, <1>7

-----------------------------------------------------------------------------
(* What a sort and a limit select.                                         *)

LEMMA SeekFinite == ASSUME NEW sorts PROVE IsFiniteSet(Seek(sorts))
<1>1. Seek(sorts) \in SUBSET Ids
  BY DEF Seek, Documents
<1> QED
  BY <1>1, IdsAssumption, FS_Subset

\* A page that leaves no document over has everything there was to fetch.
LEMMA NothingLeft ==
  ASSUME NEW sorts, NEW S, IsFiniteSet(S), NEW limit \in Nat,
         NEW fetched \in First(sorts, S, limit + 1),
         NEW page \in First(sorts, fetched, limit), ~HasMore(fetched, page, limit)
  PROVE  page = S
<1>1. fetched \in SUBSET S /\ page = fetched
  BY DEF First, HasMore
<1>2. IsFiniteSet(fetched) /\ Cardinality(fetched) <= Cardinality(S)
      /\ (Cardinality(S) = Cardinality(fetched) => S = fetched)
  BY <1>1, FS_Subset
<1>3. Cardinality(S) \in Nat /\ Cardinality(fetched) \in Nat
  BY <1>2, FS_CardinalityType
<1>4. Cardinality(fetched) = Smaller(limit + 1, Cardinality(S))
  BY DEF First
<1>5. Cardinality(fetched) = Smaller(limit, Cardinality(fetched))
  BY <1>1 DEF First
<1>6. Cardinality(fetched) = Cardinality(S)
  BY <1>3, <1>4, <1>5 DEF Smaller
<1> QED
  BY <1>1, <1>2, <1>6

\* The documents of a page are those of the fetched ones, and of all there
\* were to fetch, that its last document does not precede.
LEMMA PageSplits ==
  ASSUME Numbers, TypeOK, NEW sorts \in SortSeqs, NEW S \in SUBSET Documents,
         NEW limit, NEW fetched \in First(sorts, S, limit + 1),
         NEW page \in First(sorts, fetched, limit), NEW last \in page,
         \A i \in page \ {last} : Precedes(sorts, KeysOf(sorts, i), KeysOf(sorts, last))
  PROVE  \A i \in S : i \in page <=> ~Precedes(sorts, KeysOf(sorts, last), KeysOf(sorts, i))
<1>1. page \subseteq fetched /\ fetched \subseteq S
  BY DEF First
<1>2. \A i \in S : KeysOf(sorts, i) \in Keys(sorts)
  BY KeysType
<1>3. ASSUME NEW i \in page
      PROVE  ~Precedes(sorts, KeysOf(sorts, last), KeysOf(sorts, i))
  <2>1. KeysOf(sorts, last) \in Keys(sorts) /\ KeysOf(sorts, i) \in Keys(sorts)
    BY <1>1, <1>2
  <2>2. ~Precedes(sorts, KeysOf(sorts, last), KeysOf(sorts, last))
    BY <2>1, PrecedesIrreflexive
  <2> QED
    BY <2>1, <2>2, PrecedesTransitive
<1>4. ASSUME NEW i \in S \ page
      PROVE  Precedes(sorts, KeysOf(sorts, last), KeysOf(sorts, i))
  <2>1. CASE i \in fetched
    BY <2>1 DEF First
  <2>2. CASE i \notin fetched
    BY <1>1, <2>2 DEF First
  <2> QED
    BY <2>1, <2>2
<1> QED
  BY <1>3, <1>4

-----------------------------------------------------------------------------
(* Types.                                                                  *)

LEMMA TimesType ==
  ASSUME TypeOK, NEW page, Return(page)
  PROVE  times' \in [Ids -> Nat]
BY DEF TypeOK, Return

LEMMA WriteType ==
  ASSUME TypeOK, NEW i \in Ids, NEW doc \in [SortFields -> SortValues] \cup {NoDoc},
         Write(i, doc)
  PROVE  TypeOK'
<1>1. docs' \in [Ids -> [SortFields -> SortValues] \cup {NoDoc}]
  BY DEF TypeOK, Write
<1>2. writes' \in 0 .. MaxWrites
  BY BoundsAssumption DEF TypeOK, Write
<1>3. stable' \subseteq Documents'
  BY DEF TypeOK, Write, Documents
<1> QED
  BY <1>1, <1>2, <1>3 DEF TypeOK, Write, paging

LEMMA TypeInvariant ==
  /\ Init => TypeOK
  /\ TypeOK /\ [Next]_vars => TypeOK'
<1>1. Init => TypeOK
  BY BoundsAssumption DEF Init, TypeOK
<1>2. TypeOK /\ UNCHANGED vars => TypeOK'
  BY DEF TypeOK, vars, paging, history, Documents
<1>3. TypeOK /\ LastPage => TypeOK'
  <2> SUFFICES ASSUME TypeOK, LastPage PROVE TypeOK'
    OBVIOUS
  <2>1. PICK sorts, page : Note(sorts, page)
    BY DEF LastPage
  <2>2. times' \in [Ids -> Nat]
    BY <2>1, TimesType DEF Note
  <2>3. stable' \subseteq Documents'
    BY <2>1 DEF Note, LastPage, TypeOK, Documents
  <2> QED
    BY <2>2, <2>3 DEF LastPage, Finish, TypeOK
<1>4. TypeOK /\ Page => TypeOK'
  <2> SUFFICES ASSUME TypeOK, Page PROVE TypeOK'
    OBVIOUS
  <2>1. PICK s \in Queries, limit \in 1 .. MaxLimit :
          LET sorts == PaginationSorts(s) IN
          \E fetched \in First(sorts, Seek(sorts), limit + 1) :
            \E page \in First(sorts, fetched, limit) :
              /\ Note(sorts, page)
              /\ \E last \in page : Continue(sorts, last)
    BY DEF Page
  <2> DEFINE sorts == PaginationSorts(s)
  <2>2. PICK fetched \in First(sorts, Seek(sorts), limit + 1) :
          \E page \in First(sorts, fetched, limit) :
              /\ Note(sorts, page)
              /\ \E last \in page : Continue(sorts, last)
    BY <2>1
  <2>3. PICK page \in First(sorts, fetched, limit) :
              /\ Note(sorts, page)
              /\ \E last \in page : Continue(sorts, last)
    BY <2>2
  <2>4. PICK last \in page : Continue(sorts, last)
    BY <2>3
  <2>5. times' \in [Ids -> Nat]
    BY <2>3, TimesType DEF Note
  <2>6. stable' \subseteq Documents'
    BY <2>3 DEF Note, Page, TypeOK, Documents
  <2>7. sorts \in SortSeqs /\ sorts \in Sorts
    BY SortsType DEF Sorts
  <2>8. last \in Documents
    BY DEF First, Seek
  <2>9. KeysOf(sorts, last) \in [1 .. Len(sorts) -> Key]
    BY <2>7, <2>8, CursorKeysType
  <2>10. cursor' = [sorts |-> sorts, keys |-> KeysOf(sorts, last)] /\ status' = "more"
    BY <2>4 DEF Continue
  <2>11. Len(sorts) \in Nat
    BY <2>7 DEF SortSeqs
  <2>12. KeysOf(sorts, last) \in Seq(Key)
    BY <2>9, <2>11
  <2>13. cursor' # NoCursor
    BY <2>7, <2>10, <2>12, NoCursorAssumption DEF SortSeqs
  <2> HIDE DEF sorts
  <2>14. cursor'.sorts = sorts /\ cursor'.keys = KeysOf(sorts, last)
    BY <2>10
  <2> QED
    BY <2>5, <2>6, <2>7, <2>9, <2>10, <2>13, <2>14 DEF Page, TypeOK, Sorts
<1>5. ASSUME TypeOK, NEW i \in Ids, Insert(i) \/ Rewrite(i) \/ Delete(i) PROVE TypeOK'
  <2>1. PICK doc \in [SortFields -> SortValues] \cup {NoDoc} : Write(i, doc)
    BY <1>5 DEF Insert, Rewrite, Delete
  <2> QED
    BY <1>5, <2>1, WriteType
<1> QED
  BY <1>1, <1>2, <1>3, <1>4, <1>5 DEF Next

\* The types of the paging's state, for every collection and every query.
THEOREM TypeCorrect == Spec => []TypeOK
BY TypeInvariant, PTL DEF Spec

-----------------------------------------------------------------------------
(* What paging has returned so far.                                        *)

\* Of the documents that stayed put, exactly those after the cursor are still
\* to be returned.
After(i) == Precedes(order, cursor.keys, KeysOf(order, i))
Progress ==
  /\ status = "start" => stable = {}
  /\ status = "more" => /\ order = cursor.sorts
                        /\ cursor.keys \in Keys(order)
                        /\ \A i \in stable : times[i] = IF After(i) THEN 0 ELSE 1
  /\ status = "done" => \A i \in stable : times[i] = 1

\* A stable document is sought exactly if it has not been returned.
LEMMA SeekNeeded ==
  ASSUME Numbers, TypeOK, Progress, NEW sorts \in SortSeqs, CursorFits(sorts),
         status = "more"
  PROVE  /\ order = sorts
         /\ \A i \in Documents :
              i \in Seek(sorts) <=> Precedes(sorts, cursor.keys, KeysOf(sorts, i))
<1>1. cursor # NoCursor
  BY DEF TypeOK
<1>2. order = sorts /\ cursor.keys \in Keys(sorts)
  BY <1>1 DEF Progress, CursorFits
<1>3. ASSUME NEW i \in Documents
      PROVE  Keyset(sorts, cursor.keys, KeysOf(sorts, i))
             <=> Precedes(sorts, cursor.keys, KeysOf(sorts, i))
  BY <1>2, KeysType, KeysetIsOrder
<1> QED
  BY <1>1, <1>2, <1>3 DEF Seek

\* What returning a page does to the count of a stable document.
LEMMA Returned ==
  ASSUME Numbers, TypeOK, Progress, NEW sorts \in SortSeqs, CursorFits(sorts),
         status # "done", NEW page \in SUBSET Seek(sorts), Note(sorts, page),
         UNCHANGED docs
  PROVE  /\ order' = sorts
         /\ stable' \subseteq Documents
         /\ \A i \in stable' :
              /\ times'[i] = IF i \in Seek(sorts) /\ i \notin page THEN 0 ELSE 1
              /\ i \notin Seek(sorts) =>
                   /\ status = "more"
                   /\ ~Precedes(sorts, cursor.keys, KeysOf(sorts, i))
<1>1. \A i \in Ids : times'[i] = (IF status = "start" THEN 0 ELSE times[i])
                                 + (IF i \in page THEN 1 ELSE 0)
  BY DEF Note, Return
<1>2. CASE status = "start"
  <2>1. Seek(sorts) = Documents
    BY <1>2 DEF Seek, TypeOK
  <2>2. order' = sorts /\ stable' = Documents
    BY <1>2 DEF Note
  <2> QED
    BY <1>1, <1>2, <2>1, <2>2 DEF Documents
<1>3. CASE status = "more"
  <2>1. order = sorts
        /\ \A i \in Documents :
             i \in Seek(sorts) <=> Precedes(sorts, cursor.keys, KeysOf(sorts, i))
    BY <1>3, SeekNeeded
  <2>2. order' = sorts /\ stable' = stable
    BY <1>3, <2>1 DEF Note
  <2>3. \A i \in stable : i \in Documents /\ i \in Ids
    BY DEF TypeOK, Documents
  <2>4. \A i \in stable : times[i] = IF i \in Seek(sorts) THEN 0 ELSE 1
    BY <1>3, <2>1, <2>3 DEF Progress, After
  <2> QED
    BY <1>1, <1>3, <2>1, <2>2, <2>3, <2>4
<1> QED
  BY <1>2, <1>3 DEF TypeOK

LEMMA LastPageProgress ==
  ASSUME Numbers, TypeOK, Progress, LastPage
  PROVE  Progress'
<1>1. PICK s \in Queries, limit \in 1 .. MaxLimit :
        LET sorts == PaginationSorts(s) IN
        /\ CursorFits(sorts)
        /\ \E fetched \in First(sorts, Seek(sorts), limit + 1) :
           \E page \in First(sorts, fetched, limit) :
             ~HasMore(fetched, page, limit) /\ Note(sorts, page)
  BY DEF LastPage
<1> DEFINE sorts == PaginationSorts(s)
<1>2. PICK fetched \in First(sorts, Seek(sorts), limit + 1) :
           \E page \in First(sorts, fetched, limit) :
             ~HasMore(fetched, page, limit) /\ Note(sorts, page)
  BY <1>1
<1>3. PICK page \in First(sorts, fetched, limit) :
             ~HasMore(fetched, page, limit) /\ Note(sorts, page)
  BY <1>2
<1>4. sorts \in SortSeqs
  BY SortsType
<1>5. CursorFits(sorts)
  BY <1>1
<1> HIDE DEF sorts
<1>6. IsFiniteSet(Seek(sorts)) /\ limit \in Nat
  BY SeekFinite, BoundsAssumption
<1>7. page = Seek(sorts)
  BY <1>3, <1>6, NothingLeft
<1>8. \A i \in stable' : times'[i] = 1
  BY <1>3, <1>4, <1>5, <1>7, Returned DEF LastPage
<1> QED
  BY <1>8 DEF LastPage, Finish, Progress

LEMMA PageProgress ==
  ASSUME Numbers, TypeOK, Progress, Page
  PROVE  Progress'
<1>1. PICK s \in Queries, limit \in 1 .. MaxLimit :
        LET sorts == PaginationSorts(s) IN
        /\ CursorFits(sorts)
        /\ \E fetched \in First(sorts, Seek(sorts), limit + 1) :
           \E page \in First(sorts, fetched, limit) :
             /\ Note(sorts, page)
             /\ \E last \in page :
                  /\ \A i \in page \ {last} :
                       Precedes(sorts, KeysOf(sorts, i), KeysOf(sorts, last))
                  /\ Continue(sorts, last)
  BY DEF Page
<1> DEFINE sorts == PaginationSorts(s)
<1>2. PICK fetched \in First(sorts, Seek(sorts), limit + 1) :
           \E page \in First(sorts, fetched, limit) :
             /\ Note(sorts, page)
             /\ \E last \in page :
                  /\ \A i \in page \ {last} :
                       Precedes(sorts, KeysOf(sorts, i), KeysOf(sorts, last))
                  /\ Continue(sorts, last)
  BY <1>1
<1>3. PICK page \in First(sorts, fetched, limit) :
             /\ Note(sorts, page)
             /\ \E last \in page :
                  /\ \A i \in page \ {last} :
                       Precedes(sorts, KeysOf(sorts, i), KeysOf(sorts, last))
                  /\ Continue(sorts, last)
  BY <1>2
<1>4. PICK last \in page :
                  /\ \A i \in page \ {last} :
                       Precedes(sorts, KeysOf(sorts, i), KeysOf(sorts, last))
                  /\ Continue(sorts, last)
  BY <1>3
<1>5. sorts \in SortSeqs
  BY SortsType
<1>6. CursorFits(sorts)
  BY <1>1
<1> HIDE DEF sorts
<1> DEFINE S == Seek(sorts)
           K(i) == KeysOf(sorts, i)
<1>7. page \subseteq S /\ S \subseteq Documents /\ last \in S
  BY DEF First, Seek
<1>8. \A i \in S : i \in page <=> ~Precedes(sorts, K(last), K(i))
  BY <1>4, <1>5, <1>7, PageSplits
<1>9. /\ order' = sorts
      /\ stable' \subseteq Documents
      /\ \A i \in stable' :
           /\ times'[i] = IF i \in S /\ i \notin page THEN 0 ELSE 1
           /\ i \notin S => status = "more" /\ ~Precedes(sorts, cursor.keys, K(i))
  BY <1>3, <1>5, <1>6, <1>7, Returned DEF Page
<1>10. \A i \in Documents : K(i) \in Keys(sorts)
  BY <1>5, KeysType
<1>11. ASSUME NEW i \in stable', i \notin S
       PROVE  ~Precedes(sorts, K(last), K(i))
  <2>1. status = "more" /\ ~Precedes(sorts, cursor.keys, K(i))
    BY <1>9, <1>11
  <2>2. Precedes(sorts, cursor.keys, K(last)) /\ order = sorts
    BY <1>5, <1>6, <1>7, <2>1, SeekNeeded
  <2>3. cursor.keys \in Keys(sorts)
    BY <2>1, <2>2 DEF Progress
  <2>4. K(last) \in Keys(sorts) /\ K(i) \in Keys(sorts)
    BY <1>7, <1>9, <1>10
  <2> QED
    BY <1>5, <2>1, <2>2, <2>3, <2>4, PrecedesTransitive
<1>12. \A i \in stable' : times'[i] = IF Precedes(sorts, K(last), K(i)) THEN 0 ELSE 1
  BY <1>8, <1>9, <1>11
<1>13. cursor' = [sorts |-> sorts, keys |-> K(last)] /\ status' = "more"
  BY <1>4 DEF Continue
<1>14. cursor'.sorts = sorts /\ cursor'.keys = K(last)
  BY <1>13
<1>15. \A i \in stable' : After(i)' <=> Precedes(sorts, K(last), K(i))
  BY <1>9, <1>14 DEF After, Precedes, KeysOf, Page
<1>16. K(last) \in Keys(sorts)
  BY <1>7, <1>10
<1> QED
  BY <1>9, <1>12, <1>13, <1>14, <1>15, <1>16 DEF Progress, Keys

LEMMA WriteProgress ==
  ASSUME TypeOK, Progress, NEW i \in Ids, NEW doc, Write(i, doc)
  PROVE  Progress'
<1>1. stable' = stable \ {i} /\ UNCHANGED <<status, cursor, order, times>>
  BY DEF Write, paging
<1>2. ASSUME NEW j \in stable' PROVE After(j)' <=> After(j)
  <2>1. j # i /\ docs'[j] = docs[j]
    BY <1>1, <1>2 DEF Write, TypeOK, Documents
  <2>2. KeysOf(order, j)' = KeysOf(order, j)
    BY <1>1, <2>1 DEF KeysOf
  <2> QED
    BY <1>1, <2>2 DEF After, Precedes
<1> QED
  BY <1>1, <1>2 DEF Progress, Keys

LEMMA ProgressInvariant ==
  ASSUME Numbers
  PROVE  /\ Init => Progress
         /\ TypeOK /\ Progress /\ [Next]_vars => Progress'
<1>1. Init => Progress
  BY DEF Init, Progress
<1>2. ASSUME Progress, UNCHANGED vars PROVE Progress'
  <2>1. UNCHANGED <<docs, status, cursor, order, times, stable>>
    BY <1>2 DEF vars, paging, history
  <2>2. \A i \in stable : After(i)' <=> After(i)
    BY <2>1 DEF After, Precedes, KeysOf
  <2> QED
    BY <1>2, <2>1, <2>2 DEF Progress, Keys
<1>3. ASSUME TypeOK, Progress, NEW i \in Ids, Insert(i) \/ Rewrite(i) \/ Delete(i)
      PROVE  Progress'
  <2>1. PICK doc : Write(i, doc)
    BY <1>3 DEF Insert, Rewrite, Delete
  <2> QED
    BY <1>3, <2>1, WriteProgress
<1> QED
  BY <1>1, <1>2, <1>3, PageProgress, LastPageProgress DEF Next

\* However many pages of whatever sizes are asked for, and whatever is written
\* in between, a document that stays put is returned exactly once, provided
\* that every sort field holds a number.
THEOREM PagesExactlyOnce ==
  ASSUME Numbers
  PROVE  Spec => []ExactlyOnce
<1>1. TypeOK /\ Progress => ExactlyOnce
  BY DEF TypeOK, Progress, ExactlyOnce
<1> QED
  BY <1>1, TypeInvariant, ProgressInvariant, PTL DEF Spec

\* The documents that stay put are returned in the order of the query's sort.
THEOREM PagesInOrder ==
  ASSUME Numbers
  PROVE  Spec => []InOrder
<1>1. TypeOK /\ Progress => InOrder
  <2> SUFFICES ASSUME TypeOK, Progress, NEW i \in stable, NEW j \in stable,
                      times[j] > 0, Precedes(order, KeysOf(order, i), KeysOf(order, j))
               PROVE  times[i] > 0
    BY DEF InOrder
  <2>1. CASE status = "more"
    <3>1. order \in SortSeqs
      BY <2>1, SortsType DEF TypeOK, Progress, Sorts
    <3>2. cursor.keys \in Keys(order) /\ KeysOf(order, i) \in Keys(order)
          /\ KeysOf(order, j) \in Keys(order)
      BY <2>1, <3>1, KeysType DEF TypeOK, Progress
    <3>3. ~After(j)
      BY <2>1 DEF Progress
    <3>4. ~After(i)
      BY <3>1, <3>2, <3>3, PrecedesTransitive DEF After
    <3> QED
      BY <2>1, <3>4 DEF Progress
  <2> QED
    BY <2>1 DEF TypeOK, Progress
<1> QED
  BY <1>1, TypeInvariant, ProgressInvariant, PTL DEF Spec

\* "While page.HasMore says there is one", the next page is not empty as long
\* as nothing is written.
LEMMA PageLeavesMore ==
  ASSUME Numbers, TypeOK, Page
  PROVE  HasMoreHonest'
<1>1. PICK s \in Queries, limit \in 1 .. MaxLimit :
        LET sorts == PaginationSorts(s) IN
        \E fetched \in First(sorts, Seek(sorts), limit + 1) :
           \E page \in First(sorts, fetched, limit) :
             /\ HasMore(fetched, page, limit)
             /\ \E last \in page : Continue(sorts, last)
  BY DEF Page
<1> DEFINE sorts == PaginationSorts(s)
<1>2. PICK fetched \in First(sorts, Seek(sorts), limit + 1) :
           \E page \in First(sorts, fetched, limit) :
             /\ HasMore(fetched, page, limit)
             /\ \E last \in page : Continue(sorts, last)
  BY <1>1
<1>3. PICK page \in First(sorts, fetched, limit) :
             /\ HasMore(fetched, page, limit)
             /\ \E last \in page : Continue(sorts, last)
  BY <1>2
<1>4. PICK last \in page : Continue(sorts, last)
  BY <1>3
<1>5. sorts \in SortSeqs
  BY SortsType
<1> HIDE DEF sorts
<1>6. page \subseteq fetched /\ fetched \subseteq Documents
  BY DEF First, Seek
<1>7. PICK i \in fetched : i \notin page
  BY <1>3, <1>6 DEF HasMore
<1>8. Precedes(sorts, KeysOf(sorts, last), KeysOf(sorts, i))
  BY <1>7 DEF First
<1>9. KeysOf(sorts, last) \in Keys(sorts) /\ KeysOf(sorts, i) \in Keys(sorts)
  BY <1>5, <1>6, <1>7, KeysType
<1>10. Keyset(sorts, KeysOf(sorts, last), KeysOf(sorts, i))
  BY <1>5, <1>8, <1>9, KeysetIsOrder
<1>11. cursor' = [sorts |-> sorts, keys |-> KeysOf(sorts, last)] /\ docs' = docs
  BY <1>4 DEF Continue, Page
<1>12. cursor'.sorts = sorts /\ cursor'.keys = KeysOf(sorts, last)
  BY <1>11
<1>13. KeysOf(sorts, i)' = KeysOf(sorts, i)
  BY <1>11 DEF KeysOf
<1>14. i \in Documents'
  BY <1>6, <1>7, <1>11 DEF Documents
<1>15. i \in Seek(cursor.sorts)'
  BY <1>10, <1>12, <1>13, <1>14 DEF Seek, Keyset
<1> QED
  BY <1>15 DEF HasMoreHonest

THEOREM MoreIsMore ==
  ASSUME Numbers
  PROVE  Spec => []HasMoreHonest
<1>1. Init => HasMoreHonest
  BY DEF Init, HasMoreHonest
<1>2. ASSUME HasMoreHonest, UNCHANGED vars PROVE HasMoreHonest'
  <2>1. UNCHANGED <<docs, status, cursor, quiet>>
    BY <1>2 DEF vars, paging, history
  <2>2. ASSUME NEW i PROVE KeysOf(cursor.sorts, i)' = KeysOf(cursor.sorts, i)
    BY <2>1 DEF KeysOf
  <2>3. Seek(cursor.sorts)' = Seek(cursor.sorts)
    BY <2>1, <2>2 DEF Seek, Documents, Keyset
  <2> QED
    BY <1>2, <2>1, <2>3 DEF HasMoreHonest
<1>3. LastPage => HasMoreHonest'
  BY DEF LastPage, Finish, HasMoreHonest
<1>4. ASSUME NEW i \in Ids, Insert(i) \/ Rewrite(i) \/ Delete(i) PROVE HasMoreHonest'
  BY <1>4 DEF Insert, Rewrite, Delete, Write, HasMoreHonest
<1>5. TypeOK /\ HasMoreHonest /\ [Next]_vars => HasMoreHonest'
  BY <1>2, <1>3, <1>4, PageLeavesMore DEF Next
<1> QED
  BY <1>1, <1>5, TypeInvariant, PTL DEF Spec
=============================================================================
