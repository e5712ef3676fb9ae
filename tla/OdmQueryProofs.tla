---------------------------- MODULE OdmQueryProofs ----------------------------
(***************************************************************************)
(* Proofs about OdmQuery, for any chains of calls on any queries: nothing  *)
(* changes a query once it is built, each query says what its chain of     *)
(* calls says, what it sends is legal, and the trash is respected; about   *)
(* OdmRelations, for any relations nested in each other and any writes     *)
(* beside them: loads are joins; and about the program that does either.   *)
(***************************************************************************)
EXTENDS OdmQueries, FiniteSetTheorems, WellFoundedInduction, TLAPS

-----------------------------------------------------------------------------
(* Slices of backing arrays mem.                                           *)
Element ==
  (SUBSET Shapes) \cup (Operators \X Fields \X Int)
    \cup ({"n", "created_at"} \X {1, -1}) \cup (ProjectedFields \X {0, 1})
Memories == Seq(Seq(Element))
SliceRecords == [array : Nat, len : Nat]

Within(mem, s) ==
  /\ s \in SliceRecords
  /\ s.len > 0 => s.array \in 1..Len(mem) /\ s.len <= Len(mem[s.array])
Elems(mem, s) == [i \in 1..s.len |-> mem[s.array][i]]
Grown(mem, mem2) == mem2 = mem \/ \E a \in Seq(Element) : mem2 = Append(mem, a)

LEMMA ElementsAre == \A s : Elements(s) = Elems(memory, s)
BY DEF Elements, Elems

LEMMA ElemsType ==
  ASSUME NEW mem \in Memories, NEW s, Within(mem, s)
  PROVE  /\ Elems(mem, s) \in Seq(Element) /\ Len(Elems(mem, s)) = s.len
         /\ \A i \in 1..s.len : Elems(mem, s)[i] = mem[s.array][i]
<1>1. s.len \in Nat
  BY DEF Within, SliceRecords
<1>2. ASSUME NEW i \in 1..s.len
      PROVE  mem[s.array][i] \in Element
  <2>1. s.array \in 1..Len(mem) /\ s.len <= Len(mem[s.array]) /\ mem[s.array] \in Seq(Element)
    BY <1>1 DEF Within, Memories
  <2> QED
    BY <1>1, <2>1
<1> QED
  BY <1>1, <1>2 DEF Elems

\* Nothing is ever written to an array that a slice reaches.
LEMMA SliceStays ==
  ASSUME NEW mem \in Memories, NEW mem2, Grown(mem, mem2), NEW s, Within(mem, s)
  PROVE  mem2 \in Memories /\ Within(mem2, s) /\ Elems(mem2, s) = Elems(mem, s)
<1>1. CASE mem2 = mem
  BY <1>1
<1>2. CASE \E a \in Seq(Element) : mem2 = Append(mem, a)
  <2>1. PICK a \in Seq(Element) : mem2 = Append(mem, a)
    BY <1>2
  <2>2. /\ mem2 \in Memories /\ Len(mem2) = Len(mem) + 1
        /\ \A i \in 1..Len(mem) : mem2[i] = mem[i]
    BY <2>1 DEF Memories
  <2>3. s.len \in Nat /\ (s.len > 0 => s.array \in 1..Len(mem))
    BY DEF Within, SliceRecords
  <2>4. Within(mem2, s)
    BY <2>2, <2>3 DEF Within, Memories
  <2>5. \A i \in 1..s.len : mem2[s.array][i] = mem[s.array][i]
    BY <2>2, <2>3
  <2> QED
    BY <2>2, <2>4, <2>5 DEF Elems
<1> QED
  BY <1>1, <1>2 DEF Grown

\* A new array of one's own.
LEMMA OwnArray ==
  ASSUME NEW mem \in Memories, NEW a \in Seq(Element), NEW s,
         s = [array |-> Len(mem) + 1, len |-> Len(a)]
  PROVE  Within(Append(mem, a), s) /\ Elems(Append(mem, a), s) = a
<1>1. Len(mem) \in Nat /\ Len(a) \in Nat /\ s.array = Len(mem) + 1 /\ s.len = Len(a)
  BY DEF Memories
<1>2. Append(mem, a)[Len(mem) + 1] = a /\ Len(Append(mem, a)) = Len(mem) + 1
  BY DEF Memories
<1>3. Within(Append(mem, a), s)
  BY <1>1, <1>2 DEF Within, SliceRecords
<1>4. Elems(Append(mem, a), s) = [i \in 1..Len(a) |-> a[i]]
  BY <1>1, <1>2 DEF Elems
<1> QED
  BY <1>3, <1>4

\* cloneAppend copies the elements (update.go:100-108).
LEMMA CloneAppends ==
  ASSUME memory \in Memories, NEW s, Within(memory, s), NEW e \in Element
  PROVE  LET c == cloneAppend(s, e)
         IN  /\ Grown(memory, c.memory) /\ Within(c.memory, c.slice)
             /\ c.slice.len = s.len + 1
             /\ Elems(c.memory, c.slice) = Append(Elems(memory, s), e)
<1> DEFINE a == Append(Elems(memory, s), e)
<1>1. Elems(memory, s) \in Seq(Element) /\ Len(Elems(memory, s)) = s.len /\ s.len \in Nat
  BY ElemsType DEF Within, SliceRecords
<1>2. a \in Seq(Element) /\ Len(a) = s.len + 1
  BY <1>1
<1>3. cloneAppend(s, e) = [slice |-> [array |-> Len(memory) + 1, len |-> s.len + 1],
                           memory |-> Append(memory, a)]
  BY ElementsAre DEF cloneAppend
<1>a. /\ cloneAppend(s, e).slice = [array |-> Len(memory) + 1, len |-> s.len + 1]
      /\ cloneAppend(s, e).memory = Append(memory, a)
  BY <1>3
<1> DEFINE c == cloneAppend(s, e)
<1> HIDE DEF a
<1>4. Len(a) = s.len + 1 /\ c.slice = [array |-> Len(memory) + 1, len |-> Len(a)]
  BY <1>2, <1>a
<1>5. Within(Append(memory, a), c.slice) /\ Elems(Append(memory, a), c.slice) = a
  BY <1>2, <1>4, OwnArray
<1>6. Grown(memory, c.memory)
  BY <1>2, <1>a DEF Grown
<1>7. c.slice.len = s.len + 1
  BY <1>a
<1>8. Within(c.memory, c.slice) /\ Elems(c.memory, c.slice) = a
  BY <1>5, <1>a
<1> QED
  BY <1>6, <1>7, <1>8 DEF a

-----------------------------------------------------------------------------
(* What a chain of calls says, and that a query says it.                   *)
Errors == {"none", "trashed", "update", "limit", "skip", "projection", "call"}
ProjectionModes == {"none", "include", "exclude"}
QueryRecords ==
  [filters : SliceRecords, updates : SliceRecords, sorts : SliceRecords,
   projection : SliceRecords, projectionMode : ProjectionModes, trashed : Modes,
   skipTimestamps : BOOLEAN, limit : Nat, skip : Nat, err : Errors]
Meanings ==
  [set : SUBSET Shapes, any : BOOLEAN, mode : Modes, sets : SUBSET Fields, wrong : BOOLEAN]
Updates == {op \in Operators \X (Fields \ {"deleted_at"}) \X Int : KeepsNumbers(op)}

FiltersMean(f, m) ==
  /\ f \in Seq(SUBSET Shapes) /\ m.set = buildFilter(f) /\ (m.any <=> Len(f) = 0)
UpdatesMean(u, m) ==
  /\ u \in Seq(Updates)
  /\ m.sets = {u[i][2] : i \in 1..Len(u)}
  /\ \A i, j \in 1..Len(u) : u[i][2] = u[j][2] => i = j
ProjectionMeans(p, mode) ==
  /\ p \in Seq(ProjectedFields \X {0, 1})
  /\ \A i, j \in 1..Len(p) : p[i][1] = p[j][1] => i = j
  /\ \A i \in 1..Len(p) : p[i][1] # "_id" =>
       (mode = "include" /\ p[i][2] = 1) \/ (mode = "exclude" /\ p[i][2] = 0)

QueryOK(mem, q) ==
  /\ q \in QueryRecords
  /\ Within(mem, q.filters) /\ Within(mem, q.updates)
  /\ Within(mem, q.sorts) /\ Within(mem, q.projection)
Says(mem, q, m) ==
  /\ FiltersMean(Elems(mem, q.filters), m)
  /\ UpdatesMean(Elems(mem, q.updates), m)
  /\ ProjectionMeans(Elems(mem, q.projection), q.projectionMode)
  /\ (meta.softDeletes => m.mode = q.trashed) /\ ~m.wrong
Means(mem, q, m) ==
  QueryOK(mem, q) /\ m \in Meanings /\ (q.err = "none" => Says(mem, q, m))

LEMMA MeansStays ==
  ASSUME NEW mem \in Memories, NEW mem2, Grown(mem, mem2), NEW q, NEW m, Means(mem, q, m)
  PROVE  mem2 \in Memories /\ Means(mem2, q, m)
<1>1. QueryOK(mem, q)
  BY DEF Means
<1>2. /\ mem2 \in Memories
      /\ Within(mem2, q.filters) /\ Elems(mem2, q.filters) = Elems(mem, q.filters)
      /\ Within(mem2, q.updates) /\ Elems(mem2, q.updates) = Elems(mem, q.updates)
      /\ Within(mem2, q.projection) /\ Elems(mem2, q.projection) = Elems(mem, q.projection)
      /\ Within(mem2, q.sorts)
  BY <1>1, SliceStays DEF QueryOK
<1> QED
  BY <1>1, <1>2 DEF QueryOK, Means, Says

-----------------------------------------------------------------------------
(* One lemma for each of the builder's methods.  Good is what a method has *)
(* to do.                                                                  *)
Good(r, m) == Grown(memory, r.memory) /\ Means(r.memory, r.query, m)

\* A method that leaves the slices alone.
LEMMA ChangedIsGood ==
  ASSUME memory \in Memories, NEW q, NEW m, Means(memory, q, m),
         NEW q2 \in QueryRecords, NEW m2 \in Meanings,
         q2.filters = q.filters, q2.updates = q.updates, q2.sorts = q.sorts,
         q2.projection = q.projection,
         q2.err = "none" =>
           /\ q.err = "none"
           /\ m2.set = m.set /\ m2.any = m.any /\ m2.sets = m.sets /\ ~m2.wrong
           /\ meta.softDeletes => m2.mode = q2.trashed
           /\ q2.projectionMode = q.projectionMode
                \/ ProjectionMeans(Elems(memory, q.projection), q2.projectionMode)
  PROVE  Good(Changed(q2), m2)
<1>1. Changed(q2).query = q2 /\ Changed(q2).memory = memory
  BY DEF Changed
<1>2. QueryOK(memory, q2)
  BY DEF QueryOK, Means
<1>3. ASSUME q2.err = "none"
      PROVE  Says(memory, q2, m2)
  <2>1. Says(memory, q, m)
    BY <1>3 DEF Means
  <2>2. FiltersMean(Elems(memory, q2.filters), m2)
    BY <1>3, <2>1 DEF Says, FiltersMean
  <2>3. UpdatesMean(Elems(memory, q2.updates), m2)
    BY <1>3, <2>1 DEF Says, UpdatesMean
  <2>4. ProjectionMeans(Elems(memory, q2.projection), q2.projectionMode)
    BY <1>3, <2>1 DEF Says
  <2> QED
    BY <1>3, <2>2, <2>3, <2>4 DEF Says
<1> QED
  BY <1>1, <1>2, <1>3 DEF Good, Means, Grown

LEMMA withErrorIsGood ==
  ASSUME memory \in Memories, NEW q, NEW m, Means(memory, q, m),
         NEW err \in Errors \ {"none"}, NEW m2 \in Meanings
  PROVE  Good(withError(q, err), m2)
<1> DEFINE q2 == [q EXCEPT !.err = IF @ = "none" THEN err ELSE @]
<1>1. q \in QueryRecords
  BY DEF Means, QueryOK
<1>2. q2 \in QueryRecords /\ q2.err # "none"
  BY <1>1 DEF QueryRecords
<1>3. /\ q2.filters = q.filters /\ q2.updates = q.updates
      /\ q2.sorts = q.sorts /\ q2.projection = q.projection
  BY <1>1 DEF QueryRecords
<1> HIDE DEF q2
<1>4. Good(Changed(q2), m2)
  BY <1>2, <1>3, ChangedIsGood
<1> QED
  BY <1>4 DEF withError, q2

\* Filters: buildFilter selects what all of the fragments select.
LEMMA buildFilterAppend ==
  ASSUME NEW f \in Seq(SUBSET Shapes), NEW c \in SUBSET Shapes
  PROVE  buildFilter(Append(f, c)) = buildFilter(f) \cap c
<1>1. /\ \A i \in 1..Len(f) : Append(f, c)[i] = f[i]
      /\ Append(f, c)[Len(f) + 1] = c
      /\ DOMAIN Append(f, c) = 1..(Len(f) + 1) /\ DOMAIN f = 1..Len(f) /\ Len(f) \in Nat
  OBVIOUS
<1>2. 1..(Len(f) + 1) = 1..Len(f) \cup {Len(f) + 1}
  BY <1>1
<1> QED
  BY <1>1, <1>2 DEF buildFilter

LEMMA buildFilterOne ==
  ASSUME NEW c \in SUBSET Shapes
  PROVE  buildFilter(<<c>>) = c
<1>1. DOMAIN <<c>> = {1} /\ <<c>>[1] = c
  OBVIOUS
<1> QED
  BY <1>1 DEF buildFilter

LEMMA FiltersMeanAppend ==
  ASSUME NEW f, NEW m \in Meanings, FiltersMean(f, m), NEW c \in SUBSET Shapes,
         NEW m2, m2.set = m.set \cap c, m2.any = FALSE
  PROVE  FiltersMean(Append(f, c), m2)
<1>1. f \in Seq(SUBSET Shapes) /\ m.set = buildFilter(f)
  BY DEF FiltersMean
<1>2. /\ Append(f, c) \in Seq(SUBSET Shapes)
      /\ Len(Append(f, c)) = Len(f) + 1 /\ Len(f) \in Nat
  BY <1>1
<1>3. Len(Append(f, c)) # 0
  BY <1>2
<1>4. m2.set = buildFilter(Append(f, c))
  BY <1>1, buildFilterAppend
<1> QED
  BY <1>2, <1>3, <1>4 DEF FiltersMean

\* A query whose filters are a new array.
LEMMA NewFilters ==
  ASSUME memory \in Memories, NEW q, NEW m, Means(memory, q, m),
         NEW mem2, Grown(memory, mem2), NEW s, Within(mem2, s),
         NEW q2, q2 = [q EXCEPT !.filters = s],
         NEW m2, m2.set \in SUBSET Shapes, m2 = [m EXCEPT !.set = m2.set, !.any = FALSE],
         q.err = "none" => FiltersMean(Elems(mem2, s), m2)
  PROVE  Means(mem2, q2, m2)
<1>1. Means(mem2, q, m)
  BY MeansStays
<1>2. q \in QueryRecords /\ s \in SliceRecords /\ m \in Meanings
  BY <1>1 DEF Means, QueryOK, Within
<1>3. /\ q2 \in QueryRecords /\ q2.filters = s /\ q2.updates = q.updates
      /\ q2.sorts = q.sorts /\ q2.projection = q.projection /\ q2.err = q.err
      /\ q2.projectionMode = q.projectionMode /\ q2.trashed = q.trashed
  BY <1>2 DEF QueryRecords
<1>4. /\ m2 \in Meanings /\ m2.sets = m.sets /\ m2.mode = m.mode /\ m2.wrong = m.wrong
  BY <1>2 DEF Meanings
<1>5. QueryOK(mem2, q2)
  BY <1>1, <1>3 DEF Means, QueryOK
<1>6. ASSUME q2.err = "none"
      PROVE  Says(mem2, q2, m2)
  <2>1. Says(mem2, q, m) /\ FiltersMean(Elems(mem2, s), m2)
    BY <1>1, <1>3, <1>6 DEF Means
  <2>2. UpdatesMean(Elems(mem2, q2.updates), m2)
    BY <1>3, <1>4, <2>1 DEF Says, UpdatesMean
  <2> QED
    BY <1>3, <1>4, <2>1, <2>2 DEF Says
<1> QED
  BY <1>4, <1>5, <1>6 DEF Means

LEMMA withFilterIsGood ==
  ASSUME memory \in Memories, NEW q, NEW m, Means(memory, q, m),
         NEW c \in SUBSET Shapes
  PROVE  Good(withFilter(q, c), [m EXCEPT !.set = @ \cap c, !.any = FALSE])
<1> DEFINE s == cloneAppend(q.filters, c).slice
           mem2 == cloneAppend(q.filters, c).memory
           q2 == [q EXCEPT !.filters = s]
           m2 == [m EXCEPT !.set = @ \cap c, !.any = FALSE]
<1>1. q \in QueryRecords /\ m \in Meanings /\ Within(memory, q.filters)
  BY DEF Means, QueryOK
<1>2. c \in Element
  BY DEF Element
<1>3. /\ Grown(memory, mem2) /\ Within(mem2, s)
      /\ Elems(mem2, s) = Append(Elems(memory, q.filters), c)
  BY <1>1, <1>2, CloneAppends
<1>4. m2.set = m.set \cap c /\ m2.any = FALSE /\ m2 = [m EXCEPT !.set = m2.set, !.any = FALSE]
  BY <1>1 DEF Meanings
<1>5. m2.set \in SUBSET Shapes
  BY <1>1, <1>4 DEF Meanings
<1>6. withFilter(q, c) = [query |-> q2, memory |-> mem2]
  BY <1>1 DEF withFilter, Adding, QueryRecords
<1> HIDE DEF s, mem2, m2
<1>7. q.err = "none" => FiltersMean(Elems(mem2, s), m2)
  <2>1. q.err = "none" => FiltersMean(Elems(memory, q.filters), m)
    BY DEF Means, Says
  <2>2. q.err = "none" => FiltersMean(Append(Elems(memory, q.filters), c), m2)
    BY <1>1, <1>4, <2>1, FiltersMeanAppend
  <2> QED
    BY <1>3, <2>2
<1>8. Means(mem2, q2, m2)
  BY <1>3, <1>4, <1>5, <1>7, NewFilters
<1> HIDE DEF q2
<1>9. Good(withFilter(q, c), m2)
  BY <1>3, <1>6, <1>8 DEF Good
<1> QED
  BY <1>9 DEF m2

LEMMA OrWhereIsGood ==
  ASSUME memory \in Memories, NEW q, NEW m, Means(memory, q, m),
         NEW c \in SUBSET Shapes
  PROVE  Good(OrWhere(q, c),
              [m EXCEPT !.set = IF m.any THEN c ELSE @ \cup c, !.any = FALSE])
<1> DEFINE m2 == [m EXCEPT !.set = IF m.any THEN c ELSE @ \cup c, !.any = FALSE]
<1>1. q \in QueryRecords /\ m \in Meanings /\ Within(memory, q.filters)
  BY DEF Means, QueryOK
<1>2. q.err = "none" => FiltersMean(Elems(memory, q.filters), m)
  BY DEF Means, Says
<1>3. /\ Len(Elems(memory, q.filters)) = q.filters.len
      /\ Elems(memory, q.filters) \in Seq(Element)
  BY <1>1, ElemsType
<1>4. /\ m2.set = (IF m.any THEN c ELSE m.set \cup c) /\ m2.any = FALSE
      /\ m2 = [m EXCEPT !.set = m2.set, !.any = FALSE] /\ m2.set \in SUBSET Shapes
  BY <1>1 DEF Meanings
<1>5. CASE q.filters.len = 0
  <2> DEFINE s == cloneAppend(q.filters, c).slice
             mem2 == cloneAppend(q.filters, c).memory
             q2 == [q EXCEPT !.filters = s]
  <2>1. c \in Element
    BY DEF Element
  <2>2. /\ Grown(memory, mem2) /\ Within(mem2, s)
        /\ Elems(mem2, s) = Append(Elems(memory, q.filters), c)
    BY <1>1, <2>1, CloneAppends
  <2>3. OrWhere(q, c) = [query |-> q2, memory |-> mem2]
    BY <1>1, <1>5 DEF OrWhere, withFilter, Adding, QueryRecords
  <2>4. Elems(memory, q.filters) = <<>>
    BY <1>3, <1>5
  <2> HIDE DEF s, mem2, m2
  <2>5. q.err = "none" => FiltersMean(Elems(mem2, s), m2)
    <3>1. Elems(mem2, s) = <<c>>
      BY <2>2, <2>4
    <3>2. buildFilter(<<c>>) = c /\ <<c>> \in Seq(SUBSET Shapes) /\ Len(<<c>>) # 0
      BY buildFilterOne
    <3>3. q.err = "none" => m2.set = c
      BY <1>2, <1>3, <1>4, <1>5 DEF FiltersMean
    <3> QED
      BY <1>4, <3>1, <3>2, <3>3 DEF FiltersMean
  <2>6. Means(mem2, q2, m2)
    BY <1>4, <2>2, <2>5, NewFilters
  <2> HIDE DEF q2
  <2> QED
    BY <2>2, <2>3, <2>6 DEF Good, m2
<1>6. CASE q.filters.len # 0
  <2> DEFINE f == buildFilter(Elems(memory, q.filters)) \cup c
             s == [array |-> Len(memory) + 1, len |-> 1]
             mem2 == Append(memory, <<f>>)
             q2 == [q EXCEPT !.filters = s]
  <2>1. OrWhere(q, c) = [query |-> q2, memory |-> mem2]
    BY <1>6, ElementsAre DEF OrWhere
  <2>2. f \in SUBSET Shapes
    BY DEF buildFilter
  <2> HIDE DEF f
  <2>3. <<f>> \in Seq(Element) /\ Len(<<f>>) = 1
    BY <2>2 DEF Element
  <2>4. s = [array |-> Len(memory) + 1, len |-> Len(<<f>>)]
    BY <2>3
  <2> HIDE DEF s
  <2>5. Within(mem2, s) /\ Elems(mem2, s) = <<f>>
    BY <2>3, <2>4, OwnArray
  <2>6. Grown(memory, mem2)
    BY <2>3 DEF Grown
  <2>7. q.err = "none" => FiltersMean(Elems(mem2, s), m2)
    <3>1. buildFilter(<<f>>) = f /\ <<f>> \in Seq(SUBSET Shapes) /\ Len(<<f>>) # 0
      BY <2>2, buildFilterOne
    <3>2. q.err = "none" => m2.set = f
      BY <1>2, <1>3, <1>4, <1>6 DEF FiltersMean, f
    <3> QED
      BY <1>4, <2>5, <3>1, <3>2 DEF FiltersMean
  <2> HIDE DEF mem2, m2
  <2>8. Means(mem2, q2, m2)
    BY <1>4, <2>5, <2>6, <2>7, NewFilters
  <2> HIDE DEF q2
  <2> QED
    BY <2>1, <2>6, <2>8 DEF Good, m2
<1> QED
  BY <1>5, <1>6

\* Scopes.
LEMMA withTrashedModeIsGood ==
  ASSUME memory \in Memories, meta.softDeletes \in BOOLEAN,
         NEW q, NEW m, Means(memory, q, m), NEW mode \in Modes
  PROVE  Good(withTrashedMode(q, mode),
              [m EXCEPT !.mode = mode, !.wrong = @ \/ ~meta.softDeletes])
<1> DEFINE m2 == [m EXCEPT !.mode = mode, !.wrong = @ \/ ~meta.softDeletes]
           q2 == [q EXCEPT !.trashed = mode]
<1>1. q \in QueryRecords /\ m \in Meanings
  BY DEF Means, QueryOK
<1>2. /\ m2.set = m.set /\ m2.any = m.any /\ m2.sets = m.sets /\ m2.mode = mode
      /\ m2.wrong = (m.wrong \/ ~meta.softDeletes) /\ m2 \in Meanings
  <2>1. (m.wrong \/ ~meta.softDeletes) \in BOOLEAN
    OBVIOUS
  <2> QED
    BY <1>1, <2>1 DEF Meanings
<1>3. CASE ~meta.softDeletes
  <2>1. withTrashedMode(q, mode) = withError(q, "trashed")
    BY <1>3 DEF withTrashedMode
  <2> QED
    BY <1>2, <2>1, withErrorIsGood DEF Errors
<1>4. CASE meta.softDeletes
  <2>1. /\ q2 \in QueryRecords /\ q2.filters = q.filters /\ q2.updates = q.updates
        /\ q2.sorts = q.sorts /\ q2.projection = q.projection /\ q2.err = q.err
        /\ q2.projectionMode = q.projectionMode /\ q2.trashed = mode
    BY <1>1 DEF QueryRecords
  <2>2. withTrashedMode(q, mode) = Changed(q2)
    BY <1>4 DEF withTrashedMode
  <2>3. q.err = "none" => ~m.wrong
    BY DEF Means, Says
  <2> HIDE DEF q2, m2
  <2>4. Good(Changed(q2), m2)
    BY <1>2, <1>4, <2>1, <2>3, ChangedIsGood
  <2> QED
    BY <2>2, <2>4 DEF m2
<1> QED
  BY <1>3, <1>4

\* Staged updates.
LEMMA withUpdateIsGood ==
  ASSUME memory \in Memories, NEW q, NEW m, Means(memory, q, m), NEW op \in Updates
  PROVE  Good(withUpdate(q, op),
              [m EXCEPT !.sets = @ \cup {op[2]}, !.wrong = @ \/ op[2] \in m.sets])
<1> DEFINE u == Elems(memory, q.updates)
           m2 == [m EXCEPT !.sets = @ \cup {op[2]}, !.wrong = @ \/ op[2] \in m.sets]
           again == \E i \in 1..q.updates.len : u[i][2] = op[2]
<1>1. q \in QueryRecords /\ m \in Meanings /\ Within(memory, q.updates)
  BY DEF Means, QueryOK
<1>2. Len(u) = q.updates.len /\ u \in Seq(Element)
  BY <1>1, ElemsType
<1>3. op[2] \in Fields /\ op \in Element
  BY DEF Updates, Element
<1>4. /\ m2.set = m.set /\ m2.any = m.any /\ m2.mode = m.mode
      /\ m2.sets = m.sets \cup {op[2]} /\ m2.wrong = (m.wrong \/ op[2] \in m.sets)
      /\ m2 \in Meanings
  <2>1. (m.wrong \/ op[2] \in m.sets) \in BOOLEAN /\ m.sets \cup {op[2]} \in SUBSET Fields
    BY <1>1, <1>3 DEF Meanings
  <2> QED
    BY <1>1, <2>1 DEF Meanings
<1>5. CASE again
  <2>1. withUpdate(q, op) = withError(q, "update")
    BY <1>5, ElementsAre DEF withUpdate
  <2> HIDE DEF m2, again
  <2>2. Good(withError(q, "update"), m2)
    BY <1>4, withErrorIsGood DEF Errors
  <2> QED
    BY <2>1, <2>2 DEF m2
<1>6. CASE ~again
  <2> DEFINE s == cloneAppend(q.updates, op).slice
             mem2 == cloneAppend(q.updates, op).memory
             q2 == [q EXCEPT !.updates = s]
  <2>1. withUpdate(q, op) = [query |-> q2, memory |-> mem2]
    BY <1>1, <1>6, ElementsAre DEF withUpdate, Adding, QueryRecords
  <2>2. /\ Grown(memory, mem2) /\ Within(mem2, s) /\ Elems(mem2, s) = Append(u, op)
    BY <1>1, <1>3, CloneAppends
  <2> HIDE DEF s, mem2, m2
  <2>3. Means(mem2, q, m)
    BY <2>2, MeansStays
  <2>4. /\ q2 \in QueryRecords /\ q2.filters = q.filters /\ q2.updates = s
        /\ q2.sorts = q.sorts /\ q2.projection = q.projection /\ q2.err = q.err
        /\ q2.projectionMode = q.projectionMode /\ q2.trashed = q.trashed
    BY <1>1, <2>2 DEF QueryRecords, Within
  <2>5. QueryOK(mem2, q2)
    BY <2>2, <2>3, <2>4 DEF Means, QueryOK
  <2>6. ASSUME q2.err = "none"
        PROVE  Says(mem2, q2, m2)
    <3>1. Says(mem2, q, m) /\ Says(memory, q, m)
      BY <2>3, <2>4, <2>6 DEF Means
    <3>2. UpdatesMean(u, m)
      BY <3>1 DEF Says
    <3> HIDE DEF u
    <3>3. /\ u \in Seq(Updates) /\ Len(u) \in Nat
          /\ Append(u, op) \in Seq(Updates) /\ Len(Append(u, op)) = Len(u) + 1
          /\ \A i \in 1..Len(u) : Append(u, op)[i] = u[i]
          /\ Append(u, op)[Len(u) + 1] = op
      BY <3>2 DEF UpdatesMean
    <3>4. 1..(Len(u) + 1) = 1..Len(u) \cup {Len(u) + 1}
      BY <3>3
    <3>5. \A i \in 1..Len(u) : u[i][2] # op[2]
      BY <1>2, <1>6 DEF u
    <3>6. op[2] \notin m.sets
      BY <3>2, <3>5 DEF UpdatesMean
    <3>7. m2.sets = {Append(u, op)[i][2] : i \in 1..(Len(u) + 1)}
      BY <1>4, <3>2, <3>3, <3>4 DEF UpdatesMean
    <3>8. \A i, j \in 1..(Len(u) + 1) :
            Append(u, op)[i][2] = Append(u, op)[j][2] => i = j
      BY <3>2, <3>3, <3>4, <3>5 DEF UpdatesMean
    <3>9. UpdatesMean(Append(u, op), m2)
      BY <3>3, <3>7, <3>8 DEF UpdatesMean
    <3>10. FiltersMean(Elems(mem2, q2.filters), m2)
      BY <1>4, <2>4, <3>1 DEF Says, FiltersMean
    <3> QED
      BY <1>4, <2>2, <2>4, <3>1, <3>6, <3>9, <3>10 DEF Says
  <2>7. Means(mem2, q2, m2)
    BY <1>4, <2>5, <2>6 DEF Means
  <2> HIDE DEF q2
  <2> QED
    BY <2>1, <2>2, <2>7 DEF Good, m2
<1> QED
  BY <1>5, <1>6

LEMMA WithoutTimestampsIsGood ==
  ASSUME memory \in Memories, NEW q, NEW m, Means(memory, q, m)
  PROVE  Good(WithoutTimestamps(q), m)
<1> DEFINE q2 == [q EXCEPT !.skipTimestamps = TRUE]
<1>1. q \in QueryRecords /\ m \in Meanings
  BY DEF Means, QueryOK
<1>2. /\ q2 \in QueryRecords /\ q2.filters = q.filters /\ q2.updates = q.updates
      /\ q2.sorts = q.sorts /\ q2.projection = q.projection /\ q2.err = q.err
      /\ q2.projectionMode = q.projectionMode /\ q2.trashed = q.trashed
  BY <1>1 DEF QueryRecords
<1>3. q.err = "none" => ~m.wrong /\ (meta.softDeletes => m.mode = q.trashed)
  BY DEF Means, Says
<1> HIDE DEF q2
<1>4. Good(Changed(q2), m)
  BY <1>1, <1>2, <1>3, ChangedIsGood
<1> QED
  BY <1>4 DEF WithoutTimestamps, q2

\* Limit and Skip: a number below zero is refused.
LEMMA PagesAreGood ==
  ASSUME memory \in Memories, NEW q, NEW m, Means(memory, q, m), NEW n \in Int
  PROVE  /\ Good(Limit(q, n), [m EXCEPT !.wrong = @ \/ n < 0])
         /\ Good(Skip(q, n), [m EXCEPT !.wrong = @ \/ n < 0])
<1> DEFINE m2 == [m EXCEPT !.wrong = @ \/ n < 0]
           q2 == [q EXCEPT !.limit = n]
           q3 == [q EXCEPT !.skip = n]
<1>1. q \in QueryRecords /\ m \in Meanings
  BY DEF Means, QueryOK
<1>2. /\ m2.set = m.set /\ m2.any = m.any /\ m2.sets = m.sets /\ m2.mode = m.mode
      /\ m2.wrong = (m.wrong \/ n < 0) /\ m2 \in Meanings
  <2>1. (m.wrong \/ n < 0) \in BOOLEAN
    OBVIOUS
  <2> QED
    BY <1>1, <2>1 DEF Meanings
<1>3. CASE n < 0
  <2>1. Limit(q, n) = withError(q, "limit") /\ Skip(q, n) = withError(q, "skip")
    BY <1>3 DEF Limit, Skip
  <2> HIDE DEF m2
  <2>2. Good(withError(q, "limit"), m2) /\ Good(withError(q, "skip"), m2)
    BY <1>2, withErrorIsGood DEF Errors
  <2> QED
    BY <2>1, <2>2 DEF m2
<1>4. CASE ~(n < 0)
  <2>1. /\ q2 \in QueryRecords /\ q2.filters = q.filters /\ q2.updates = q.updates
        /\ q2.sorts = q.sorts /\ q2.projection = q.projection /\ q2.err = q.err
        /\ q2.projectionMode = q.projectionMode /\ q2.trashed = q.trashed
    BY <1>1, <1>4 DEF QueryRecords
  <2>2. /\ q3 \in QueryRecords /\ q3.filters = q.filters /\ q3.updates = q.updates
        /\ q3.sorts = q.sorts /\ q3.projection = q.projection /\ q3.err = q.err
        /\ q3.projectionMode = q.projectionMode /\ q3.trashed = q.trashed
    BY <1>1, <1>4 DEF QueryRecords
  <2>3. Limit(q, n) = Changed(q2) /\ Skip(q, n) = Changed(q3)
    BY <1>4 DEF Limit, Skip
  <2>4. q.err = "none" => ~m.wrong /\ (meta.softDeletes => m.mode = q.trashed)
    BY DEF Means, Says
  <2> HIDE DEF q2, q3, m2
  <2>5. Good(Changed(q2), m2)
    BY <1>2, <1>4, <2>1, <2>4, ChangedIsGood
  <2>6. Good(Changed(q3), m2)
    BY <1>2, <1>4, <2>2, <2>4, ChangedIsGood
  <2> QED
    BY <2>3, <2>5, <2>6 DEF m2
<1> QED
  BY <1>3, <1>4

LEMMA OrderByIsGood ==
  ASSUME memory \in Memories, NEW q, NEW m, Means(memory, q, m),
         NEW order \in {"n", "created_at"} \X {1, -1}
  PROVE  Good(OrderBy(q, order), m)
<1> DEFINE s == cloneAppend(q.sorts, order).slice
           mem2 == cloneAppend(q.sorts, order).memory
           q2 == [q EXCEPT !.sorts = s]
<1>1. q \in QueryRecords /\ m \in Meanings /\ Within(memory, q.sorts)
  BY DEF Means, QueryOK
<1>2. order \in Element
  BY DEF Element
<1>3. Grown(memory, mem2) /\ Within(mem2, s)
  BY <1>1, <1>2, CloneAppends
<1>4. OrderBy(q, order) = [query |-> q2, memory |-> mem2]
  BY <1>1 DEF OrderBy, Adding, QueryRecords
<1> HIDE DEF s, mem2
<1>5. Means(mem2, q, m)
  BY <1>3, MeansStays
<1>6. /\ q2 \in QueryRecords /\ q2.filters = q.filters /\ q2.updates = q.updates
      /\ q2.sorts = s /\ q2.projection = q.projection /\ q2.err = q.err
      /\ q2.projectionMode = q.projectionMode /\ q2.trashed = q.trashed
  BY <1>1, <1>3 DEF QueryRecords, Within
<1> HIDE DEF q2
<1>7. Means(mem2, q2, m)
  BY <1>3, <1>5, <1>6 DEF Means, QueryOK, Says
<1> QED
  BY <1>3, <1>4, <1>7 DEF Good

\* Projections: what is listed agrees with the mode.
LEMMA withProjectionIsGood ==
  ASSUME memory \in Memories, NEW q, NEW m, Means(memory, q, m),
         NEW field \in ProjectedFields, NEW value \in {0, 1}, NEW mode \in ProjectionModes,
         mode = q.projectionMode \/ (q.projectionMode = "none" /\ mode # "none"),
         field # "_id" => (mode = "include" /\ value = 1) \/ (mode = "exclude" /\ value = 0)
  PROVE  Good(withProjection(q, field, value, mode), m)
<1> DEFINE p == Elems(memory, q.projection)
           listed == {i \in 1..q.projection.len : p[i][1] = field}
           next == [q EXCEPT !.projectionMode = mode]
<1>1. q \in QueryRecords /\ m \in Meanings /\ Within(memory, q.projection)
  BY DEF Means, QueryOK
<1>2. /\ next \in QueryRecords /\ next.filters = q.filters /\ next.updates = q.updates
      /\ next.sorts = q.sorts /\ next.projection = q.projection /\ next.err = q.err
      /\ next.projectionMode = mode /\ next.trashed = q.trashed
  BY <1>1 DEF QueryRecords
<1>3. withProjection(q, field, value, mode) =
        IF \E i \in listed : p[i][2] # value THEN withError(q, "projection")
        ELSE IF listed # {} THEN Changed(next)
        ELSE Adding(next, "projection", <<field, value>>)
  BY ElementsAre DEF withProjection
<1>4. q.err = "none" => /\ ~m.wrong /\ (meta.softDeletes => m.mode = q.trashed)
                        /\ ProjectionMeans(p, q.projectionMode)
  BY DEF Means, Says
<1>5. q.err = "none" => ProjectionMeans(p, mode)
  BY <1>4 DEF ProjectionMeans
<1>6. Good(withError(q, "projection"), m)
  BY <1>1, withErrorIsGood DEF Errors
<1> HIDE DEF next
<1>7. Good(Changed(next), m)
  BY <1>1, <1>2, <1>4, <1>5, ChangedIsGood
<1>8. ASSUME listed = {}
      PROVE  Good(Adding(next, "projection", <<field, value>>), m)
  <2> DEFINE e == <<field, value>>
             s == cloneAppend(next.projection, e).slice
             mem2 == cloneAppend(next.projection, e).memory
             q2 == [next EXCEPT !.projection = s]
  <2>1. e \in ProjectedFields \X {0, 1} /\ e \in Element /\ e[1] = field /\ e[2] = value
    BY DEF Element, ProjectedFields
  <2>2. /\ Grown(memory, mem2) /\ Within(mem2, s) /\ Elems(mem2, s) = Append(p, e)
    BY <1>1, <1>2, <2>1, CloneAppends
  <2>3. Adding(next, "projection", e) = [query |-> q2, memory |-> mem2]
    BY <1>2 DEF Adding, QueryRecords
  <2> HIDE DEF s, mem2, e
  <2>4. Means(mem2, q, m)
    BY <2>2, MeansStays
  <2>5. /\ q2 \in QueryRecords /\ q2.filters = q.filters /\ q2.updates = q.updates
        /\ q2.sorts = q.sorts /\ q2.projection = s /\ q2.err = q.err
        /\ q2.projectionMode = mode /\ q2.trashed = q.trashed
    BY <1>2, <2>2 DEF QueryRecords, Within
  <2> HIDE DEF q2
  <2>6. ASSUME q.err = "none"
        PROVE  ProjectionMeans(Append(p, e), mode)
    <3>1. Len(p) = q.projection.len
      BY <1>1, ElemsType
    <3>2. \A i \in 1..Len(p) : p[i][1] # field
      BY <1>8, <3>1
    <3>3. ProjectionMeans(p, mode)
      BY <1>5, <2>6
    <3> HIDE DEF p
    <3>4. /\ Append(p, e) \in Seq(ProjectedFields \X {0, 1})
          /\ Len(p) \in Nat /\ Len(Append(p, e)) = Len(p) + 1
          /\ \A i \in 1..Len(p) : Append(p, e)[i] = p[i]
          /\ Append(p, e)[Len(p) + 1] = e
      BY <2>1, <3>3 DEF ProjectionMeans
    <3>5. 1..(Len(p) + 1) = 1..Len(p) \cup {Len(p) + 1}
      BY <3>4
    <3> QED
      BY <2>1, <3>2, <3>3, <3>4, <3>5 DEF ProjectionMeans
  <2>7. Means(mem2, q2, m)
    BY <2>2, <2>4, <2>5, <2>6 DEF Means, QueryOK, Says
  <2>8. Good(Adding(next, "projection", e), m)
    BY <2>2, <2>3, <2>7 DEF Good
  <2> QED
    BY <2>8 DEF e
<1> QED
  BY <1>3, <1>6, <1>7, <1>8

LEMMA ProjectsAreGood ==
  ASSUME memory \in Memories, NEW q, NEW m, Means(memory, q, m), NEW field \in ProjectedFields
  PROVE  Good(Select(q, field), m) /\ Good(Exclude(q, field), m)
<1>1. q.projectionMode \in ProjectionModes /\ m \in Meanings
  BY DEF Means, QueryOK, QueryRecords
<1>2. Good(withError(q, "projection"), m)
  BY <1>1, withErrorIsGood DEF Errors
<1>3. Good(Select(q, field), m)
  <2>1. q.projectionMode # "exclude" => Good(withProjection(q, field, 1, "include"), m)
    BY <1>1, withProjectionIsGood DEF ProjectionModes
  <2> QED
    BY <1>2, <2>1 DEF Select
<1>4. Good(Exclude(q, field), m)
  <2>1. field = "_id" => Good(withProjection(q, field, 0, q.projectionMode), m)
    BY <1>1, withProjectionIsGood
  <2>2. q.projectionMode # "include" => Good(withProjection(q, field, 0, "exclude"), m)
    BY <1>1, withProjectionIsGood DEF ProjectionModes
  <2> QED
    BY <1>2, <2>1, <2>2 DEF Exclude
<1> QED
  BY <1>3, <1>4

-----------------------------------------------------------------------------
(* The inductive invariant: every query that was ever built says what its  *)
(* chain of calls says.                                                    *)
QueriesMean ==
  /\ meta \in [softDeletes : BOOLEAN, timestamps : BOOLEAN]
  /\ memory \in Memories
  /\ queries \in Seq(QueryRecords) /\ Len(queries) >= 1
  /\ meant \in Seq(Meanings) /\ Len(meant) = Len(queries)
  /\ \A b \in 1..Len(queries) : Means(memory, queries[b], meant[b])

LEMMA QueriesMeanInit == QueryInit \/ QueryUnused => QueriesMean
<1> SUFFICES ASSUME QueryInit \/ QueryUnused
             PROVE  QueriesMean
  OBVIOUS
<1>1. memory = <<>> /\ queries = <<New>> /\ meant = <<Nothing>>
  BY DEF QueryInit, QueryUnused
<1>2. memory \in Memories /\ meta \in [softDeletes : BOOLEAN, timestamps : BOOLEAN]
  <2>1. memory \in Memories
    BY <1>1 DEF Memories
  <2>2. meta = [softDeletes |-> TRUE, timestamps |-> TRUE]
          \/ meta = [softDeletes |-> FALSE, timestamps |-> FALSE]
    BY DEF QueryInit, QueryUnused
  <2>3. meta \in [softDeletes : BOOLEAN, timestamps : BOOLEAN]
    <3>1. \A x \in BOOLEAN, y \in BOOLEAN :
            [softDeletes |-> x, timestamps |-> y] \in [softDeletes : BOOLEAN, timestamps : BOOLEAN]
      OBVIOUS
    <3> QED
      BY <2>2, <3>1, Zenon
  <2> QED
    BY <2>1, <2>3
<1>3. New \in QueryRecords /\ Nothing \in Meanings
  BY DEF New, Nothing, QueryRecords, Meanings, SliceRecords, NilSlice, Modes, Errors,
         ProjectionModes
<1>4. QueryOK(memory, New)
  BY <1>3 DEF QueryOK, Within, New, NilSlice, SliceRecords
<1>5. Elems(memory, NilSlice) = <<>>
  BY DEF Elems, NilSlice
<1>6. Says(memory, New, Nothing)
  <2>1. FiltersMean(<<>>, Nothing)
    BY DEF FiltersMean, Nothing, buildFilter
  <2>2. UpdatesMean(<<>>, Nothing)
    BY DEF UpdatesMean, Nothing
  <2>3. ProjectionMeans(<<>>, "none")
    BY DEF ProjectionMeans
  <2> QED
    BY <1>5, <2>1, <2>2, <2>3 DEF Says, New, Nothing
<1>7. Means(memory, New, Nothing)
  BY <1>3, <1>4, <1>6 DEF Means
<1> HIDE DEF New, Nothing
<1>8. Len(queries) = 1 /\ Len(meant) = 1 /\ queries[1] = New /\ meant[1] = Nothing
  BY <1>1
<1>9. queries \in Seq(QueryRecords) /\ meant \in Seq(Meanings)
  BY <1>1, <1>3
<1> QED
  BY <1>2, <1>7, <1>8, <1>9 DEF QueriesMean

\* A query that a good method returns joins the others.
LEMMA DerivesKeeps ==
  ASSUME QueriesMean, NEW r, NEW m, Good(r, m), Derives(r, m)
  PROVE  /\ QueriesMean' /\ Grown(memory, memory')
         /\ \A b \in 1..Len(queries) : b \in 1..Len(queries') /\ queries'[b] = queries[b]
<1>1. /\ queries' = Append(queries, r.query) /\ memory' = r.memory
      /\ meant' = Append(meant, m) /\ meta' = meta
  BY DEF Derives
<1>2. Grown(memory, memory') /\ Means(memory', r.query, m)
  BY <1>1 DEF Good
<1>3. \A b \in 1..Len(queries) : Means(memory', queries[b], meant[b])
  BY <1>2, MeansStays DEF QueriesMean
<1>4. memory' \in Memories
  BY <1>2, MeansStays DEF QueriesMean
<1>5. r.query \in QueryRecords /\ m \in Meanings
  BY <1>2 DEF Means, QueryOK
<1>6. /\ queries' \in Seq(QueryRecords) /\ Len(queries') = Len(queries) + 1
      /\ meant' \in Seq(Meanings) /\ Len(meant') = Len(queries) + 1
      /\ \A b \in 1..Len(queries) : queries'[b] = queries[b] /\ meant'[b] = meant[b]
      /\ queries'[Len(queries) + 1] = r.query /\ meant'[Len(queries) + 1] = m
      /\ Len(queries) \in Nat
  BY <1>1, <1>5 DEF QueriesMean
<1>7. \A b \in 1..Len(queries') : b \in 1..Len(queries) \/ b = Len(queries) + 1
  BY <1>6
<1>8. \A b \in 1..Len(queries') : (Means(memory, queries[b], meant[b]))'
  <2> SUFFICES ASSUME NEW b \in 1..Len(queries')
               PROVE  Means(memory, queries[b], meant[b])'
    OBVIOUS
  <2>1. Means(memory', queries'[b], meant'[b])
    BY <1>2, <1>3, <1>6, <1>7
  <2>2. meta' = meta
    BY <1>1
  <2> QED
    BY <2>1, <2>2 DEF Means, QueryOK, Says
<1> QED
  BY <1>1, <1>2, <1>4, <1>6, <1>8 DEF QueriesMean

LEMMA BuildsAreGood ==
  ASSUME QueriesMean, Builds
  PROVE  \E r, m : Good(r, m) /\ Derives(r, m)
<1>1. PICK b \in DOMAIN queries :
        \/ Filters(b) \/ Mistakes(b) \/ Trashed(b) \/ Stages(b)
        \/ Sorts(b) \/ Pages(b) \/ Projects(b)
  BY DEF Builds
<1> DEFINE q == queries[b]
           m == meant[b]
<1>2. /\ memory \in Memories /\ meta.softDeletes \in BOOLEAN
      /\ Means(memory, q, m) /\ m \in Meanings
  <2>1. b \in 1..Len(queries)
    BY DEF QueriesMean
  <2> QED
    BY <2>1 DEF QueriesMean
<1>3. CASE Filters(b)
  <2>1. PICK c \in Conditions :
          \/ Derives(withFilter(q, c), [m EXCEPT !.set = @ \cap c, !.any = FALSE])
          \/ Derives(OrWhere(q, c),
                     [m EXCEPT !.set = IF m.any THEN c ELSE @ \cup c, !.any = FALSE])
    BY <1>3 DEF Filters
  <2>2. c \in SUBSET Shapes
    BY InputsAssumption
  <2> HIDE DEF q, m
  <2> QED
    BY <1>2, <2>1, <2>2, withFilterIsGood, OrWhereIsGood
<1>4. CASE Mistakes(b)
  <2>1. [m EXCEPT !.wrong = TRUE] \in Meanings
    BY <1>2 DEF Meanings
  <2> DEFINE m2 == [m EXCEPT !.wrong = TRUE]
  <2>2. Derives(withError(q, "call"), m2)
    BY <1>4 DEF Mistakes
  <2> HIDE DEF q, m, m2
  <2>3. Good(withError(q, "call"), m2)
    BY <1>2, <2>1, withErrorIsGood DEF Errors, m2
  <2> QED
    BY <2>2, <2>3
<1>5. CASE Trashed(b)
  <2>1. PICK mode \in {"included", "only"} :
          Derives(withTrashedMode(q, mode),
                  [m EXCEPT !.mode = mode, !.wrong = @ \/ ~meta.softDeletes])
    BY <1>5 DEF Trashed
  <2>2. mode \in Modes
    BY DEF Modes
  <2> HIDE DEF q, m
  <2> QED
    BY <1>2, <2>1, <2>2, withTrashedModeIsGood
<1>6. CASE Stages(b)
  <2> HIDE DEF q, m
  <2>1. CASE \E op \in Staged :
               Derives(withUpdate(q, op),
                       [m EXCEPT !.sets = @ \cup {op[2]}, !.wrong = @ \/ op[2] \in m.sets])
    <3>1. Staged \subseteq Updates
      BY InputsAssumption, NumbersAssumption DEF Updates
    <3> QED
      BY <1>2, <2>1, <3>1, withUpdateIsGood
  <2>2. CASE Derives(WithoutTimestamps(q), m)
    BY <1>2, <2>2, WithoutTimestampsIsGood
  <2> QED
    BY <1>6, <2>1, <2>2 DEF Stages, q, m
<1>7. CASE Sorts(b)
  <2>1. PICK order \in Orders : Derives(OrderBy(q, order), m)
    BY <1>7 DEF Sorts
  <2>2. order \in {"n", "created_at"} \X {1, -1}
    BY InputsAssumption
  <2> HIDE DEF q, m
  <2> QED
    BY <1>2, <2>1, <2>2, OrderByIsGood
<1>8. CASE Pages(b)
  <2>1. PICK n \in Counts :
          \/ Derives(Limit(q, n), [m EXCEPT !.wrong = @ \/ n < 0])
          \/ Derives(Skip(q, n), [m EXCEPT !.wrong = @ \/ n < 0])
    BY <1>8 DEF Pages
  <2>2. n \in Int
    BY InputsAssumption
  <2> HIDE DEF q, m
  <2> QED
    BY <1>2, <2>1, <2>2, PagesAreGood
<1>9. CASE Projects(b)
  <2>1. PICK field \in ProjectedFields :
          Derives(Select(q, field), m) \/ Derives(Exclude(q, field), m)
    BY <1>9 DEF Projects
  <2> HIDE DEF q, m
  <2> QED
    BY <1>2, <2>1, ProjectsAreGood
<1> QED
  BY <1>1, <1>3, <1>4, <1>5, <1>6, <1>7, <1>8, <1>9

LEMMA RunsLeaves == Runs => UNCHANGED <<meta, memory, queries, meant>>
BY DEF Runs, Answers, Refuses, Get, First, Count, Update, UpdateOne, UpdateRaw, Delete,
       DeleteOne, Restore, ForceDelete, UpdateMany, UpdateOneOf, Removes

LEMMA StepsKeep ==
  ASSUME QueriesMean, [QueryNext]_queryVars
  PROVE  /\ QueriesMean' /\ Grown(memory, memory')
         /\ \A b \in 1..Len(queries) : b \in 1..Len(queries') /\ queries'[b] = queries[b]
<1>1. CASE Builds
  BY <1>1, BuildsAreGood, DerivesKeeps
<1>2. CASE UNCHANGED <<meta, memory, queries, meant>>
  <2>1. QueriesMean'
    BY <1>2 DEF QueriesMean, Means, QueryOK, Says
  <2> QED
    BY <1>2, <2>1 DEF Grown
<1>3. UNCHANGED queryVars => UNCHANGED <<meta, memory, queries, meant>>
  BY DEF queryVars
<1> QED
  BY <1>1, <1>2, <1>3, RunsLeaves DEF QueryNext

LEMMA AlwaysQueriesMean == QuerySpec => []QueriesMean
<1>1. QueriesMean /\ [QueryNext]_queryVars => QueriesMean'
  BY StepsKeep
<1> QED
  BY <1>1, QueriesMeanInit, PTL DEF QuerySpec

-----------------------------------------------------------------------------
\* No step changes a query, nor what is read through it.
LEMMA StepsLeaveQueries ==
  ASSUME QueriesMean, [QueryNext]_queryVars
  PROVE  \A b \in DOMAIN queries : queries'[b] = queries[b] /\ Reads(b)' = Reads(b)
<1>1. SUFFICES ASSUME NEW b \in DOMAIN queries
               PROVE  queries'[b] = queries[b] /\ Reads(b)' = Reads(b)
  OBVIOUS
<1>2. b \in 1..Len(queries) /\ memory \in Memories
  BY DEF QueriesMean
<1>3. queries'[b] = queries[b] /\ Grown(memory, memory')
  BY <1>2, StepsKeep
<1>4. QueryOK(memory, queries[b])
  BY <1>2 DEF QueriesMean, Means
<1>5. \A slice \in Slices : Within(memory, queries[b][slice])
  BY <1>4 DEF Slices, QueryOK
<1>6. \A slice \in Slices : Elems(memory', queries[b][slice]) = Elems(memory, queries[b][slice])
  BY <1>2, <1>3, <1>5, SliceStays
<1>7. Reads(b) = [slice \in Slices |-> Elems(memory, queries[b][slice])]
  BY ElementsAre DEF Reads
<1>8. Reads(b)' = [slice \in Slices |-> Elems(memory', queries'[b][slice])]
  BY DEF Reads, Elements, Elems
<1> QED
  BY <1>3, <1>6, <1>7, <1>8

\* "Nothing mutates a query after it is built": neither a call on it nor one
\* on a query it shares backing arrays with (query.go:33-48).
THEOREM QueriesNeverChange == QuerySpec => DerivedQueriesStay
<1>1. QueriesMean /\ [QueryNext]_queryVars =>
        \A b \in DOMAIN queries : queries'[b] = queries[b] /\ Reads(b)' = Reads(b)
  BY StepsLeaveQueries
<1> QED
  BY <1>1, AlwaysQueriesMean, PTL DEF QuerySpec, DerivedQueriesStay

\* Queries that say what their chains say select it.
LEMMA ChainIsMeant ==
  ASSUME QueriesMean
  PROVE  FiltersMeanTheirChain
<1>1. SUFFICES ASSUME NEW b \in DOMAIN queries, queries[b].err = "none"
               PROVE  compileFilter(queries[b], queries[b].trashed) =
                        {d \in meant[b].set :
                           meta.softDeletes =>
                             CASE meant[b].mode = "excluded" -> ~d.trashed
                               [] meant[b].mode = "only" -> d.trashed
                               [] OTHER -> TRUE}
  BY DEF FiltersMeanTheirChain
<1> DEFINE q == queries[b]
           m == meant[b]
           f == Elems(memory, q.filters)
<1>2. Means(memory, q, m)
  BY <1>1 DEF QueriesMean
<1>3. /\ FiltersMean(f, m) /\ (meta.softDeletes => m.mode = q.trashed)
      /\ m \in Meanings /\ q.trashed \in Modes
  BY <1>1, <1>2 DEF Means, Says, QueryOK, QueryRecords
<1>4. f \in Seq(SUBSET Shapes) /\ m.set = buildFilter(f) /\ m.set \in SUBSET Shapes
  BY <1>3 DEF FiltersMean, Meanings
<1>5. CASE ~meta.softDeletes
  BY <1>4, <1>5, ElementsAre DEF compileFilter
<1>6. CASE meta.softDeletes
  <2> DEFINE c == softDeleteFilter(q.trashed)
  <2>1. c \in SUBSET Shapes
    BY DEF softDeleteFilter
  <2>2. compileFilter(q, q.trashed) = buildFilter(Append(f, c))
    BY <1>6, ElementsAre DEF compileFilter
  <2>3. compileFilter(q, q.trashed) = m.set \cap c
    BY <1>4, <2>1, <2>2, buildFilterAppend
  <2>4. m.mode = q.trashed
    BY <1>3, <1>6
  <2>5. CASE q.trashed = "excluded"
    BY <1>4, <1>6, <2>3, <2>4, <2>5 DEF softDeleteFilter
  <2>6. CASE q.trashed = "only"
    BY <1>4, <1>6, <2>3, <2>4, <2>6 DEF softDeleteFilter
  <2>7. CASE q.trashed = "included"
    BY <1>4, <1>6, <2>3, <2>4, <2>7 DEF softDeleteFilter
  <2> QED
    BY <1>3, <2>5, <2>6, <2>7 DEF Modes
<1> QED
  BY <1>5, <1>6

\* A query selects what its chain of calls says, whatever the conditions and
\* however long the chain (query.go:158-173, query.go:114-117).
THEOREM QueriesMeanTheirChain == QuerySpec => []FiltersMeanTheirChain
<1>1. QueriesMean => FiltersMeanTheirChain
  BY ChainIsMeant
<1> QED
  BY <1>1, AlwaysQueriesMean, PTL

\* No query sends an update with two operators for a field or a projection
\* that mixes, and one with a wrong call in its chain is not sent
\* (update.go:82-92, execute.go:249-258, query.go:346-362).
LEMMA stagedUpdateIsLegal ==
  ASSUME NEW q, NEW m, memory \in Memories,
         UpdatesMean(Elems(memory, q.updates), m)
  PROVE  /\ stagedUpdate(q) \in Seq(Updates)
         /\ \A i, j \in DOMAIN stagedUpdate(q) :
              stagedUpdate(q)[i][2] = stagedUpdate(q)[j][2] => i = j
<1> DEFINE u == Elems(memory, q.updates)
           stamp == <<"$set", "updated_at", Now>>
<1>1. stagedUpdate(q) = timestampedOps(q, u)
  BY ElementsAre DEF stagedUpdate
<1>2. /\ u \in Seq(Updates) /\ DOMAIN u = 1..Len(u) /\ Len(u) \in Nat
      /\ \A i, j \in 1..Len(u) : u[i][2] = u[j][2] => i = j
  BY DEF UpdatesMean
<1>3. stamp \in Updates /\ stamp[2] = "updated_at"
  BY DEF Updates, Operators, Fields, Now, KeepsNumbers
<1> HIDE DEF u, stamp
<1>4. CASE timestampedOps(q, u) = u
  BY <1>1, <1>2, <1>4
<1>5. CASE timestampedOps(q, u) = Append(u, stamp) /\ \A i \in DOMAIN u : u[i][2] # "updated_at"
  <2>1. /\ Append(u, stamp) \in Seq(Updates) /\ DOMAIN Append(u, stamp) = 1..(Len(u) + 1)
        /\ \A i \in 1..Len(u) : Append(u, stamp)[i] = u[i]
        /\ Append(u, stamp)[Len(u) + 1] = stamp
    BY <1>2, <1>3
  <2>2. 1..(Len(u) + 1) = 1..Len(u) \cup {Len(u) + 1}
    BY <1>2
  <2> QED
    BY <1>1, <1>2, <1>3, <1>5, <2>1, <2>2
<1> QED
  BY <1>4, <1>5 DEF timestampedOps, stamp

\* What they say is legal.
LEMMA SentIsLegal ==
  ASSUME QueriesMean
  PROVE  WhatIsSentIsLegal
<1>1. SUFFICES
        ASSUME NEW b \in DOMAIN queries
        PROVE  LET q == queries[b] ops == stagedUpdate(q) fields == Elements(q.projection) IN
               /\ meant[b].wrong => q.err # "none"
               /\ q.err = "none" =>
                    /\ \A i, j \in DOMAIN ops : ops[i][2] = ops[j][2] => i = j
                    /\ \A i, j \in DOMAIN fields :
                         /\ fields[i][1] = fields[j][1] => i = j
                         /\ fields[i][1] # "_id" /\ fields[j][1] # "_id" =>
                              fields[i][2] = fields[j][2]
  BY DEF WhatIsSentIsLegal
<1> DEFINE q == queries[b]
           m == meant[b]
           p == Elems(memory, q.projection)
<1>2. Means(memory, q, m) /\ memory \in Memories
  BY <1>1 DEF QueriesMean
<1>3. m.wrong => q.err # "none"
  BY <1>2 DEF Means, Says
<1>4. ASSUME q.err = "none"
      PROVE  \A i, j \in DOMAIN stagedUpdate(q) :
               stagedUpdate(q)[i][2] = stagedUpdate(q)[j][2] => i = j
  <2>1. UpdatesMean(Elems(memory, q.updates), m)
    BY <1>2, <1>4 DEF Means, Says
  <2> QED
    BY <1>2, <2>1, stagedUpdateIsLegal
<1>5. ASSUME q.err = "none"
      PROVE  \A i, j \in DOMAIN p :
               /\ p[i][1] = p[j][1] => i = j
               /\ p[i][1] # "_id" /\ p[j][1] # "_id" => p[i][2] = p[j][2]
  <2>1. ProjectionMeans(p, q.projectionMode)
    BY <1>2, <1>5 DEF Means, Says
  <2> HIDE DEF p
  <2>2. DOMAIN p = 1..Len(p)
    BY <2>1 DEF ProjectionMeans
  <2>3. \A i \in 1..Len(p) : p[i] \in ProjectedFields \X {0, 1}
    BY <2>1 DEF ProjectionMeans
  <2> QED
    BY <2>1, <2>2, <2>3 DEF ProjectionMeans
<1> QED
  BY <1>3, <1>4, <1>5, ElementsAre

\* What a query sends has no field twice in an update or a projection and keeps
\* no field beside one it drops, _id aside, and a chain with a wrong call sends
\* nothing (update.go:82-92, execute.go:249-258, query.go:295, 327, 346-362).
THEOREM QueriesSendWhatIsLegal == QuerySpec => []WhatIsSentIsLegal
<1>1. QueriesMean => WhatIsSentIsLegal
  BY SentIsLegal
<1> QED
  BY <1>1, AlwaysQueriesMean, PTL

-----------------------------------------------------------------------------
(* What running a query does to the documents.                             *)
Ops == Operators \X Fields \X Int

\* What an update does to a field: the operators it names the field under.
Has(ops, o, field) == \E i \in 1..Len(ops) : ops[i][1] = o /\ ops[i][2] = field

LEMMA TargetsAre ==
  ASSUME NEW ops \in Seq(Ops), NEW o, NEW field
  PROVE  /\ Targets(compileUpdate(ops), o, field) =
              {<<ops[i][2], ops[i][3]>> :
                 i \in {j \in 1..Len(ops) : ops[j][1] = o /\ ops[j][2] = field}}
         /\ Targets(compileUpdate(ops), o, field) # {} <=> Has(ops, o, field)
<1> DEFINE T == Targets(compileUpdate(ops), o, field)
           R == {<<ops[i][2], ops[i][3]>> :
                   i \in {j \in 1..Len(ops) : ops[j][1] = o /\ ops[j][2] = field}}
<1>1. DOMAIN ops = 1..Len(ops) /\ \A i \in 1..Len(ops) : ops[i] \in Ops
  OBVIOUS
<1>2. CASE o \in DOMAIN compileUpdate(ops)
  <2>1. compileUpdate(ops)[o] = {<<ops[i][2], ops[i][3]>> : i \in {j \in DOMAIN ops : ops[j][1] = o}}
    BY <1>2 DEF compileUpdate
  <2>2. T = {e \in {<<ops[i][2], ops[i][3]>> : i \in {j \in DOMAIN ops : ops[j][1] = o}} :
               e[1] = field}
    BY <1>2, <2>1 DEF Targets
  <2>3. ASSUME NEW e \in T
        PROVE  e \in R
    BY <1>1, <2>2, <2>3
  <2>4. ASSUME NEW e \in R
        PROVE  e \in T
    BY <1>1, <2>2, <2>4
  <2>5. T = R
    BY <2>3, <2>4
  <2> QED
    BY <2>5 DEF Has
<1>3. CASE o \notin DOMAIN compileUpdate(ops)
  <2>1. \A i \in 1..Len(ops) : ops[i][1] # o
    BY <1>1, <1>3 DEF compileUpdate
  <2>2. T = {}
    BY <1>3 DEF Targets
  <2>3. R = {}
    BY <2>1
  <2> QED
    BY <2>1, <2>2, <2>3 DEF Has
<1> QED
  BY <1>2, <1>3

LEMMA UpdatedIsTyped ==
  ASSUME NEW ops \in Seq(Ops), NEW d \in Docs,
         d.n = Null => ~Has(ops, "$inc", "n")
  PROVE  LET u == compileUpdate(ops) d2 == Updated(d, u)
         IN  /\ d2 \in Docs
             /\ ~Has(ops, "$unset", "deleted_at") /\ ~Has(ops, "$set", "deleted_at")
                  /\ ~Has(ops, "$inc", "deleted_at") => d2.deleted_at = d.deleted_at
             /\ ~Has(ops, "$unset", "deleted_at") /\ Has(ops, "$set", "deleted_at")
                  => d2.deleted_at # Absent
<1> DEFINE u == compileUpdate(ops)
           d2 == Updated(d, u)
           set(field) == (CHOOSE e \in Targets(u, "$set", field) : TRUE)[2]
           inc(field) == (CHOOSE e \in Targets(u, "$inc", field) : TRUE)[2]
           value(field) ==
             IF Has(ops, "$unset", field) THEN Absent
             ELSE IF Has(ops, "$set", field) THEN set(field)
             ELSE IF Has(ops, "$inc", field)
                  THEN (IF d[field] = Absent THEN 0 ELSE d[field]) + inc(field)
             ELSE d[field]
<1>1. DOMAIN d = {"n", "updated_at", "deleted_at"}
  BY DEF Docs
<1>2. \A o, field : Targets(u, o, field) # {} <=> Has(ops, o, field)
  BY TargetsAre
<1>3. ASSUME NEW o, NEW field, Has(ops, o, field)
      PROVE  (CHOOSE e \in Targets(u, o, field) : TRUE)[2] \in Int
  <2>1. PICK e \in Targets(u, o, field) :
           e = CHOOSE x \in Targets(u, o, field) : TRUE
    BY <1>2, <1>3
  <2>2. PICK i \in 1..Len(ops) : e = <<ops[i][2], ops[i][3]>>
    BY <2>1, TargetsAre
  <2>3. ops[i] \in Ops
    OBVIOUS
  <2>4. e[2] \in Int
    BY <2>2, <2>3 DEF Ops
  <2> QED
    BY <2>1, <2>4
<1>4. d2 = [field \in {"n", "updated_at", "deleted_at"} |-> value(field)]
  BY <1>1, <1>2 DEF Updated
<1>5. \A field : Has(ops, "$set", field) => set(field) \in Int
  BY <1>3
<1>6. \A field : Has(ops, "$inc", field) => inc(field) \in Int
  BY <1>3
<1> HIDE DEF set, inc, u
<1>7. /\ d.n \in Int \cup {Absent, Null} /\ d.updated_at \in Int \cup {Absent}
      /\ d.deleted_at \in Int \cup {Absent}
  BY DEF Docs
<1>8. /\ value("n") \in Int \cup {Absent, Null}
      /\ value("updated_at") \in Int \cup {Absent}
      /\ value("deleted_at") \in Int \cup {Absent}
  BY <1>5, <1>6, <1>7
<1>9. /\ ~Has(ops, "$unset", "deleted_at") /\ ~Has(ops, "$set", "deleted_at")
           /\ ~Has(ops, "$inc", "deleted_at") => value("deleted_at") = d.deleted_at
      /\ ~Has(ops, "$unset", "deleted_at") /\ Has(ops, "$set", "deleted_at")
           => value("deleted_at") \in Int
  BY <1>5
<1>10. Absent \notin Int
  BY SeedAssumption
<1> HIDE DEF value, d2
<1>11. d2 \in Docs /\ d2.deleted_at = value("deleted_at")
  BY <1>4, <1>8 DEF Docs
<1> QED
  BY <1>9, <1>10, <1>11 DEF d2, u

DocsTyped == docs \in [Ids -> Docs \cup {NoDoc}]

\* The three things that running a query can do.
Reading(filter) == docs' = docs /\ answer'.ids \subseteq Matching(filter)
Updating(filter, ops) ==
  /\ ops \in Seq(Ops) /\ answer'.ids \subseteq Matching(filter)
  /\ \A i \in answer'.ids : ~Refused(i, compileUpdate(ops))
  /\ docs' = AfterUpdating(answer'.ids, compileUpdate(ops))
Removing(filter) ==
  /\ answer'.ids \subseteq Matching(filter)
  /\ docs' = [i \in Ids |-> IF i \in answer'.ids THEN NoDoc ELSE docs[i]]

LEMMA LeadingWithin ==
  \A set, count, sorts : \A first \in Leading(set, count, sorts) : first \subseteq set
BY DEF Leading

LEMMA PageWithin == \A q, set : \A page \in Page(q, set) : page \subseteq set
<1> SUFFICES ASSUME NEW q, NEW set, NEW page \in Page(q, set)
             PROVE  page \subseteq set
  OBVIOUS
<1>1. PICK passed \in Leading(set, q.skip, Elements(q.sorts)) :
        page \in IF q.limit = 0 THEN {set \ passed}
                 ELSE Leading(set \ passed, q.limit, Elements(q.sorts))
  BY DEF Page
<1>2. CASE page = set \ passed
  BY <1>2
<1>3. CASE page \in Leading(set \ passed, q.limit, Elements(q.sorts))
  <2>1. page \subseteq set \ passed
    BY <1>3, LeadingWithin
  <2> QED
    BY <2>1
<1> QED
  BY <1>1, <1>2, <1>3

LEMMA RefusesDoes ==
  ASSUME NEW op, NEW b, Refuses(op, b)
  PROVE  answer'.op = op /\ answer'.query = b /\ answer'.ids = {} /\ docs' = docs
BY DEF Refuses, Answers

LEMMA UpdateManyDoes ==
  ASSUME DocsTyped, NEW op, NEW b, NEW filter, NEW ops \in Seq(Ops),
         UpdateMany(op, b, filter, compileUpdate(ops))
  PROVE  answer'.op = op /\ answer'.query = b /\ Updating(filter, ops)
<1> DEFINE u == compileUpdate(ops)
           chosen == Matching(filter)
<1> HIDE DEF u
<1>1. CASE \E i \in chosen : Refused(i, u)
  <2>1. PICK done \in SUBSET {i \in chosen : ~Refused(i, u)} :
           docs' = AfterUpdating(done, u) /\ Answers(op, b, TRUE, done)
    BY <1>1 DEF UpdateMany, u
  <2>2. answer'.op = op /\ answer'.query = b /\ answer'.ids = done
    BY <2>1 DEF Answers
  <2> QED
    BY <2>1, <2>2 DEF Updating, u
<1>2. CASE ~\E i \in chosen : Refused(i, u)
  <2>1. docs' = AfterUpdating(chosen, u) /\ Answers(op, b, FALSE, chosen)
    BY <1>2 DEF UpdateMany, u
  <2>2. answer'.op = op /\ answer'.query = b /\ answer'.ids = chosen
    BY <2>1 DEF Answers
  <2> QED
    BY <1>2, <2>1, <2>2 DEF Updating, u
<1> QED
  BY <1>1, <1>2

LEMMA UpdateOneOfDoes ==
  ASSUME DocsTyped, NEW op, NEW b, NEW q, NEW filter, NEW ops \in Seq(Ops),
         UpdateOneOf(op, b, q, filter, compileUpdate(ops))
  PROVE  answer'.op = op /\ answer'.query = b /\ Updating(filter, ops)
<1> DEFINE u == compileUpdate(ops)
<1> HIDE DEF u
<1>1. PICK one \in Leading(Matching(filter), 1, Elements(q.sorts)) :
        IF \E i \in one : Refused(i, u) THEN Refuses(op, b)
        ELSE docs' = AfterUpdating(one, u) /\ Answers(op, b, FALSE, one)
  BY DEF UpdateOneOf, u
<1>2. one \subseteq Matching(filter)
  BY LeadingWithin
<1>3. CASE \E i \in one : Refused(i, u)
  <2>1. answer'.op = op /\ answer'.query = b /\ answer'.ids = {} /\ docs' = docs
    BY <1>1, <1>3, RefusesDoes
  <2>2. AfterUpdating({}, u) = docs
    BY DEF AfterUpdating, DocsTyped
  <2> QED
    BY <2>1, <2>2 DEF Updating, u
<1>4. CASE ~\E i \in one : Refused(i, u)
  <2>1. docs' = AfterUpdating(one, u) /\ Answers(op, b, FALSE, one)
    BY <1>1, <1>4
  <2>2. answer'.op = op /\ answer'.query = b /\ answer'.ids = one
    BY <2>1 DEF Answers
  <2> QED
    BY <1>2, <1>4, <2>1, <2>2 DEF Updating, u
<1> QED
  BY <1>3, <1>4

LEMMA RemovesDoes ==
  ASSUME NEW op, NEW b, NEW filter, NEW chosen \in SUBSET Matching(filter),
         Removes(op, b, chosen)
  PROVE  answer'.op = op /\ answer'.query = b /\ Removing(filter)
<1>1. answer'.op = op /\ answer'.query = b /\ answer'.ids = chosen
  BY DEF Removes, Answers
<1> QED
  BY <1>1 DEF Removes, Removing

\* The updates the methods send: an operator on n keeps it a number, and
\* deleted_at is set to the present or taken away.
Sent ==
  {op \in Ops : /\ KeepsNumbers(op)
                /\ op[2] = "deleted_at" => op[1] = "$unset" \/ (op[1] = "$set" /\ op[3] = Now)}

LEMMA OpsSent ==
  ASSUME NEW q
  PROVE  /\ softDeleteUpdate(q) \in Seq(Sent)
         /\ ~Has(softDeleteUpdate(q), "$unset", "deleted_at")
         /\ Has(softDeleteUpdate(q), "$set", "deleted_at")
         /\ restoreOps(q) \in Seq(Sent)
         /\ <<<<"$set", "n", 1>>>> \in Seq(Updates)
<1>1. /\ <<"$set", "deleted_at", Now>> \in Sent /\ <<"$set", "updated_at", Now>> \in Sent
      /\ <<"$unset", "deleted_at", 0>> \in Sent
  <2> DEFINE trash == <<"$set", "deleted_at", Now>>
             stamp == <<"$set", "updated_at", Now>>
             untrash == <<"$unset", "deleted_at", 0>>
  <2>1. trash \in Ops /\ stamp \in Ops /\ untrash \in Ops
    BY DEF Ops, Operators, Fields, Now
  <2>2. KeepsNumbers(trash) /\ KeepsNumbers(stamp) /\ KeepsNumbers(untrash)
    BY DEF KeepsNumbers
  <2> QED
    BY <2>1, <2>2 DEF Sent
<1>2. softDeleteUpdate(q) \in Seq(Sent) /\ restoreOps(q) \in Seq(Sent)
  BY <1>1 DEF softDeleteUpdate, restoreOps, Stamped
<1>3. softDeleteUpdate(q)[1] = <<"$set", "deleted_at", Now>> /\ Len(softDeleteUpdate(q)) \in {1, 2}
  BY DEF softDeleteUpdate, Stamped
<1>4. Len(softDeleteUpdate(q)) = 2 => softDeleteUpdate(q)[2] = <<"$set", "updated_at", Now>>
  BY DEF softDeleteUpdate, Stamped
<1>5. Has(softDeleteUpdate(q), "$set", "deleted_at")
  BY <1>3 DEF Has
<1>6. ~Has(softDeleteUpdate(q), "$unset", "deleted_at")
  BY <1>3, <1>4 DEF Has
<1>7. <<"$set", "n", 1>> \in Updates
  <2>1. 1 \in Numbers
    BY NumbersAssumption DEF Numbers
  <2>2. KeepsNumbers(<<"$set", "n", 1>>)
    BY <2>1 DEF KeepsNumbers
  <2> QED
    BY <2>2 DEF Updates, Operators, Fields
<1> QED
  BY <1>2, <1>5, <1>6, <1>7

LEMMA UpdatesAreSent == Seq(Updates) \subseteq Seq(Sent) /\ Seq(Sent) \subseteq Seq(Ops)
<1>1. Updates \subseteq Sent /\ Sent \subseteq Ops
  BY DEF Updates, Sent, Ops
<1> QED
  BY <1>1

LEMMA RunsDo ==
  ASSUME QueriesMean, DocsTyped, Runs
  PROVE  LET q == queries[Len(queries)] asked == compileFilter(q, q.trashed) op == answer'.op IN
         /\ answer'.query = Len(queries)
         /\ \/ answer'.ids = {} /\ docs' = docs
            \/ q.err = "none" /\ op \in {"Get", "First", "Count"} /\ Reading(asked)
            \/ q.err = "none" /\ op \in {"Update", "UpdateOne", "UpdateRaw"}
                 /\ \E ops \in Seq(Updates) : Updating(asked, ops)
            \/ q.err = "none" /\ op \in {"Delete", "DeleteOne"}
                 /\ IF meta.softDeletes THEN Updating(asked, softDeleteUpdate(q))
                    ELSE Removing(asked)
            \/ q.err = "none" /\ op = "Restore" /\ meta.softDeletes
                 /\ Updating(compileFilter(q, "only"), restoreOps(q))
            \/ q.err = "none" /\ op = "ForceDelete" /\ meta.softDeletes
                 /\ Removing(compileFilter(q, forceDeleteMode(q.trashed)))
<1> DEFINE b == Len(queries)
           q == queries[b]
           asked == compileFilter(q, q.trashed)
<1>1. CASE q.err # "none"
  <2>1. Refuses("any", b)
    BY <1>1 DEF Runs
  <2> QED
    BY <2>1, RefusesDoes
<1>2. CASE q.err = "none"
  <2>1. \/ Get(b, q) \/ First(b, q) \/ Count(b, q)
        \/ Update(b, q) \/ UpdateOne(b, q) \/ UpdateRaw(b, q)
        \/ Delete(b, q) \/ DeleteOne(b, q) \/ Restore(b, q) \/ ForceDelete(b, q)
    BY <1>2 DEF Runs
  <2>2. stagedUpdate(q) \in Seq(Updates)
    <3>1. UpdatesMean(Elems(memory, q.updates), meant[b]) /\ memory \in Memories
      BY <1>2 DEF QueriesMean, Means, Says
    <3> QED
      BY <3>1, stagedUpdateIsLegal
  <2>3. Seq(Updates) \subseteq Seq(Ops) /\ Seq(Sent) \subseteq Seq(Ops)
    BY UpdatesAreSent
  <2> HIDE DEF b, q
  <2>4. CASE Get(b, q)
    <3>1. PICK page \in Page(q, Matching(asked)) : Answers("Get", b, FALSE, page) /\ docs' = docs
      BY <2>4 DEF Get
    <3> QED
      BY <1>2, <3>1, PageWithin DEF Answers, Reading, b, q
  <2>5. CASE First(b, q)
    <3>1. PICK page \in Page([q EXCEPT !.limit = 1], Matching(asked)) :
             Answers("First", b, page = {}, page) /\ docs' = docs
      BY <2>5 DEF First
    <3>2. page \subseteq Matching(asked)
      BY PageWithin
    <3> QED
      BY <1>2, <3>1, <3>2 DEF Answers, Reading, b, q
  <2>6. CASE Count(b, q)
    BY <1>2, <2>6 DEF Count, Answers, Reading, b, q
  <2>7. CASE Update(b, q)
    <3>1. Refuses("Update", b) \/ UpdateMany("Update", b, asked, compileUpdate(stagedUpdate(q)))
      BY <2>7 DEF Update
    <3>2. UpdateMany("Update", b, asked, compileUpdate(stagedUpdate(q)))
            => answer'.op = "Update" /\ answer'.query = b /\ Updating(asked, stagedUpdate(q))
      BY <2>2, <2>3, UpdateManyDoes
    <3> QED
      BY <1>2, <2>2, <3>1, <3>2, RefusesDoes DEF b, q
  <2>8. CASE UpdateOne(b, q)
    <3>1. \/ Refuses("UpdateOne", b)
          \/ UpdateOneOf("UpdateOne", b, q, asked, compileUpdate(stagedUpdate(q)))
      BY <2>8 DEF UpdateOne
    <3>2. UpdateOneOf("UpdateOne", b, q, asked, compileUpdate(stagedUpdate(q)))
            => answer'.op = "UpdateOne" /\ answer'.query = b /\ Updating(asked, stagedUpdate(q))
      BY <2>2, <2>3, UpdateOneOfDoes
    <3> QED
      BY <1>2, <2>2, <3>1, <3>2, RefusesDoes DEF b, q
  <2>9. CASE UpdateRaw(b, q)
    <3> DEFINE raw == <<<<"$set", "n", 1>>>>
    <3>0. raw \in Seq(Updates)
      BY OpsSent
    <3>1. Refuses("UpdateRaw", b) \/ UpdateMany("UpdateRaw", b, asked, compileUpdate(raw))
      BY <2>9 DEF UpdateRaw
    <3> HIDE DEF raw
    <3>2. UpdateMany("UpdateRaw", b, asked, compileUpdate(raw))
            => answer'.op = "UpdateRaw" /\ answer'.query = b /\ Updating(asked, raw)
      BY <2>3, <3>0, UpdateManyDoes
    <3> QED
      BY <1>2, <3>0, <3>1, <3>2, RefusesDoes DEF b, q
  <2>10. CASE Delete(b, q)
    <3>1. CASE meta.softDeletes
      <4>1. UpdateMany("Delete", b, asked, compileUpdate(softDeleteUpdate(q)))
        BY <2>10, <3>1 DEF Delete
      <4>2. answer'.op = "Delete" /\ answer'.query = b /\ Updating(asked, softDeleteUpdate(q))
        BY <2>3, <4>1, OpsSent, UpdateManyDoes
      <4> QED
        BY <1>2, <3>1, <4>2 DEF b, q
    <3>2. CASE ~meta.softDeletes
      <4>1. Removes("Delete", b, Matching(asked))
        BY <2>10, <3>2 DEF Delete
      <4>2. answer'.op = "Delete" /\ answer'.query = b /\ Removing(asked)
        BY <4>1, RemovesDoes
      <4> QED
        BY <1>2, <3>2, <4>2 DEF b, q
    <3> QED
      BY <3>1, <3>2
  <2>11. CASE DeleteOne(b, q)
    <3>1. CASE meta.softDeletes
      <4>1. UpdateOneOf("DeleteOne", b, q, asked, compileUpdate(softDeleteUpdate(q)))
        BY <2>11, <3>1 DEF DeleteOne
      <4>2. answer'.op = "DeleteOne" /\ answer'.query = b /\ Updating(asked, softDeleteUpdate(q))
        BY <2>3, <4>1, OpsSent, UpdateOneOfDoes
      <4> QED
        BY <1>2, <3>1, <4>2 DEF b, q
    <3>2. CASE ~meta.softDeletes
      <4>1. PICK one \in Leading(Matching(asked), 1, Elements(q.sorts)) : Removes("DeleteOne", b, one)
        BY <2>11, <3>2 DEF DeleteOne
      <4>2. one \in SUBSET Matching(asked)
        BY LeadingWithin
      <4>3. answer'.op = "DeleteOne" /\ answer'.query = b /\ Removing(asked)
        BY <4>1, <4>2, RemovesDoes
      <4> QED
        BY <1>2, <3>2, <4>3 DEF b, q
    <3> QED
      BY <3>1, <3>2
  <2>12. CASE Restore(b, q)
    <3>1. CASE meta.softDeletes
      <4>1. UpdateMany("Restore", b, compileFilter(q, "only"), compileUpdate(restoreOps(q)))
        BY <2>12, <3>1 DEF Restore
      <4>2. /\ answer'.op = "Restore" /\ answer'.query = b
            /\ Updating(compileFilter(q, "only"), restoreOps(q))
        BY <2>3, <4>1, OpsSent, UpdateManyDoes
      <4> QED
        BY <1>2, <3>1, <4>2 DEF b, q
    <3>2. CASE ~meta.softDeletes
      BY <2>12, <3>2, RefusesDoes DEF Restore, b, q
    <3> QED
      BY <3>1, <3>2
  <2>13. CASE ForceDelete(b, q)
    <3> DEFINE filter == compileFilter(q, forceDeleteMode(q.trashed))
    <3>1. CASE meta.softDeletes
      <4>1. Removes("ForceDelete", b, Matching(filter))
        BY <2>13, <3>1 DEF ForceDelete
      <4>2. answer'.op = "ForceDelete" /\ answer'.query = b /\ Removing(filter)
        BY <4>1, RemovesDoes
      <4> QED
        BY <1>2, <3>1, <4>2 DEF b, q
    <3>2. CASE ~meta.softDeletes
      BY <2>13, <3>2, RefusesDoes DEF ForceDelete, b, q
    <3> QED
      BY <3>1, <3>2
  <2> QED
    BY <2>1, <2>4, <2>5, <2>6, <2>7, <2>8, <2>9, <2>10, <2>11, <2>12, <2>13
<1> QED
  BY <1>1, <1>2

-----------------------------------------------------------------------------
(* The documents.                                                          *)
LEMMA UpdatingIsTyped ==
  ASSUME DocsTyped, NEW filter, NEW ops, Updating(filter, ops), NEW i \in Ids
  PROVE  /\ i \notin answer'.ids => docs'[i] = docs[i]
         /\ i \in answer'.ids =>
              /\ docs[i] \in Docs /\ docs'[i] \in Docs
              /\ docs'[i] = Updated(docs[i], compileUpdate(ops))
              /\ docs[i].n = Null => ~Has(ops, "$inc", "n")
<1>1. docs'[i] = IF i \in answer'.ids THEN Updated(docs[i], compileUpdate(ops)) ELSE docs[i]
  BY DEF Updating, AfterUpdating
<1>2. ASSUME i \in answer'.ids
      PROVE  /\ docs[i] \in Docs /\ docs'[i] \in Docs
             /\ docs[i].n = Null => ~Has(ops, "$inc", "n")
  <2>1. docs[i] # NoDoc /\ ops \in Seq(Ops) /\ ~Refused(i, compileUpdate(ops))
    BY <1>2 DEF Updating, Matching
  <2>2. docs[i] \in Docs
    BY <2>1 DEF DocsTyped
  <2>3. docs[i].n = Null => ~Has(ops, "$inc", "n")
    BY <2>1, TargetsAre DEF Refused
  <2> QED
    BY <1>1, <1>2, <2>1, <2>2, <2>3, UpdatedIsTyped
<1> QED
  BY <1>1, <1>2

LEMMA DocsTypedKept ==
  ASSUME QueriesMean, DocsTyped, [QueryNext]_queryVars
  PROVE  DocsTyped'
<1>1. CASE docs' = docs
  BY <1>1 DEF DocsTyped
<1>2. CASE \E filter, ops : Updating(filter, ops)
  <2>1. PICK filter, ops : Updating(filter, ops)
    BY <1>2
  <2>2. \A i \in Ids : docs'[i] \in Docs \cup {NoDoc}
    BY <2>1, UpdatingIsTyped DEF DocsTyped
  <2>3. docs' = [i \in Ids |-> docs'[i]]
    BY <2>1 DEF Updating, AfterUpdating
  <2> QED
    BY <2>2, <2>3 DEF DocsTyped
<1>3. CASE \E filter : Removing(filter)
  BY <1>3 DEF Removing, DocsTyped
<1>4. Builds => docs' = docs
  BY DEF Builds, Derives, Filters, Mistakes, Trashed, Stages, Sorts, Pages, Projects
<1>5. UNCHANGED queryVars => docs' = docs
  BY DEF queryVars
<1>6. Runs => \/ docs' = docs
              \/ \E filter, ops : Updating(filter, ops)
              \/ \E filter : Removing(filter)
  <2> SUFFICES ASSUME Runs
               PROVE  \/ docs' = docs
                      \/ \E filter, ops : Updating(filter, ops)
                      \/ \E filter : Removing(filter)
    OBVIOUS
  <2> HIDE DEF Runs, Updating, Removing
  <2> QED
    BY RunsDo DEF Reading
<1> QED
  BY <1>1, <1>2, <1>3, <1>4, <1>5, <1>6 DEF QueryNext

LEMMA DocsTypedInit == QueryInit => DocsTyped
<1> SUFFICES ASSUME QueryInit
             PROVE  DocsTyped
  OBVIOUS
<1>1. \A i \in Ids : Seed[i] \in Docs /\ [Seed[i] EXCEPT !.deleted_at = Absent] \in Docs
  BY SeedAssumption DEF Docs
<1> QED
  BY <1>1, SeedAssumption DEF QueryInit, DocsTyped

LEMMA AlwaysDocsTyped == QuerySpec => [](QueriesMean /\ DocsTyped)
<1>1. QueriesMean /\ DocsTyped /\ [QueryNext]_queryVars => (QueriesMean /\ DocsTyped)'
  BY StepsKeep, DocsTypedKept
<1> QED
  BY <1>1, DocsTypedInit, QueriesMeanInit, PTL DEF QuerySpec

\* A document whose trash mode the filter does not let through is not matched.
LEMMA ScopeHides ==
  ASSUME QueriesMean, meta.softDeletes, NEW b \in 1..Len(queries), queries[b].err = "none",
         NEW mode \in Modes, NEW i \in Matching(compileFilter(queries[b], mode))
  PROVE  /\ docs[i] # NoDoc
         /\ mode = "excluded" => ~IsTrashed(docs[i])
         /\ mode = "only" => IsTrashed(docs[i])
<1> DEFINE f == Elems(memory, queries[b].filters)
<1>1. f \in Seq(SUBSET Shapes)
  BY DEF QueriesMean, Means, Says, FiltersMean
<1>2. softDeleteFilter(mode) \in SUBSET Shapes
  BY DEF softDeleteFilter
<1>3. compileFilter(queries[b], mode) = buildFilter(Append(f, softDeleteFilter(mode)))
  BY ElementsAre DEF compileFilter
<1> HIDE DEF f
<1>4. compileFilter(queries[b], mode) \subseteq softDeleteFilter(mode)
  <2>1. buildFilter(Append(f, softDeleteFilter(mode))) = buildFilter(f) \cap softDeleteFilter(mode)
    BY <1>1, <1>2, buildFilterAppend
  <2> QED
    BY <1>3, <2>1, Zenon
<1>5. docs[i] # NoDoc /\ ShapeOf(i) \in softDeleteFilter(mode)
  BY <1>4 DEF Matching
<1>6. ShapeOf(i).trashed = IsTrashed(docs[i])
  BY DEF ShapeOf
<1>7. mode = "excluded" => ~ShapeOf(i).trashed
  BY <1>5 DEF softDeleteFilter
<1>8. mode = "only" => ShapeOf(i).trashed
  BY <1>5 DEF softDeleteFilter
<1> QED
  BY <1>5, <1>6, <1>7, <1>8

\* Trash is neither touched nor seen through a query that did not ask for it,
\* nor live documents through one that asked for trash alone or by a Restore;
\* only ForceDelete removes, only Restore takes out of the trash
\* (soft_delete.go:97-163, execute.go:304-343).
Respects(asked, op, i) ==
  LET touched == docs'[i] # docs[i] \/ i \in answer'.ids
      trashed == IsTrashed(docs[i])
  IN /\ touched /\ trashed => asked.trashed # "excluded" \/ op \in {"Restore", "ForceDelete"}
     /\ touched /\ ~trashed => asked.trashed # "only" /\ op # "Restore"
     /\ docs'[i] = NoDoc => op = "ForceDelete"
     /\ docs'[i] # NoDoc => (trashed /\ ~IsTrashed(docs'[i]) => op = "Restore")

LEMMA RunsRespect ==
  ASSUME QueriesMean, DocsTyped, Runs, meta.softDeletes,
         queries[answer'.query].err = "none", NEW i \in Ids, docs[i] # NoDoc
  PROVE  Respects(queries[answer'.query], answer'.op, i)
<1> DEFINE b == Len(queries)
           q == queries[b]
           op == answer'.op
           asked == compileFilter(q, q.trashed)
<1>1. answer'.query = b
  BY RunsDo
<1>2. b \in 1..Len(queries) /\ q \in QueryRecords /\ q.err = "none"
  BY <1>1 DEF QueriesMean
<1>3. q.trashed \in Modes
  BY <1>2 DEF QueryRecords
<1>4. \A mode \in Modes : i \in Matching(compileFilter(q, mode)) =>
        /\ mode = "excluded" => ~IsTrashed(docs[i])
        /\ mode = "only" => IsTrashed(docs[i])
  BY <1>2, ScopeHides
<1>5. i \in Matching(asked) =>
        /\ q.trashed = "excluded" => ~IsTrashed(docs[i])
        /\ q.trashed = "only" => IsTrashed(docs[i])
  BY <1>3, <1>4
<1>6. NoDoc \notin Docs
  BY SeedAssumption
<1>7. docs[i] \in Docs
  BY DEF DocsTyped
<1>8. \/ answer'.ids = {} /\ docs' = docs
      \/ op \in {"Get", "First", "Count"} /\ Reading(asked)
      \/ /\ op \in {"Update", "UpdateOne", "UpdateRaw"}
         /\ \E ops \in Seq(Updates) : Updating(asked, ops)
      \/ op \in {"Delete", "DeleteOne"} /\ Updating(asked, softDeleteUpdate(q))
      \/ op = "Restore" /\ Updating(compileFilter(q, "only"), restoreOps(q))
      \/ op = "ForceDelete" /\ Removing(compileFilter(q, forceDeleteMode(q.trashed)))
  BY RunsDo
<1> HIDE DEF b, q, asked
<1>9. CASE answer'.ids = {} /\ docs' = docs
  BY <1>1, <1>9 DEF Respects
<1>10. CASE op \in {"Get", "First", "Count"} /\ Reading(asked)
  BY <1>1, <1>5, <1>10 DEF Respects, Reading, b, q
<1>11. CASE /\ op \in {"Update", "UpdateOne", "UpdateRaw"}
            /\ \E ops \in Seq(Updates) : Updating(asked, ops)
  <2>1. PICK ops \in Seq(Updates) : Updating(asked, ops)
    BY <1>11
  <2>2. \A o : ~Has(ops, o, "deleted_at")
    BY DEF Has, Updates
  <2>3. i \notin answer'.ids => docs'[i] = docs[i]
    BY <2>1, UpdatingIsTyped
  <2>4. ASSUME i \in answer'.ids
        PROVE  /\ i \in Matching(asked) /\ docs'[i] # NoDoc
               /\ docs'[i].deleted_at = docs[i].deleted_at
    <3>1. /\ docs[i] \in Docs /\ docs'[i] \in Docs
          /\ docs'[i] = Updated(docs[i], compileUpdate(ops))
          /\ docs[i].n = Null => ~Has(ops, "$inc", "n")
      BY <2>1, <2>4, UpdatingIsTyped
    <3>2. ops \in Seq(Ops) /\ i \in Matching(asked)
      BY <2>1, <2>4 DEF Updating
    <3> QED
      BY <1>6, <2>2, <3>1, <3>2, UpdatedIsTyped
  <2> QED
    BY <1>1, <1>5, <1>11, <2>3, <2>4 DEF Respects, IsTrashed, b, q
<1>12. CASE op \in {"Delete", "DeleteOne"} /\ Updating(asked, softDeleteUpdate(q))
  <2> DEFINE ops == softDeleteUpdate(q)
  <2>1. /\ ops \in Seq(Ops) /\ ~Has(ops, "$unset", "deleted_at")
        /\ Has(ops, "$set", "deleted_at")
    BY OpsSent, UpdatesAreSent
  <2> HIDE DEF ops
  <2>2. Updating(asked, ops)
    BY <1>12 DEF ops
  <2>3. i \notin answer'.ids => docs'[i] = docs[i]
    BY <2>2, UpdatingIsTyped
  <2>4. ASSUME i \in answer'.ids
        PROVE  i \in Matching(asked) /\ docs'[i] # NoDoc /\ IsTrashed(docs'[i])
    <3>1. /\ docs[i] \in Docs /\ docs'[i] \in Docs
          /\ docs'[i] = Updated(docs[i], compileUpdate(ops))
          /\ docs[i].n = Null => ~Has(ops, "$inc", "n")
      BY <2>2, <2>4, UpdatingIsTyped
    <3>2. i \in Matching(asked)
      BY <2>2, <2>4 DEF Updating
    <3>3. docs'[i].deleted_at # Absent
      BY <2>1, <3>1, UpdatedIsTyped
    <3> QED
      BY <1>6, <3>1, <3>2, <3>3 DEF IsTrashed
  <2> QED
    BY <1>1, <1>5, <1>12, <2>3, <2>4 DEF Respects, b, q
<1>13. CASE op = "Restore" /\ Updating(compileFilter(q, "only"), restoreOps(q))
  <2>1. i \notin answer'.ids => docs'[i] = docs[i]
    BY <1>13, UpdatingIsTyped
  <2>2. ASSUME i \in answer'.ids
        PROVE  IsTrashed(docs[i]) /\ docs'[i] # NoDoc
    <3>1. docs'[i] \in Docs
      BY <1>13, <2>2, UpdatingIsTyped
    <3>2. i \in Matching(compileFilter(q, "only"))
      BY <1>13, <2>2 DEF Updating
    <3> QED
      BY <1>4, <1>6, <3>1, <3>2 DEF Modes
  <2> QED
    BY <1>1, <1>13, <2>1, <2>2 DEF Respects, b, q
<1>14. CASE op = "ForceDelete" /\ Removing(compileFilter(q, forceDeleteMode(q.trashed)))
  <2> DEFINE mode == forceDeleteMode(q.trashed)
  <2>1. mode \in Modes /\ (q.trashed = "only" => mode = "only")
    BY <1>3 DEF forceDeleteMode, Modes
  <2> HIDE DEF mode
  <2>2. Removing(compileFilter(q, mode))
    BY <1>14 DEF mode
  <2>3. i \notin answer'.ids => docs'[i] = docs[i]
    BY <2>2 DEF Removing
  <2>4. i \in answer'.ids => docs'[i] = NoDoc /\ i \in Matching(compileFilter(q, mode))
    BY <2>2 DEF Removing
  <2>5. i \in answer'.ids /\ ~IsTrashed(docs[i]) => q.trashed # "only"
    BY <1>4, <2>1, <2>4
  <2> QED
    BY <1>1, <1>14, <2>3, <2>4, <2>5 DEF Respects, b, q
<1> QED
  BY <1>8, <1>9, <1>10, <1>11, <1>12, <1>13, <1>14

Respected ==
  LET asked == queries[answer'.query] op == answer'.op IN
  answer' # answer /\ meta.softDeletes /\ asked.err = "none" =>
    \A i \in Ids : docs[i] # NoDoc => Respects(asked, op, i)

LEMMA StepsRespect == QueriesMean /\ DocsTyped /\ [QueryNext]_queryVars => Respected
<1> SUFFICES ASSUME QueriesMean, DocsTyped, [QueryNext]_queryVars
             PROVE  Respected
  OBVIOUS
<1>1. Builds => answer' = answer
  BY DEF Builds, Derives, Filters, Mistakes, Trashed, Stages, Sorts, Pages, Projects
<1>2. UNCHANGED queryVars => answer' = answer
  BY DEF queryVars
<1>3. CASE Runs
  BY <1>3, RunsRespect DEF Respected
<1> QED
  BY <1>1, <1>2, <1>3 DEF QueryNext, Respected

\* Every method that runs a query leaves alone, and does not return, what its
\* scope excludes; only a ForceDelete removes a document that can be
\* soft-deleted (soft_delete.go:97-163, execute.go:304-343).
THEOREM TheTrashIsRespected == QuerySpec => TrashIsRespected
<1>1. QuerySpec => [][Respected]_queryVars
  BY StepsRespect, AlwaysDocsTyped, PTL DEF QuerySpec
<1> QED
  BY <1>1 DEF TrashIsRespected, Respected, Respects

-----------------------------------------------------------------------------
(* The types.                                                              *)
\* What an operator puts in a field is what one of the updates says.
LEMMA TargetSays ==
  ASSUME NEW ops \in Seq(Ops), NEW o, NEW field, Has(ops, o, field)
  PROVE  \E i \in 1..Len(ops) :
           /\ ops[i][1] = o /\ ops[i][2] = field
           /\ (CHOOSE e \in Targets(compileUpdate(ops), o, field) : TRUE)[2] = ops[i][3]
<1> DEFINE T == Targets(compileUpdate(ops), o, field)
<1>1. T # {}
  BY TargetsAre
<1>2. T = {<<ops[i][2], ops[i][3]>> :
             i \in {j \in 1..Len(ops) : ops[j][1] = o /\ ops[j][2] = field}}
  BY TargetsAre
<1> HIDE DEF T
<1>3. PICK e \in T : e = CHOOSE x \in T : TRUE
  BY <1>1
<1>4. PICK i \in {j \in 1..Len(ops) : ops[j][1] = o /\ ops[j][2] = field} :
        e = <<ops[i][2], ops[i][3]>>
  <2>1. e \in {<<ops[i][2], ops[i][3]>> :
                 i \in {j \in 1..Len(ops) : ops[j][1] = o /\ ops[j][2] = field}}
    BY <1>2, <1>3, Zenon
  <2> QED
    BY <2>1, Zenon
<1>5. /\ i \in 1..Len(ops) /\ ops[i][1] = o /\ ops[i][2] = field
      /\ (CHOOSE x \in T : TRUE)[2] = ops[i][3]
  <2>1. e[2] = ops[i][3]
    BY <1>4
  <2> QED
    BY <1>3, <1>4, <2>1
<1> QED
  BY <1>5 DEF T

\* A document and the one at the start it was made from.
Bounded(d, seed) ==
  /\ d.n \in Numbers \cup {Absent, Null}
  /\ d.deleted_at \in {Absent, Now, seed.deleted_at}

LEMMA UpdatedIsBounded ==
  ASSUME NEW ops \in Seq(Sent), NEW d \in Docs, d.n = Null => ~Has(ops, "$inc", "n"),
         NEW i \in Ids, d.n = Seed[i].n, Bounded(d, Seed[i])
  PROVE  Bounded(Updated(d, compileUpdate(ops)), Seed[i])
<1> DEFINE u == compileUpdate(ops)
           d2 == Updated(d, u)
           set(field) == (CHOOSE e \in Targets(u, "$set", field) : TRUE)[2]
           inc(field) == (CHOOSE e \in Targets(u, "$inc", field) : TRUE)[2]
           value(field) ==
             IF Has(ops, "$unset", field) THEN Absent
             ELSE IF Has(ops, "$set", field) THEN set(field)
             ELSE IF Has(ops, "$inc", field)
                  THEN (IF d[field] = Absent THEN 0 ELSE d[field]) + inc(field)
             ELSE d[field]
<1>1. DOMAIN d = {"n", "updated_at", "deleted_at"}
  BY DEF Docs
<1>2. ops \in Seq(Ops) /\ \A j \in 1..Len(ops) : ops[j] \in Sent
  BY UpdatesAreSent
<1>3. \A o, field : Targets(u, o, field) # {} <=> Has(ops, o, field)
  BY <1>2, TargetsAre
<1>4. d2 = [field \in {"n", "updated_at", "deleted_at"} |-> value(field)]
  BY <1>1, <1>3 DEF Updated
<1>5. d2.n = value("n") /\ d2.deleted_at = value("deleted_at")
  BY <1>4
<1>6. Has(ops, "$set", "n") => set("n") \in Numbers
  <2> SUFFICES ASSUME Has(ops, "$set", "n")
               PROVE  set("n") \in Numbers
    OBVIOUS
  <2>1. PICK j \in 1..Len(ops) : ops[j][1] = "$set" /\ ops[j][2] = "n" /\ set("n") = ops[j][3]
    BY <1>2, TargetSays
  <2> QED
    BY <1>2, <2>1 DEF Sent, KeepsNumbers
<1>7. Has(ops, "$inc", "n") =>
        inc("n") \in Numbers /\ (Seed[i].n \in Numbers => Seed[i].n + inc("n") \in Numbers)
  <2> SUFFICES ASSUME Has(ops, "$inc", "n")
               PROVE  /\ inc("n") \in Numbers
                      /\ Seed[i].n \in Numbers => Seed[i].n + inc("n") \in Numbers
    OBVIOUS
  <2>1. PICK j \in 1..Len(ops) : ops[j][1] = "$inc" /\ ops[j][2] = "n" /\ inc("n") = ops[j][3]
    BY <1>2, TargetSays
  <2> QED
    BY <1>2, <2>1 DEF Sent, KeepsNumbers
<1>8. Has(ops, "$set", "deleted_at") => set("deleted_at") = Now
  <2> SUFFICES ASSUME Has(ops, "$set", "deleted_at")
               PROVE  set("deleted_at") = Now
    OBVIOUS
  <2>1. PICK j \in 1..Len(ops) :
          ops[j][1] = "$set" /\ ops[j][2] = "deleted_at" /\ set("deleted_at") = ops[j][3]
    BY <1>2, TargetSays
  <2> QED
    BY <1>2, <2>1 DEF Sent
<1>9. ~Has(ops, "$inc", "deleted_at")
  BY <1>2 DEF Has, Sent
<1> HIDE DEF set, inc, u, d2
<1>10. value("deleted_at") \in {Absent, Now, Seed[i].deleted_at}
  BY <1>8, <1>9 DEF Bounded
<1>11. value("n") \in Numbers \cup {Absent, Null}
  <2>1. CASE Has(ops, "$unset", "n") \/ Has(ops, "$set", "n") \/ ~Has(ops, "$inc", "n")
    BY <1>6, <2>1 DEF Bounded
  <2>2. CASE ~Has(ops, "$unset", "n") /\ ~Has(ops, "$set", "n") /\ Has(ops, "$inc", "n")
    <3>1. d.n \in Numbers \cup {Absent} /\ Numbers \subseteq Int
      BY <2>2 DEF Bounded, Numbers
    <3>2. Absent \notin Int
      BY SeedAssumption
    <3>3. CASE d.n = Absent
      <4>1. value("n") = 0 + inc("n")
        BY <2>2, <3>3
      <4>2. inc("n") \in Numbers
        BY <1>7, <2>2
      <4> HIDE DEF value
      <4>3. inc("n") \in Int
        BY <3>1, <4>2
      <4>4. value("n") = inc("n")
        BY <4>1, <4>3
      <4> QED
        BY <4>2, <4>4
    <3>4. CASE d.n \in Numbers
      <4>1. value("n") = d.n + inc("n")
        BY <2>2, <3>1, <3>2, <3>4
      <4> QED
        BY <1>7, <2>2, <3>4, <4>1
    <3> QED
      BY <3>1, <3>3, <3>4
  <2> QED
    BY <2>1, <2>2
<1> HIDE DEF value
<1> QED
  BY <1>5, <1>10, <1>11 DEF Bounded, d2, u

\* Strengthens the type invariant: until a query is run, n is what it was.
QueryInv ==
  /\ QueriesMean /\ DocsTyped
  /\ Len(queries) <= MaxQueries /\ answer.ids \subseteq Ids
  /\ \A i \in Ids : docs[i] # NoDoc =>
       Bounded(docs[i], Seed[i]) /\ (answer.op = "none" => docs[i].n = Seed[i].n)

LEMMA RunsOnce == Runs => answer.op = "none" /\ answer'.op # "none"
BY DEF Runs, Answers, Refuses, Get, First, Count, Update, UpdateOne, UpdateRaw, Delete,
       DeleteOne, Restore, ForceDelete, UpdateMany, UpdateOneOf, Removes

LEMMA RunsBounded ==
  ASSUME QueryInv, Runs
  PROVE  /\ answer'.ids \subseteq Ids
         /\ \A i \in Ids : docs'[i] # NoDoc => Bounded(docs'[i], Seed[i])
<1>1. answer.op = "none" /\ QueriesMean /\ DocsTyped
  BY RunsOnce DEF QueryInv
<1>2. \A i \in Ids : docs[i] # NoDoc => Bounded(docs[i], Seed[i]) /\ docs[i].n = Seed[i].n
  BY <1>1 DEF QueryInv
<1>3. \A filter : Matching(filter) \subseteq Ids
  BY DEF Matching
<1>4. CASE answer'.ids = {} /\ docs' = docs
  BY <1>2, <1>4
<1>5. CASE \E filter : Reading(filter)
  BY <1>2, <1>3, <1>5 DEF Reading
<1>6. CASE \E filter : Removing(filter)
  BY <1>2, <1>3, <1>6 DEF Removing
<1>7. CASE \E filter : \E ops \in Seq(Sent) : Updating(filter, ops)
  <2>0. PICK filter : \E ops \in Seq(Sent) : Updating(filter, ops)
    BY <1>7
  <2>1. PICK ops \in Seq(Sent) : Updating(filter, ops)
    BY <2>0
  <2>2. answer'.ids \subseteq Ids
    BY <1>3, <2>1 DEF Updating
  <2>3. ASSUME NEW i \in Ids, docs'[i] # NoDoc
        PROVE  Bounded(docs'[i], Seed[i])
    <3>1. CASE i \notin answer'.ids
      BY <1>1, <1>2, <2>1, <2>3, <3>1, UpdatingIsTyped
    <3>2. CASE i \in answer'.ids
      <4>1. /\ docs[i] \in Docs /\ docs'[i] = Updated(docs[i], compileUpdate(ops))
            /\ docs[i].n = Null => ~Has(ops, "$inc", "n")
        BY <1>1, <2>1, <3>2, UpdatingIsTyped
      <4>2. Bounded(docs[i], Seed[i]) /\ docs[i].n = Seed[i].n
        BY <1>2, <4>1, SeedAssumption
      <4> QED
        BY <4>1, <4>2, UpdatedIsBounded
    <3> QED
      BY <3>1, <3>2
  <2> QED
    BY <2>2, <2>3
<1>8. \/ answer'.ids = {} /\ docs' = docs
      \/ \E filter : Reading(filter)
      \/ \E filter : Removing(filter)
      \/ \E filter : \E ops \in Seq(Updates) \cup Seq(Sent) : Updating(filter, ops)
  <2> DEFINE q == queries[Len(queries)]
  <2>1. softDeleteUpdate(q) \in Seq(Sent) /\ restoreOps(q) \in Seq(Sent)
    BY OpsSent
  <2> HIDE DEF Runs, Reading, Removing, Updating
  <2> QED
    BY <1>1, <2>1, RunsDo
<1> QED
  BY <1>4, <1>5, <1>6, <1>7, <1>8, UpdatesAreSent

LEMMA QueryInvInit == QueryInit => QueryInv
<1> SUFFICES ASSUME QueryInit
             PROVE  QueryInv
  OBVIOUS
<1>1. QueriesMean /\ DocsTyped
  BY QueriesMeanInit, DocsTypedInit
<1>2. Len(queries) = 1 /\ answer.op = "none" /\ answer.ids = {}
  BY DEF QueryInit
<1>3. Len(queries) <= MaxQueries
  BY <1>2, InputsAssumption
<1>4. ASSUME NEW i \in Ids
      PROVE  Bounded(docs[i], Seed[i]) /\ docs[i].n = Seed[i].n
  <2>1. Seed[i] \in Docs /\ Seed[i].n \in Numbers \cup {Absent, Null}
    BY SeedAssumption, NumbersAssumption
  <2>2. docs[i] = Seed[i] \/ docs[i] = [Seed[i] EXCEPT !.deleted_at = Absent]
    BY DEF QueryInit
  <2>3. docs[i].n = Seed[i].n /\ docs[i].deleted_at \in {Absent, Seed[i].deleted_at}
    BY <2>1, <2>2 DEF Docs
  <2> QED
    BY <2>1, <2>3 DEF Bounded
<1> QED
  BY <1>1, <1>2, <1>3, <1>4 DEF QueryInv

LEMMA BuildsLeaves == Builds => /\ docs' = docs /\ answer' = answer
                                /\ Len(queries) < MaxQueries /\ \E q : queries' = Append(queries, q)
BY DEF Builds, Derives, Filters, Mistakes, Trashed, Stages, Sorts, Pages, Projects

LEMMA QueryInvKept == QueryInv /\ [QueryNext]_queryVars => QueryInv'
<1> SUFFICES ASSUME QueryInv, [QueryNext]_queryVars
             PROVE  QueryInv'
  OBVIOUS
<1>1. QueriesMean' /\ DocsTyped'
  BY StepsKeep, DocsTypedKept DEF QueryInv
<1>2. CASE Builds
  <2>1. Len(queries') <= MaxQueries
    <3>1. PICK q : queries' = Append(queries, q)
      BY <1>2, BuildsLeaves
    <3>2. queries \in Seq(QueryRecords)
      BY DEF QueryInv, QueriesMean
    <3>3. Len(queries') = Len(queries) + 1 /\ Len(queries) \in Nat
      BY <3>1, <3>2
    <3> QED
      BY <1>2, <3>3, BuildsLeaves, InputsAssumption
  <2> QED
    BY <1>1, <1>2, <2>1, BuildsLeaves DEF QueryInv
<1>3. CASE Runs
  BY <1>1, <1>3, RunsLeaves, RunsOnce, RunsBounded DEF QueryInv
<1>4. CASE UNCHANGED queryVars
  BY <1>1, <1>4 DEF QueryInv, queryVars
<1> QED
  BY <1>2, <1>3, <1>4 DEF QueryNext

LEMMA QueryInvTypes == QueryInv => QueryTypeOK
<1> SUFFICES ASSUME QueryInv
             PROVE  QueryTypeOK
  OBVIOUS
<1>1. Len(queries) \in 1..MaxQueries /\ Len(meant) = Len(queries)
  BY InputsAssumption DEF QueryInv, QueriesMean
<1>2. ASSUME NEW b \in DOMAIN queries
      PROVE  /\ queries[b].trashed \in Modes
             /\ queries[b].projectionMode \in {"none", "include", "exclude"}
             /\ queries[b].limit >= 0 /\ queries[b].skip >= 0
             /\ \A slice \in Slices : LET s == queries[b][slice] IN
                  s.len > 0 => s.array \in DOMAIN memory /\ s.len <= Len(memory[s.array])
  <2>1. QueryOK(memory, queries[b]) /\ memory \in Memories
    BY DEF QueryInv, QueriesMean, Means
  <2>2. /\ queries[b].trashed \in Modes
        /\ queries[b].projectionMode \in {"none", "include", "exclude"}
        /\ queries[b].limit >= 0 /\ queries[b].skip >= 0
    BY <2>1 DEF QueryOK, QueryRecords, ProjectionModes
  <2>3. \A slice \in Slices : Within(memory, queries[b][slice])
    BY <2>1 DEF QueryOK, Slices
  <2>4. DOMAIN memory = 1..Len(memory)
    BY <2>1 DEF Memories
  <2> QED
    BY <2>2, <2>3, <2>4 DEF Within
<1>3. ASSUME NEW i \in Ids, docs[i] # NoDoc
      PROVE  /\ docs[i].n \in Numbers \cup {Absent, Null}
             /\ docs[i].deleted_at \in {Absent, Now, Seed[i].deleted_at}
             /\ docs[i].updated_at \in Int \cup {Absent}
  <2>1. docs[i] \in Docs /\ Bounded(docs[i], Seed[i])
    BY <1>3 DEF QueryInv, DocsTyped
  <2> QED
    BY <2>1 DEF Docs, Bounded
<1> QED
  BY <1>1, <1>2, <1>3 DEF QueryTypeOK, QueryInv

\* Slices stay within their arrays, limits and skips natural, and the
\* documents the values they may hold, whatever is staged and sent
\* (query.go:33-48, update.go:82-108, execute.go:249-303).
THEOREM QueriesAreTyped == QuerySpec => []QueryTypeOK
<1>1. QuerySpec => []QueryInv
  BY QueryInvInit, QueryInvKept, PTL DEF QuerySpec
<1> QED
  BY <1>1, QueryInvTypes, PTL

-----------------------------------------------------------------------------
(* Numbers in their order.                                                 *)

\* A set of numbers that is not empty has a least one.
LEMMA LeastNumber ==
  ASSUME NEW S \in SUBSET Nat, S # {}
  PROVE  \E m \in S : \A n \in S : m <= n
<1>1. PICK m \in S : \A n \in S : ~(<<n, m>> \in OpToRel(<, Nat))
  BY NatLessThanWellFounded, WFMin
<1>2. m \in Nat /\ \A n \in S : n \in Nat /\ ~(n < m)
  BY <1>1 DEF OpToRel
<1>3. \A n \in S : m <= n
  BY <1>2
<1> QED
  BY <1>3

\* Induction, for a property that is a set of numbers.
LEMMA AllNumbers ==
  ASSUME NEW S \in SUBSET Nat, 0 \in S, \A n \in S : n + 1 \in S
  PROVE  S = Nat
<1>1. SUFFICES ASSUME Nat \ S # {} PROVE FALSE
  OBVIOUS
<1>2. PICK m \in Nat \ S : \A n \in Nat \ S : m <= n
  BY <1>1, LeastNumber
<1>3. m - 1 \in Nat /\ m - 1 \in S
  BY <1>2
<1> QED
  BY <1>2, <1>3

Rising(s) == \A i, j \in DOMAIN s : i < j => s[i] < s[j]

LEMMA RisingMeans ==
  ASSUME NEW S \in SUBSET Nat, NEW k \in Nat, NEW t \in [1 .. k -> S]
  PROVE  /\ \A i \in 1 .. k : t[i] \in S /\ t[i] \in Nat
         /\ Rising(t) <=> \A i, j \in 1 .. k : i < j => t[i] < t[j]
         /\ Rising(t) => \A i, j \in 1 .. k : /\ t[i] = t[j] => i = j
                                              /\ t[i] < t[j] => i < j
<1>1. \A i \in 1 .. k : t[i] \in S
  OBVIOUS
<1>2. \A i \in 1 .. k : t[i] \in Nat
  BY <1>1
<1>3. Rising(t) <=> \A i, j \in 1 .. k : i < j => t[i] < t[j]
  <2>1. DOMAIN t = 1 .. k
    OBVIOUS
  <2> QED
    BY <2>1 DEF Rising
<1>4. ASSUME \A i, j \in 1 .. k : i < j => t[i] < t[j],
             NEW i \in 1 .. k, NEW j \in 1 .. k
      PROVE  (t[i] = t[j] => i = j) /\ (t[i] < t[j] => i < j)
  <2>1. t[i] \in Nat /\ t[j] \in Nat /\ i \in Nat /\ j \in Nat
    BY <1>2
  <2>2. (i < j => t[i] < t[j]) /\ (j < i => t[j] < t[i])
    BY <1>4
  <2> QED
    BY <2>1, <2>2
<1> QED
  BY <1>1, <1>2, <1>3, <1>4

LEMMA OrderExistsBySize ==
  \A n \in Nat : \A S \in SUBSET Nat :
    IsFiniteSet(S) /\ Cardinality(S) = n => \E s \in [1 .. n -> S] : Rising(s)
<1> DEFINE Reached == {n \in Nat : \A S \in SUBSET Nat :
      IsFiniteSet(S) /\ Cardinality(S) = n => \E s \in [1 .. n -> S] : Rising(s)}
<1>1. 0 \in Reached
  <2> SUFFICES ASSUME NEW S \in SUBSET Nat
               PROVE  \E s \in [1 .. 0 -> S] : Rising(s)
    OBVIOUS
  <2>1. [i \in 1 .. 0 |-> i] \in [1 .. 0 -> S] /\ Rising([i \in 1 .. 0 |-> i])
    BY DEF Rising
  <2> QED
    BY <2>1
<1>2. ASSUME NEW n \in Reached PROVE n + 1 \in Reached
  <2> SUFFICES ASSUME NEW S \in SUBSET Nat, IsFiniteSet(S), Cardinality(S) = n + 1
               PROVE  \E s \in [1 .. n + 1 -> S] : Rising(s)
    OBVIOUS
  <2>1. S # {}
    BY FS_EmptySet
  <2>2. PICK m \in S : \A k \in S : m <= k
    BY <2>1, LeastNumber
  <2>3. IsFiniteSet(S \ {m}) /\ Cardinality(S \ {m}) = n
    BY FS_RemoveElement
  <2>4. PICK t \in [1 .. n -> S \ {m}] : Rising(t)
    BY <2>3
  <2> DEFINE s == [i \in 1 .. n + 1 |-> IF i = 1 THEN m ELSE t[i - 1]]
  <2>5. \A i \in 1 .. n + 1 : i # 1 => i - 1 \in 1 .. n /\ t[i - 1] \in S \ {m}
    BY <2>4
  <2>6. s \in [1 .. n + 1 -> S]
    BY <2>5
  <2>7. ASSUME NEW i \in 1 .. n + 1, NEW j \in 1 .. n + 1, i < j PROVE s[i] < s[j]
    <3>1. j # 1 /\ s[j] = t[j - 1] /\ s[j] \in S /\ s[j] # m
      BY <2>5, <2>7
    <3>2. CASE i = 1
      <4>1. s[i] = m /\ m <= s[j] /\ m \in Nat /\ s[j] \in Nat
        BY <2>2, <3>1, <3>2
      <4> QED
        BY <3>1, <4>1
    <3>3. CASE i # 1
      <4>1. i - 1 \in DOMAIN t /\ j - 1 \in DOMAIN t /\ i - 1 < j - 1
        BY <2>4, <2>5, <2>7, <3>1, <3>3
      <4> QED
        BY <2>4, <3>1, <3>3, <4>1 DEF Rising
    <3> QED
      BY <3>2, <3>3
  <2> QED
    BY <2>6, <2>7 DEF Rising
<1> HIDE DEF Reached
<1>3. Reached = Nat
  <2>1. Reached \in SUBSET Nat
    BY DEF Reached
  <2> QED
    BY <1>1, <1>2, <2>1, AllNumbers
<1> QED
  BY <1>3 DEF Reached

\* InOrder(S) lists S, each element once.
LEMMA InOrderLists ==
  ASSUME NEW S \in SUBSET Nat, IsFiniteSet(S)
  PROVE  /\ Cardinality(S) \in Nat
         /\ InOrder(S) \in [1 .. Cardinality(S) -> S] /\ Rising(InOrder(S))
         /\ \A x \in S : \E i \in 1 .. Cardinality(S) : InOrder(S)[i] = x
<1> DEFINE n == Cardinality(S)
           s == InOrder(S)
<1>1. n \in Nat
  BY FS_CardinalityType
<1>2. \E t \in [1 .. n -> S] : Rising(t)
  BY <1>1, OrderExistsBySize
<1>3. s \in [1 .. n -> S] /\ Rising(s)
  BY <1>2 DEF InOrder, Rising
<1>0. Cardinality(S) = n
  OBVIOUS
<1> HIDE DEF s, n
<1>4. s \in Injection(1 .. n, S)
  <2>1. \A i, j \in 1 .. n : s[i] = s[j] => i = j
    BY <1>1, <1>3, RisingMeans
  <2> QED
    BY <1>3, <2>1 DEF Injection, IsInjective
<1>5. Cardinality(1 .. n) = n
  BY <1>1, FS_Interval
<1>6. s \in Surjection(1 .. n, S)
  BY <1>0, <1>4, <1>5, FS_Injection
<1> QED
  BY <1>1, <1>3, <1>6 DEF Surjection, s, n

\* And it is the only one that does.
LEMMA OnlyInOrder ==
  ASSUME NEW S \in SUBSET Nat, IsFiniteSet(S), NEW k \in Nat,
         NEW t \in [1 .. k -> S], Rising(t), \A x \in S : \E i \in 1 .. k : t[i] = x
  PROVE  Cardinality(S) = k /\ t = InOrder(S)
<1> DEFINE n == Cardinality(S)
           s == InOrder(S)
<1>1. /\ n \in Nat /\ s \in [1 .. n -> S] /\ Rising(s)
      /\ \A x \in S : \E i \in 1 .. n : s[i] = x
  BY InOrderLists
<1>2. n = k
  <2>1. t \in Injection(1 .. k, S)
    <3>1. \A i, j \in 1 .. k : t[i] = t[j] => i = j
      BY RisingMeans
    <3> QED
      BY <3>1 DEF Injection, IsInjective
  <2>2. t \in Surjection(1 .. k, S)
    BY DEF Surjection
  <2>3. Cardinality(1 .. k) = k
    BY FS_Interval
  <2> QED
    BY <2>1, <2>2, <2>3, FS_Injection
<1> HIDE DEF s, n
<1>3. \A i \in 1 .. k : s[i] = t[i]
  <2> DEFINE Bad == {i \in 1 .. k : s[i] # t[i]}
  <2>1. SUFFICES ASSUME Bad # {} PROVE FALSE
    OBVIOUS
  <2>2. Bad \in SUBSET Nat
    OBVIOUS
  <2>3. PICK i \in Bad : \A j \in Bad : i <= j
    BY <2>1, <2>2, LeastNumber
  <2>4. /\ i \in 1 .. k /\ s[i] # t[i] /\ s[i] \in S /\ t[i] \in S
        /\ \A j \in 1 .. k : j < i => s[j] = t[j]
    BY <1>1, <1>2, <2>3
  <2>5. PICK p \in 1 .. k : t[p] = s[i]
    BY <2>4
  <2>6. PICK q \in 1 .. k : s[q] = t[i]
    BY <1>1, <1>2, <2>4
  <2>7. /\ \A a \in 1 .. k : t[a] \in Nat
        /\ \A a, b \in 1 .. k : (a < b => t[a] < t[b]) /\ (t[a] = t[b] => a = b)
    <3>1. \A a \in 1 .. k : t[a] \in Nat
      BY RisingMeans
    <3>2. \A a, b \in 1 .. k : a < b => t[a] < t[b]
      BY RisingMeans
    <3>3. \A a, b \in 1 .. k : t[a] = t[b] => a = b
      BY RisingMeans
    <3> QED
      BY <3>1, <3>2, <3>3
  <2>8. /\ \A a \in 1 .. k : s[a] \in Nat
        /\ \A a, b \in 1 .. k : (a < b => s[a] < s[b]) /\ (s[a] = s[b] => a = b)
    <3>1. s \in [1 .. k -> S] /\ Rising(s)
      BY <1>1, <1>2
    <3>2. \A a \in 1 .. k : s[a] \in Nat
      BY <3>1, RisingMeans
    <3>3. \A a, b \in 1 .. k : a < b => s[a] < s[b]
      BY <3>1, RisingMeans
    <3>4. \A a, b \in 1 .. k : s[a] = s[b] => a = b
      <4> SUFFICES ASSUME NEW a \in 1 .. k, NEW b \in 1 .. k, s[a] = s[b] PROVE a = b
        OBVIOUS
      <4>1. ~(a < b) /\ ~(b < a)
        BY <3>2, <3>3
      <4> QED
        BY <4>1
    <3> QED
      BY <3>2, <3>3, <3>4
  <2>9. i < p /\ i < q
    <3>1. ~(p < i) /\ p # i
      BY <2>4, <2>5, <2>8
    <3>2. ~(q < i) /\ q # i
      BY <2>4, <2>6, <2>7
    <3> QED
      BY <2>4, <3>1, <3>2
  <2>10. t[i] < s[i] /\ s[i] < t[i]
    BY <2>4, <2>5, <2>6, <2>7, <2>8, <2>9
  <2> QED
    BY <2>4, <2>7, <2>8, <2>10
<1> QED
  BY <1>1, <1>2, <1>3 DEF s, n

-----------------------------------------------------------------------------
(* FlattenSeq.                                                             *)
Flat(seqs, m, f) ==
  f = [i \in 1 .. m |-> IF i = 1 THEN seqs[i] ELSE f[i - 1] \o seqs[i]]

LEMMA FlatSteps ==
  ASSUME NEW seqs, NEW m, NEW f, Flat(seqs, m, f), NEW i \in 1 .. m
  PROVE  f[i] = IF i = 1 THEN seqs[i] ELSE f[i - 1] \o seqs[i]
<1> DEFINE g == [j \in 1 .. m |-> IF j = 1 THEN seqs[j] ELSE f[j - 1] \o seqs[j]]
<1>1. f = g
  BY DEF Flat
<1>2. g[i] = IF i = 1 THEN seqs[i] ELSE f[i - 1] \o seqs[i]
  OBVIOUS
<1> HIDE DEF g
<1>3. f[i] = g[i]
  BY <1>1
<1> QED
  BY <1>2, <1>3

LEMMA FlatExists ==
  ASSUME NEW seqs
  PROVE  \A m \in Nat : \E f : Flat(seqs, m, f)
<1> DEFINE Reached == {m \in Nat : \E f : Flat(seqs, m, f)}
<1>1. 0 \in Reached
  <2> DEFINE f == [i \in 1 .. 0 |-> i]
  <2>1. f = [i \in 1 .. 0 |-> IF i = 1 THEN seqs[i] ELSE f[i - 1] \o seqs[i]]
    OBVIOUS
  <2> QED
    BY <2>1 DEF Flat
<1>2. ASSUME NEW m \in Reached PROVE m + 1 \in Reached
  <2>1. PICK f : Flat(seqs, m, f)
    OBVIOUS
  <2> DEFINE g == [i \in 1 .. m + 1 |-> IF i = 1 THEN seqs[i] ELSE f[i - 1] \o seqs[i]]
  <2>2. \A i \in 1 .. m : g[i] = f[i]
    BY <2>1, FlatSteps
  <2>3. ASSUME NEW i \in 1 .. m + 1, i # 1 PROVE i - 1 \in 1 .. m /\ g[i - 1] = f[i - 1]
    <3>1. i - 1 \in 1 .. m
      BY <2>3
    <3> QED
      BY <2>2, <3>1
  <2> DEFINE h == [i \in 1 .. m + 1 |-> IF i = 1 THEN seqs[i] ELSE g[i - 1] \o seqs[i]]
  <2>4. \A i \in 1 .. m + 1 : g[i] = h[i]
    BY <2>3
  <2>5. g = h
    <3> HIDE DEF g
    <3>1. g = [i \in 1 .. m + 1 |-> g[i]]
      BY DEF g
    <3> QED
      BY <2>4, <3>1
  <2>6. Flat(seqs, m + 1, g)
    BY <2>5 DEF Flat
  <2>7. m + 1 \in Nat
    OBVIOUS
  <2> HIDE DEF g
  <2> QED
    BY <2>6, <2>7
<1> HIDE DEF Reached
<1>3. Reached = Nat
  <2>1. Reached \in SUBSET Nat
    BY DEF Reached
  <2> QED
    BY <1>1, <1>2, <2>1, AllNumbers
<1> QED
  BY <1>3 DEF Reached

LEMMA FlattenIsFlat ==
  ASSUME NEW n \in Nat, n > 0, NEW seqs, Len(seqs) = n
  PROVE  \E f : /\ \A i \in 1 .. n : f[i] = IF i = 1 THEN seqs[i] ELSE f[i - 1] \o seqs[i]
                /\ FlattenSeq(seqs) = f[n]
<1> DEFINE f == CHOOSE f : Flat(seqs, n, f)
<1>1. Flat(seqs, n, f)
  BY FlatExists
<1>2. FlattenSeq(seqs) = f[n]
  BY DEF FlattenSeq, Flat
<1> HIDE DEF f
<1>3. \A i \in 1 .. n : f[i] = IF i = 1 THEN seqs[i] ELSE f[i - 1] \o seqs[i]
  BY <1>1, FlatSteps
<1> QED
  BY <1>2, <1>3

\* g lists the numbers 1 .. m in their order, each i as often as c[i] says.
Spread(c, m, g) ==
  /\ g \in Seq(1 .. m)
  /\ \A p \in 1 .. Len(g) : c[g[p]] > 0
  /\ \A i \in 1 .. m : c[i] > 0 => \E p \in 1 .. Len(g) : g[p] = i
  /\ \A p, q \in 1 .. Len(g) : p < q => g[p] <= g[q]
  /\ (\A i \in 1 .. m : c[i] <= 1) => \A p, q \in 1 .. Len(g) : p < q => g[p] < g[q]

LEMMA SpreadGrows ==
  ASSUME NEW n \in Nat, NEW c \in [1 .. n -> Nat], NEW m \in Nat, m + 1 \in 1 .. n,
         NEW g, Spread(c, m, g), NEW e, e = [j \in 1 .. c[m + 1] |-> m + 1]
  PROVE  Spread(c, m + 1, g \o e)
<1> DEFINE k == c[m + 1]
           h == g \o e
<1>1. g \in Seq(1 .. m) /\ Len(g) \in Nat /\ \A p \in 1 .. Len(g) : g[p] \in 1 .. m
  BY DEF Spread
<1>2. /\ k \in Nat /\ e \in Seq(1 .. m + 1) /\ Len(e) = k
      /\ \A p \in 1 .. k : e[p] = m + 1
  <2>1. k \in Nat /\ m + 1 \in 1 .. m + 1
    OBVIOUS
  <2> QED
    BY <2>1
<1> HIDE DEF k
<1>3. g \in Seq(1 .. m + 1)
  BY <1>1
<1>4. /\ h \in Seq(1 .. m + 1) /\ Len(h) = Len(g) + k
      /\ \A p \in 1 .. Len(g) : h[p] = g[p]
      /\ \A p \in Len(g) + 1 .. Len(g) + k : h[p] = m + 1
  <2>1. h \in Seq(1 .. m + 1) /\ Len(h) = Len(g) + k
    BY <1>1, <1>2, <1>3
  <2>2. \A p \in 1 .. Len(g) : h[p] = g[p]
    BY <1>1, <1>2, <1>3
  <2>3. ASSUME NEW p \in Len(g) + 1 .. Len(g) + k PROVE h[p] = m + 1
    <3>1. h[p] = e[p - Len(g)] /\ p - Len(g) \in 1 .. k
      BY <1>1, <1>2, <1>3
    <3> QED
      BY <1>2, <3>1
  <2> QED
    BY <2>1, <2>2, <2>3
<1> HIDE DEF h
<1>5. \A p \in 1 .. Len(h) : \/ p \in 1 .. Len(g) /\ h[p] = g[p] /\ h[p] \in 1 .. m
                             \/ p \in Len(g) + 1 .. Len(g) + k /\ h[p] = m + 1
  <2> SUFFICES ASSUME NEW p \in 1 .. Len(h)
               PROVE  \/ p \in 1 .. Len(g) /\ h[p] = g[p] /\ h[p] \in 1 .. m
                      \/ p \in Len(g) + 1 .. Len(g) + k /\ h[p] = m + 1
    OBVIOUS
  <2>1. p \in 1 .. Len(g) \/ p \in Len(g) + 1 .. Len(g) + k
    BY <1>1, <1>2, <1>4
  <2> QED
    BY <1>1, <1>4, <2>1
<1>6. \A p \in 1 .. Len(h) : c[h[p]] > 0
  <2> SUFFICES ASSUME NEW p \in 1 .. Len(h) PROVE c[h[p]] > 0
    OBVIOUS
  <2>1. CASE p \in 1 .. Len(g) /\ h[p] = g[p]
    BY <2>1 DEF Spread
  <2>2. CASE p \in Len(g) + 1 .. Len(g) + k /\ h[p] = m + 1
    <3>1. k > 0
      BY <1>1, <1>2, <2>2
    <3> QED
      BY <2>2, <3>1 DEF k
  <2> QED
    BY <1>5, <2>1, <2>2
<1>7. ASSUME NEW i \in 1 .. m + 1, c[i] > 0 PROVE \E p \in 1 .. Len(h) : h[p] = i
  <2>1. CASE i \in 1 .. m
    <3>1. PICK p \in 1 .. Len(g) : g[p] = i
      BY <1>7, <2>1 DEF Spread
    <3>2. h[p] = i
      BY <1>4, <3>1
    <3>3. p \in 1 .. Len(h)
      <4>1. Len(h) = Len(g) + k
        BY <1>4
      <4> QED
        BY <1>1, <1>2, <4>1
    <3> QED
      BY <3>2, <3>3
  <2>2. CASE i = m + 1
    <3>1. k > 0
      BY <1>7, <2>2 DEF k
    <3>2. Len(g) + 1 \in 1 .. Len(h) /\ Len(g) + 1 \in Len(g) + 1 .. Len(g) + k
      BY <1>1, <1>2, <1>4, <3>1
    <3> QED
      BY <1>4, <2>2, <3>2
  <2> QED
    BY <2>1, <2>2
<1>8. ASSUME NEW p \in 1 .. Len(h), NEW q \in 1 .. Len(h), p < q
      PROVE  /\ h[p] <= h[q]
             /\ (\A i \in 1 .. m + 1 : c[i] <= 1) => h[p] < h[q]
  <2>1. CASE q \in 1 .. Len(g) /\ h[q] = g[q]
    <3>1. p \in 1 .. Len(g) /\ h[p] = g[p]
      <4>1. p \in 1 .. Len(g)
        <5>1. p \in Int /\ 1 <= p /\ q \in Int /\ q <= Len(g)
          BY <1>1, <1>2, <1>4, <2>1
        <5> QED
          BY <1>1, <1>8, <5>1
      <4> QED
        BY <1>4, <4>1
    <3>2. g[p] <= g[q]
      BY <1>8, <2>1, <3>1 DEF Spread
    <3>3. (\A i \in 1 .. m + 1 : c[i] <= 1) => g[p] < g[q]
      <4>1. (\A i \in 1 .. m + 1 : c[i] <= 1) => \A i \in 1 .. m : c[i] <= 1
        OBVIOUS
      <4> QED
        BY <1>8, <2>1, <3>1, <4>1 DEF Spread
    <3> QED
      BY <2>1, <3>1, <3>2, <3>3
  <2>2. CASE q \in Len(g) + 1 .. Len(g) + k /\ h[q] = m + 1
    <3>1. CASE p \in 1 .. Len(g) /\ h[p] \in 1 .. m
      <4>1. h[p] < m + 1
        BY <3>1
      <4> QED
        BY <2>2, <3>1, <4>1
    <3>2. CASE p \in Len(g) + 1 .. Len(g) + k /\ h[p] = m + 1
      <4>1. k > 1
        BY <1>1, <1>2, <1>8, <2>2, <3>2
      <4>2. ~(\A i \in 1 .. m + 1 : c[i] <= 1)
        <5>1. m + 1 \in 1 .. m + 1 /\ ~(c[m + 1] <= 1)
          BY <1>2, <4>1 DEF k
        <5> QED
          BY <5>1
      <4> QED
        BY <2>2, <3>2, <4>2
    <3> QED
      BY <1>5, <3>1, <3>2
  <2> QED
    BY <1>5, <2>1, <2>2
<1>9. Spread(c, m + 1, h)
  BY <1>4, <1>6, <1>7, <1>8 DEF Spread
<1> QED
  BY <1>9 DEF h

Repeating(seqs, c, n) == \A i \in 1 .. n : seqs[i] = [j \in 1 .. c[i] |-> i]

LEMMA SomeFlattenSpreads ==
  ASSUME NEW n \in Nat, n > 0, NEW c \in [1 .. n -> Nat], NEW seqs, Len(seqs) = n,
         Repeating(seqs, c, n)
  PROVE  Spread(c, n, FlattenSeq(seqs))
<1>1. PICK f : /\ \A i \in 1 .. n : f[i] = IF i = 1 THEN seqs[i] ELSE f[i - 1] \o seqs[i]
               /\ FlattenSeq(seqs) = f[n]
  BY FlattenIsFlat
<1>2. \A i \in 1 .. n : f[i] = IF i = 1 THEN seqs[i] ELSE f[i - 1] \o seqs[i]
  BY <1>1
<1> DEFINE Reached == {m \in Nat : m + 1 \in 1 .. n => Spread(c, m + 1, f[m + 1])}
<1>0. Spread(c, 0, <<>>)
  BY DEF Spread
<1>3. \A m \in Nat : m + 1 \in 1 .. n => seqs[m + 1] = [j \in 1 .. c[m + 1] |-> m + 1]
  BY DEF Repeating
<1>4. 0 \in Reached
  <2>1. 0 + 1 \in 1 .. n /\ f[0 + 1] = seqs[0 + 1]
    BY <1>2
  <2>2. seqs[0 + 1] \in Seq({1})
    <3>1. c[0 + 1] \in Nat /\ seqs[0 + 1] = [j \in 1 .. c[0 + 1] |-> 0 + 1]
      BY <1>3, <2>1
    <3> QED
      BY <3>1
  <2>3. <<>> \o seqs[0 + 1] = seqs[0 + 1]
    BY <2>2
  <2>4. Spread(c, 0 + 1, <<>> \o seqs[0 + 1])
    BY <1>0, <1>3, <2>1, SpreadGrows
  <2> QED
    BY <2>1, <2>3, <2>4
<1>5. ASSUME NEW m \in Reached PROVE m + 1 \in Reached
  <2>1. PICK k \in Nat : k = m + 1
    OBVIOUS
  <2>2. SUFFICES ASSUME k + 1 \in 1 .. n PROVE Spread(c, k + 1, f[k + 1])
    BY <2>1
  <2>3. k \in 1 .. n /\ k + 1 # 1 /\ (k + 1) - 1 = k
    BY <2>1, <2>2
  <2>4. Spread(c, k, f[k])
    BY <2>1, <2>3
  <2>5. f[k + 1] = f[k] \o seqs[k + 1]
    <3>1. f[k + 1] = f[(k + 1) - 1] \o seqs[k + 1]
      BY <1>2, <2>2, <2>3
    <3> QED
      BY <2>3, <3>1
  <2>6. seqs[k + 1] = [j \in 1 .. c[k + 1] |-> k + 1]
    BY <1>3, <2>2
  <2>7. Spread(c, k + 1, f[k] \o seqs[k + 1])
    BY <2>2, <2>4, <2>6, SpreadGrows
  <2> QED
    BY <2>5, <2>7
<1> HIDE DEF Reached
<1>6. Reached = Nat
  <2>1. Reached \in SUBSET Nat
    BY DEF Reached
  <2> QED
    BY <1>4, <1>5, <2>1, AllNumbers
<1>7. n - 1 \in Reached /\ (n - 1) + 1 = n
  BY <1>6
<1>8. Spread(c, n, f[n])
  BY <1>7 DEF Reached
<1> QED
  BY <1>1, <1>8

LEMMA FlattenSpreads ==
  ASSUME NEW n \in Nat, NEW c \in [1 .. n -> Nat],
         NEW seqs, seqs = [i \in 1 .. n |-> [j \in 1 .. c[i] |-> i]]
  PROVE  Spread(c, n, FlattenSeq(seqs))
<1>1. Len(seqs) = n /\ Repeating(seqs, c, n)
  BY DEF Repeating
<1>2. CASE n = 0
  <2>1. seqs = <<>> /\ FlattenSeq(seqs) = seqs
    BY <1>1, <1>2 DEF FlattenSeq
  <2>2. Spread(c, 0, <<>>)
    BY DEF Spread
  <2> QED
    BY <1>2, <2>1, <2>2
<1>3. CASE n > 0
  BY <1>1, <1>3, SomeFlattenSpreads
<1> QED
  BY <1>2, <1>3

-----------------------------------------------------------------------------
(* Keys.                                                                   *)
KeyFields == {"_id", "ref"}

LEMMA KeysOfDocuments ==
  ASSUME NEW raw \in Documents, NEW field \in KeyFields
  PROVE  /\ fieldKeys(raw, field) \in Seq(Keys)
         /\ KeysOf(raw, field) = {fieldKeys(raw, field)[j] : j \in 1 .. Len(fieldKeys(raw, field))}
         /\ \A values : KeysOf(raw, field) \cap values # {} => In(raw, field, values)
<1>1. raw[field] \in Values
  BY DEF Documents, KeyFields
<1>2. fieldKeys(raw, field) \in Seq(Keys)
  BY <1>1 DEF fieldKeys, Values
<1>3. KeysOf(raw, field) = {fieldKeys(raw, field)[j] : j \in 1 .. Len(fieldKeys(raw, field))}
  BY <1>2 DEF KeysOf, Range
<1> QED
  BY <1>2, <1>3 DEF In

LEMMA PlacesAre ==
  ASSUME NEW raw \in Documents, NEW field \in KeyFields, NEW key
  PROVE  /\ Cardinality(Places(raw, field, key)) \in Nat
         /\ Cardinality(Places(raw, field, key)) > 0 <=> key \in KeysOf(raw, field)
<1> DEFINE keys == fieldKeys(raw, field)
           places == Places(raw, field, key)
<1>1. keys \in Seq(Keys) /\ KeysOf(raw, field) = {keys[j] : j \in 1 .. Len(keys)}
  BY KeysOfDocuments
<1>2. places = {j \in 1 .. Len(keys) : keys[j] = key}
  BY <1>1 DEF Places
<1>3. IsFiniteSet(places) /\ Cardinality(places) \in Nat
  <2>1. Len(keys) \in Nat
    BY <1>1
  <2> HIDE DEF keys, places
  <2>2. IsFiniteSet(1 .. Len(keys))
    BY <2>1, FS_Interval
  <2>3. places \in SUBSET (1 .. Len(keys))
    BY <1>2
  <2> QED
    BY <2>2, <2>3, FS_Subset, FS_CardinalityType
<1>4. places # {} <=> key \in KeysOf(raw, field)
  BY <1>1, <1>2
<1>5. Cardinality(places) > 0 <=> places # {}
  BY <1>3, FS_EmptySet
<1> QED
  BY <1>3, <1>4, <1>5

Holders(children, field, values) ==
  {k \in DOMAIN children : KeysOf(children[k].raw, field) \cap values # {}}

Children(children, n) ==
  DOMAIN children = 1 .. n /\ \A k \in 1 .. n : children[k].raw \in Documents

Lists(s, S) == s \in Seq(S) /\ \A x \in S : \E p \in 1 .. Len(s) : s[p] = x
Sorted(s) == \A p, q \in 1 .. Len(s) : p < q => s[p] <= s[q]
HeldOnce(children, field, key, H) ==
  \A k \in H : Cardinality(Places(children[k].raw, field, key)) <= 1
IsGroup(g, children, field, key, H) ==
  Lists(g, H) /\ Sorted(g) /\ (HeldOnce(children, field, key, H) => Rising(g))

LEMMA ListRange ==
  ASSUME NEW S, NEW s, Lists(s, S)
  PROVE  Range(s) = S
<1>1. s \in Seq(S) /\ \A x \in S : \E p \in 1 .. Len(s) : s[p] = x
  BY DEF Lists
<1>2. Range(s) \subseteq S
  BY <1>1 DEF Range
<1>3. S \subseteq Range(s)
  BY <1>1 DEF Range
<1> QED
  BY <1>2, <1>3

\* The group of a key lists the documents that hold it.
LEMMA GroupLists ==
  ASSUME NEW n \in Nat, NEW children, Children(children, n), NEW field \in KeyFields, NEW key
  PROVE  IsGroup(Group(groupByKey(children, field), key), children, field, key,
                 Holders(children, field, {key}))
<1> DEFINE g == Group(groupByKey(children, field), key)
           H == Holders(children, field, {key})
           c == [k \in 1 .. n |-> Cardinality(Places(children[k].raw, field, key))]
           seqs == [i \in 1 .. n |-> [j \in 1 .. c[i] |-> i]]
<1>1. /\ c \in [1 .. n -> Nat]
      /\ \A k \in 1 .. n : c[k] > 0 <=> key \in KeysOf(children[k].raw, field)
  BY PlacesAre DEF Children
<1>2. H = {k \in 1 .. n : c[k] > 0}
  <2>1. H = {k \in 1 .. n : key \in KeysOf(children[k].raw, field)}
    BY DEF Holders, Children
  <2> HIDE DEF c, H
  <2> QED
    BY <1>1, <2>1
<1>3. key \in documentKeys(children, field) <=> H # {}
  BY DEF documentKeys, Holders
<1>4. g = IF key \in documentKeys(children, field) THEN FlattenSeq(seqs) ELSE <<>>
  <2>1. DOMAIN groupByKey(children, field) = documentKeys(children, field)
    BY DEF groupByKey
  <2>2. ASSUME key \in documentKeys(children, field)
        PROVE  groupByKey(children, field)[key] = FlattenSeq(seqs)
    <3>1. seqs = [i \in DOMAIN children |->
                    [j \in 1 .. Cardinality(Places(children[i].raw, field, key)) |-> i]]
      BY DEF Children
    <3> HIDE DEF seqs
    <3> QED
      BY <2>2, <3>1 DEF groupByKey
  <2> HIDE DEF seqs
  <2> QED
    BY <2>1, <2>2 DEF Group
<1>5. Spread(c, n, FlattenSeq(seqs))
  BY <1>1, FlattenSpreads
<1> HIDE DEF c, seqs, g, H
<1>6. CASE H = {}
  <2>1. g = <<>>
    BY <1>3, <1>4, <1>6
  <2>2. g \in Seq(H) /\ Len(g) = 0 /\ DOMAIN g = {} /\ 1 .. 0 = {}
    BY <2>1
  <2>3. Lists(g, H) /\ Sorted(g) /\ Rising(g)
    BY <1>6, <2>2 DEF Lists, Sorted, Rising
  <2> QED
    BY <2>3 DEF IsGroup, g, H
<1>7. CASE H # {}
  <2>1. Spread(c, n, g)
    BY <1>3, <1>4, <1>5, <1>7
  <2>2. g \in Seq(1 .. n) /\ Len(g) \in Nat /\ \A p \in 1 .. Len(g) : g[p] \in 1 .. n /\ c[g[p]] > 0
    BY <2>1 DEF Spread
  <2>3. g \in Seq(H)
    BY <1>2, <2>2
  <2>4. \A k \in H : \E p \in 1 .. Len(g) : g[p] = k
    BY <1>2, <2>1 DEF Spread
  <2>5. \A p, q \in 1 .. Len(g) : p < q => g[p] <= g[q]
    BY <2>1 DEF Spread
  <2>6. ASSUME \A k \in H : Cardinality(Places(children[k].raw, field, key)) <= 1
        PROVE  Rising(g)
    <3>1. \A i \in 1 .. n : c[i] <= 1
      <4> SUFFICES ASSUME NEW i \in 1 .. n PROVE c[i] <= 1
        OBVIOUS
      <4>1. CASE i \in H
        BY <2>6, <4>1 DEF c
      <4>2. CASE i \notin H
        BY <1>1, <1>2, <4>2
      <4> QED
        BY <4>1, <4>2
    <3>2. \A p, q \in 1 .. Len(g) : p < q => g[p] < g[q]
      BY <2>1, <3>1 DEF Spread
    <3>3. DOMAIN g = 1 .. Len(g)
      BY <2>2
    <3> QED
      BY <3>2, <3>3 DEF Rising
  <2> QED
    BY <2>3, <2>4, <2>5, <2>6 DEF IsGroup, Lists, Sorted, HeldOnce, g, H
<1> QED
  BY <1>6, <1>7

IsMatches(M, children, field, keys, H) ==
  /\ Lists(M, H) /\ Sorted(M)
  /\ Rising(M) \/ (Len(keys) = 1 /\ ~HeldOnce(children, field, keys[1], H))

\* matchesFor lists the documents that hold one of the keys, each once but
\* for one key that is held twice.
LEMMA MatchesList ==
  ASSUME NEW n \in Nat, NEW children, Children(children, n), NEW field \in KeyFields,
         NEW keys \in Seq(Keys)
  PROVE  /\ Holders(children, field, Range(keys)) \in SUBSET (1 .. n)
         /\ IsMatches(matchesFor(keys, groupByKey(children, field)), children, field, keys,
                      Holders(children, field, Range(keys)))
<1> DEFINE M == matchesFor(keys, groupByKey(children, field))
           H == Holders(children, field, Range(keys))
<1>1. H \in SUBSET (1 .. n)
  BY DEF Holders, Children
<1>2. CASE Len(keys) = 1
  <2>1. Range(keys) = {keys[1]}
    BY <1>2 DEF Range
  <2>2. M = Group(groupByKey(children, field), keys[1])
    BY <1>2 DEF matchesFor
  <2>3. H = Holders(children, field, {keys[1]})
    BY <2>1
  <2>4. IsGroup(Group(groupByKey(children, field), keys[1]), children, field, keys[1],
                Holders(children, field, {keys[1]}))
    BY GroupLists
  <2> HIDE DEF M, H
  <2>5. IsGroup(M, children, field, keys[1], H)
    BY <2>2, <2>3, <2>4
  <2>6. IsMatches(M, children, field, keys, H)
    BY <1>2, <2>5 DEF IsGroup, IsMatches
  <2> QED
    BY <1>1, <2>6 DEF M, H
<1>3. CASE Len(keys) # 1
  <2> DEFINE G(k) == Group(groupByKey(children, field), keys[k])
             U == UNION {Range(G(k)) : k \in DOMAIN keys}
  <2>1. M = InOrder(U)
    BY <1>3 DEF matchesFor
  <2>2. \A k \in DOMAIN keys : Range(G(k)) = Holders(children, field, {keys[k]})
    <3> SUFFICES ASSUME NEW k \in DOMAIN keys
                 PROVE  Range(G(k)) = Holders(children, field, {keys[k]})
      OBVIOUS
    <3> DEFINE K == Holders(children, field, {keys[k]})
               g == G(k)
    <3>1. IsGroup(g, children, field, keys[k], K)
      BY GroupLists
    <3> HIDE DEF g, K
    <3>2. Range(g) = K
      BY <3>1, ListRange DEF IsGroup
    <3> QED
      BY <3>2 DEF g, K
  <2>3. U = UNION {Holders(children, field, {keys[k]}) : k \in DOMAIN keys}
    <3> HIDE DEF G
    <3> QED
      BY <2>2
  <2>4. U = H
    <3> HIDE DEF U, H
    <3>1. \A x : x \in U <=> \E k \in DOMAIN keys : x \in Holders(children, field, {keys[k]})
      BY <2>3
    <3>2. \A x : x \in H <=> x \in DOMAIN children /\ KeysOf(children[x].raw, field) \cap Range(keys) # {}
      BY DEF H, Holders
    <3>3. \A x, k : x \in Holders(children, field, {keys[k]}) <=>
            x \in DOMAIN children /\ keys[k] \in KeysOf(children[x].raw, field)
      BY DEF Holders
    <3>4. \A y : y \in Range(keys) <=> \E k \in DOMAIN keys : y = keys[k]
      BY DEF Range
    <3>5. ASSUME NEW x PROVE x \in U <=> x \in H
      <4>1. x \in U <=> /\ x \in DOMAIN children
                        /\ \E k \in DOMAIN keys : keys[k] \in KeysOf(children[x].raw, field)
        BY <3>1, <3>3
      <4>2. KeysOf(children[x].raw, field) \cap Range(keys) # {} <=>
              \E k \in DOMAIN keys : keys[k] \in KeysOf(children[x].raw, field)
        BY <3>4
      <4> QED
        BY <3>2, <4>1, <4>2
    <3> QED
      BY <3>5
  <2> HIDE DEF M, H, U, G
  <2>5. H \in SUBSET Nat /\ IsFiniteSet(H)
    <3>1. IsFiniteSet(1 .. n)
      BY FS_Interval
    <3>2. IsFiniteSet(H)
      BY <1>1, <3>1, FS_Subset
    <3>3. H \in SUBSET Nat
      BY <1>1
    <3> QED
      BY <3>2, <3>3
  <2>6. /\ Cardinality(H) \in Nat /\ M \in [1 .. Cardinality(H) -> H] /\ Rising(M)
        /\ \A x \in H : \E i \in 1 .. Cardinality(H) : M[i] = x
    BY <2>1, <2>4, <2>5, InOrderLists
  <2>7. M \in Seq(H) /\ Len(M) = Cardinality(H)
    BY <2>6
  <2>8. \A p, q \in 1 .. Len(M) : p < q => M[p] <= M[q]
    <3> SUFFICES ASSUME NEW p \in 1 .. Len(M), NEW q \in 1 .. Len(M), p < q
                 PROVE  M[p] <= M[q]
      OBVIOUS
    <3>1. M[p] \in H /\ M[q] \in H
      BY <2>7
    <3>3. M[p] \in Nat /\ M[q] \in Nat
      BY <2>5, <3>1
    <3>2. M[p] < M[q]
      BY <2>6, <2>7 DEF Rising
    <3> QED
      BY <3>2, <3>3
  <2>9. IsMatches(M, children, field, keys, H)
    BY <2>6, <2>7, <2>8 DEF IsMatches, Lists, Sorted
  <2> QED
    BY <1>1, <2>9 DEF M, H
<1> QED
  BY <1>2, <1>3

-----------------------------------------------------------------------------
(* From the places of documents in a page to their _ids.                   *)
IsImage(W, M, ord) ==
  /\ Rising(M) => W = [p \in 1 .. Len(M) |-> ord[M[p]]]
  /\ Sorted(M) => (W = <<>> <=> M = <<>>) /\ (M # <<>> => W[1] = ord[M[1]])

LEMMA SameOrder ==
  ASSUME NEW F \in SUBSET Nat, IsFiniteSet(F),
         NEW H \in SUBSET (1 .. Cardinality(F)), NEW M, Lists(M, H)
  PROVE  IsImage(InOrder({InOrder(F)[k] : k \in H}), M, InOrder(F))
<1> DEFINE n == Cardinality(F)
           ord == InOrder(F)
           J == {ord[k] : k \in H}
           W == InOrder(J)
<1>1. n \in Nat /\ ord \in [1 .. n -> F] /\ Rising(ord)
  BY InOrderLists
<1>2. H \in SUBSET (1 .. n)
  OBVIOUS
<1> HIDE DEF n, ord
<1>3. \A a \in 1 .. n : ord[a] \in F /\ ord[a] \in Nat
  BY <1>1
<1>4. \A a, b \in 1 .. n : a < b => ord[a] < ord[b]
  BY <1>1 DEF Rising
<1>5. J \in SUBSET F
  BY <1>2, <1>3
<1>6. J \in SUBSET Nat /\ IsFiniteSet(J)
  BY <1>5, FS_Subset
<1>7. M \in Seq(H) /\ Len(M) \in Nat /\ \A p \in 1 .. Len(M) : M[p] \in H /\ M[p] \in 1 .. n
  <2>1. M \in Seq(H)
    BY DEF Lists
  <2>2. Len(M) \in Nat /\ \A p \in 1 .. Len(M) : M[p] \in H
    BY <2>1
  <2> QED
    BY <1>2, <2>1, <2>2
<1>8. /\ Cardinality(J) \in Nat /\ W \in [1 .. Cardinality(J) -> J] /\ Rising(W)
      /\ \A x \in J : \E i \in 1 .. Cardinality(J) : W[i] = x
  <2> HIDE DEF J
  <2> QED
    BY <1>6, InOrderLists
<1>9. W \in Seq(J) /\ Len(W) = Cardinality(J)
  <2> HIDE DEF J, W
  <2> QED
    BY <1>8
<1>10. ASSUME Rising(M) PROVE W = [p \in 1 .. Len(M) |-> ord[M[p]]]
  <2> DEFINE k == Len(M)
             t == [p \in 1 .. k |-> ord[M[p]]]
  <2>1. t \in [1 .. k -> J]
    BY <1>7
  <2>2. \A p, q \in 1 .. k : p < q => M[p] < M[q]
    <3>1. DOMAIN M = 1 .. k
      BY <1>7
    <3> QED
      BY <1>10, <3>1 DEF Rising
  <2>3. \A p, q \in 1 .. k : p < q => t[p] < t[q]
    BY <1>4, <1>7, <2>2
  <2>4. Rising(t)
    BY <2>3 DEF Rising
  <2>5. \A x \in J : \E p \in 1 .. k : t[p] = x
    <3> SUFFICES ASSUME NEW a \in H PROVE \E p \in 1 .. k : t[p] = ord[a]
      OBVIOUS
    <3>1. PICK p \in 1 .. k : M[p] = a
      BY DEF Lists
    <3> QED
      BY <3>1
  <2>6. k \in Nat
    BY <1>7
  <2> HIDE DEF t, k, J
  <2>7. t = InOrder(J)
    BY <1>6, <2>1, <2>4, <2>5, <2>6, OnlyInOrder
  <2> QED
    BY <2>7 DEF t, k
<1>11. ASSUME Sorted(M)
       PROVE  (W = <<>> <=> M = <<>>) /\ (M # <<>> => W[1] = ord[M[1]])
  <2>1. CASE M = <<>>
    <3>1. H = {}
      BY <2>1 DEF Lists
    <3>2. J = {}
      BY <3>1
    <3>3. Cardinality(J) = 0
      BY <3>2, FS_EmptySet
    <3>4. W = <<>>
      <4> HIDE DEF W, J
      <4> QED
        BY <1>9, <3>3
    <3> QED
      BY <2>1, <3>4
  <2>2. CASE M # <<>>
    <3>1. 1 \in 1 .. Len(M) /\ M[1] \in H /\ M[1] \in 1 .. n
      BY <1>7, <2>2
    <3>2. ord[M[1]] \in J
      BY <3>1
    <3> DEFINE f == ord[M[1]]
    <3>3. PICK i \in 1 .. Cardinality(J) : W[i] = f
      <4> HIDE DEF W, J, f
      <4> QED
        BY <1>8, <3>2 DEF f
    <3>4. 1 \in 1 .. Cardinality(J) /\ W[1] \in J
      <4> HIDE DEF W, J
      <4> QED
        BY <1>8, <3>3
    <3>5. PICK a \in H : W[1] = ord[a]
      BY <3>4
    <3>6. PICK p \in 1 .. Len(M) : M[p] = a
      BY DEF Lists
    <3>7. M[1] <= a
      <4>1. CASE p = 1
        BY <1>7, <3>6, <4>1
      <4>2. CASE p # 1
        <5>1. 1 < p
          BY <1>7, <4>2
        <5> QED
          BY <1>11, <3>1, <3>6, <5>1 DEF Sorted
      <4> QED
        BY <4>1, <4>2
    <3>8. f <= W[1]
      <4>1. a \in 1 .. n
        BY <1>2, <3>5
      <4>2. CASE M[1] = a
        BY <1>3, <3>1, <3>5, <4>1, <4>2
      <4>3. CASE M[1] < a
        BY <1>3, <1>4, <3>1, <3>5, <4>1, <4>3
      <4> QED
        BY <3>1, <3>7, <4>1, <4>2, <4>3
    <3>9. W[1] <= f
      <4>1. W[1] \in Nat /\ f \in Nat
        BY <1>3, <3>1, <3>5, <1>2
      <4> HIDE DEF W, J, f
      <4>2. CASE i = 1
        BY <3>3, <4>1, <4>2
      <4>3. CASE i # 1
        <5>1. 1 < i /\ DOMAIN W = 1 .. Cardinality(J)
          BY <1>8, <4>3
        <5>2. W[1] < W[i]
          BY <1>8, <3>3, <3>4, <5>1 DEF Rising
        <5> QED
          BY <3>3, <4>1, <5>2
      <4> QED
        BY <4>2, <4>3
    <3>10. W[1] = f
      <4>1. W[1] \in Nat /\ f \in Nat
        BY <1>3, <3>1, <3>5, <1>2
      <4> HIDE DEF W, f
      <4> QED
        BY <3>8, <3>9, <4>1
    <3>11. W # <<>>
      <4> HIDE DEF W, J
      <4> QED
        BY <1>8, <3>4
    <3> QED
      BY <2>2, <3>10, <3>11
  <2> QED
    BY <2>1, <2>2
<1> QED
  <2> HIDE DEF W, J
  <2>1. IsImage(W, M, ord)
    BY <1>10, <1>11 DEF IsImage
  <2> QED
    BY <2>1 DEF W, J, ord

-----------------------------------------------------------------------------
(* The stack of loads.                                                     *)
IsSeq(s) == s \in Seq(Range(s))

LEMMA SeqIsSeq ==
  ASSUME NEW S, NEW s \in Seq(S)
  PROVE  IsSeq(s)
<1>1. \A i \in 1 .. Len(s) : s[i] \in Range(s)
  BY DEF Range
<1> QED
  BY <1>1 DEF IsSeq

LEMMA SeqIs ==
  ASSUME NEW s, IsSeq(s)
  PROVE  /\ Len(s) \in Nat /\ DOMAIN s = 1 .. Len(s)
         /\ s = <<>> <=> Len(s) = 0
BY DEF IsSeq

LEMMA SeqGrows ==
  ASSUME NEW s, IsSeq(s), NEW e
  PROVE  /\ IsSeq(Append(s, e)) /\ Len(Append(s, e)) = Len(s) + 1
         /\ \A i \in 1 .. Len(s) : Append(s, e)[i] = s[i]
         /\ Append(s, e)[Len(s) + 1] = e
<1> DEFINE S == Range(s) \cup {e}
<1>1. s \in Seq(S) /\ e \in S
  BY DEF IsSeq
<1> HIDE DEF S
<1>2. Append(s, e) \in Seq(S)
  BY <1>1
<1>3. IsSeq(Append(s, e))
  BY <1>2, SeqIsSeq
<1>4. /\ Len(Append(s, e)) = Len(s) + 1 /\ Append(s, e)[Len(s) + 1] = e
      /\ \A i \in 1 .. Len(s) : Append(s, e)[i] = s[i]
  BY <1>1
<1> QED
  BY <1>3, <1>4

LEMMA SeqShrinks ==
  ASSUME NEW s, IsSeq(s), NEW k \in 0 .. Len(s)
  PROVE  /\ IsSeq(SubSeq(s, 1, k)) /\ Len(SubSeq(s, 1, k)) = k
         /\ \A i \in 1 .. k : SubSeq(s, 1, k)[i] = s[i]
<1> DEFINE S == Range(s)
<1>1. s \in Seq(S)
  BY DEF IsSeq
<1> HIDE DEF S
<1>2. SubSeq(s, 1, k) \in Seq(S) /\ Len(SubSeq(s, 1, k)) = k
  BY <1>1
<1>3. IsSeq(SubSeq(s, 1, k))
  BY <1>2, SeqIsSeq
<1>4. \A i \in 1 .. k : SubSeq(s, 1, k)[i] = s[i]
  BY <1>1
<1> QED
  BY <1>2, <1>3, <1>4

ModelOK(m) ==
  m = [raw |-> m.raw, loaded |-> m.loaded] /\ m.raw \in Documents /\ IsSeq(m.loaded)
FrameOK(f) ==
  /\ f = [todo |-> f.todo, seen |-> f.seen, models |-> f.models]
  /\ f.todo \in Seq(Relations) /\ IsSeq(f.models)
  /\ \A i \in 1 .. Len(f.models) : ModelOK(f.models[i])

Found(seen, relation, values) ==
  {i \in RelatedIds : /\ seen[i] # NoDocument /\ ~seen[i].trashed
                      /\ In(seen[i], relation.relatedKey, values)}

\* A level above another holds what the query of the relation that is being
\* loaded found, with as many of its relations loaded as are no longer to do.
Answered(outer, top) ==
  LET relation == Head(outer.todo)
      F == Found(top.seen, relation, documentKeys(outer.models, relation.parentKey))
  IN /\ outer.todo # <<>>
     /\ top.seen \in [RelatedIds -> Documents \cup {NoDocument}]
     /\ Len(top.models) = Cardinality(F)
     /\ \A i \in 1 .. Len(top.models) :
          /\ top.models[i].raw = top.seen[InOrder(F)[i]]
          /\ Len(top.models[i].loaded) + Len(top.todo) = Len(relation.nested)

StackOK(st) ==
  /\ IsSeq(st) /\ \A k \in 1 .. Len(st) : FrameOK(st[k])
  /\ \A k \in 1 .. Len(st) - 1 : Answered(st[k], st[k + 1])

RelationsInv ==
  /\ related \in [Collections -> [RelatedIds -> Documents \cup {NoDocument}]]
  /\ StackOK(stack)

LEMMA StackShrinks ==
  ASSUME NEW st, StackOK(st), NEW k \in 0 .. Len(st)
  PROVE  /\ StackOK(SubSeq(st, 1, k)) /\ Len(SubSeq(st, 1, k)) = k
         /\ \A i \in 1 .. k : SubSeq(st, 1, k)[i] = st[i]
<1> DEFINE t == SubSeq(st, 1, k)
<1>1. IsSeq(st) /\ Len(st) \in Nat
  BY SeqIs DEF StackOK
<1>2. IsSeq(t) /\ Len(t) = k /\ \A i \in 1 .. k : t[i] = st[i]
  BY <1>1, SeqShrinks
<1> HIDE DEF t
<1>3. \A i \in 1 .. k : FrameOK(t[i])
  <2>1. \A i \in 1 .. k : i \in 1 .. Len(st)
    BY <1>1
  <2> QED
    BY <1>2, <2>1 DEF StackOK
<1>4. ASSUME NEW i \in 1 .. k - 1 PROVE Answered(t[i], t[i + 1])
  <2>1. i \in 1 .. k /\ i + 1 \in 1 .. k /\ i \in 1 .. Len(st) - 1
    BY <1>1
  <2> QED
    BY <1>2, <2>1 DEF StackOK
<1>5. StackOK(t)
  BY <1>2, <1>3, <1>4 DEF StackOK
<1> QED
  BY <1>2, <1>5 DEF t

LEMMA StackGrows ==
  ASSUME NEW st, StackOK(st), NEW f, FrameOK(f), Len(st) > 0 => Answered(st[Len(st)], f)
  PROVE  StackOK(Append(st, f))
<1> DEFINE t == Append(st, f)
           n == Len(st)
<1>1. IsSeq(st) /\ n \in Nat
  BY SeqIs DEF StackOK
<1>2. IsSeq(t) /\ Len(t) = n + 1 /\ (\A i \in 1 .. n : t[i] = st[i]) /\ t[n + 1] = f
  BY <1>1, SeqGrows
<1>3. (\A i \in 1 .. n : FrameOK(st[i])) /\ \A i \in 1 .. n - 1 : Answered(st[i], st[i + 1])
  BY DEF StackOK
<1> HIDE DEF t, n
<1>4. \A i \in 1 .. n + 1 : FrameOK(t[i])
  <2> SUFFICES ASSUME NEW i \in 1 .. n + 1 PROVE FrameOK(t[i])
    OBVIOUS
  <2>1. i \in 1 .. n \/ i = n + 1
    BY <1>1
  <2> QED
    BY <1>2, <1>3, <2>1
<1>5. ASSUME NEW i \in 1 .. (n + 1) - 1 PROVE Answered(t[i], t[i + 1])
  <2>1. CASE i = n
    <3>1. i \in 1 .. n /\ n > 0
      BY <1>1, <2>1
    <3> QED
      BY <1>2, <2>1, <3>1 DEF n
  <2>2. CASE i # n
    <3>1. i \in 1 .. n - 1 /\ i \in 1 .. n /\ i + 1 \in 1 .. n
      BY <1>1, <2>2
    <3> QED
      BY <1>2, <1>3, <3>1
  <2> QED
    BY <2>1, <2>2
<1>6. StackOK(t)
  BY <1>2, <1>4, <1>5 DEF StackOK
<1> QED
  BY <1>6 DEF t

\* What attaching leaves as it was, and what it adds.
Attaches(frame, done, children) ==
  /\ FrameOK(done) /\ done.seen = frame.seen
  /\ Len(done.todo) = Len(frame.todo) - 1
  /\ Len(done.models) = Len(frame.models)
  /\ \A i \in 1 .. Len(frame.models) :
       /\ done.models[i].raw = frame.models[i].raw
       /\ Len(done.models[i].loaded) = Len(frame.models[i].loaded) + 1
       /\ done.models[i].loaded[Len(done.models[i].loaded)] =
            Given(frame.models[i], Head(frame.todo), children)

LEMMA DoneAttaches ==
  ASSUME NEW frame, FrameOK(frame), frame.todo # <<>>, NEW children
  PROVE  Attaches(frame, Done(frame, children), children)
<1> DEFINE relation == Head(frame.todo)
           models == frame.models
           done == Done(frame, children)
<1>1. done = [todo |-> Tail(frame.todo), seen |-> frame.seen,
              models |-> Attached(models, relation, children)]
  <2>1. PICK t, s, m : frame = [todo |-> t, seen |-> s, models |-> m]
    BY DEF FrameOK
  <2>2. frame.todo = t /\ frame.seen = s /\ frame.models = m
    BY <2>1
  <2>3. done = [[todo |-> t, seen |-> s, models |-> m]
                  EXCEPT !.todo = Tail(t), !.models = Attached(m, Head(t), children)]
    BY <2>1, <2>2 DEF Done
  <2> HIDE DEF done
  <2>4. done = [todo |-> Tail(t), seen |-> s, models |-> Attached(m, Head(t), children)]
    BY <2>3
  <2> QED
    BY <2>2, <2>4
<1>2. IsSeq(models) /\ Len(models) \in Nat /\ DOMAIN models = 1 .. Len(models)
  BY SeqIs DEF FrameOK
<1>3. Tail(frame.todo) \in Seq(Relations) /\ Len(Tail(frame.todo)) = Len(frame.todo) - 1
  BY DEF FrameOK
<1> DEFINE M(i) == [models[i] EXCEPT !.loaded = Append(@, Given(models[i], relation, children))]
           after == Attached(models, relation, children)
<1>4. after = [i \in 1 .. Len(models) |-> M(i)]
  BY <1>2 DEF Attached
<1>5. ASSUME NEW i \in 1 .. Len(models)
      PROVE  /\ ModelOK(M(i)) /\ M(i).raw = models[i].raw
             /\ Len(M(i).loaded) = Len(models[i].loaded) + 1
             /\ M(i).loaded[Len(M(i).loaded)] = Given(models[i], relation, children)
  <2> DEFINE g == Given(models[i], relation, children)
             l == Append(models[i].loaded, g)
  <2>1. ModelOK(models[i])
    BY DEF FrameOK
  <2> HIDE DEF g, models
  <2>2. M(i) = [raw |-> models[i].raw, loaded |-> l]
    BY <2>1 DEF ModelOK, g
  <2>3. /\ IsSeq(l) /\ Len(l) = Len(models[i].loaded) + 1
        /\ l[Len(models[i].loaded) + 1] = g
    BY <2>1, SeqGrows DEF ModelOK
  <2> HIDE DEF l
  <2>4. ModelOK([raw |-> models[i].raw, loaded |-> l])
    BY <2>1, <2>3 DEF ModelOK
  <2> QED
    BY <2>2, <2>3, <2>4 DEF g
<1> HIDE DEF M, after, models, relation
<1>6. IsSeq(after) /\ Len(after) = Len(models)
  <2> DEFINE S == {M(i) : i \in 1 .. Len(models)}
  <2>1. after \in Seq(S) /\ Len(after) = Len(models)
    BY <1>2, <1>4
  <2> QED
    BY <2>1, SeqIsSeq
<1>7. \A i \in 1 .. Len(models) : after[i] = M(i)
  BY <1>4
<1>8. done.todo = Tail(frame.todo) /\ done.seen = frame.seen /\ done.models = after
  BY <1>1 DEF after, models, relation
<1>9. FrameOK(done)
  <2>1. done = [todo |-> done.todo, seen |-> done.seen, models |-> done.models]
    BY <1>1
  <2> HIDE DEF done
  <2> QED
    BY <1>3, <1>5, <1>6, <1>7, <1>8, <2>1 DEF FrameOK
<1> HIDE DEF done
<1>10. Attaches(frame, done, children)
  BY <1>3, <1>5, <1>6, <1>7, <1>8, <1>9 DEF Attaches, models, relation
<1> QED
  BY <1>10 DEF done

LEMMA AnsweredStays ==
  ASSUME NEW outer, NEW top, Answered(outer, top), FrameOK(top), top.todo # <<>>, NEW children
  PROVE  Answered(outer, Done(top, children))
<1> DEFINE done == Done(top, children)
<1>1. Attaches(top, done, children)
  BY DoneAttaches
<1> HIDE DEF done
<1>2. Len(top.todo) \in Nat /\ \A i \in 1 .. Len(top.models) : Len(top.models[i].loaded) \in Nat
  <2>1. Len(top.todo) \in Nat
    BY DEF FrameOK
  <2> QED
    BY <2>1, SeqIs DEF FrameOK, ModelOK
<1>3. Answered(outer, done)
  <2> DEFINE relation == Head(outer.todo)
             F == Found(top.seen, relation, documentKeys(outer.models, relation.parentKey))
  <2>1. /\ outer.todo # <<>> /\ top.seen \in [RelatedIds -> Documents \cup {NoDocument}]
        /\ Len(top.models) = Cardinality(F)
        /\ \A i \in 1 .. Len(top.models) :
             /\ top.models[i].raw = top.seen[InOrder(F)[i]]
             /\ Len(top.models[i].loaded) + Len(top.todo) = Len(relation.nested)
    BY DEF Answered
  <2>2. /\ done.seen = top.seen /\ Len(done.todo) = Len(top.todo) - 1
        /\ Len(done.models) = Len(top.models)
        /\ \A i \in 1 .. Len(top.models) :
             /\ done.models[i].raw = top.models[i].raw
             /\ Len(done.models[i].loaded) = Len(top.models[i].loaded) + 1
    BY <1>1 DEF Attaches
  <2>3. F = Found(done.seen, relation, documentKeys(outer.models, relation.parentKey))
    BY <2>2
  <2> HIDE DEF F
  <2>4. \A i \in 1 .. Len(top.models) :
          /\ done.models[i].raw = done.seen[InOrder(F)[i]]
          /\ Len(done.models[i].loaded) + Len(done.todo) = Len(relation.nested)
    <3> SUFFICES ASSUME NEW i \in 1 .. Len(top.models)
                 PROVE  /\ done.models[i].raw = done.seen[InOrder(F)[i]]
                        /\ Len(done.models[i].loaded) + Len(done.todo) = Len(relation.nested)
      OBVIOUS
    <3>1. /\ top.models[i].raw = top.seen[InOrder(F)[i]]
          /\ Len(top.models[i].loaded) + Len(top.todo) = Len(relation.nested)
      BY <2>1
    <3>2. /\ done.models[i].raw = top.models[i].raw
          /\ Len(done.models[i].loaded) = Len(top.models[i].loaded) + 1
          /\ done.seen = top.seen /\ Len(done.todo) = Len(top.todo) - 1
      BY <2>2
    <3>3. Len(top.todo) \in Nat /\ Len(top.models[i].loaded) \in Nat
      BY <1>2
    <3> HIDE DEF relation
    <3>4. Len(done.models[i].loaded) + Len(done.todo) = Len(relation.nested)
      <4>1. PICK a \in Nat, t \in Nat : a = Len(top.models[i].loaded) /\ t = Len(top.todo)
        BY <3>3
      <4>2. Len(done.models[i].loaded) = a + 1 /\ Len(done.todo) = t - 1
        BY <3>2, <4>1
      <4>3. (a + 1) + (t - 1) = a + t
        OBVIOUS
      <4>4. a + t = Len(relation.nested)
        BY <3>1, <4>1
      <4> QED
        BY <4>2, <4>3, <4>4
    <3> QED
      BY <3>1, <3>2, <3>4
  <2> QED
    BY <2>1, <2>2, <2>3, <2>4 DEF Answered
<1> QED
  BY <1>3 DEF done

-----------------------------------------------------------------------------
(* What a level is given is a join.                                        *)
LEMMA GivenIsJoin ==
  ASSUME NEW outer, FrameOK(outer), NEW top, FrameOK(top), Answered(outer, top),
         top.todo = <<>>, NEW i \in 1 .. Len(outer.models)
  PROVE  IsJoin(outer.models[i], Head(outer.todo), top.seen,
                Given(outer.models[i], Head(outer.todo), top.models))
<1> DEFINE relation == Head(outer.todo)
           model == outer.models[i]
           seen == top.seen
           children == top.models
           values == documentKeys(outer.models, relation.parentKey)
           F == Found(seen, relation, values)
           n == Cardinality(F)
           ord == InOrder(F)
           keys == fieldKeys(model.raw, relation.parentKey)
           field == relation.relatedKey
           H == Holders(children, field, Range(keys))
           M == matchesFor(keys, groupByKey(children, field))
           joined == Joined(model, relation, seen)
           W == InOrder(joined)
           got == Given(model, relation, children)
<1>1. relation \in Relations
  BY DEF FrameOK, Answered
<1>2. field \in KeyFields /\ relation.parentKey \in KeyFields /\ relation.kind \in {"one", "many"}
  BY <1>1, RelationsAssumption DEF KeyFields
<1>3. model.raw \in Documents /\ i \in DOMAIN outer.models
  BY SeqIs DEF FrameOK, ModelOK
<1>4. keys \in Seq(Keys) /\ Range(keys) = KeysOf(model.raw, relation.parentKey)
  BY <1>2, <1>3, KeysOfDocuments DEF KeysOf
<1>5. Range(keys) \subseteq values
  BY <1>3, <1>4 DEF documentKeys
<1>6. F \in SUBSET Nat /\ IsFiniteSet(F)
  <2>1. F \in SUBSET RelatedIds
    BY DEF Found
  <2> HIDE DEF F
  <2> QED
    BY <2>1, DocumentsAssumption, FS_Subset
<1>7. /\ n \in Nat /\ ord \in [1 .. n -> F]
      /\ \A x \in F : \E k \in 1 .. n : ord[k] = x
  <2> HIDE DEF F
  <2> QED
    BY <1>6, InOrderLists
<1>8. /\ seen \in [RelatedIds -> Documents \cup {NoDocument}]
      /\ Len(children) = n /\ DOMAIN children = 1 .. n
      /\ \A k \in 1 .. n : /\ children[k].raw = seen[ord[k]]
                           /\ Len(children[k].loaded) = Len(relation.nested)
  <2>1. /\ seen \in [RelatedIds -> Documents \cup {NoDocument}] /\ Len(children) = n
        /\ \A k \in 1 .. Len(children) :
             /\ children[k].raw = seen[ord[k]]
             /\ Len(children[k].loaded) + Len(top.todo) = Len(relation.nested)
    BY DEF Answered
  <2>2. DOMAIN children = 1 .. Len(children)
    BY SeqIs DEF FrameOK
  <2>3. \A k \in 1 .. Len(children) : Len(children[k].loaded) \in Nat
    BY SeqIs DEF FrameOK, ModelOK
  <2>4. Len(top.todo) = 0
    OBVIOUS
  <2> HIDE DEF children, seen, relation, ord, n
  <2> QED
    BY <2>1, <2>2, <2>3, <2>4
<1>9. Children(children, n)
  BY <1>8 DEF Children, FrameOK, ModelOK
<1>10. H \in SUBSET (1 .. n) /\ IsMatches(M, children, field, keys, H)
  <2> HIDE DEF n, children, field, keys
  <2> QED
    BY <1>2, <1>4, <1>7, <1>9, MatchesList
<1>11. /\ relation = Head(outer.todo) /\ model = outer.models[i] /\ seen = top.seen
       /\ children = top.models
  OBVIOUS
<1>12. joined = {ord[k] : k \in H}
  <2>1. \A x : x \in joined <=>
          /\ x \in RelatedIds /\ seen[x] # NoDocument /\ ~seen[x].trashed
          /\ KeysOf(seen[x], field) \cap Range(keys) # {}
    BY <1>4, <1>8 DEF Joined
  <2>2. \A x : x \in F <=>
          /\ x \in RelatedIds /\ seen[x] # NoDocument /\ ~seen[x].trashed
          /\ In(seen[x], field, values)
    BY DEF Found
  <2>3. \A k : k \in H <=> k \in 1 .. n /\ KeysOf(seen[ord[k]], field) \cap Range(keys) # {}
    BY <1>8 DEF Holders
  <2> HIDE DEF joined, F, H, ord, n, keys, field, values, seen
  <2>4. ASSUME NEW x \in joined PROVE x \in {ord[k] : k \in H}
    <3>1. seen[x] \in Documents
      BY <1>8, <2>1
    <3>2. KeysOf(seen[x], field) \cap values # {}
      BY <1>5, <2>1
    <3>3. In(seen[x], field, values)
      BY <1>2, <3>1, <3>2, KeysOfDocuments
    <3>4. PICK k \in 1 .. n : ord[k] = x
      BY <1>7, <2>1, <2>2, <3>3
    <3> QED
      BY <2>1, <2>3, <3>4
  <2>5. ASSUME NEW k \in H PROVE ord[k] \in joined
    BY <1>7, <1>10, <2>1, <2>2, <2>3
  <2> QED
    BY <2>4, <2>5
<1> HIDE DEF F, n, H, keys, field
<1>13. IsImage(W, M, ord)
  <2> HIDE DEF joined, M
  <2> QED
    BY <1>6, <1>10, <1>12, SameOrder DEF IsMatches, n
<1>14. got = [k \in DOMAIN Kept(relation, M) |-> children[Kept(relation, M)[k]]]
  BY DEF Given, keys, field
<1> HIDE DEF M, W, joined, got, ord, model, seen, children, relation, values
<1>15. /\ M \in Seq(H) /\ Len(M) \in Nat /\ DOMAIN M = 1 .. Len(M) /\ Sorted(M)
       /\ \A p \in 1 .. Len(M) : M[p] \in H /\ M[p] \in 1 .. n
  <2>1. M \in Seq(H) /\ Sorted(M)
    BY <1>10 DEF IsMatches, Lists
  <2>2. Len(M) \in Nat /\ DOMAIN M = 1 .. Len(M) /\ \A p \in 1 .. Len(M) : M[p] \in H
    BY <2>1
  <2>3. \A p \in 1 .. Len(M) : M[p] \in 1 .. n
    BY <1>10, <2>2
  <2> QED
    BY <2>1, <2>2, <2>3
<1>16. \A p \in 1 .. Len(M) : children[M[p]].raw = seen[ord[M[p]]]
  BY <1>8, <1>15
<1>17. ASSUME NEW k \in DOMAIN got PROVE Len(got[k].loaded) = Len(relation.nested)
  <2>1. CASE relation.kind = "one" /\ M # <<>>
    <3>1. Kept(relation, M) = <<M[1]>> /\ 1 \in 1 .. Len(M)
      BY <1>15, <2>1 DEF Kept
    <3>2. got[k] = children[M[1]]
      BY <1>14, <1>17, <3>1
    <3> QED
      BY <1>8, <1>15, <3>1, <3>2
  <2>2. CASE ~(relation.kind = "one" /\ M # <<>>)
    <3>1. Kept(relation, M) = M
      BY <2>2 DEF Kept
    <3>2. k \in 1 .. Len(M) /\ got[k] = children[M[k]]
      BY <1>14, <1>15, <1>17, <3>1
    <3> QED
      BY <1>8, <1>15, <3>2
  <2> QED
    BY <2>1, <2>2
<1> DEFINE kept == IF relation.kind = "one" /\ W # <<>> THEN <<W[1]>> ELSE W
<1>18. CASE relation.kind = "one" /\ M # <<>>
  <2>1. W # <<>> /\ W[1] = ord[M[1]]
    BY <1>13, <1>15, <1>18 DEF IsImage
  <2>2. Kept(relation, M) = <<M[1]>> /\ 1 \in 1 .. Len(M)
    BY <1>15, <1>18 DEF Kept
  <2>3. got = [k \in 1 .. 1 |-> children[M[1]]]
    BY <1>14, <2>2
  <2>4. Raws(got) = [k \in 1 .. 1 |-> seen[W[1]]]
    BY <1>16, <2>1, <2>2, <2>3 DEF Raws
  <2>5. kept = <<W[1]>>
    BY <1>18, <2>1
  <2>6. Raws(got) = [k \in DOMAIN kept |-> seen[kept[k]]]
    <3> HIDE DEF kept
    <3> QED
      BY <2>4, <2>5
  <2> QED
    BY <1>17, <2>6 DEF IsJoin, joined, W, got, model, relation, seen, children
<1>19. CASE relation.kind = "one" /\ M = <<>>
  <2>1. W = <<>>
    BY <1>13, <1>15, <1>19 DEF IsImage
  <2>2. kept = <<>> /\ Kept(relation, M) = <<>>
    BY <1>19, <2>1 DEF Kept
  <2>3. Raws(got) = [k \in DOMAIN kept |-> seen[kept[k]]]
    <3> HIDE DEF kept
    <3>1. DOMAIN got = {} /\ DOMAIN kept = {}
      BY <1>14, <2>2
    <3> QED
      BY <3>1 DEF Raws
  <2> QED
    BY <1>17, <2>3 DEF IsJoin, joined, W, got, model, relation, seen, children
<1>20. CASE relation.kind = "many"
  <2>1. kept = W /\ Kept(relation, M) = M
    BY <1>20 DEF Kept
  <2>2. got = [k \in 1 .. Len(M) |-> children[M[k]]]
    BY <1>14, <1>15, <2>1
  <2>3. Raws(got) = [k \in 1 .. Len(M) |-> seen[ord[M[k]]]]
    <3>1. Raws(got) = [k \in 1 .. Len(M) |-> children[M[k]].raw]
      BY <2>2 DEF Raws
    <3> QED
      BY <1>16, <3>1
  <2>4. CASE Rising(M)
    <3>1. W = [p \in 1 .. Len(M) |-> ord[M[p]]]
      BY <1>13, <2>4 DEF IsImage
    <3>2. Raws(got) = [k \in DOMAIN kept |-> seen[kept[k]]]
      <4> HIDE DEF kept
      <4> QED
        BY <2>1, <2>3, <3>1
    <3> QED
      BY <1>17, <3>2 DEF IsJoin, joined, W, got, model, relation, seen, children
  <2>5. CASE Len(keys) = 1 /\ ~HeldOnce(children, field, keys[1], H)
    <3>1. PICK k \in H : ~(Cardinality(Places(children[k].raw, field, keys[1])) <= 1)
      BY <2>5 DEF HeldOnce
    <3>2. /\ k \in 1 .. n /\ children[k].raw = seen[ord[k]] /\ children[k].raw \in Documents
      BY <1>8, <1>9, <1>10 DEF Children
    <3>3. Cardinality(Places(seen[ord[k]], field, keys[1])) > 1
      <4>1. Cardinality(Places(children[k].raw, field, keys[1])) \in Nat
        BY <1>2, <3>2, PlacesAre
      <4> QED
        BY <3>1, <3>2, <4>1
    <3>4. ord[k] \in RelatedIds /\ seen[ord[k]] # NoDocument
      <4>1. ord[k] \in F
        BY <1>7, <3>2
      <4> QED
        BY <4>1 DEF F, Found
    <3>5. Repeats(model, relation, seen)
      BY <1>8, <2>5, <3>3, <3>4 DEF Repeats, keys, field
    <3>6. Range(Raws(got)) = {seen[x] : x \in joined}
      <4>1. Range(Raws(got)) = {seen[ord[M[p]]] : p \in 1 .. Len(M)}
        BY <2>3 DEF Range
      <4>2. \A a \in H : \E p \in 1 .. Len(M) : M[p] = a
        BY <1>10 DEF IsMatches, Lists
      <4> QED
        BY <1>12, <1>15, <4>1, <4>2
    <3> QED
      BY <1>17, <1>20, <3>5, <3>6 DEF IsJoin, joined, got, model, relation, seen, children
  <2> QED
    BY <1>10, <2>4, <2>5 DEF IsMatches
<1> QED
  BY <1>2, <1>18, <1>19, <1>20 DEF relation

-----------------------------------------------------------------------------
(* The steps.                                                              *)
LEMMA ParentOK ==
  ASSUME NEW page \in ParentPages
  PROVE  LET models == [k \in DOMAIN page |-> Parent(k, page[k])] IN
         /\ IsSeq(models) /\ \A k \in 1 .. Len(models) : ModelOK(models[k])
<1> DEFINE models == [k \in DOMAIN page |-> Parent(k, page[k])]
<1>1. page \in Seq(Values) /\ DOMAIN page = 1 .. Len(page) /\ Len(page) \in Nat
      /\ DOMAIN page \subseteq Keys
  BY DocumentsAssumption
<1>2. \A k \in DOMAIN page : ModelOK(Parent(k, page[k]))
  <2> SUFFICES ASSUME NEW k \in DOMAIN page PROVE ModelOK(Parent(k, page[k]))
    OBVIOUS
  <2>1. k \in Keys /\ page[k] \in Values
    BY <1>1
  <2>2. <<k>> \in Values
    BY <2>1 DEF Values
  <2>3. [_id |-> <<k>>, ref |-> page[k], trashed |-> FALSE] \in Documents
    BY <2>1, <2>2 DEF Documents
  <2>4. IsSeq(<<>>)
    BY DEF IsSeq
  <2> QED
    BY <2>3, <2>4 DEF Parent, Model, ModelOK
<1>3. IsSeq(models) /\ Len(models) = Len(page)
  <2> DEFINE S == {Parent(k, page[k]) : k \in DOMAIN page}
  <2>1. models \in Seq(S) /\ Len(models) = Len(page)
    BY <1>1
  <2> QED
    BY <2>1, SeqIsSeq
<1> QED
  BY <1>1, <1>2, <1>3

LEMMA OneFrame ==
  ASSUME NEW f, FrameOK(f)
  PROVE  StackOK(<<f>>)
<1>1. StackOK(<<>>)
  BY DEF StackOK, IsSeq
<1>2. ~(Len(<<>>) > 0) /\ Append(<<>>, f) = <<f>>
  OBVIOUS
<1>3. StackOK(Append(<<>>, f))
  BY <1>1, <1>2, StackGrows
<1> QED
  BY <1>2, <1>3

RelatedType == [Collections -> [RelatedIds -> Documents \cup {NoDocument}]]

LEMMA RelationsInitInv == RelationsInit => RelationsInv
<1> SUFFICES ASSUME RelationsInit PROVE RelationsInv
  OBVIOUS
<1>1. PICK d \in [Collections -> [RelatedIds -> RelatedDocs]] :
        related = [c \in Collections |-> [i \in RelatedIds |->
          IF d[c][i] = NoDocument THEN NoDocument ELSE [d[c][i] EXCEPT !["_id"] = <<i>>]]]
  BY DEF RelationsInit
<1>2. ASSUME NEW c \in Collections, NEW i \in RelatedIds, d[c][i] # NoDocument
      PROVE  [d[c][i] EXCEPT !["_id"] = <<i>>] \in Documents
  <2>1. d[c][i] \in Documents
    BY <1>2, DocumentsAssumption
  <2>2. <<i>> \in Values
    BY DocumentsAssumption DEF Values
  <2> QED
    BY <2>1, <2>2 DEF Documents
<1>3. related \in RelatedType
  BY <1>1, <1>2 DEF RelatedType
<1>4. PICK with \in Withs, page \in ParentPages :
        stack = <<[todo |-> with, seen |-> <<>>,
                   models |-> [k \in DOMAIN page |-> Parent(k, page[k])]]>>
  BY DEF RelationsInit
<1> DEFINE models == [k \in DOMAIN page |-> Parent(k, page[k])]
           f == [todo |-> with, seen |-> <<>>, models |-> models]
<1>5. IsSeq(models) /\ \A k \in 1 .. Len(models) : ModelOK(models[k])
  BY ParentOK
<1>6. with \in Seq(Relations)
  BY RelationsAssumption
<1> HIDE DEF models
<1>7. FrameOK(f)
  BY <1>5, <1>6 DEF FrameOK
<1>8. stack = <<f>>
  BY <1>4 DEF models
<1> HIDE DEF f
<1> QED
  BY <1>3, <1>7, <1>8, OneFrame DEF RelationsInv, RelatedType

LEMMA RelationsUnusedInv == RelationsUnused => RelationsInv
BY DEF RelationsUnused, RelationsInv, StackOK, IsSeq

LEMMA LoadingMeans ==
  ASSUME RelationsInv, Loading
  PROVE  /\ Len(stack) \in Nat /\ Len(stack) > 0 /\ Len(stack) - 1 \in 0 .. Len(stack)
         /\ FrameOK(Top) /\ IsSeq(stack)
BY SeqIs DEF RelationsInv, StackOK, Loading, Top

LEMMA LoadNothingInv == RelationsInv /\ LoadNothing => RelationsInv'
<1> SUFFICES ASSUME RelationsInv, LoadNothing PROVE RelationsInv'
  OBVIOUS
<1> DEFINE n == Len(stack)
           f == Done(Top, <<>>)
<1>1. /\ n \in Nat /\ n > 0 /\ n - 1 \in 0 .. n /\ FrameOK(Top) /\ StackOK(stack)
  BY LoadingMeans DEF LoadNothing, RelationsInv
<1>2. Top.todo # <<>> /\ stack' = Append(Below, f) /\ related' = related
  BY DEF LoadNothing
<1>3. FrameOK(f)
  BY <1>1, <1>2, DoneAttaches DEF Attaches
<1>4. StackOK(Below) /\ Len(Below) = n - 1 /\ \A i \in 1 .. n - 1 : Below[i] = stack[i]
  BY <1>1, StackShrinks DEF Below
<1>5. ASSUME n - 1 > 0 PROVE Answered(Below[n - 1], f)
  <2>1. n - 1 \in 1 .. n - 1 /\ (n - 1) + 1 = n
    BY <1>1, <1>5
  <2>2. Answered(stack[n - 1], stack[n])
    BY <1>1, <2>1 DEF StackOK
  <2>3. Answered(stack[n - 1], f)
    BY <1>1, <1>2, <2>2, AnsweredStays DEF Top
  <2> QED
    BY <1>4, <2>1, <2>3
<1> HIDE DEF f
<1>6. StackOK(stack')
  BY <1>2, <1>3, <1>4, <1>5, StackGrows
<1> QED
  BY <1>2, <1>6 DEF RelationsInv

LEMMA LoadInv == RelationsInv /\ Load => RelationsInv'
<1> SUFFICES ASSUME RelationsInv, Load PROVE RelationsInv'
  OBVIOUS
<1> DEFINE values == documentKeys(Top.models, Relation.parentKey)
           seen == related[Relation.collection]
           F == Found(seen, Relation, values)
           models == relatedDocuments(Relation.collection, Relation.relatedKey, values)
           f == [todo |-> Relation.nested, seen |-> seen, models |-> models]
<1>1. /\ Len(stack) \in Nat /\ Len(stack) > 0 /\ FrameOK(Top) /\ StackOK(stack)
  BY LoadingMeans DEF Load, RelationsInv
<1>2. Top.todo # <<>> /\ stack' = Append(stack, f) /\ related' = related
  BY DEF Load
<1>3. Relation \in Relations
  BY <1>1, <1>2 DEF FrameOK, Relation
<1>4. Relation.collection \in Collections /\ Relation.nested \in Seq(Relations)
  BY <1>3, RelationsAssumption
<1>5. seen \in [RelatedIds -> Documents \cup {NoDocument}]
  BY <1>4 DEF RelationsInv
<1>6. F \in SUBSET RelatedIds /\ F \in SUBSET Nat /\ IsFiniteSet(F)
  <2>1. F \in SUBSET RelatedIds
    BY DEF Found
  <2> HIDE DEF F
  <2>2. IsFiniteSet(F)
    BY <2>1, DocumentsAssumption, FS_Subset
  <2>3. F \in SUBSET Nat
    BY <2>1, DocumentsAssumption
  <2> QED
    BY <2>1, <2>2, <2>3
<1>7. Cardinality(F) \in Nat /\ InOrder(F) \in [1 .. Cardinality(F) -> F]
  <2> HIDE DEF F
  <2> QED
    BY <1>6, InOrderLists
<1>8. models = [k \in 1 .. Cardinality(F) |-> Model(seen[InOrder(F)[k]])]
  <2>1. F = {i \in RelatedIds : /\ Visible(Relation.collection, i)
                                /\ In(related[Relation.collection][i], Relation.relatedKey, values)}
    BY DEF Found, Visible
  <2> HIDE DEF F, values
  <2> QED
    BY <2>1 DEF relatedDocuments
<1>9. \A k \in 1 .. Cardinality(F) : seen[InOrder(F)[k]] \in Documents
  <2>1. \A i \in F : i \in RelatedIds /\ seen[i] # NoDocument
    BY DEF Found
  <2> HIDE DEF F
  <2> QED
    BY <1>5, <1>7, <2>1
<1> HIDE DEF F, seen, models
<1>10. /\ IsSeq(models) /\ Len(models) = Cardinality(F)
       /\ \A k \in 1 .. Len(models) :
            /\ ModelOK(models[k]) /\ models[k].raw = seen[InOrder(F)[k]]
            /\ Len(models[k].loaded) = 0
  <2> DEFINE M(k) == Model(seen[InOrder(F)[k]])
             S == {M(k) : k \in 1 .. Cardinality(F)}
  <2>1. models \in Seq(S) /\ Len(models) = Cardinality(F)
        /\ \A k \in 1 .. Cardinality(F) : models[k] = M(k)
    BY <1>7, <1>8
  <2>2. IsSeq(<<>>) /\ Len(<<>>) = 0
    BY DEF IsSeq
  <2>3. ASSUME NEW k \in 1 .. Cardinality(F)
        PROVE  ModelOK(M(k)) /\ M(k).raw = seen[InOrder(F)[k]] /\ Len(M(k).loaded) = 0
    BY <1>9, <2>2 DEF Model, ModelOK
  <2> HIDE DEF M, S
  <2> QED
    BY <2>1, <2>3, SeqIsSeq
<1>11. FrameOK(f)
  BY <1>4, <1>10 DEF FrameOK
<1>12. Answered(Top, f)
  <2>1. f.seen = seen /\ f.models = models /\ f.todo = Relation.nested
    OBVIOUS
  <2>2. F = Found(f.seen, Relation, documentKeys(Top.models, Relation.parentKey))
    BY <2>1 DEF F
  <2> HIDE DEF f
  <2>3. Len(f.todo) \in Nat
    BY <1>4, <2>1
  <2>4. \A k \in 1 .. Len(f.models) :
          /\ f.models[k].raw = f.seen[InOrder(F)[k]]
          /\ Len(f.models[k].loaded) + Len(f.todo) = Len(Relation.nested)
    <3>1. 0 + Len(f.todo) = Len(Relation.nested)
      BY <2>1, <2>3
    <3> QED
      BY <1>10, <2>1, <3>1
  <2> QED
    BY <1>2, <1>5, <1>10, <2>1, <2>2, <2>4 DEF Answered, Relation
<1> HIDE DEF f
<1>13. StackOK(stack')
  BY <1>1, <1>2, <1>11, <1>12, StackGrows DEF Top
<1> QED
  BY <1>2, <1>13 DEF RelationsInv

LEMMA AttachMeans ==
  ASSUME RelationsInv, Attach
  PROVE  LET n == Len(stack) outer == stack[Len(stack) - 1] IN
         /\ n \in Nat /\ n > 1 /\ n - 2 \in 0 .. n
         /\ FrameOK(Top) /\ FrameOK(outer) /\ Answered(outer, Top) /\ outer.todo # <<>>
         /\ n > 2 => Answered(stack[n - 2], outer)
<1> DEFINE n == Len(stack)
<1>1. n \in Nat /\ n > 1
  BY SeqIs DEF RelationsInv, StackOK, Attach
<1>2. n \in 1 .. n /\ n - 1 \in 1 .. n /\ n - 1 \in 1 .. n - 1 /\ (n - 1) + 1 = n
      /\ n - 2 \in 0 .. n
  BY <1>1
<1>3. FrameOK(stack[n]) /\ FrameOK(stack[n - 1]) /\ Answered(stack[n - 1], stack[n])
  BY <1>2 DEF RelationsInv, StackOK
<1>4. ASSUME n > 2 PROVE Answered(stack[n - 2], stack[n - 1])
  <2>1. n - 2 \in 1 .. n - 1 /\ (n - 2) + 1 = n - 1
    BY <1>1, <1>4
  <2> QED
    BY <2>1 DEF RelationsInv, StackOK
<1> QED
  BY <1>1, <1>2, <1>3, <1>4 DEF Top, Answered

LEMMA AttachInv == RelationsInv /\ Attach => RelationsInv'
<1> SUFFICES ASSUME RelationsInv, Attach PROVE RelationsInv'
  OBVIOUS
<1> DEFINE n == Len(stack)
           outer == stack[n - 1]
           f == Done(outer, Top.models)
           rest == SubSeq(stack, 1, n - 2)
<1>1. /\ n \in Nat /\ n > 1 /\ n - 2 \in 0 .. n /\ FrameOK(outer) /\ outer.todo # <<>>
      /\ n > 2 => Answered(stack[n - 2], outer)
  BY AttachMeans
<1>2. stack' = Append(rest, f) /\ related' = related /\ StackOK(stack)
  BY DEF Attach, RelationsInv
<1>3. FrameOK(f)
  BY <1>1, DoneAttaches DEF Attaches
<1>4. StackOK(rest) /\ Len(rest) = n - 2 /\ \A i \in 1 .. n - 2 : rest[i] = stack[i]
  BY <1>1, <1>2, StackShrinks
<1>5. ASSUME n - 2 > 0 PROVE Answered(rest[n - 2], f)
  <2>1. n - 2 \in 1 .. n - 2 /\ n > 2
    BY <1>1, <1>5
  <2>2. Answered(stack[n - 2], f)
    BY <1>1, <2>1, AnsweredStays
  <2> QED
    BY <1>4, <2>1, <2>2
<1> HIDE DEF f, rest
<1>6. StackOK(stack')
  BY <1>2, <1>3, <1>4, <1>5, StackGrows
<1> QED
  BY <1>2, <1>6 DEF RelationsInv

LEMMA WriteInv == RelationsInv /\ Write => RelationsInv'
<1> SUFFICES ASSUME RelationsInv, Write PROVE RelationsInv'
  OBVIOUS
<1>1. PICK c \in Collections, i \in RelatedIds, d \in Rewritten :
        related' = [related EXCEPT ![c][i] =
                      IF d = NoDocument THEN d ELSE [d EXCEPT !["_id"] = <<i>>]]
  BY DEF Write
<1> DEFINE e == IF d = NoDocument THEN d ELSE [d EXCEPT !["_id"] = <<i>>]
<1>2. e \in Documents \cup {NoDocument}
  <2>1. CASE d = NoDocument
    BY <2>1
  <2>2. CASE d # NoDocument
    <3>1. d \in Documents
      BY <2>2, DocumentsAssumption
    <3>2. <<i>> \in Values
      BY DocumentsAssumption DEF Values
    <3> QED
      BY <2>2, <3>1, <3>2 DEF Documents
  <2> QED
    BY <2>1, <2>2
<1> HIDE DEF e
<1>3. related' = [related EXCEPT ![c][i] = e]
  BY <1>1 DEF e
<1>4. related' \in RelatedType
  BY <1>2, <1>3 DEF RelationsInv, RelatedType
<1>5. stack' = stack
  BY DEF Write
<1> QED
  BY <1>4, <1>5 DEF RelationsInv, RelatedType

LEMMA RelationsNextInv == RelationsInv /\ [RelationsNext]_relationVars => RelationsInv'
<1> SUFFICES ASSUME RelationsInv, [RelationsNext]_relationVars PROVE RelationsInv'
  OBVIOUS
<1>1. CASE LoadFails
  <2>1. StackOK(<<>>)
    BY DEF StackOK, IsSeq
  <2> QED
    BY <1>1, <2>1 DEF LoadFails, RelationsInv
<1>2. CASE UNCHANGED relationVars
  BY <1>2 DEF relationVars, RelationsInv
<1> QED
  BY <1>1, <1>2, LoadNothingInv, LoadInv, AttachInv, WriteInv DEF RelationsNext

\* The step of RelationsAreJoins.
Joins ==
  Len(stack) > 1 /\ Len(stack') = Len(stack) - 1 =>
    LET relation == Head(stack[Len(stack) - 1].todo)
        parents == stack'[Len(stack')].models
    IN \A i \in DOMAIN parents :
         IsJoin(parents[i], relation, Top.seen, parents[i].loaded[Len(parents[i].loaded)])

LEMMA AttachJoins == RelationsInv /\ Attach => Joins
<1> SUFFICES ASSUME RelationsInv, Attach PROVE Joins
  OBVIOUS
<1> DEFINE n == Len(stack)
           outer == stack[n - 1]
           f == Done(outer, Top.models)
           rest == SubSeq(stack, 1, n - 2)
           relation == Head(outer.todo)
<1>1. /\ n \in Nat /\ n > 1 /\ n - 2 \in 0 .. n /\ FrameOK(outer) /\ FrameOK(Top)
      /\ Answered(outer, Top) /\ outer.todo # <<>>
  BY AttachMeans
<1>2. stack' = Append(rest, f) /\ StackOK(stack) /\ Top.todo = <<>>
  BY DEF Attach, RelationsInv
<1>3. Attaches(outer, f, Top.models)
  BY <1>1, DoneAttaches
<1>4. IsSeq(rest) /\ Len(rest) = n - 2
  BY <1>1, <1>2, StackShrinks DEF StackOK
<1> HIDE DEF f, rest
<1>5. Len(stack') = n - 1 /\ stack'[Len(stack')] = f
  BY <1>1, <1>2, <1>4, SeqGrows
<1>6. DOMAIN f.models = 1 .. Len(outer.models)
  BY <1>3, SeqIs DEF Attaches, FrameOK
<1>7. ASSUME NEW i \in 1 .. Len(outer.models)
      PROVE  IsJoin(f.models[i], relation, Top.seen, f.models[i].loaded[Len(f.models[i].loaded)])
  <2>1. /\ f.models[i].raw = outer.models[i].raw
        /\ f.models[i].loaded[Len(f.models[i].loaded)] = Given(outer.models[i], relation, Top.models)
    BY <1>3 DEF Attaches
  <2>2. IsJoin(outer.models[i], relation, Top.seen, Given(outer.models[i], relation, Top.models))
    BY <1>1, <1>2, GivenIsJoin
  <2>3. /\ Joined(f.models[i], relation, Top.seen) = Joined(outer.models[i], relation, Top.seen)
        /\ Repeats(f.models[i], relation, Top.seen) = Repeats(outer.models[i], relation, Top.seen)
    BY <2>1 DEF Joined, Repeats
  <2> QED
    <3> DEFINE model == outer.models[i]
               given == f.models[i]
               got == Given(outer.models[i], relation, Top.models)
    <3>1. IsJoin(model, relation, Top.seen, got)
      BY <2>2
    <3>2. /\ Joined(given, relation, Top.seen) = Joined(model, relation, Top.seen)
          /\ Repeats(given, relation, Top.seen) = Repeats(model, relation, Top.seen)
      BY <2>3
    <3>3. got = given.loaded[Len(given.loaded)]
      BY <2>1
    <3> HIDE DEF model, given, got, relation
    <3>4. IsJoin(given, relation, Top.seen, got)
      BY <3>1, <3>2 DEF IsJoin
    <3> QED
      BY <3>3, <3>4 DEF given
<1> QED
  BY <1>5, <1>6, <1>7 DEF Joins

LEMMA StepsJoin == RelationsInv /\ [RelationsNext]_relationVars => Joins
<1> SUFFICES ASSUME RelationsInv, [RelationsNext]_relationVars PROVE Joins
  OBVIOUS
<1>1. IsSeq(stack) /\ Len(stack) \in Nat
  BY SeqIs DEF RelationsInv, StackOK
<1>2. CASE LoadNothing
  <2>1. Len(stack) > 0 /\ stack' = Append(Below, Done(Top, <<>>))
    BY <1>2, LoadingMeans DEF LoadNothing
  <2>2. IsSeq(Below) /\ Len(Below) = Len(stack) - 1
    <3>1. Len(stack) - 1 \in 0 .. Len(stack)
      BY <1>1, <2>1
    <3> QED
      BY <1>1, <3>1, SeqShrinks DEF Below
  <2>3. Len(stack') = (Len(stack) - 1) + 1
    BY <2>1, <2>2, SeqGrows
  <2> QED
    BY <1>1, <2>3 DEF Joins
<1>3. CASE Load
  <2>1. PICK f : stack' = Append(stack, f)
    BY <1>3 DEF Load
  <2>2. Len(stack') = Len(stack) + 1
    BY <1>1, <2>1, SeqGrows
  <2> QED
    BY <1>1, <2>2 DEF Joins
<1>4. CASE LoadFails
  <2>1. Len(stack') = 0
    BY <1>4 DEF LoadFails
  <2>2. ~(Len(stack) > 1 /\ Len(stack') = Len(stack) - 1)
    <3>1. PICK n \in Nat : n = Len(stack)
      BY <1>1
    <3>2. ~(n > 1 /\ 0 = n - 1)
      OBVIOUS
    <3> QED
      BY <2>1, <3>1, <3>2
  <2> QED
    BY <2>2 DEF Joins
<1>5. CASE Write \/ UNCHANGED relationVars
  <2>1. stack' = stack
    BY <1>5 DEF Write, relationVars
  <2> QED
    BY <1>1, <2>1 DEF Joins
<1> QED
  BY <1>2, <1>3, <1>4, <1>5, AttachJoins DEF RelationsNext

\* Whatever is written beside the load, every parent is given what a join
\* of it with the related collection, as it was at the one query of the
\* relation, selects (relation.go:67-246).
THEOREM EagerLoadsJoin == RelationsSpec => RelationsAreJoins
<1>1. RelationsInv /\ [RelationsNext]_relationVars => RelationsInv' /\ Joins
  BY RelationsNextInv, StepsJoin
<1> QED
  BY <1>1, RelationsInitInv, PTL DEF RelationsSpec, RelationsAreJoins, Joins

-----------------------------------------------------------------------------
(* The program, which queries or loads.                                    *)
LEMMA QueryUnusedInv == QueryUnused => QueryInv
<1> SUFFICES ASSUME QueryUnused
             PROVE  QueryInv
  OBVIOUS
<1>1. QueriesMean
  BY QueriesMeanInit
<1>2. DocsTyped /\ \A i \in Ids : docs[i] = NoDoc
  BY DEF QueryUnused, DocsTyped
<1>3. Len(queries) = 1 /\ answer.ids = {}
  BY DEF QueryUnused
<1> QED
  BY <1>1, <1>2, <1>3, InputsAssumption DEF QueryInv

LEMMA SpecInvariants ==
  Spec => [](QueryInv /\ RelationsInv) /\ [][QueryNext]_queryVars /\ [][RelationsNext]_relationVars
<1>1. Init => QueryInv /\ RelationsInv
  BY QueryInvInit, QueryUnusedInv, RelationsInitInv, RelationsUnusedInv DEF Init
<1>2. [Next]_vars => [QueryNext]_queryVars /\ [RelationsNext]_relationVars
  BY DEF Next, vars
<1>3. QueryInv /\ RelationsInv /\ [Next]_vars => (QueryInv /\ RelationsInv)'
  BY <1>2, QueryInvKept, RelationsNextInv
<1> QED
  BY <1>1, <1>2, <1>3, PTL DEF Spec

\* All of it for the program that TLC runs, whichever it does: its queries
\* and its loads do not disturb each other.
THEOREM QueriesAndLoadsAreRight ==
  Spec => /\ [](QueryTypeOK /\ FiltersMeanTheirChain /\ WhatIsSentIsLegal)
          /\ DerivedQueriesStay /\ TrashIsRespected /\ RelationsAreJoins
<1>1. QueryInv => QueryTypeOK /\ FiltersMeanTheirChain /\ WhatIsSentIsLegal
  BY QueryInvTypes, ChainIsMeant, SentIsLegal DEF QueryInv
<1>2. QueryInv /\ [QueryNext]_queryVars =>
        \A b \in DOMAIN queries : queries'[b] = queries[b] /\ Reads(b)' = Reads(b)
  BY StepsLeaveQueries DEF QueryInv
<1>3. QueryInv /\ [QueryNext]_queryVars => Respected
  BY StepsRespect DEF QueryInv
<1>4. Spec => [](QueryTypeOK /\ FiltersMeanTheirChain /\ WhatIsSentIsLegal)
  BY <1>1, SpecInvariants, PTL
<1>5. Spec => DerivedQueriesStay
  BY <1>2, SpecInvariants, PTL DEF DerivedQueriesStay
<1>6. Spec => TrashIsRespected
  <2>1. Spec => [][Respected]_queryVars
    BY <1>3, SpecInvariants, PTL
  <2> QED
    BY <2>1 DEF TrashIsRespected, Respected, Respects
<1>7. Spec => RelationsAreJoins
  BY StepsJoin, SpecInvariants, PTL DEF RelationsAreJoins, Joins
<1> QED
  BY <1>4, <1>5, <1>6, <1>7
=============================================================================
