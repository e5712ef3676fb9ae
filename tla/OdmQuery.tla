------------------------------ MODULE OdmQuery ------------------------------
(***************************************************************************)
(* The query builder of the MongoDB mapper and what runs its queries       *)
(* (src/odm/query.go, filter.go, update.go, soft_delete.go, execute.go).   *)
(*                                                                         *)
(* A Query is never changed: a method copies the struct and returns the    *)
(* copy.  The struct holds slices, whose elements are not copied with it,  *)
(* so any number of queries, derived by goroutines that share one, look    *)
(* at the same backing arrays.  A query keeps its conditions as a list and *)
(* puts them together when it is run, with the scope that hides            *)
(* soft-deleted documents.                                                 *)
(*                                                                         *)
(* A condition is the set of the documents it selects.                     *)
(***************************************************************************)
EXTENDS Integers, Sequences, FiniteSets

CONSTANTS
  Ids,           \* the _ids, in the order of created_at
  Absent, Null,  \* a field that is not there; one that is null
  MaxNumber,     \* the documents' field n holds 1 .. MaxNumber
  NoDoc,
  Seed,          \* the documents at the start
  Unused,        \* an element of a backing array no slice reaches
  Conditions,    \* what callers pass to Where and its like
  Staged,        \* what they stage: <<operator, field, value>>
  Orders,        \* what they sort by: <<field, direction>>
  Counts,        \* the numbers they pass to Limit and Skip
  MaxQueries     \* bound on the queries that are built

Numbers == 1 .. MaxNumber
Fields == {"n", "updated_at", "deleted_at"}
Earlier == 1      \* an instant before
Now == 2          \* the one at which queries run
Shapes == [id : Ids, n : Numbers \cup {Absent, Null}, trashed : BOOLEAN]
Operators == {"$set", "$unset", "$inc"}

Docs == [n : Int \cup {Absent, Null}, updated_at : Int \cup {Absent},
         deleted_at : Int \cup {Absent}]

ASSUME SeedAssumption == Seed \in [Ids -> Docs] /\ NoDoc \notin Docs /\ Absent \notin Int
\* Callers leave deleted_at to the methods that are there for it.
ASSUME InputsAssumption ==
  /\ Conditions \subseteq SUBSET Shapes
  /\ Staged \subseteq Operators \X (Fields \ {"deleted_at"}) \X Int
  /\ Orders \subseteq {"n", "created_at"} \X {1, -1}
  /\ Counts \subseteq Int /\ MaxQueries \in Nat \ {0}
\* A bound: at most one update is run, and it takes no n past MaxNumber, so
\* every document stays one of the Shapes that conditions select from.
KeepsNumbers(op) ==
  op[2] = "n" => \/ op[1] = "$unset"
                 \/ op[1] = "$set" /\ op[3] \in Numbers
                 \/ /\ op[1] = "$inc" /\ op[3] \in Numbers
                    /\ \A i \in Ids : Seed[i].n \in Numbers => Seed[i].n + op[3] \in Numbers
ASSUME NumbersAssumption ==
  /\ MaxNumber \in Nat \ {0}
  /\ \A i \in Ids : Seed[i].n \in Numbers \cup {Absent, Null}
  /\ \A op \in Staged : KeepsNumbers(op)

VARIABLES
  meta,       \* what the model embeds: SoftDeletes and the timestamps
  memory,     \* the backing arrays
  queries,    \* the queries that were built
  meant,      \* history: what each query's chain of calls says
  docs,       \* the collection
  answer      \* what the last query that was run returned

queryVars == <<meta, memory, queries, meant, docs, answer>>
Modes == {"excluded", "included", "only"}

-----------------------------------------------------------------------------
(* Slices.                                                                 *)
NilSlice == [array |-> 0, len |-> 0]
Elements(s) == [i \in 1 .. s.len |-> memory[s.array][i]]

\* Mutation of cloneAppend: append, which writes behind the elements of the
\* slice when the array has room, and otherwise leaves room in a new one.
appendInPlace(s, e) ==
  IF s.len > 0 /\ s.len < Len(memory[s.array])
  THEN [slice |-> [s EXCEPT !.len = @ + 1],
        memory |-> [memory EXCEPT ![s.array][s.len + 1] = e]]
  ELSE [slice |-> [array |-> Len(memory) + 1, len |-> s.len + 1],
        memory |-> Append(memory, Elements(s) \o <<e, Unused>>)]

cloneAppend(s, e) ==
  [slice |-> [array |-> Len(memory) + 1, len |-> s.len + 1],
   memory |-> Append(memory, Append(Elements(s), e))]

-----------------------------------------------------------------------------
(* Builder methods: the new query and the backing arrays it leaves.        *)
New == [filters |-> NilSlice, updates |-> NilSlice, sorts |-> NilSlice,
        projection |-> NilSlice, projectionMode |-> "none", trashed |-> "excluded",
        skipTimestamps |-> FALSE, limit |-> 0, skip |-> 0, err |-> "none"]

Changed(q) == [query |-> q, memory |-> memory]
Adding(q, slice, e) ==
  LET c == cloneAppend(q[slice], e)
  IN [query |-> [q EXCEPT ![slice] = c.slice], memory |-> c.memory]
withError(q, err) == Changed([q EXCEPT !.err = IF @ = "none" THEN err ELSE @])

\* buildFilter: $and of the fragments; no fragment selects everything.
buildFilter(fragments) ==
  {d \in Shapes : \A i \in DOMAIN fragments : d \in fragments[i]}

withFilter(q, fragment) == Adding(q, "filters", fragment)

\* Mutation of OrWhere: only the last condition gets an alternative.
OrLast(q, fragment) ==
  IF q.filters.len = 0 THEN withFilter(q, fragment)
  ELSE LET all == Elements(q.filters)
       IN [query |-> [q EXCEPT !.filters.array = Len(memory) + 1],
           memory |-> Append(memory, [all EXCEPT ![Len(all)] = @ \cup fragment])]

OrWhere(q, fragment) ==
  IF q.filters.len = 0 THEN withFilter(q, fragment)
  ELSE [query |-> [q EXCEPT !.filters = [array |-> Len(memory) + 1, len |-> 1]],
        memory |-> Append(memory, <<buildFilter(Elements(q.filters)) \cup fragment>>)]

withTrashedMode(q, mode) ==
  IF meta.softDeletes THEN Changed([q EXCEPT !.trashed = mode])
  ELSE withError(q, "trashed")

\* One operator per field.
withUpdate(q, op) ==
  IF \E i \in 1 .. q.updates.len : Elements(q.updates)[i][2] = op[2]
  THEN withError(q, "update") ELSE Adding(q, "updates", op)

WithoutTimestamps(q) == Changed([q EXCEPT !.skipTimestamps = TRUE])

OrderBy(q, order) == Adding(q, "sorts", order)
\* Mutation of Limit: a negative number is not refused.
LimitUnchecked(q, n) == Changed([q EXCEPT !.limit = n])
Limit(q, n) == IF n < 0 THEN withError(q, "limit") ELSE Changed([q EXCEPT !.limit = n])
Skip(q, n) == IF n < 0 THEN withError(q, "skip") ELSE Changed([q EXCEPT !.skip = n])

withProjection(q, field, value, mode) ==
  LET listed == {i \in 1 .. q.projection.len : Elements(q.projection)[i][1] = field}
      next == [q EXCEPT !.projectionMode = mode]
  IN IF \E i \in listed : Elements(q.projection)[i][2] # value THEN withError(q, "projection")
     ELSE IF listed # {} THEN Changed(next)
     ELSE Adding(next, "projection", <<field, value>>)

\* Mutation of Select: what has been excluded does not matter.
SelectAnyway(q, field) == withProjection(q, field, 1, "include")
Select(q, field) ==
  IF q.projectionMode = "exclude" THEN withError(q, "projection")
  ELSE withProjection(q, field, 1, "include")

\* Leaving _id out neither makes an exclusion projection nor breaks one that
\* includes.
Exclude(q, field) ==
  IF field = "_id" THEN withProjection(q, field, 0, q.projectionMode)
  ELSE IF q.projectionMode = "include" THEN withError(q, "projection")
  ELSE withProjection(q, field, 0, "exclude")

-----------------------------------------------------------------------------
(* A method is called on any query there is.  What the chain of calls      *)
(* means is kept beside it.                                                *)
Derives(result, means) ==
  /\ queries' = Append(queries, result.query)
  /\ memory' = result.memory
  /\ meant' = Append(meant, means)
  /\ UNCHANGED <<meta, docs, answer>>

Filters(b) == \E c \in Conditions :
  \/ Derives(withFilter(queries[b], c),
             [meant[b] EXCEPT !.set = @ \cap c, !.any = FALSE])
  \/ Derives(OrWhere(queries[b], c),
             [meant[b] EXCEPT !.set = IF meant[b].any THEN c ELSE @ \cup c, !.any = FALSE])

\* Where with an operator or a number of arguments it does not know, WhereIn
\* of no list, WhereRaw of nil, a direction that is none, a nil scope.
Mistakes(b) ==
  Derives(withError(queries[b], "call"), [meant[b] EXCEPT !.wrong = TRUE])

Trashed(b) == \E mode \in {"included", "only"} :
  Derives(withTrashedMode(queries[b], mode),
          [meant[b] EXCEPT !.mode = mode, !.wrong = @ \/ ~meta.softDeletes])

Stages(b) ==
  \/ \E op \in Staged :
       Derives(withUpdate(queries[b], op),
               [meant[b] EXCEPT !.sets = @ \cup {op[2]}, !.wrong = @ \/ op[2] \in meant[b].sets])
  \/ Derives(WithoutTimestamps(queries[b]), meant[b])

Sorts(b) == \E order \in Orders : Derives(OrderBy(queries[b], order), meant[b])

Pages(b) == \E n \in Counts :
  LET wrong == [meant[b] EXCEPT !.wrong = @ \/ n < 0] IN
  Derives(Limit(queries[b], n), wrong) \/ Derives(Skip(queries[b], n), wrong)

\* Bound: the fields that are kept or dropped, _id and two others.
ProjectedFields == {"_id", "n", "updated_at"}
Projects(b) == \E field \in ProjectedFields :
  Derives(Select(queries[b], field), meant[b]) \/ Derives(Exclude(queries[b], field), meant[b])

\* A Scope is a function that calls such methods; so is all of a chain.
Builds ==
  /\ Len(queries) < MaxQueries /\ answer.op = "none"
  /\ \E b \in DOMAIN queries :
       \/ Filters(b) \/ Mistakes(b) \/ Trashed(b) \/ Stages(b)
       \/ Sorts(b) \/ Pages(b) \/ Projects(b)

-----------------------------------------------------------------------------
(* What a query sends.                                                     *)
softDeleteFilter(mode) ==
  CASE mode = "excluded" -> {d \in Shapes : ~d.trashed}
    [] mode = "only" -> {d \in Shapes : d.trashed}
    [] OTHER -> Shapes

compileFilter(q, mode) ==
  IF ~meta.softDeletes THEN buildFilter(Elements(q.filters))
  ELSE buildFilter(Append(Elements(q.filters), softDeleteFilter(mode)))

timestampedOps(q, ops) ==
  IF \/ ~meta.timestamps \/ q.skipTimestamps
     \/ \E i \in DOMAIN ops : ops[i][2] = "updated_at"
  THEN ops ELSE Append(ops, <<"$set", "updated_at", Now>>)

stagedUpdate(q) == timestampedOps(q, Elements(q.updates))
Stamped(q, op) ==
  IF meta.timestamps /\ ~q.skipTimestamps THEN <<op, <<"$set", "updated_at", Now>>>> ELSE <<op>>
softDeleteUpdate(q) == Stamped(q, <<"$set", "deleted_at", Now>>)
restoreOps(q) == Stamped(q, <<"$unset", "deleted_at", 0>>)

\* Mutation of forceDeleteMode: every scope is dropped.
forceDeleteAll(mode) == "included"
forceDeleteMode(mode) == IF mode = "excluded" THEN "included" ELSE mode

\* compileUpdate: one group of fields per operator.
compileUpdate(ops) ==
  [o \in {ops[i][1] : i \in DOMAIN ops} |->
     {<<ops[i][2], ops[i][3]>> : i \in {j \in DOMAIN ops : ops[j][1] = o}}]

-----------------------------------------------------------------------------
(* The server.                                                             *)
IsTrashed(d) == d.deleted_at # Absent
ShapeOf(i) == [id |-> i, n |-> docs[i].n, trashed |-> IsTrashed(docs[i])]
Matching(filter) == {i \in Ids : docs[i] # NoDoc /\ ShapeOf(i) \in filter}

Targets(update, o, field) == IF o \in DOMAIN update THEN {e \in update[o] : e[1] = field} ELSE {}

Updated(d, update) ==
  [field \in DOMAIN d |->
     IF Targets(update, "$unset", field) # {} THEN Absent
     ELSE IF Targets(update, "$set", field) # {}
          THEN (CHOOSE e \in Targets(update, "$set", field) : TRUE)[2]
     ELSE IF Targets(update, "$inc", field) # {}
          THEN (IF d[field] = Absent THEN 0 ELSE d[field])
               + (CHOOSE e \in Targets(update, "$inc", field) : TRUE)[2]
     ELSE d[field]]

\* $inc of what is no number is an error.
Refused(i, update) == docs[i].n = Null /\ Targets(update, "$inc", "n") # {}
AfterUpdating(chosen, update) ==
  [i \in Ids |-> IF i \in chosen THEN Updated(docs[i], update) ELSE docs[i]]

\* Documents in the order of the sort; documents it does not tell apart come
\* in any order.
Rank(i, field) == IF field = "created_at" THEN i
                  ELSE IF docs[i].n \in Numbers THEN docs[i].n ELSE 0
Precedes(i, j, sorts) ==
  \E k \in DOMAIN sorts :
    /\ Rank(i, sorts[k][1]) * sorts[k][2] < Rank(j, sorts[k][1]) * sorts[k][2]
    /\ \A m \in 1 .. k - 1 : Rank(i, sorts[m][1]) = Rank(j, sorts[m][1])
Leading(set, count, sorts) ==
  {first \in SUBSET set :
     /\ Cardinality(first) = IF count < Cardinality(set) THEN count ELSE Cardinality(set)
     /\ \A i \in first, j \in set \ first : ~Precedes(j, i, sorts)}

-----------------------------------------------------------------------------
(* The methods that run a query.  A bound: the query that was built last   *)
(* is run, once.                                                           *)
Answers(op, b, error, ids) ==
  /\ answer' = [op |-> op, query |-> b, error |-> error, ids |-> ids]
  /\ UNCHANGED <<meta, memory, queries, meant>>
Refuses(op, b) == Answers(op, b, TRUE, {}) /\ UNCHANGED docs

Page(q, set) ==
  UNION {IF q.limit = 0 THEN {set \ passed}
         ELSE Leading(set \ passed, q.limit, Elements(q.sorts)) :
           passed \in Leading(set, q.skip, Elements(q.sorts))}

Get(b, q) == \E page \in Page(q, Matching(compileFilter(q, q.trashed))) :
  Answers("Get", b, FALSE, page) /\ UNCHANGED docs

\* First, and Find with one condition more, ignore the limit.
First(b, q) ==
  \E page \in Page([q EXCEPT !.limit = 1], Matching(compileFilter(q, q.trashed))) :
    Answers("First", b, page = {}, page) /\ UNCHANGED docs

\* Count and Exists ignore limit and skip.
Count(b, q) ==
  Answers("Count", b, FALSE, Matching(compileFilter(q, q.trashed))) /\ UNCHANGED docs

UpdateMany(op, b, filter, update) ==
  LET chosen == Matching(filter) IN
  IF \E i \in chosen : Refused(i, update)
  THEN \E done \in SUBSET {i \in chosen : ~Refused(i, update)} :
         docs' = AfterUpdating(done, update) /\ Answers(op, b, TRUE, done)
  ELSE docs' = AfterUpdating(chosen, update) /\ Answers(op, b, FALSE, chosen)

UpdateOneOf(op, b, q, filter, update) ==
  \E one \in Leading(Matching(filter), 1, Elements(q.sorts)) :
    IF \E i \in one : Refused(i, update) THEN Refuses(op, b)
    ELSE docs' = AfterUpdating(one, update) /\ Answers(op, b, FALSE, one)

Update(b, q) ==
  IF q.updates.len = 0 THEN Refuses("Update", b)
  ELSE UpdateMany("Update", b, compileFilter(q, q.trashed), compileUpdate(stagedUpdate(q)))

UpdateOne(b, q) ==
  IF q.updates.len = 0 THEN Refuses("UpdateOne", b)
  ELSE UpdateOneOf("UpdateOne", b, q, compileFilter(q, q.trashed), compileUpdate(stagedUpdate(q)))

\* UpdateRaw sends what it is given, and refuses a query that stages.
UpdateRaw(b, q) ==
  IF q.updates.len > 0 THEN Refuses("UpdateRaw", b)
  ELSE UpdateMany("UpdateRaw", b, compileFilter(q, q.trashed), compileUpdate(<<<<"$set", "n", 1>>>>))

Removes(op, b, chosen) ==
  /\ docs' = [i \in Ids |-> IF i \in chosen THEN NoDoc ELSE docs[i]]
  /\ Answers(op, b, FALSE, chosen)

Delete(b, q) ==
  LET filter == compileFilter(q, q.trashed) IN
  IF meta.softDeletes THEN UpdateMany("Delete", b, filter, compileUpdate(softDeleteUpdate(q)))
  ELSE Removes("Delete", b, Matching(filter))

DeleteOne(b, q) ==
  LET filter == compileFilter(q, q.trashed) IN
  IF meta.softDeletes
  THEN UpdateOneOf("DeleteOne", b, q, filter, compileUpdate(softDeleteUpdate(q)))
  ELSE \E one \in Leading(Matching(filter), 1, Elements(q.sorts)) : Removes("DeleteOne", b, one)

Restore(b, q) ==
  IF ~meta.softDeletes THEN Refuses("Restore", b)
  ELSE UpdateMany("Restore", b, compileFilter(q, "only"), compileUpdate(restoreOps(q)))

ForceDelete(b, q) ==
  IF ~meta.softDeletes THEN Refuses("ForceDelete", b)
  ELSE Removes("ForceDelete", b, Matching(compileFilter(q, forceDeleteMode(q.trashed))))

Runs ==
  /\ answer.op = "none"
  /\ LET b == Len(queries)
         q == queries[b]
     IN IF q.err # "none" THEN Refuses("any", b)
        ELSE \/ Get(b, q) \/ First(b, q) \/ Count(b, q)
             \/ Update(b, q) \/ UpdateOne(b, q) \/ UpdateRaw(b, q)
             \/ Delete(b, q) \/ DeleteOne(b, q) \/ Restore(b, q) \/ ForceDelete(b, q)

-----------------------------------------------------------------------------
\* Collection.Query; Collection's other methods are a call on what it returns.
Nothing == [set |-> Shapes, any |-> TRUE, mode |-> "excluded", sets |-> {}, wrong |-> FALSE]
QueryInit ==
  /\ meta \in {[softDeletes |-> TRUE, timestamps |-> TRUE],
               [softDeletes |-> FALSE, timestamps |-> FALSE]}
  /\ memory = <<>>
  /\ queries = <<New>> /\ meant = <<Nothing>>
  /\ docs = IF meta.softDeletes THEN Seed
            ELSE [i \in Ids |-> [Seed[i] EXCEPT !.deleted_at = Absent]]
  /\ answer = [op |-> "none", query |-> 0, error |-> FALSE, ids |-> {}]

\* A program that only loads relations: no query of its own.
QueryUnused ==
  /\ meta = [softDeletes |-> FALSE, timestamps |-> FALSE]
  /\ memory = <<>> /\ queries = <<New>> /\ meant = <<Nothing>>
  /\ docs = [i \in Ids |-> NoDoc]
  /\ answer = [op |-> "none", query |-> 0, error |-> FALSE, ids |-> {}]

QueryNext == Builds \/ Runs
QuerySpec == QueryInit /\ [][QueryNext]_queryVars

-----------------------------------------------------------------------------
Slices == {"filters", "updates", "sorts", "projection"}
\* Types, and that no slice reaches behind its backing array.
QueryTypeOK ==
  /\ Len(queries) \in 1 .. MaxQueries /\ Len(meant) = Len(queries)
  /\ \A b \in DOMAIN queries :
       /\ queries[b].trashed \in Modes
       /\ queries[b].projectionMode \in {"none", "include", "exclude"}
       /\ queries[b].limit >= 0 /\ queries[b].skip >= 0
       /\ \A slice \in Slices : LET s == queries[b][slice] IN
            s.len > 0 => s.array \in DOMAIN memory /\ s.len <= Len(memory[s.array])
  /\ \A i \in Ids : docs[i] = NoDoc \/
       /\ docs[i].n \in Numbers \cup {Absent, Null}
       /\ docs[i].deleted_at \in {Absent, Now, Seed[i].deleted_at}
       /\ docs[i].updated_at \in Int \cup {Absent}
  /\ answer.ids \subseteq Ids

\* A query selects what its chain of calls says, read from left to right,
\* and only what its scope lets through: no OrWhere opens the scope
\* (query.go:158-173, query.go:114-117).
FiltersMeanTheirChain ==
  \A b \in DOMAIN queries : queries[b].err = "none" =>
    compileFilter(queries[b], queries[b].trashed) =
      {d \in meant[b].set :
         meta.softDeletes => CASE meant[b].mode = "excluded" -> ~d.trashed
                               [] meant[b].mode = "only" -> d.trashed
                               [] OTHER -> TRUE}

\* No field twice in an update that is sent, be it by the stamp of the update
\* time (update.go:82-92, execute.go:249-258); none twice in a projection, and
\* none but _id kept beside one that is dropped, whatever the order of Select
\* and Exclude (query.go:295, 327, 346-362); and a chain with a wrong call in
\* it is not sent at all.  A dotted path beside its parent, which MongoDB
\* refuses too, is the caller's affair: the code does not look for one.
WhatIsSentIsLegal ==
  \A b \in DOMAIN queries :
    LET q == queries[b] ops == stagedUpdate(q) fields == Elements(q.projection) IN
    /\ meant[b].wrong => q.err # "none"
    /\ q.err = "none" =>
         /\ \A i, j \in DOMAIN ops : ops[i][2] = ops[j][2] => i = j
         /\ \A i, j \in DOMAIN fields :
              /\ fields[i][1] = fields[j][1] => i = j
              /\ fields[i][1] # "_id" /\ fields[j][1] # "_id" => fields[i][2] = fields[j][2]

\* "Nothing mutates a query after it is built", whatever is derived from it
\* or beside it (query.go:33-48, query.go:78-88).
Reads(b) == [slice \in Slices |-> Elements(queries[b][slice])]
DerivedQueriesStay ==
  [][\A b \in DOMAIN queries : queries'[b] = queries[b] /\ Reads(b)' = Reads(b)]_queryVars

\* Trash is neither touched nor seen through a query that did not ask for
\* it, live documents not by one that asked for trash alone, nor by a
\* Restore; and only a ForceDelete removes a document that can be
\* soft-deleted (soft_delete.go:97-163, execute.go:304-343).
TrashIsRespected ==
  [][LET asked == queries[answer'.query] op == answer'.op IN
     answer' # answer /\ meta.softDeletes /\ asked.err = "none" =>
       \A i \in Ids : docs[i] # NoDoc =>
         LET touched == docs'[i] # docs[i] \/ i \in answer'.ids
             trashed == IsTrashed(docs[i])
         IN /\ touched /\ trashed =>
                 asked.trashed # "excluded" \/ op \in {"Restore", "ForceDelete"}
            /\ touched /\ ~trashed => asked.trashed # "only" /\ op # "Restore"
            /\ docs'[i] = NoDoc => op = "ForceDelete"
            /\ docs'[i] # NoDoc => (trashed /\ ~IsTrashed(docs'[i]) => op = "Restore")]_queryVars
=============================================================================
