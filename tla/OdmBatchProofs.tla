---------------------------- MODULE OdmBatchProofs ----------------------------
(***************************************************************************)
(* Proofs about OdmBatch, for any number of models, calls and attempts:    *)
(* a model is stored under one _id, models that know they exist are        *)
(* stored, stored models know it, and a committed transaction has stored   *)
(* what its callback was to create or save.                                *)
(***************************************************************************)
EXTENDS OdmBatch, FiniteSetTheorems, TLAPS

-----------------------------------------------------------------------------
(* The inductive invariant.                                                *)
Steps == {"idle", "prepare", "insert", "finish", "failed"}
RunRecords ==
  [in : {"nothing", "call", "transaction"}, body : Seq(Operations), todo : Seq(Operations),
   step : Steps, error : {"none", "nil", "hook", "duplicate", "transient"},
   attempt : 1..MaxAttempts, told : {"nothing", "nil", "error"}]
Stock == [Ids -> Contents \cup {NoDoc}]

Typed ==
  /\ docs \in Stock /\ writes \in Stock
  /\ fresh \in Given + 1 .. MaxId + 1
  /\ model \in [Models -> ModelRecords]
  /\ \A m \in Models : /\ model[m].exists => model[m].id # NoId
                       /\ model[m].exists <=> model[m].original # 0
  /\ run \in RunRecords /\ calls \in 0..MaxCalls
  /\ under \in [Models -> SUBSET Ids] /\ given \in [Models -> SUBSET Ids]

\* Calls that are given the transaction's ctx come last.
InnerLast(s) == \A k \in 1..Len(s) : \A j \in 1..k : s[j].inner => s[k].inner
Ordered == run.in = "transaction" => InnerLast(run.body) /\ InnerLast(run.todo)

\* Only the transaction's own calls come with writes of it pending.
Quiet ==
  writes = NoWrites \/ (run.in = "transaction" /\ (run.todo = <<>> \/ Now.inner))

\* What is inserted are models, with an _id.
Ready ==
  At("insert") \/ At("finish") =>
    \A p \in 1..Len(Batch) : Batch[p] \in Models /\ model[Batch[p]].id # NoId

All == After(docs, writes)

\* What a model is stored under, but for what hooks gave it, is one _id: its
\* own, unless a hook has given it another.
Single(m) ==
  /\ \A i, j \in under[m] \ given[m] : i = j
  /\ model[m].id \in given[m] \/ under[m] \ given[m] \subseteq {model[m].id}

\* A model is stored where it says, and is the only one there.
Own == \A m \in Models : Single(m) /\ \A i \in under[m] : All[i] # NoDoc
Apart == \A m, n \in Models : m # n => under[m] \cap under[n] = {}

\* A model that exists, and rightly, is stored somewhere.
Rooted == \A m \in Models : model[m].exists /\ m \notin misled => under[m] # {}

\* What was inserted and is to be finished is stored.
Finishing ==
  At("finish") => \A p \in 1..Len(Batch) : model[Batch[p]].id \in under[Batch[p]]

Inv ==
  /\ Typed /\ Ordered /\ Quiet /\ Ready /\ Own /\ Apart /\ Rooted /\ Finishing
  /\ KnownModelsAreStored /\ StoredModelsAreKnown

-----------------------------------------------------------------------------
(* Stocks of documents.                                                    *)
LEMMA NoWritesIsStock == NoWrites \in Stock
BY DEF NoWrites, Stock

LEMMA AfterIsStock ==
  ASSUME NEW old \in Stock, NEW new \in Stock
  PROVE  /\ After(old, new) \in Stock
         /\ \A i \in Ids : After(old, new)[i] = IF new[i] = NoDoc THEN old[i] ELSE new[i]
BY DEF After, Stock

LEMMA AfterNothing ==
  ASSUME NEW old \in Stock
  PROVE  After(old, NoWrites) = old
BY DEF After, Stock, NoWrites

LEMMA AfterTwice ==
  ASSUME NEW a \in Stock, NEW b \in Stock, NEW c \in Stock
  PROVE  After(After(a, b), c) = After(a, After(b, c))
<1> DEFINE x == After(After(a, b), c)
           y == After(a, After(b, c))
<1>1. After(a, b) \in Stock /\ After(b, c) \in Stock
  BY AfterIsStock
<1>2. x \in Stock /\ y \in Stock
  BY <1>1, AfterIsStock
<1>3. \A i \in Ids : x[i] = IF c[i] = NoDoc THEN After(a, b)[i] ELSE c[i]
  BY <1>1, AfterIsStock
<1>4. \A i \in Ids : y[i] = IF After(b, c)[i] = NoDoc THEN a[i] ELSE After(b, c)[i]
  BY <1>1, AfterIsStock
<1>5. \A i \in Ids : /\ After(a, b)[i] = IF b[i] = NoDoc THEN a[i] ELSE b[i]
                     /\ After(b, c)[i] = IF c[i] = NoDoc THEN b[i] ELSE c[i]
  BY AfterIsStock
<1> HIDE DEF x, y
<1>6. \A i \in Ids : x[i] = y[i]
  BY <1>3, <1>4, <1>5
<1>7. x = y
  BY <1>2, <1>6 DEF Stock
<1> QED
  BY <1>7 DEF x, y

\* What a call sees is everything that is there or pending.
LEMMA SeenIsAll ==
  ASSUME Typed, Quiet, run.todo # <<>>
  PROVE  Seen = All
<1>1. CASE Inside
  BY <1>1 DEF Seen, All
<1>2. CASE ~Inside
  <2>1. writes = NoWrites
    BY <1>2 DEF Quiet, Inside
  <2> QED
    BY <1>2, <2>1, AfterNothing DEF Seen, All, Typed
<1> QED
  BY <1>1, <1>2

LEMMA StoresAdds ==
  ASSUME Typed, Quiet, run.todo # <<>>, NEW new \in Stock, Stores(new)
  PROVE  /\ docs' \in Stock /\ writes' \in Stock /\ All' = After(All, new)
         /\ writes' = writes \/ Inside
<1>0. docs \in Stock /\ writes \in Stock
  BY DEF Typed
<1>1. CASE Inside
  <2>1. writes' = After(writes, new) /\ docs' = docs
    BY <1>1 DEF Stores
  <2>2. All' = After(docs, After(writes, new))
    BY <2>1 DEF All, After
  <2> QED
    BY <1>0, <1>1, <2>1, <2>2, AfterTwice, AfterIsStock DEF All
<1>2. CASE ~Inside
  <2>1. docs' = After(docs, new) /\ writes' = writes /\ writes = NoWrites
    BY <1>2 DEF Stores, Quiet, Inside
  <2>2. docs' \in Stock
    BY <1>0, <2>1, AfterIsStock
  <2>3. All' = After(docs', NoWrites)
    BY <2>1 DEF All, After
  <2>4. All = docs
    BY <1>0, <2>1, AfterNothing DEF All
  <2> QED
    BY <1>0, <2>1, <2>2, <2>3, <2>4, AfterNothing
<1> QED
  BY <1>1, <1>2

-----------------------------------------------------------------------------
(* The steps of a call.                                                    *)
LEMMA TailIsOrdered ==
  ASSUME NEW s \in Seq(Operations), s # <<>>
  PROVE  /\ Tail(s) \in Seq(Operations)
         /\ InnerLast(s) => InnerLast(Tail(s))
         /\ InnerLast(s) /\ Head(s).inner => Tail(s) = <<>> \/ Head(Tail(s)).inner
<1>1. /\ Tail(s) \in Seq(Operations) /\ Len(Tail(s)) = Len(s) - 1 /\ Len(s) \in Nat \ {0}
      /\ \A k \in 1..Len(Tail(s)) : Tail(s)[k] = s[k + 1]
      /\ Head(s) = s[1]
  OBVIOUS
<1>2. ASSUME InnerLast(s)
      PROVE  InnerLast(Tail(s))
  <2> SUFFICES ASSUME NEW k \in 1..Len(Tail(s)), NEW j \in 1..k, Tail(s)[j].inner
               PROVE  Tail(s)[k].inner
    BY DEF InnerLast
  <2>1. Tail(s)[j] = s[j + 1] /\ Tail(s)[k] = s[k + 1]
    BY <1>1
  <2>2. k + 1 \in 1..Len(s) /\ j + 1 \in 1..(k + 1)
    BY <1>1
  <2> QED
    BY <1>2, <2>1, <2>2 DEF InnerLast
<1>3. ASSUME InnerLast(s), Head(s).inner, Tail(s) # <<>>
      PROVE  Head(Tail(s)).inner
  <2>1. Len(Tail(s)) >= 1 /\ Head(Tail(s)) = Tail(s)[1]
    BY <1>1, <1>3
  <2>2. Head(Tail(s)) = s[2] /\ 2 \in 1..Len(s) /\ 1 \in 1..2
    BY <1>1, <2>1
  <2> QED
    BY <1>1, <1>3, <2>2 DEF InnerLast
<1> QED
  BY <1>1, <1>2, <1>3

\* A step within a call keeps what does not depend on the step.
Moves == \/ \E step \in {"insert", "finish"} : Goes(step)
         \/ \E error \in {"nil", "hook", "duplicate", "transient"} : Fails(error)
         \/ NextCall

LEMMA MovesKeep ==
  ASSUME Typed, Ordered, Quiet, run.todo # <<>>, run.in # "nothing",
         writes' = writes \/ Inside, Moves
  PROVE  run' \in RunRecords /\ run'.in = run.in /\ Ordered' /\ Quiet'
<1>1. run \in RunRecords /\ run.todo \in Seq(Operations)
  BY DEF Typed, RunRecords
<1>2. CASE run'.todo = run.todo /\ run'.in = run.in /\ run'.body = run.body
  <2>1. run' \in RunRecords
    BY <1>1, <1>2 DEF Moves, Goes, Fails, NextCall, RunRecords, Steps
  <2>2. Ordered'
    BY <1>2 DEF Ordered
  <2>3. Quiet'
    BY <1>2 DEF Quiet, Inside, Now, NoWrites
  <2> QED
    BY <1>2, <2>1, <2>2, <2>3
<1>3. CASE NextCall
  <2>1. Tail(run.todo) \in Seq(Operations)
    BY <1>1, TailIsOrdered
  <2>2. /\ run' \in RunRecords /\ run'.in = run.in /\ run'.body = run.body
        /\ run'.todo = Tail(run.todo)
    BY <1>1, <1>3, <2>1 DEF NextCall, RunRecords, Steps
  <2>3. Ordered'
    BY <1>1, <2>2, TailIsOrdered DEF Ordered
  <2>4. Quiet'
    <3>1. CASE writes' = writes /\ writes = NoWrites
      BY <3>1 DEF Quiet, NoWrites
    <3>2. CASE run.in = "transaction" /\ Now.inner
      <4>1. run'.todo = <<>> \/ Head(run'.todo).inner
        BY <1>1, <2>2, <3>2, TailIsOrdered DEF Ordered, Now
      <4> QED
        BY <2>2, <3>2, <4>1 DEF Quiet, Now
    <3> QED
      BY <3>1, <3>2 DEF Quiet, Inside
  <2> QED
    BY <2>2, <2>3, <2>4
<1>4. ~NextCall => run'.todo = run.todo /\ run'.in = run.in /\ run'.body = run.body
  BY <1>1 DEF Moves, Goes, Fails, RunRecords
<1> QED
  BY <1>2, <1>3, <1>4

\* The models of a prefix of the batch.
LEMMA BatchIsTyped ==
  ASSUME Typed, run.todo # <<>>
  PROVE  /\ Batch \in Seq(Models \cup {Nil}) /\ Now \in Operations
         /\ DOMAIN Batch = 1..Len(Batch) /\ Len(Batch) \in Nat
<1>1. run.todo \in Seq(Operations)
  BY DEF Typed, RunRecords
<1>2. Now \in Operations
  BY <1>1 DEF Now
<1>3. Now.on \in Seq(Models \cup {Nil})
  BY <1>2 DEF Operations
<1> QED
  BY <1>2, <1>3 DEF Batch

LEMMA PreparedWithin ==
  ASSUME Typed, run.todo # <<>>, NEW k \in 0..Len(Batch), Nil \notin Prepared(k)
  PROVE  /\ Prepared(k) \subseteq Models
         /\ \A p \in 1..k : Batch[p] \in Prepared(k)
<1>1. Batch \in Seq(Models \cup {Nil}) /\ Len(Batch) \in Nat
  BY BatchIsTyped
<1>2. \A p \in 1..k : Batch[p] \in Models \cup {Nil}
  BY <1>1
<1> QED
  BY <1>2 DEF Prepared

-----------------------------------------------------------------------------
(* Each action keeps the invariant.                                        *)
LEMMA InvInit == Init => Inv
<1> SUFFICES ASSUME Init
             PROVE  Inv
  OBVIOUS
<1>1. docs \in Stock /\ writes \in Stock
  BY NoWritesIsStock DEF Init, Stock
<1>2. model \in [Models -> ModelRecords]
  <2>1. \A i \in {NoId} \cup 1..Given :
          [id |-> i, content |-> 1, exists |-> FALSE, original |-> 0] \in ModelRecords
    BY SizesAssumption DEF ModelRecords, Ids, Contents
  <2> QED
    BY <2>1 DEF Init
<1>3. \A m \in Models : ~model[m].exists /\ model[m].original = 0
  <2> SUFFICES ASSUME NEW m \in Models
               PROVE  ~model[m].exists /\ model[m].original = 0
    OBVIOUS
  <2>1. model[m] \in {[id |-> i, content |-> 1, exists |-> FALSE, original |-> 0] :
                        i \in {NoId} \cup 1..Given}
    BY DEF Init
  <2> QED
    BY <2>1
<1>4. run \in RunRecords /\ run.in = "nothing" /\ run.step = "idle"
  BY SizesAssumption DEF Init, Idle, RunRecords, Steps
<1>5. fresh \in Given + 1 .. MaxId + 1 /\ calls \in 0..MaxCalls
  BY SizesAssumption DEF Init
<1>6. under \in [Models -> SUBSET Ids] /\ given \in [Models -> SUBSET Ids]
      /\ \A m \in Models : under[m] = {}
  BY DEF Init
<1>7. Typed
  BY <1>1, <1>2, <1>3, <1>4, <1>5, <1>6 DEF Typed
<1>8. Ordered /\ Quiet
  BY <1>4 DEF Ordered, Quiet, Init
<1>9. ~At("insert") /\ ~At("finish")
  BY <1>4 DEF At
<1> QED
  BY <1>3, <1>6, <1>7, <1>8, <1>9
  DEF Inv, Ready, Own, Single, Apart, Rooted, Finishing, KnownModelsAreStored,
      StoredModelsAreKnown

LEMMA BeginsKeeps ==
  ASSUME Inv, NEW in \in {"call", "transaction"}, NEW body \in Seq(Operations),
         in = "transaction" => InnerLast(body), Begins(in, body)
  PROVE  Inv'
<1>1. /\ run.in = "nothing" /\ writes' = NoWrites
      /\ run' = [Idle EXCEPT !.in = in, !.body = body, !.todo = body, !.step = "prepare"]
      /\ UNCHANGED <<docs, fresh, model, under, given, misled, strayed, unlucky>>
  BY DEF Begins, history
<1>2. calls' \in 0..MaxCalls
  BY SizesAssumption DEF Begins, Inv, Typed
<1>3. writes = NoWrites
  BY <1>1 DEF Inv, Quiet
<1>4. /\ run' \in RunRecords /\ run'.in = in /\ run'.body = body /\ run'.todo = body
      /\ run'.step = "prepare"
  <2>1. Idle \in RunRecords
    BY SizesAssumption DEF Idle, RunRecords, Steps
  <2> HIDE DEF Idle
  <2> QED
    BY <1>1, <2>1 DEF RunRecords, Steps
<1>5. Typed'
  BY <1>1, <1>2, <1>4, NoWritesIsStock DEF Inv, Typed
<1>6. Ordered' /\ Quiet'
  BY <1>1, <1>4 DEF Ordered, Quiet, NoWrites
<1>7. ~At("insert")' /\ ~At("finish")' /\ ~At("finish")
  BY <1>1, <1>4 DEF At
<1>8. All' = All /\ writes' = writes
  BY <1>1, <1>3 DEF All, After
<1>9. Own' /\ Apart' /\ Rooted'
  BY <1>1, <1>8 DEF Inv, Own, Single, Apart, Rooted
<1>10. KnownModelsAreStored' /\ StoredModelsAreKnown'
  BY <1>1, <1>7, <1>8 DEF Inv, KnownModelsAreStored, StoredModelsAreKnown, All
<1> QED
  BY <1>5, <1>6, <1>7, <1>9, <1>10 DEF Inv, Ready, Finishing

LEMMA CallsKeep ==
  ASSUME Inv, Call \/ Transaction
  PROVE  Inv'
<1>1. CASE Call
  <2>1. PICK call \in Calls : Begins("call", <<call>>)
    BY <1>1 DEF Call
  <2>2. <<call>> \in Seq(Operations)
    BY CallsAssumption
  <2> QED
    BY <2>1, <2>2, BeginsKeeps
<1>2. CASE Transaction
  <2>1. PICK body \in Callbacks : Begins("transaction", body)
    BY <1>2 DEF Transaction
  <2>2. body \in Seq(Operations)
    BY CallsAssumption
  <2>3. InnerLast(body)
    <3>1. DOMAIN body = 1..Len(body)
      BY <2>2
    <3> QED
      BY <3>1, CallsAssumption DEF InnerLast
  <2> QED
    BY <2>1, <2>2, <2>3, BeginsKeeps
<1> QED
  BY <1>1, <1>2

LEMMA EditKeeps ==
  ASSUME Inv, Edit
  PROVE  Inv'
<1>1. PICK e \in Models :
        model[e].content < MaxValue /\ model' = [model EXCEPT ![e].content = @ + 1]
  BY DEF Edit
<1>2. /\ run.in = "nothing" /\ calls < MaxCalls /\ calls' = calls + 1
      /\ UNCHANGED <<docs, writes, fresh, run, under, given, misled, strayed, unlucky>>
  BY DEF Edit, history
<1>3. /\ model' \in [Models -> ModelRecords]
      /\ \A m \in Models : /\ model'[m].id = model[m].id
                           /\ model'[m].exists = model[m].exists
                           /\ model'[m].original = model[m].original
  BY <1>1, SizesAssumption DEF Inv, Typed, ModelRecords, Contents
<1>4. Typed'
  BY <1>2, <1>3, SizesAssumption DEF Inv, Typed
<1>5. Ordered' /\ Quiet'
  BY <1>2 DEF Inv, Ordered, Quiet, Now, NoWrites
<1>6. ~At("insert")' /\ ~At("finish")' /\ ~At("finish")
  BY <1>2 DEF At
<1>7. All' = All
  BY <1>2 DEF All, After
<1>8. Own' /\ Apart' /\ Rooted'
  BY <1>2, <1>3, <1>7 DEF Inv, Own, Single, Apart, Rooted
<1>9. KnownModelsAreStored' /\ StoredModelsAreKnown'
  BY <1>2, <1>3, <1>6, <1>7 DEF Inv, KnownModelsAreStored, StoredModelsAreKnown, All
<1> QED
  BY <1>4, <1>5, <1>6, <1>8, <1>9 DEF Inv, Ready, Finishing

LEMMA BulkWriteKeeps ==
  ASSUME Inv, BulkWrite
  PROVE  Inv'
<1>1. PICK i \in 1..Given : docs[i] = NoDoc /\ docs' = [docs EXCEPT ![i] = 1]
  BY DEF BulkWrite
<1>2. /\ run.in = "nothing" /\ calls < MaxCalls /\ calls' = calls + 1
      /\ UNCHANGED <<writes, fresh, model, run, under, given, misled, strayed, unlucky>>
  BY DEF BulkWrite, history
<1>3. docs \in Stock /\ docs' \in Stock
  BY <1>1, SizesAssumption DEF Inv, Typed, Stock, Contents, Ids
<1>4. Typed'
  BY <1>2, <1>3, SizesAssumption DEF Inv, Typed
<1>5. Ordered' /\ Quiet'
  BY <1>2 DEF Inv, Ordered, Quiet, Now, NoWrites
<1>6. ~At("insert")' /\ ~At("finish")' /\ ~At("finish")
  BY <1>2 DEF At
<1>7. \A j \in Ids : docs[j] # NoDoc => docs'[j] # NoDoc
  BY <1>1, <1>3 DEF Stock
<1>8. \A j \in Ids : All[j] # NoDoc => All'[j] # NoDoc
  BY <1>2, <1>7 DEF All, After
<1>9. Own' /\ Apart' /\ Rooted'
  BY <1>2, <1>8 DEF Inv, Own, Single, Apart, Rooted, Typed
<1>10. KnownModelsAreStored' /\ StoredModelsAreKnown'
  BY <1>2, <1>6, <1>8 DEF Inv, KnownModelsAreStored, StoredModelsAreKnown, All, Typed
<1> QED
  BY <1>4, <1>5, <1>6, <1>9, <1>10 DEF Inv, Ready, Finishing

\* The models due get new _ids, and the others the ones the hooks have left.
LEMMA AssignIdsKeeps ==
  ASSUME Typed, NEW due \in SUBSET Models, NEW edited \in SUBSET Models,
         NEW named \in SUBSET Models, NEW own \in [named -> 1..Given],
         \A m \in edited : model[m].content < MaxValue,
         Cardinality(due) <= MaxId + 1 - fresh, AssignIds(due, own, edited)
  PROVE  /\ fresh' \in Given + 1 .. MaxId + 1
         /\ model' \in [Models -> ModelRecords]
         /\ \A m \in Models :
              /\ model'[m].exists = model[m].exists /\ model'[m].original = model[m].original
              /\ model'[m].content = IF m \in edited THEN model[m].content + 1
                                     ELSE model[m].content
              /\ m \notin due \cup named => model'[m].id = model[m].id
              /\ m \in due \cup named => model'[m].id \in Ids
<1> DEFINE before(m) == {n \in due \ {m} : Position(n) < Position(m)}
           id(m) == IF m \notin due THEN Named(own, m) ELSE fresh + Cardinality(before(m))
<1>1. /\ model' = [m \in Models |-> [model[m] EXCEPT
                     !.id = id(m), !.content = IF m \in edited THEN @ + 1 ELSE @]]
      /\ fresh' = fresh + Cardinality(due)
  BY DEF AssignIds
<1>2. IsFiniteSet(due) /\ Cardinality(due) \in Nat
  <2>1. IsFiniteSet(due)
    BY FS_Subset, NamesAssumption
  <2> QED
    BY <2>1, FS_CardinalityType
<1>3. Given \in 0..MaxId /\ MaxId \in Nat /\ fresh \in Given + 1 .. MaxId + 1
  BY SizesAssumption DEF Typed
<1>4. ASSUME NEW m \in due
      PROVE  id(m) \in Ids
  <2>1. before(m) \in SUBSET due /\ m \notin before(m)
    OBVIOUS
  <2> HIDE DEF before
  <2>2. /\ IsFiniteSet(before(m)) /\ Cardinality(before(m)) \in Nat
        /\ Cardinality(before(m)) <= Cardinality(due)
        /\ Cardinality(before(m)) # Cardinality(due)
    BY <1>2, <2>1, FS_Subset, FS_CardinalityType
  <2> QED
    BY <1>2, <1>3, <2>2 DEF Ids
<1>5. fresh' \in Given + 1 .. MaxId + 1
  <2>1. fresh' = fresh + Cardinality(due)
    BY <1>1
  <2>2. PICK n \in Nat : Cardinality(due) = n
    BY <1>2
  <2> QED
    BY <1>3, <2>1, <2>2
<1>6. \A m \in Models : /\ m \in named \ due => id(m) \in Ids
                        /\ m \notin due \cup named => id(m) = model[m].id
  BY <1>3 DEF Named, Ids
<1> HIDE DEF id
<1>7. ASSUME NEW m \in Models
      PROVE  /\ model'[m] \in ModelRecords
             /\ model'[m].exists = model[m].exists /\ model'[m].original = model[m].original
             /\ model'[m].content = IF m \in edited THEN model[m].content + 1
                                    ELSE model[m].content
             /\ m \notin due \cup named => model'[m].id = model[m].id
             /\ m \in due \cup named => model'[m].id \in Ids
  <2>1. model[m] \in ModelRecords
    BY DEF Typed
  <2>2. model'[m] = [model[m] EXCEPT
                       !.id = id(m), !.content = IF m \in edited THEN @ + 1 ELSE @]
    BY <1>1
  <2>3. id(m) \in Ids \cup {NoId} /\ (m \in due \cup named => id(m) \in Ids)
    BY <1>4, <1>6, <2>1 DEF ModelRecords
  <2>4. m \in edited => model[m].content + 1 \in Contents
    BY <2>1, SizesAssumption DEF ModelRecords, Contents
  <2> QED
    BY <1>6, <2>1, <2>2, <2>3, <2>4 DEF ModelRecords
<1>8. model' \in [Models -> ModelRecords]
  BY <1>1, <1>7
<1> QED
  BY <1>5, <1>7, <1>8

\* What may become of the _id of m: a hook's choice, noted if m was stored
\* under another, or a new one in place of none.
Renamed(m) ==
  \/ given'[m] = given[m] /\ (model'[m].id = model[m].id \/ model[m].id = NoId \/ under[m] = {})
  \/ given'[m] = given[m] \cup ({model'[m].id} \ under[m])

LEMMA PrepareDoes ==
  ASSUME Typed, Prepare
  PROVE  /\ run.in # "nothing" /\ run.todo # <<>> /\ run.step = "prepare"
         /\ UNCHANGED <<docs, writes, calls, under, misled, strayed, unlucky>>
         /\ fresh' \in Given + 1 .. MaxId + 1
         /\ model' \in [Models -> ModelRecords] /\ given' \in [Models -> SUBSET Ids]
         /\ \A m \in Models :
              /\ model'[m].exists = model[m].exists /\ model'[m].original = model[m].original
              /\ model'[m].content \in {model[m].content, model[m].content + 1}
              /\ model[m].id # NoId => model'[m].id # NoId
              /\ Renamed(m)
              /\ m \notin Prepared(Len(Batch)) =>
                   /\ model'[m].id = model[m].id /\ model'[m].content = model[m].content
                   /\ given'[m] = given[m]
         /\ \/ /\ Goes("insert")
               /\ \A p \in 1..Len(Batch) : Batch[p] \in Models /\ model'[Batch[p]].id # NoId
            \/ Fails("nil") \/ Fails("hook")
<1>1. PICK k \in 0..Len(Batch), reached \in 0..Len(Batch) :
        /\ k <= reached /\ Nil \notin Prepared(reached)
        /\ \E new \in SUBSET Touched(reached), named \in SUBSET Touched(reached),
              edited \in SUBSET Touched(reached) :
           \E own \in [named -> 1 .. Given] :
             LET due == new \cup NeedsId(Prepared(k), own) IN
             /\ new \cap named = {} /\ \A m \in edited : model[m].content < MaxValue
             /\ Cardinality(due) <= MaxId + 1 - fresh
             /\ AssignIds(due, own, edited)
             /\ NotesGiven(new \cup named)
        /\ IF k = Len(Batch) THEN Goes("insert")
           ELSE Fails(IF Batch[k + 1] = Nil THEN "nil" ELSE "hook")
  BY DEF Prepare
<1>2. /\ run.in # "nothing" /\ run.todo # <<>> /\ run.step = "prepare"
      /\ UNCHANGED <<docs, writes, calls, under, misled, strayed, unlucky>>
  BY DEF Prepare, At
<1>3a. PICK new \in SUBSET Touched(reached), named \in SUBSET Touched(reached),
            edited \in SUBSET Touched(reached) :
        \E own \in [named -> 1 .. Given] :
          /\ \A m \in edited : model[m].content < MaxValue
          /\ Cardinality(new \cup NeedsId(Prepared(k), own)) <= MaxId + 1 - fresh
          /\ AssignIds(new \cup NeedsId(Prepared(k), own), own, edited)
          /\ NotesGiven(new \cup named)
  BY <1>1
<1>3. PICK own \in [named -> 1 .. Given] :
       /\ \A m \in edited : model[m].content < MaxValue
       /\ Cardinality(new \cup NeedsId(Prepared(k), own)) <= MaxId + 1 - fresh
       /\ AssignIds(new \cup NeedsId(Prepared(k), own), own, edited)
       /\ NotesGiven(new \cup named)
  BY <1>3a
<1>4. Len(Batch) \in Nat
  BY <1>2, BatchIsTyped
<1>5. /\ Prepared(k) \subseteq Prepared(reached)
      /\ Prepared(reached) \subseteq Prepared(Len(Batch))
  BY <1>1, <1>4 DEF Prepared
<1>6. Prepared(reached) \subseteq Models /\ Prepared(k) \subseteq Models
  BY <1>1, <1>2, <1>5, PreparedWithin
<1> DEFINE due == new \cup NeedsId(Prepared(k), own)
<1>7. due \in SUBSET Prepared(reached) /\ due \in SUBSET Models /\ edited \in SUBSET Models
      /\ named \in SUBSET Models
  BY <1>5, <1>6 DEF NeedsId, Touched
<1>8. \A m \in due \ (new \cup named) : model[m].id = NoId
  BY DEF NeedsId, Named
<1>9. \A m \in Prepared(k) \ (due \cup named) : model[m].id # NoId
  BY DEF NeedsId, Named
<1>10. /\ AssignIds(due, own, edited) /\ Cardinality(due) <= MaxId + 1 - fresh
       /\ \A m \in edited : model[m].content < MaxValue
  BY <1>3
<1> HIDE DEF due
<1>11. /\ fresh' \in Given + 1 .. MaxId + 1
       /\ model' \in [Models -> ModelRecords]
       /\ \A m \in Models :
            /\ model'[m].exists = model[m].exists /\ model'[m].original = model[m].original
            /\ model'[m].content = IF m \in edited THEN model[m].content + 1
                                   ELSE model[m].content
            /\ m \notin due \cup named => model'[m].id = model[m].id
            /\ m \in due \cup named => model'[m].id \in Ids
  BY <1>7, <1>10, AssignIdsKeeps, ZenonT(30)
<1>12. \A m \in Models : given'[m] =
         IF m \in new \cup named /\ under[m] # {} THEN given[m] \cup ({model'[m].id} \ under[m])
         ELSE given[m]
  <2>1. NotesGiven(new \cup named)
    BY <1>3
  <2> QED
    BY <2>1 DEF NotesGiven
<1>13. given' \in [Models -> SUBSET Ids]
  <2>1. ASSUME NEW m \in Models
        PROVE  given'[m] \in SUBSET Ids
    <3>1. given \in [Models -> SUBSET Ids]
      BY DEF Typed
    <3>2. m \in new \cup named => model'[m].id \in Ids
      BY <1>11 DEF due
    <3> QED
      BY <1>12, <3>1, <3>2
  <2>2. given' = [m \in Models |-> given'[m]]
    BY <1>3 DEF NotesGiven
  <2> QED
    BY <2>1, <2>2
<1>14. ASSUME NEW m \in Models
       PROVE  Renamed(m)
  <2>1. CASE m \in new \cup named /\ under[m] # {}
    BY <1>12, <2>1 DEF Renamed
  <2>2. CASE m \notin new \cup named
    BY <1>8, <1>11, <1>12, <2>2 DEF Renamed
  <2>3. CASE under[m] = {}
    BY <1>12, <2>3 DEF Renamed
  <2> QED
    BY <2>1, <2>2, <2>3
<1>15. NoId \notin Ids
  BY NamesAssumption
<1>16. \A m \in Prepared(k) : model'[m].id # NoId
  BY <1>6, <1>9, <1>11, <1>15
<1>17. \/ /\ Goes("insert")
          /\ \A p \in 1..Len(Batch) : Batch[p] \in Models /\ model'[Batch[p]].id # NoId
       \/ Fails("nil") \/ Fails("hook")
  <2>1. CASE k = Len(Batch)
    <3>1. \A p \in 1..Len(Batch) : Batch[p] \in Prepared(k)
      BY <2>1 DEF Prepared
    <3> QED
      BY <1>1, <1>6, <1>16, <2>1, <3>1
  <2>2. CASE k # Len(Batch)
    BY <1>1, <2>2
  <2> QED
    BY <2>1, <2>2
<1>18. ASSUME NEW m \in Models, m \notin Prepared(Len(Batch))
       PROVE  m \notin due /\ m \notin named /\ m \notin new /\ m \notin edited
  BY <1>5, <1>7, <1>18 DEF Touched
<1>19. ASSUME NEW m \in Models
       PROVE  /\ model'[m].content \in {model[m].content, model[m].content + 1}
              /\ model[m].id # NoId => model'[m].id # NoId
              /\ m \notin Prepared(Len(Batch)) =>
                   /\ model'[m].id = model[m].id /\ model'[m].content = model[m].content
                   /\ given'[m] = given[m]
  BY <1>11, <1>12, <1>15, <1>18
<1> QED
  BY <1>2, <1>11, <1>13, <1>14, <1>17, <1>19

\* A model that is renamed is stored under one _id still, and what is renamed
\* while it exists keeps a document under its _id, or is known to be astray.
LEMMA RenamedKeeps ==
  ASSUME Inv, NEW m \in Models, Renamed(m), under' = under, misled' = misled
  PROVE  /\ Single(m)'
         /\ model[m].exists /\ m \notin misled =>
              \/ model'[m].id = model[m].id /\ given'[m] = given[m]
              \/ model'[m].id \in given'[m]
              \/ model'[m].id \in under[m] \ given[m] /\ given'[m] = given[m]
<1>1. Single(m) /\ given[m] \in SUBSET Ids /\ NoId \notin Ids
  BY NamesAssumption DEF Inv, Own, Typed
<1>2. CASE given'[m] = given[m] /\ model'[m].id = model[m].id
  BY <1>1, <1>2 DEF Single
<1>3. CASE given'[m] = given[m] /\ model[m].id = NoId
  <2>1. under[m] \ given[m] = {}
    <3>1. model[m].id \notin under[m]
      BY <1>1, <1>3 DEF Inv, Typed
    <3> QED
      BY <1>1, <1>3, <3>1 DEF Single
  <2>2. ~model[m].exists
    BY <1>3 DEF Inv, Typed
  <2> QED
    BY <1>3, <2>1, <2>2 DEF Single
<1>4. CASE given'[m] = given[m] /\ under[m] = {}
  BY <1>4 DEF Single, Inv, Rooted
<1>5. CASE given'[m] = given[m] \cup ({model'[m].id} \ under[m])
  <2>1. under[m] \ given'[m] = under[m] \ given[m]
    BY <1>5
  <2>2. CASE model'[m].id \in given'[m]
    BY <1>1, <2>1, <2>2 DEF Single
  <2>3. CASE model'[m].id \notin given'[m]
    <3>1. model'[m].id \in under[m] \ given[m] /\ given'[m] = given[m]
      BY <1>5, <2>3
    <3> QED
      BY <1>1, <2>1, <3>1 DEF Single
  <2> QED
    BY <2>2, <2>3
<1> QED
  BY <1>2, <1>3, <1>4, <1>5 DEF Renamed

LEMMA PrepareKeeps ==
  ASSUME Inv, Prepare
  PROVE  Inv'
<1>1. Typed /\ Ordered /\ Quiet
  BY DEF Inv
<1>2. /\ run.in # "nothing" /\ run.todo # <<>> /\ run.step = "prepare"
      /\ UNCHANGED <<docs, writes, calls, under, misled, strayed, unlucky>>
      /\ fresh' \in Given + 1 .. MaxId + 1
      /\ model' \in [Models -> ModelRecords] /\ given' \in [Models -> SUBSET Ids]
      /\ \A m \in Models :
           /\ model'[m].exists = model[m].exists /\ model'[m].original = model[m].original
           /\ model[m].id # NoId => model'[m].id # NoId
           /\ Renamed(m)
      /\ \/ /\ Goes("insert")
            /\ \A p \in 1..Len(Batch) : Batch[p] \in Models /\ model'[Batch[p]].id # NoId
         \/ Fails("nil") \/ Fails("hook")
  BY <1>1, PrepareDoes
<1>3. Moves
  BY <1>2 DEF Moves
<1>4. run' \in RunRecords /\ run'.in = run.in /\ Ordered' /\ Quiet'
  BY <1>1, <1>2, <1>3, MovesKeep
<1>5. Typed'
  BY <1>1, <1>2, <1>4 DEF Typed
<1>6. /\ run'.todo = run.todo /\ run'.step \in {"insert", "failed"}
      /\ run'.step = "insert" =>
           \A p \in 1..Len(Batch) : Batch[p] \in Models /\ model'[Batch[p]].id # NoId
  <2>1. run \in RunRecords
    BY <1>1 DEF Typed
  <2>2. Goes("insert") => run'.todo = run.todo /\ run'.step = "insert"
    BY <2>1 DEF Goes, RunRecords
  <2>3. \A error : Fails(error) => run'.todo = run.todo /\ run'.step = "failed"
    BY <2>1 DEF Fails, RunRecords
  <2> QED
    BY <1>2, <2>2, <2>3
<1>7. Batch' = Batch
  BY <1>6 DEF Batch, Now
<1>8. ~At("finish")' /\ ~At("finish")
  BY <1>2, <1>6 DEF At
<1>9. Ready'
  BY <1>6, <1>7, <1>8 DEF Ready, At
<1>10. All' = All
  BY <1>2 DEF All, After
<1>11. \A m \in Models :
         /\ Single(m)'
         /\ model[m].exists /\ m \notin misled =>
              \/ model'[m].id = model[m].id /\ given'[m] = given[m]
              \/ model'[m].id \in given'[m]
              \/ model'[m].id \in under[m] \ given[m] /\ given'[m] = given[m]
  BY <1>2, RenamedKeeps
<1>12. Own' /\ Apart' /\ Rooted'
  BY <1>2, <1>10, <1>11 DEF Inv, Own, Apart, Rooted
<1>13. KnownModelsAreStored'
  <2> SUFFICES ASSUME NEW m \in Models, model[m].exists, m \notin misled,
                      model'[m].id \notin given'[m]
               PROVE  model'[m].id \in under[m] /\ All[model'[m].id] # NoDoc
    BY <1>2, <1>10 DEF KnownModelsAreStored, All
  <2>1. CASE model'[m].id = model[m].id /\ given'[m] = given[m]
    BY <2>1 DEF Inv, KnownModelsAreStored, All
  <2>2. CASE model'[m].id \in under[m]
    BY <2>2 DEF Inv, Own
  <2> QED
    BY <1>11, <2>1, <2>2
<1>14. StoredModelsAreKnown'
  BY <1>2, <1>8 DEF Inv, StoredModelsAreKnown
<1> QED
  BY <1>4, <1>5, <1>8, <1>9, <1>12, <1>13, <1>14 DEF Inv, Finishing

\* What an insert can store goes under _ids where nothing is, each once.
LEMMA StorableIsFree ==
  ASSUME Inv, At("insert"), NEW places \in SUBSET Storable
  PROVE  /\ places \subseteq 1..Len(Batch)
         /\ \A p \in places : /\ Batch[p] \in Models /\ IdAt(p) \in Ids
                              /\ All[IdAt(p)] = NoDoc
         /\ \A p, q \in places : IdAt(p) = IdAt(q) => p = q
<1>1. run.todo # <<>> /\ Typed /\ Quiet
  BY DEF At, Inv
<1>2. Batch \in Seq(Models \cup {Nil}) /\ DOMAIN Batch = 1..Len(Batch) /\ Len(Batch) \in Nat
  BY <1>1, BatchIsTyped
<1>3. \A p \in Storable : p \in DOMAIN Batch /\ Free(p)
  <2> SUFFICES ASSUME NEW p \in Storable
               PROVE  p \in DOMAIN Batch /\ Free(p)
    OBVIOUS
  <2>1. p \in DOMAIN Batch /\ IF Now.ordered THEN \A j \in 1..p : Free(j) ELSE Free(p)
    BY DEF Storable
  <2>2. p \in 1..p
    BY <1>2, <2>1
  <2> QED
    BY <2>1, <2>2
<1>4. Seen = All
  BY <1>1, SeenIsAll
<1>5. ASSUME NEW p \in places
      PROVE  Batch[p] \in Models /\ IdAt(p) \in Ids /\ All[IdAt(p)] = NoDoc
  <2>1. p \in 1..Len(Batch) /\ Free(p)
    BY <1>2, <1>3
  <2>2. Batch[p] \in Models /\ model[Batch[p]].id # NoId
    BY <2>1 DEF Inv, Ready
  <2>3. model[Batch[p]] \in ModelRecords
    BY <1>1, <2>2 DEF Typed
  <2>4. IdAt(p) \in Ids
    BY <2>2, <2>3 DEF ModelRecords, IdAt
  <2> QED
    BY <1>4, <2>1, <2>2, <2>4 DEF Free
<1>6. ASSUME NEW p \in places, NEW q \in places, IdAt(p) = IdAt(q)
      PROVE  p = q
  <2>1. p \in 1..Len(Batch) /\ q \in 1..Len(Batch) /\ Free(p) /\ Free(q)
    BY <1>2, <1>3
  <2>2. CASE p < q
    <3>1. p \in 1..(q - 1)
      BY <1>2, <2>1, <2>2
    <3> QED
      BY <1>6, <2>1, <3>1 DEF Free
  <2>3. CASE q < p
    <3>1. q \in 1..(p - 1)
      BY <1>2, <2>1, <2>3
    <3> QED
      BY <1>6, <2>1, <3>1 DEF Free
  <2> QED
    BY <1>2, <2>1, <2>2, <2>3
<1> QED
  BY <1>2, <1>3, <1>5, <1>6

\* What an insert stores keeps what is said of the documents.
LEMMA InsertedKeeps ==
  ASSUME Inv, At("insert"), NEW places \in SUBSET Storable, Inserted(places),
         model' = model, given' = given
  PROVE  /\ docs' \in Stock /\ writes' \in Stock /\ (writes' = writes \/ Inside)
         /\ under' \in [Models -> SUBSET Ids]
         /\ \A m \in Models :
              under'[m] = under[m] \cup IdsAt({p \in places : Batch[p] = m})
         /\ Own' /\ Apart'
         /\ \A i \in Ids : All[i] # NoDoc => All'[i] # NoDoc
<1> DEFINE new == [i \in Ids |->
             IF i \in IdsAt(places)
             THEN model[Batch[CHOOSE p \in places : IdAt(p) = i]].content ELSE NoDoc]
<1>1. run.todo # <<>> /\ Typed /\ Quiet /\ Own /\ Apart
  BY DEF At, Inv
<1>2. /\ places \subseteq 1..Len(Batch)
      /\ \A p \in places : Batch[p] \in Models /\ IdAt(p) \in Ids /\ All[IdAt(p)] = NoDoc
      /\ \A p, q \in places : IdAt(p) = IdAt(q) => p = q
  BY StorableIsFree
<1>3. ASSUME NEW i \in Ids
      PROVE  /\ i \in IdsAt(places) => new[i] \in Contents
             /\ i \notin IdsAt(places) => new[i] = NoDoc
  <2>1. CASE i \in IdsAt(places)
    <3>1. PICK p \in places : p = CHOOSE q \in places : IdAt(q) = i
      BY <2>1 DEF IdsAt
    <3>2. model[Batch[p]] \in ModelRecords
      BY <1>1, <1>2 DEF Typed
    <3> QED
      BY <2>1, <3>1, <3>2 DEF ModelRecords
  <2>2. CASE i \notin IdsAt(places)
    BY <2>2
  <2> QED
    BY <2>1, <2>2
<1>4. new \in Stock
  <2>1. \A i \in Ids : new[i] \in Contents \cup {NoDoc}
    BY <1>3
  <2> QED
    BY <2>1 DEF Stock
<1>5. Stores(new)
  BY DEF Inserted
<1>6. under' = [m \in Models |-> under[m] \cup IdsAt({p \in places : Batch[p] = m})]
  BY DEF Inserted
<1> HIDE DEF new
<1>7. /\ docs' \in Stock /\ writes' \in Stock /\ All' = After(All, new)
      /\ (writes' = writes \/ Inside)
  BY <1>1, <1>4, <1>5, StoresAdds
<1>8. All \in Stock
  BY <1>1, AfterIsStock DEF All, Typed
<1>9. \A i \in Ids : All'[i] = IF new[i] = NoDoc THEN All[i] ELSE new[i]
  BY <1>4, <1>7, <1>8, AfterIsStock
<1>10. \A i \in Ids : /\ All[i] # NoDoc => All'[i] # NoDoc
                      /\ i \in IdsAt(places) => All'[i] # NoDoc
  BY <1>3, <1>9, NamesAssumption
<1>11. \A m \in Models : IdsAt({p \in places : Batch[p] = m}) \in SUBSET Ids
  BY <1>2 DEF IdsAt
<1>12. under' \in [Models -> SUBSET Ids]
  BY <1>1, <1>6, <1>11 DEF Typed
<1>13. ASSUME NEW m \in Models, NEW i \in IdsAt({p \in places : Batch[p] = m})
       PROVE  i = model[m].id /\ i \in Ids /\ i \in IdsAt(places) /\ All[i] = NoDoc
  BY <1>2 DEF IdsAt, IdAt
<1>14. Own'
  <2> SUFFICES ASSUME NEW m \in Models
               PROVE  Single(m)' /\ \A i \in under'[m] : All'[i] # NoDoc
    BY DEF Own
  <2>1. under'[m] = under[m] \cup IdsAt({p \in places : Batch[p] = m})
    BY <1>6
  <2>2. IdsAt({p \in places : Batch[p] = m}) \subseteq {model[m].id}
    BY <1>13
  <2>3. Single(m) /\ \A i \in under[m] : i \in Ids /\ All[i] # NoDoc
    BY <1>1 DEF Own, Typed
  <2>4. ASSUME NEW i \in under'[m]
        PROVE  All'[i] # NoDoc
    BY <1>10, <1>13, <2>1, <2>3
  <2>5. CASE model[m].id \in given[m]
    <3>1. under'[m] \ given[m] = under[m] \ given[m]
      BY <2>1, <2>2, <2>5
    <3> QED
      BY <2>3, <2>4, <2>5, <3>1 DEF Single
  <2>6. CASE model[m].id \notin given[m]
    <3>1. under'[m] \ given[m] \subseteq {model[m].id}
      BY <2>1, <2>2, <2>3, <2>6 DEF Single
    <3> QED
      BY <2>4, <3>1 DEF Single
  <2> QED
    BY <2>5, <2>6
<1>15. Apart'
  <2> SUFFICES ASSUME NEW m \in Models, NEW n \in Models, m # n,
                      NEW i \in under'[m], i \in under'[n]
               PROVE  FALSE
    BY DEF Apart
  <2>1. \A x \in Models : i \in under[x] => All[i] # NoDoc
    BY <1>1 DEF Own
  <2>2. CASE i \in under[m] /\ i \in under[n]
    BY <1>1, <2>2 DEF Apart
  <2>3. CASE i \in IdsAt({p \in places : Batch[p] = m}) /\ i \in IdsAt({p \in places : Batch[p] = n})
    <3>1. PICK p \in places, q \in places :
            IdAt(p) = i /\ Batch[p] = m /\ IdAt(q) = i /\ Batch[q] = n
      BY <2>3 DEF IdsAt
    <3> QED
      BY <1>2, <3>1
  <2> QED
    BY <1>6, <1>13, <2>1, <2>2, <2>3
<1> QED
  BY <1>6, <1>7, <1>10, <1>12, <1>14, <1>15

LEMMA InsertKeeps ==
  ASSUME Inv, Insert
  PROVE  Inv'
<1>1. At("insert") /\ UNCHANGED <<fresh, model, calls, given, misled, strayed>>
  BY DEF Insert
<1>2. PICK places \in SUBSET Storable :
        /\ Inserted(places)
        /\ \/ places = Storable /\ StoredAll /\ Goes("finish") /\ unlucky' = unlucky
           \/ /\ \E error \in {"duplicate", "transient"} : Fails(error)
              /\ unlucky' = unlucky \cup Prepared(Len(Batch))
  BY DEF Insert
<1>3. run.todo # <<>> /\ run.in # "nothing" /\ run.step = "insert"
      /\ Typed /\ Ordered /\ Quiet /\ Ready
  BY <1>1 DEF At, Inv
<1>4. /\ docs' \in Stock /\ writes' \in Stock /\ (writes' = writes \/ Inside)
      /\ under' \in [Models -> SUBSET Ids]
      /\ \A m \in Models :
           under'[m] = under[m] \cup IdsAt({p \in places : Batch[p] = m})
      /\ Own' /\ Apart'
      /\ \A i \in Ids : All[i] # NoDoc => All'[i] # NoDoc
  BY <1>1, <1>2, InsertedKeeps
<1>5. Moves
  BY <1>2 DEF Moves
<1>6. run' \in RunRecords /\ run'.in = run.in /\ Ordered' /\ Quiet'
  BY <1>3, <1>4, <1>5, MovesKeep
<1>7. Typed'
  BY <1>1, <1>3, <1>4, <1>6 DEF Typed
<1>8. /\ run'.todo = run.todo /\ run'.step \in {"finish", "failed"}
      /\ run'.step = "finish" => places = Storable /\ StoredAll
      /\ run'.step # "finish" => unlucky' = unlucky \cup Prepared(Len(Batch))
      /\ unlucky \subseteq unlucky'
  <2>1. run \in RunRecords
    BY <1>3 DEF Typed
  <2>2. Goes("finish") => run'.todo = run.todo /\ run'.step = "finish"
    BY <2>1 DEF Goes, RunRecords
  <2>3. \A error : Fails(error) => run'.todo = run.todo /\ run'.step = "failed"
    BY <2>1 DEF Fails, RunRecords
  <2> QED
    BY <1>2, <2>2, <2>3
<1>9. Batch' = Batch
  BY <1>8 DEF Batch, Now
<1>10. \A p \in 1..Len(Batch) : Batch[p] \in Models /\ model[Batch[p]].id # NoId
  BY <1>1, <1>3 DEF Ready
<1>11. Ready'
  BY <1>1, <1>9, <1>10 DEF Ready
<1>12. Finishing'
  <2> SUFFICES ASSUME run'.step = "finish", NEW p \in 1..Len(Batch)
               PROVE  model[Batch[p]].id \in under'[Batch[p]]
    BY <1>1, <1>9 DEF Finishing, At
  <2>1. p \in places
    BY <1>3, <1>8, BatchIsTyped DEF StoredAll
  <2>2. Batch[p] \in Models /\ IdAt(p) \in IdsAt({q \in places : Batch[q] = Batch[p]})
    BY <1>10, <2>1 DEF IdsAt
  <2> QED
    BY <1>4, <2>2 DEF IdAt
<1>13. KnownModelsAreStored' /\ Rooted'
  <2>1. ASSUME NEW m \in Models, model[m].exists, m \notin misled
        PROVE  under'[m] # {}
    BY <1>4, <2>1 DEF Inv, Rooted
  <2>2. ASSUME NEW m \in Models, model[m].exists, m \notin misled, model[m].id \notin given[m]
        PROVE  model[m].id \in under'[m] /\ All'[model[m].id] # NoDoc
    <3>1. model[m].id \in under[m] /\ All[model[m].id] # NoDoc
      BY <2>2 DEF Inv, KnownModelsAreStored, All
    <3>2. model[m].id \in Ids
      BY <1>3, <3>1 DEF Typed
    <3> QED
      BY <1>4, <3>1, <3>2
  <2> QED
    BY <1>1, <2>1, <2>2 DEF KnownModelsAreStored, Rooted, All
<1>14. StoredModelsAreKnown'
  <2> SUFFICES ASSUME NEW m \in Models, under'[m] # {}, ~model[m].exists, m \notin unlucky'
               PROVE  At("finish")' /\ m \in Prepared(Len(Batch))
    BY <1>1, <1>9 DEF StoredModelsAreKnown, Prepared
  <2>1. ~At("finish")
    BY <1>3 DEF At
  <2>2. under[m] = {}
    BY <1>8, <2>1 DEF Inv, StoredModelsAreKnown
  <2>3. PICK p \in places : Batch[p] = m
    BY <1>4, <2>2 DEF IdsAt
  <2>4. p \in 1..Len(Batch)
    BY <1>1, StorableIsFree
  <2>5. m \in Prepared(Len(Batch))
    BY <2>3, <2>4 DEF Prepared
  <2>6. run'.step = "finish"
    BY <1>8, <2>5
  <2> QED
    BY <1>3, <1>6, <1>8, <2>5, <2>6 DEF At
<1> QED
  BY <1>4, <1>6, <1>7, <1>11, <1>12, <1>13, <1>14 DEF Inv

\* Snapshots are taken of models that have an _id.
LEMMA KnownIsTyped ==
  ASSUME Typed, NEW ms, \A m \in Models \cap ms : model[m].id # NoId, Known(ms)
  PROVE  /\ model' \in [Models -> ModelRecords]
         /\ \A m \in Models :
              /\ model'[m].id = model[m].id
              /\ model'[m].content = model[m].content
              /\ m \in ms => model'[m].exists /\ model'[m].original # 0
              /\ m \in ms => model'[m].original = model[m].content
              /\ m \notin ms => model'[m] = model[m]
<1>1. model' = [m \in Models |->
        IF m \in ms THEN [model[m] EXCEPT !.exists = TRUE, !.original = model[m].content]
        ELSE model[m]]
  BY DEF Known
<1>2. ASSUME NEW m \in Models
      PROVE  /\ model'[m] \in ModelRecords /\ model'[m].id = model[m].id
             /\ model'[m].content = model[m].content
             /\ m \in ms => model'[m].exists /\ model'[m].original # 0
             /\ m \in ms => model'[m].original = model[m].content
             /\ m \notin ms => model'[m] = model[m]
  <2>1. model[m] \in ModelRecords
    BY DEF Typed
  <2>2. CASE m \in ms
    <3>1. model'[m] = [model[m] EXCEPT !.exists = TRUE, !.original = model[m].content]
      BY <1>1, <2>2
    <3>2. model[m].content \in Contents /\ 0 \notin Contents
      BY <2>1, SizesAssumption DEF ModelRecords, Contents
    <3> QED
      BY <2>1, <2>2, <3>1, <3>2 DEF ModelRecords
  <2>3. CASE m \notin ms
    BY <1>1, <2>1, <2>3
  <2> QED
    BY <2>2, <2>3
<1> QED
  BY <1>1, <1>2

\* A step of a call that inserts nothing.
LEMMA CallStepKeeps ==
  ASSUME Inv, run.in # "nothing", run.todo # <<>>, Moves,
         docs' \in Stock, writes' \in Stock, writes' = writes \/ Inside,
         \A i \in Ids : All[i] # NoDoc => All'[i] # NoDoc,
         UNCHANGED <<fresh, calls, under, given, misled>>, unlucky \subseteq unlucky',
         model' \in [Models -> ModelRecords],
         \A m \in Models :
           /\ model'[m].id = model[m].id
           /\ \/ model'[m] = model[m]
              \/ /\ model'[m].exists /\ model'[m].original # 0 /\ model[m].id # NoId
                 /\ model[m].exists \/ model[m].id \in under[m],
         run'.step \notin {"insert", "finish"},
         \A m \in Models : under[m] # {} /\ ~model'[m].exists => m \in unlucky'
  PROVE  Inv'
<1>1. Typed /\ Ordered /\ Quiet /\ Own /\ Apart
  BY DEF Inv
<1>2. run' \in RunRecords /\ Ordered' /\ Quiet'
  BY <1>1, MovesKeep
<1>3. \A m \in Models : /\ model'[m].exists => model'[m].id # NoId
                        /\ model'[m].exists <=> model'[m].original # 0
  <2> SUFFICES ASSUME NEW m \in Models
               PROVE  /\ model'[m].exists => model'[m].id # NoId
                      /\ model'[m].exists <=> model'[m].original # 0
    OBVIOUS
  <2>1. CASE model'[m] = model[m]
    BY <1>1, <2>1 DEF Typed
  <2>2. CASE model'[m].exists /\ model'[m].original # 0 /\ model[m].id # NoId
    BY <2>2
  <2>3. model'[m] = model[m] \/ (model'[m].exists /\ model'[m].original # 0 /\ model[m].id # NoId)
    OBVIOUS
  <2> QED
    BY <2>1, <2>2, <2>3
<1>4. Typed'
  BY <1>1, <1>2, <1>3 DEF Typed
<1>5. ~At("insert")' /\ ~At("finish")'
  BY DEF At
<1>6. Own' /\ Apart'
  BY <1>1 DEF Own, Single, Apart, Typed
<1>7. KnownModelsAreStored' /\ Rooted'
  <2>1. ASSUME NEW m \in Models, model'[m].exists
        PROVE  model[m].exists \/ model[m].id \in under[m]
    BY <2>1
  <2>2. ASSUME NEW m \in Models, model'[m].exists, m \notin misled
        PROVE  under[m] # {}
    BY <2>1, <2>2 DEF Inv, Rooted
  <2>3. ASSUME NEW m \in Models, model'[m].exists, m \notin misled, model[m].id \notin given[m]
        PROVE  model[m].id \in under[m] /\ All'[model[m].id] # NoDoc
    <3>1. model[m].id \in under[m]
      BY <2>1, <2>3 DEF Inv, KnownModelsAreStored
    <3>2. model[m].id \in Ids /\ All[model[m].id] # NoDoc
      BY <1>1, <3>1 DEF Own, Typed
    <3> QED
      BY <3>1, <3>2
  <2> QED
    BY <2>2, <2>3 DEF KnownModelsAreStored, Rooted, All
<1>8. StoredModelsAreKnown'
  BY DEF StoredModelsAreKnown
<1> QED
  BY <1>2, <1>4, <1>5, <1>6, <1>7, <1>8 DEF Inv, Ready, Finishing

LEMMA MoveSteps ==
  ASSUME Typed
  PROVE  /\ NextCall => run'.step = "prepare"
         /\ \A error : Fails(error) => run'.step = "failed"
BY DEF Typed, RunRecords, NextCall, Fails

LEMMA FinishKeeps ==
  ASSUME Inv, Finish
  PROVE  Inv'
<1>1. At("finish") /\ UNCHANGED <<docs, writes, fresh, calls, under, given, misled, strayed>>
  BY DEF Finish
<1>2. PICK k \in 0..Len(Batch) :
        IF k = Len(Batch)
        THEN Known(Prepared(k)) /\ NextCall /\ unlucky' = unlucky
        ELSE /\ Known(Prepared(k + 1)) /\ Fails("hook")
             /\ unlucky' = unlucky \cup Prepared(Len(Batch))
  BY DEF Finish
<1>3. /\ run.in # "nothing" /\ run.todo # <<>> /\ Typed /\ Own
      /\ docs' \in Stock /\ writes' \in Stock
  BY <1>1 DEF At, Inv, Typed
<1>4. Len(Batch) \in Nat
  BY <1>3, BatchIsTyped
<1>5. PICK n \in 0..Len(Batch) :
        /\ Known(Prepared(n))
        /\ n = Len(Batch) \/ unlucky' = unlucky \cup Prepared(Len(Batch))
  <2>1. CASE k = Len(Batch)
    BY <1>2, <2>1
  <2>2. CASE k # Len(Batch)
    <3>1. k + 1 \in 0..Len(Batch)
      BY <1>4, <2>2
    <3> QED
      BY <1>2, <2>2, <3>1
  <2> QED
    BY <2>1, <2>2
<1>6. \A m \in Prepared(Len(Batch)) :
        m \in Models /\ model[m].id # NoId /\ model[m].id \in under[m]
  BY <1>1 DEF Inv, Ready, Finishing, Prepared
<1>7. Prepared(n) \subseteq Prepared(Len(Batch))
  BY <1>4 DEF Prepared
<1>8. /\ model' \in [Models -> ModelRecords]
      /\ \A m \in Models :
           /\ model'[m].id = model[m].id
           /\ m \in Prepared(n) => model'[m].exists /\ model'[m].original # 0
           /\ m \notin Prepared(n) => model'[m] = model[m]
  BY <1>3, <1>5, <1>6, <1>7, KnownIsTyped
<1>9. Moves /\ run'.step \notin {"insert", "finish"} /\ unlucky \subseteq unlucky'
  BY <1>2, <1>3, MoveSteps DEF Moves
<1>10. All' = All
  BY <1>1 DEF All, After
<1>11. ASSUME NEW m \in Models, under[m] # {}, ~model'[m].exists
       PROVE  m \in unlucky'
  <2>1. m \notin Prepared(n) /\ ~model[m].exists
    BY <1>8, <1>11
  <2>2. m \in unlucky \/ m \in Prepared(Len(Batch))
    BY <1>11, <2>1 DEF Inv, StoredModelsAreKnown
  <2> QED
    BY <1>5, <1>9, <2>1, <2>2
<1> QED
  BY <1>1, <1>3, <1>6, <1>7, <1>8, <1>9, <1>10, <1>11, CallStepKeeps

LEMMA NothingToCreateKeeps ==
  ASSUME Inv, NothingToCreate
  PROVE  Inv'
<1>1. /\ run.in # "nothing" /\ run.todo # <<>> /\ run.step = "prepare" /\ NextCall
      /\ UNCHANGED <<docs, writes, fresh, model, calls, under, given, misled, strayed, unlucky>>
  BY DEF NothingToCreate, At, history
<1>2. Typed /\ docs \in Stock /\ writes \in Stock /\ model \in [Models -> ModelRecords]
  BY DEF Inv, Typed
<1>3. Moves /\ run'.step = "prepare"
  BY <1>1, <1>2, MoveSteps DEF Moves
<1>4. All' = All
  BY <1>1 DEF All, After
<1>5. \A m \in Models : under[m] # {} /\ ~model[m].exists => m \in unlucky
  BY <1>1 DEF Inv, StoredModelsAreKnown, At
<1> QED
  BY <1>1, <1>2, <1>3, <1>4, <1>5, CallStepKeeps

LEMMA UpdateKeeps ==
  ASSUME Inv, Update
  PROVE  Inv'
<1> DEFINE m == Batch[1]
           new == [NoWrites EXCEPT ![model[m].id] = model[m].content]
<1>1. /\ run.in # "nothing" /\ run.todo # <<>> /\ run.step = "prepare"
      /\ Batch # <<>> /\ m # Nil /\ ~Inserts(m)
      /\ UNCHANGED <<fresh, calls, under, given, misled, unlucky>>
  BY DEF Update, At
<1>2. /\ Stores(new) \/ UNCHANGED <<docs, writes>>
      /\ \/ model' = model /\ (NextCall \/ Fails("hook") \/ Fails("transient"))
         \/ Known({m}) /\ NextCall
  BY DEF Update
<1>3. Typed /\ Quiet /\ docs \in Stock /\ writes \in Stock /\ model \in [Models -> ModelRecords]
  BY DEF Inv, Typed
<1>4. m \in Models /\ model[m].exists
  <2>1. Batch \in Seq(Models \cup {Nil})
    BY <1>1, <1>3, BatchIsTyped
  <2>2. 1 \in 1..Len(Batch)
    BY <1>1, <2>1
  <2> QED
    BY <1>1, <2>1, <2>2 DEF Inserts
<1>5. model[m] \in ModelRecords /\ model[m].id # NoId
  BY <1>3, <1>4 DEF Typed
<1> HIDE DEF m
<1>6. new \in Stock
  BY <1>5, NoWritesIsStock DEF Stock, ModelRecords
<1>7. /\ docs' \in Stock /\ writes' \in Stock /\ (writes' = writes \/ Inside)
      /\ \A i \in Ids : All[i] # NoDoc => All'[i] # NoDoc
  <2>1. CASE UNCHANGED <<docs, writes>>
    <3>1. All' = All
      BY <2>1 DEF All, After
    <3> QED
      BY <1>3, <2>1, <3>1
  <2>2. CASE Stores(new)
    <3> HIDE DEF new
    <3>1. /\ docs' \in Stock /\ writes' \in Stock /\ All' = After(All, new)
          /\ (writes' = writes \/ Inside)
      BY <1>1, <1>3, <1>6, <2>2, StoresAdds
    <3>2. All \in Stock
      BY <1>3, AfterIsStock DEF All
    <3> QED
      BY <1>6, <3>1, <3>2, AfterIsStock
  <2> QED
    BY <1>2, <2>1, <2>2
<1>8. Moves /\ run'.step \notin {"insert", "finish"}
  BY <1>2, <1>3, MoveSteps DEF Moves
<1>9. /\ model' \in [Models -> ModelRecords]
      /\ \A n \in Models :
           /\ model'[n].id = model[n].id
           /\ \/ model'[n] = model[n]
              \/ n = m /\ model'[n].exists /\ model'[n].original # 0
  <2>1. CASE model' = model
    BY <1>3, <2>1
  <2>2. CASE Known({m})
    <3>1. \A n \in Models \cap {m} : model[n].id # NoId
      BY <1>5
    <3> QED
      BY <1>3, <2>2, <3>1, KnownIsTyped
  <2> QED
    BY <1>2, <2>1, <2>2
<1>10. ASSUME NEW n \in Models, under[n] # {}, ~model'[n].exists
       PROVE  n \in unlucky'
  <2>1. ~model[n].exists
    BY <1>9, <1>10
  <2> QED
    BY <1>1, <1>10, <2>1 DEF Inv, StoredModelsAreKnown, At
<1> QED
  BY <1>1, <1>4, <1>5, <1>7, <1>8, <1>9, <1>10, CallStepKeeps

-----------------------------------------------------------------------------
(* The end of a call and of an attempt.                                    *)
LEMMA ReturnIsTyped ==
  ASSUME NEW told \in {"nil", "error"}, Return(told)
  PROVE  /\ run' \in RunRecords /\ run'.in = "nothing" /\ run'.step = "idle"
         /\ writes' = NoWrites
<1>1. Idle \in RunRecords /\ Idle.in = "nothing" /\ Idle.step = "idle"
  BY SizesAssumption DEF Idle, RunRecords, Steps
<1>2. run' = [Idle EXCEPT !.told = told] /\ writes' = NoWrites
  BY DEF Return
<1> HIDE DEF Idle
<1> QED
  BY <1>1, <1>2 DEF RunRecords

LEMMA RunAgainIsTyped ==
  ASSUME Typed, Ordered, run.in = "transaction", RunAgain
  PROVE  /\ run' \in RunRecords /\ run'.step = "prepare" /\ writes' = NoWrites
         /\ run'.in = "transaction" /\ InnerLast(run'.body) /\ InnerLast(run'.todo)
<1>1. run \in RunRecords /\ InnerLast(run.body)
  BY DEF Typed, Ordered
<1>2. run.attempt + 1 \in 1..MaxAttempts
  BY <1>1, SizesAssumption DEF RunAgain, RunRecords
<1>3. /\ run' = [run EXCEPT !.todo = run.body, !.step = "prepare", !.error = "none",
                            !.attempt = @ + 1]
      /\ writes' = NoWrites
  BY DEF RunAgain
<1>4. run' \in RunRecords
  BY <1>1, <1>2, <1>3 DEF RunRecords, Steps
<1>5. run'.todo = run.body /\ run'.body = run.body /\ run'.in = run.in /\ run'.step = "prepare"
  BY <1>1, <1>3 DEF RunRecords
<1> QED
  BY <1>1, <1>3, <1>4, <1>5

\* Where the pending writes are gone, whether applied or taken back.
LEMMA EndKeeps ==
  ASSUME Inv, ~At("finish"), writes' = NoWrites, docs' \in Stock,
         run' \in RunRecords, run'.step \in {"idle", "prepare"},
         run'.in = "transaction" => InnerLast(run'.body) /\ InnerLast(run'.todo),
         UNCHANGED <<fresh, model, calls, given, unlucky>>,
         \/ docs' = All /\ UNCHANGED <<under, misled>>
         \/ docs' = docs /\ TakeBack
  PROVE  Inv'
<1>1. Typed /\ Own /\ Apart /\ docs \in Stock /\ writes \in Stock
  BY DEF Inv, Typed
<1>2. \A m \in Models : under'[m] \subseteq under[m] /\ \A i \in under'[m] : docs'[i] # NoDoc
  <2>1. CASE docs' = All /\ UNCHANGED <<under, misled>>
    BY <1>1, <2>1 DEF Own
  <2>2. CASE docs' = docs /\ TakeBack
    BY <1>1, <2>2 DEF TakeBack
  <2> QED
    BY <2>1, <2>2
<1>3. under' \in [Models -> SUBSET Ids]
  BY <1>1 DEF TakeBack, Typed
<1>4. Typed'
  BY <1>1, <1>3, NoWritesIsStock DEF Typed
<1>5. Ordered' /\ Quiet'
  BY DEF Ordered, Quiet, NoWrites
<1>6. ~At("insert")' /\ ~At("finish")'
  BY DEF At
<1>7. All' = docs'
  <2>1. All' = After(docs', NoWrites)
    BY DEF All, After
  <2> QED
    BY <2>1, AfterNothing
<1>8. Own' /\ Apart'
  BY <1>1, <1>2, <1>7 DEF Own, Single, Apart
\* A model of whose documents one is taken back is misled.
<1>9. ASSUME NEW m \in Models, model[m].exists, m \notin misled', NEW i \in under[m]
      PROVE  i \in under'[m]
  <2>1. CASE docs' = All /\ UNCHANGED <<under, misled>>
    BY <1>9, <2>1
  <2>2. CASE docs' = docs /\ TakeBack
    <3>1. i \in Ids /\ All[i] # NoDoc
      BY <1>1 DEF Own, Typed
    <3>2. model[m].original \in Contents
      BY <1>1, <1>9 DEF Typed, ModelRecords
    <3>3. docs[i] # NoDoc
      <4> SUFFICES ASSUME docs[i] = NoDoc
                   PROVE  FALSE
        OBVIOUS
      <4>1. writes[i] # NoDoc
        BY <1>1, <3>1, AfterIsStock DEF All
      <4>2. docs[i] # model[m].original
        BY <3>2, NamesAssumption
      <4> QED
        BY <1>9, <2>2, <4>1, <4>2 DEF TakeBack
    <3>4. under'[m] = {j \in under[m] : docs[j] # NoDoc}
      BY <2>2 DEF TakeBack
    <3> QED
      BY <3>3, <3>4
  <2> QED
    BY <2>1, <2>2
<1>11. KnownModelsAreStored' /\ Rooted'
  <2>1. \A m \in Models : m \notin misled' => m \notin misled
    BY DEF TakeBack
  <2>2. ASSUME NEW m \in Models, model[m].exists, m \notin misled'
        PROVE  under'[m] # {}
    BY <1>9, <2>1, <2>2 DEF Inv, Rooted
  <2>3. ASSUME NEW m \in Models, model[m].exists, m \notin misled', model[m].id \notin given[m]
        PROVE  model[m].id \in under'[m] /\ docs'[model[m].id] # NoDoc
    <3>1. model[m].id \in under[m]
      BY <2>1, <2>3 DEF Inv, KnownModelsAreStored
    <3> QED
      BY <1>2, <1>9, <2>3, <3>1
  <2> QED
    BY <1>7, <2>2, <2>3 DEF KnownModelsAreStored, Rooted, All
<1>10. StoredModelsAreKnown'
  <2> SUFFICES ASSUME NEW m \in Models, under'[m] # {}, ~model[m].exists
               PROVE  m \in unlucky
    BY DEF StoredModelsAreKnown
  <2>1. under[m] # {}
    BY <1>2
  <2> QED
    BY <2>1 DEF Inv, StoredModelsAreKnown
<1> QED
  BY <1>4, <1>5, <1>6, <1>8, <1>10, <1>11 DEF Inv, Ready, Finishing

LEMMA ReturnsKeeps ==
  ASSUME Inv, Returns
  PROVE  Inv'
<1>1. /\ run.in = "call"
      /\ run.step = "failed" \/ run.todo = <<>>
      /\ UNCHANGED <<docs, fresh, model, calls, under, given, misled, strayed, unlucky>>
      /\ Return("error") \/ Return("nil")
  BY DEF Returns, history
<1>2. ~At("finish")
  BY <1>1 DEF At
<1>3. /\ run' \in RunRecords /\ run'.in = "nothing" /\ run'.step = "idle"
      /\ writes' = NoWrites
  BY <1>1, ReturnIsTyped
<1>4. docs \in Stock /\ writes = NoWrites
  BY <1>1 DEF Inv, Typed, Quiet
<1>5. All = docs
  BY <1>4, AfterNothing DEF All
<1> QED
  BY <1>1, <1>2, <1>3, <1>4, <1>5, EndKeeps

LEMMA AbortKeeps ==
  ASSUME Inv, Abort
  PROVE  Inv'
<1>1. /\ run.in = "transaction" /\ run.step = "failed" /\ TakeBack
      /\ Return("error") \/ RunAgain
      /\ UNCHANGED <<docs, fresh, model, calls, given, strayed, unlucky>>
  BY DEF Abort
<1>2. ~At("finish")
  BY <1>1 DEF At
<1>3. /\ run' \in RunRecords /\ run'.step \in {"idle", "prepare"} /\ writes' = NoWrites
      /\ run'.in = "transaction" => InnerLast(run'.body) /\ InnerLast(run'.todo)
  BY <1>1, ReturnIsTyped, RunAgainIsTyped DEF Inv
<1>4. docs \in Stock
  BY DEF Inv, Typed
<1> QED
  BY <1>1, <1>2, <1>3, <1>4, EndKeeps

LEMMA CommitKeeps ==
  ASSUME Inv, Commit
  PROVE  Inv'
<1>1. /\ run.in = "transaction" /\ run.todo = <<>>
      /\ UNCHANGED <<fresh, model, calls, given, strayed, unlucky>>
      /\ Return("nil") \/ Return("error") \/ RunAgain
      /\ Applied \/ (docs' = docs /\ TakeBack)
  BY DEF Commit
<1>2. ~At("finish")
  BY <1>1 DEF At
<1>3. /\ run' \in RunRecords /\ run'.step \in {"idle", "prepare"} /\ writes' = NoWrites
      /\ run'.in = "transaction" => InnerLast(run'.body) /\ InnerLast(run'.todo)
  BY <1>1, ReturnIsTyped, RunAgainIsTyped DEF Inv
<1>4. docs \in Stock /\ All \in Stock
  BY AfterIsStock DEF Inv, Typed, All
<1>5. Applied => docs' = All /\ UNCHANGED <<under, misled>>
  BY DEF Applied, All
<1> QED
  BY <1>1, <1>2, <1>3, <1>4, <1>5, EndKeeps

LEMMA InvNext == Inv /\ [Next]_vars => Inv'
<1> SUFFICES ASSUME Inv, [Next]_vars
             PROVE  Inv'
  OBVIOUS
<1>1. CASE UNCHANGED vars
  <2>1. UNCHANGED <<docs, writes, fresh, model, run, calls, under, given, misled, strayed, unlucky>>
    BY <1>1 DEF vars, history
  <2>2. /\ Batch' = Batch /\ All' = All /\ \A step : At(step)' = At(step)
        /\ \A k : Prepared(k)' = Prepared(k)
    BY <2>1 DEF Batch, Now, All, After, At, Prepared
  <2>3. Typed' /\ Ordered' /\ Quiet'
    BY <2>1 DEF Inv, Typed, Ordered, Quiet, Now, NoWrites
  <2>4. Ready' /\ Own' /\ Apart' /\ Rooted' /\ Finishing'
    BY <2>1, <2>2 DEF Inv, Ready, Own, Single, Apart, Rooted, Finishing
  <2>5. KnownModelsAreStored'
    BY <2>1 DEF Inv, KnownModelsAreStored, After
  <2>6. StoredModelsAreKnown'
    BY <2>1 DEF Inv, StoredModelsAreKnown, At, Prepared, Batch, Now
  <2> QED
    BY <2>3, <2>4, <2>5, <2>6 DEF Inv
<1> QED
  BY <1>1, CallsKeep, EditKeeps, BulkWriteKeeps, PrepareKeeps, InsertKeeps, FinishKeeps,
     NothingToCreateKeeps, UpdateKeeps, ReturnsKeeps, AbortKeeps, CommitKeeps DEF Next

LEMMA AlwaysInv == Spec => []Inv
BY InvInit, InvNext, PTL DEF Spec

-----------------------------------------------------------------------------
(* What a committed transaction has stored.                                *)
\* m is stored as it is, or one of the excuses of CommittedIsStored holds.
Kept(op, m) ==
  \/ model[m].id \in under[m] /\ All[model[m].id] = model[m].content
  \/ op = "Save" /\ Astray(m)
  \/ model[m].id \in strayed

\* m is about to be inserted as its hooks have left it.
Renewed(m) == At("insert") /\ m \in Prepared(Len(Batch))
Fine(op, m) == model[m].id # NoId /\ (Kept(op, m) \/ Renewed(m))

\* A model for which Save finds nothing to write is stored as it is.
Snapshots ==
  \A m \in Models : model[m].exists /\ model[m].content = model[m].original => Kept("Save", m)
Grown == \A m \in Models : model[m].original <= model[m].content

\* What is left of the callback is the end of it, and what is done is stored.
Done == Len(run.body) - Len(run.todo)
Left == Done >= 0 /\ \A k \in 1..Len(run.todo) : run.todo[k] = run.body[Done + k]
IsKept(call) ==
  \A p \in 1..Len(call.on) : call.on[p] \in Models /\ Fine(call.op, call.on[p])
DoneIsStored ==
  run.in # "nothing" /\ run.step # "failed" =>
    \A call \in Operations : (\E k \in 1..Done : call = run.body[k]) => IsKept(call)
StoredAsIs ==
  At("finish") => \A p \in 1..Len(Batch) : All[model[Batch[p]].id] = model[Batch[p]].content
Untold == run.in # "nothing" => run.told = "nothing"

More == Snapshots /\ Grown /\ Left /\ DoneIsStored /\ StoredAsIs /\ Untold

OperationNames == {"Create", "CreateMany", "Save"}

LEMMA KnownAreFound ==
  ASSUME Inv, NEW m \in Models, model[m].exists, ~Astray(m)
  PROVE  model[m].id \in under[m] /\ model[m].id \in Ids /\ All[model[m].id] # NoDoc
<1>1. model[m].id \in under[m]
  BY DEF Inv, KnownModelsAreStored, Astray
<1> QED
  BY <1>1 DEF Inv, Own, Typed

\* What is stored stays stored as long as nothing writes over it.
LEMMA KeptStays ==
  ASSUME Inv, NEW op, NEW m \in Models, Kept(op, m),
         model'[m].id = model[m].id, model'[m].content = model[m].content,
         misled \subseteq misled', strayed \subseteq strayed',
         under[m] \subseteq under'[m], given[m] \subseteq given'[m],
         \A i \in Ids : All[i] # NoDoc => All'[i] = All[i]
  PROVE  Kept(op, m)'
<1>1. CASE model[m].id \in under[m] /\ All[model[m].id] = model[m].content
  <2>1. model[m].id \in Ids /\ All[model[m].id] # NoDoc
    BY <1>1 DEF Inv, Own, Typed
  <2>2. model'[m].id \in under'[m] /\ All'[model'[m].id] = model'[m].content
    BY <1>1, <2>1
  <2> QED
    BY <2>2 DEF Kept
<1>2. CASE op = "Save" /\ Astray(m)
  BY <1>2 DEF Kept, Astray
<1>3. CASE model[m].id \in strayed
  BY <1>3 DEF Kept
<1> QED
  BY <1>1, <1>2, <1>3 DEF Kept

\* A step of a call that ends it only when its models are stored.
LEMMA CallStepKeepsMore ==
  ASSUME NEW now \in Operations, now = Now,
         Inv, More, run.in # "nothing", run.step # "failed", run.todo # <<>>, Moves,
         Snapshots', Grown', StoredAsIs',
         run'.step # "failed" =>
           \A op \in OperationNames : \A m \in Models : Fine(op, m) => Fine(op, m)',
         NextCall => IsKept(now)'
  PROVE  More'
<1>1. /\ run \in RunRecords /\ run.todo \in Seq(Operations) /\ run.body \in Seq(Operations)
      /\ Len(run.todo) \in Nat \ {0} /\ Len(run.body) \in Nat
  BY DEF Inv, Typed, RunRecords
<1>2. \A k \in 1..Len(run.body) : run.body[k] \in Operations
  BY <1>1
<1>3. Done \in Nat /\ Len(run.todo) + Done = Len(run.body)
  BY <1>1 DEF More, Left, Done
<1>4. ASSUME NEW call \in Operations, IsKept(call), run'.step # "failed"
      PROVE  IsKept(call)'
  <2>1. call.op \in OperationNames
    BY DEF Operations, OperationNames
  <2> SUFFICES ASSUME NEW p \in 1..Len(call.on)
               PROVE  call.on[p] \in Models /\ Fine(call.op, call.on[p])'
    BY DEF IsKept
  <2>2. call.on[p] \in Models /\ Fine(call.op, call.on[p])
    BY <1>4 DEF IsKept
  <2> QED
    BY <1>4, <2>1, <2>2
<1>5. run'.step # "failed" =>
        \A call \in Operations : (\E k \in 1..Done : call = run.body[k]) => IsKept(call)'
  BY <1>4 DEF More, DoneIsStored
<1>6. CASE ~NextCall
  <2>1. run'.todo = run.todo /\ run'.body = run.body /\ run'.in = run.in /\ run'.told = run.told
    BY <1>1, <1>6 DEF Moves, Goes, Fails, RunRecords
  <2>2. Left' /\ Untold' /\ Done' = Done
    BY <2>1 DEF More, Left, Untold, Done
  <2>3. DoneIsStored'
    BY <1>5, <2>1, <2>2 DEF DoneIsStored
  <2> QED
    BY <2>2, <2>3 DEF More
<1>7. CASE NextCall
  <2>1. /\ run'.todo = Tail(run.todo) /\ run'.body = run.body /\ run'.in = run.in
        /\ run'.told = run.told
    BY <1>1, <1>7 DEF NextCall, RunRecords
  <2>2. /\ Len(Tail(run.todo)) = Len(run.todo) - 1
        /\ \A k \in 1..Len(Tail(run.todo)) : Tail(run.todo)[k] = run.todo[k + 1]
        /\ now = run.todo[1]
    BY <1>1 DEF Now
  <2>3. Done' = Done + 1
    <3>1. Done' = Len(run'.body) - Len(run'.todo)
      BY DEF Done
    <3>2. Done' = Len(run.body) - (Len(run.todo) - 1)
      BY <2>1, <2>2, <3>1
    <3>3. Done = Len(run.body) - Len(run.todo)
      BY DEF Done
    <3>4. \A a, b \in Nat : a - (b - 1) = a - b + 1
      OBVIOUS
    <3> QED
      BY <1>1, <3>2, <3>3, <3>4
  <2>4. Left'
    <3> SUFFICES ASSUME NEW k \in 1..Len(Tail(run.todo))
                 PROVE  Tail(run.todo)[k] = run.body[Done + 1 + k]
      BY <1>3, <2>1, <2>3 DEF Left
    <3>1. k + 1 \in 1..Len(run.todo) /\ Done + (k + 1) = Done + 1 + k
      BY <1>1, <1>3, <2>2
    <3> QED
      BY <2>2, <3>1 DEF More, Left
  <2>5. now = run.body[Done + 1]
    <3>1. 1 \in 1..Len(run.todo)
      BY <1>1
    <3> QED
      BY <2>2, <3>1 DEF More, Left
  <2>7. DoneIsStored'
    <3> SUFFICES ASSUME NEW call \in Operations, NEW k \in 1..(Done + 1), call = run.body[k],
                        run'.step # "failed"
                 PROVE  IsKept(call)'
      BY <2>1, <2>3 DEF DoneIsStored
    <3>1. k \in 1..Done \/ k = Done + 1
      BY <1>3
    <3>2. call = now => IsKept(call)'
      BY <1>7
    <3> QED
      BY <1>5, <2>5, <3>1, <3>2
  <2> QED
    BY <2>1, <2>4, <2>7 DEF More, Untold
<1> QED
  BY <1>6, <1>7

-----------------------------------------------------------------------------
(* Each action keeps the rest.                                             *)
LEMMA MoreInit == Init => More
<1> SUFFICES ASSUME Init
             PROVE  More
  OBVIOUS
<1>1. \A m \in Models : ~model[m].exists /\ model[m].original = 0 /\ model[m].content = 1
  <2> SUFFICES ASSUME NEW m \in Models
               PROVE  ~model[m].exists /\ model[m].original = 0 /\ model[m].content = 1
    OBVIOUS
  <2>1. model[m] \in {[id |-> i, content |-> 1, exists |-> FALSE, original |-> 0] :
                        i \in {NoId} \cup 1..Given}
    BY DEF Init
  <2> QED
    BY <2>1
<1>2. /\ run.in = "nothing" /\ run.step = "idle" /\ run.body = <<>> /\ run.todo = <<>>
  BY DEF Init, Idle
<1>3. Left
  BY <1>2 DEF Left, Done
<1> QED
  BY <1>1, <1>2, <1>3 DEF More, Snapshots, Grown, DoneIsStored, StoredAsIs, Untold, At

LEMMA BeginsKeepsMore ==
  ASSUME Inv, More, NEW in, NEW body \in Seq(Operations), Begins(in, body)
  PROVE  More'
<1>1. /\ run.in = "nothing" /\ writes' = NoWrites
      /\ run' = [Idle EXCEPT !.in = in, !.body = body, !.todo = body, !.step = "prepare"]
      /\ UNCHANGED <<docs, fresh, model, under, given, misled, strayed, unlucky>>
  BY DEF Begins, history
<1>2. /\ run'.body = body /\ run'.todo = body /\ run'.told = "nothing" /\ run'.step = "prepare"
  BY <1>1 DEF Idle
<1>3. writes = NoWrites
  BY <1>1 DEF Inv, Quiet
<1>4. All' = All
  BY <1>1, <1>3 DEF All, After
<1>5. Snapshots' /\ Grown'
  BY <1>1, <1>4 DEF More, Snapshots, Grown, Kept, Astray
<1>6. Len(body) \in Nat /\ Done' = 0
  BY <1>2 DEF Done
<1>7. Left'
  BY <1>2, <1>6 DEF Left
<1> QED
  BY <1>1, <1>2, <1>5, <1>6, <1>7 DEF More, DoneIsStored, StoredAsIs, Untold, At

LEMMA CallsKeepMore ==
  ASSUME Inv, More, Call \/ Transaction
  PROVE  More'
<1>1. CASE Call
  <2>1. PICK call \in Calls : Begins("call", <<call>>)
    BY <1>1 DEF Call
  <2>2. <<call>> \in Seq(Operations)
    BY CallsAssumption
  <2> QED
    BY <2>1, <2>2, BeginsKeepsMore
<1>2. CASE Transaction
  <2>1. PICK body \in Callbacks : Begins("transaction", body)
    BY <1>2 DEF Transaction
  <2>2. body \in Seq(Operations)
    BY CallsAssumption
  <2> QED
    BY <2>1, <2>2, BeginsKeepsMore
<1> QED
  BY <1>1, <1>2

\* A model that is changed differs from its snapshot.
LEMMA EditKeepsMore ==
  ASSUME Inv, More, Edit
  PROVE  More'
<1>1. PICK e \in Models :
        model[e].content < MaxValue /\ model' = [model EXCEPT ![e].content = @ + 1]
  BY DEF Edit
<1>2. run.in = "nothing" /\ UNCHANGED <<docs, writes, fresh, run, under, given, misled, strayed, unlucky>>
  BY DEF Edit, history
<1>3. \A m \in Models : /\ model[m].content \in Nat /\ model[m].original \in Nat
                        /\ model[m].original <= model[m].content
  BY SizesAssumption DEF Inv, Typed, ModelRecords, Contents, More, Grown
<1>4. \A m \in Models : /\ model'[m].id = model[m].id
                        /\ model'[m].exists = model[m].exists
                        /\ model'[m].original = model[m].original
                        /\ model'[m].content = IF m = e THEN model[m].content + 1
                                               ELSE model[m].content
  BY <1>1, SizesAssumption DEF Inv, Typed, ModelRecords, Contents
<1>5. All' = All
  BY <1>2 DEF All, After
<1>6. Grown'
  BY <1>3, <1>4 DEF Grown
<1>7. Snapshots'
  <2> SUFFICES ASSUME NEW m \in Models, model'[m].exists, model'[m].content = model'[m].original
               PROVE  Kept("Save", m)'
    BY DEF Snapshots
  <2>1. m # e /\ model[m].content = model[m].original /\ model[m].exists
    BY <1>3, <1>4
  <2>2. Kept("Save", m)
    BY <2>1 DEF More, Snapshots
  <2> QED
    BY <1>2, <1>4, <1>5, <2>1, <2>2 DEF Kept, Astray
<1>8. Left' /\ Done' = Done
  BY <1>2 DEF More, Left, Done
<1> QED
  BY <1>2, <1>6, <1>7, <1>8 DEF More, DoneIsStored, StoredAsIs, Untold, At

LEMMA BulkWriteKeepsMore ==
  ASSUME Inv, More, BulkWrite
  PROVE  More'
<1>1. PICK i \in 1..Given : docs[i] = NoDoc /\ docs' = [docs EXCEPT ![i] = 1]
  BY DEF BulkWrite
<1>2. /\ run.in = "nothing" /\ UNCHANGED <<writes, fresh, model, run, under, given, misled, strayed, unlucky>>
  BY DEF BulkWrite, history
<1>3. docs \in Stock /\ docs' \in Stock /\ writes = NoWrites /\ writes' = NoWrites
  BY <1>1, <1>2, SizesAssumption DEF Inv, Typed, Quiet, Stock, Contents, Ids, NoWrites
<1>4. All = docs /\ All' = docs'
  <2>1. All' = After(docs', NoWrites)
    BY <1>3 DEF All, After
  <2> QED
    BY <1>3, <2>1, AfterNothing DEF All
<1>5. \A j \in Ids : All[j] # NoDoc => All'[j] = All[j]
  BY <1>1, <1>3, <1>4 DEF Stock
<1>6. Grown'
  BY <1>2 DEF More, Grown
<1>7. Snapshots'
  <2> SUFFICES ASSUME NEW m \in Models, model[m].exists, model[m].content = model[m].original
               PROVE  Kept("Save", m)'
    BY <1>2 DEF Snapshots
  <2>1. Kept("Save", m)
    BY DEF More, Snapshots
  <2> QED
    BY <1>2, <1>5, <2>1, KeptStays
<1>8. Left' /\ Done' = Done
  BY <1>2 DEF More, Left, Done
<1> QED
  BY <1>2, <1>6, <1>7, <1>8 DEF More, DoneIsStored, StoredAsIs, Untold, At

\* What stays kept when a step of a call changes no content and overwrites
\* nothing.
LEMMA StepStays ==
  ASSUME Inv, UNCHANGED <<given, misled, strayed>>,
         \A n \in Models : model'[n].content = model[n].content /\ model'[n].id = model[n].id,
         \A n \in Models : under[n] \subseteq under'[n],
         \A i \in Ids : All[i] # NoDoc => All'[i] = All[i]
  PROVE  \A op, m : m \in Models /\ Kept(op, m) => Kept(op, m)'
BY KeptStays

LEMMA TailIsShorter ==
  ASSUME NEW s \in Seq(Operations), s # <<>>
  PROVE  Tail(s) # s
<1>1. Len(Tail(s)) = Len(s) - 1 /\ Len(s) \in Nat
  OBVIOUS
<1>2. \A x \in Nat : x - 1 # x
  OBVIOUS
<1>3. Len(Tail(s)) # Len(s)
  BY <1>1, <1>2, Zenon
<1> QED
  BY <1>3, Zenon

\* Only a model that is astray already gets another _id while it is known.
LEMMA RenamedKeepsSnapshot ==
  ASSUME Inv, More, Prepare, NEW m \in Models, model'[m].exists,
         model'[m].content = model'[m].original
  PROVE  Kept("Save", m)'
<1>1. /\ UNCHANGED <<docs, writes, under, misled, strayed>>
      /\ model'[m].exists = model[m].exists /\ model'[m].original = model[m].original
      /\ model'[m].content \in {model[m].content, model[m].content + 1}
      /\ Renamed(m)
  BY PrepareDoes DEF Inv
<1>2. model[m].content \in Nat /\ model[m].original \in Nat
      /\ model[m].original <= model[m].content /\ model[m].exists
  BY <1>1, SizesAssumption DEF Inv, Typed, ModelRecords, Contents, More, Grown
<1>3. model[m].content = model[m].original /\ model'[m].content = model[m].content
  BY <1>1, <1>2
<1>4. Kept("Save", m)
  BY <1>2, <1>3 DEF More, Snapshots
<1>5. given[m] \subseteq given'[m] /\ All' = All
  BY <1>1 DEF Renamed, All, After
<1>6. CASE m \in misled \/ given'[m] # {}
  BY <1>1, <1>6 DEF Kept, Astray
<1>7. CASE m \notin misled /\ given'[m] = {}
  <2>1. model'[m].id = model[m].id \/ model'[m].id \in under[m]
    BY <1>1, <1>2, <1>7, RenamedKeeps
  <2>2. given[m] = {} /\ Single(m) /\ model[m].id \in under[m]
    BY <1>2, <1>5, <1>7, KnownAreFound DEF Inv, Own, Astray
  <2>3. model'[m].id = model[m].id
    BY <2>1, <2>2 DEF Single
  <2> QED
    BY <1>1, <1>3, <1>4, <1>5, <2>3, KeptStays
<1> QED
  BY <1>6, <1>7

LEMMA PrepareKeepsMore ==
  ASSUME Inv, More, Prepare
  PROVE  More'
<1>1. Typed
  BY DEF Inv
<1>2. /\ run.in # "nothing" /\ run.todo # <<>> /\ run.step = "prepare"
      /\ UNCHANGED <<docs, writes, under, misled, strayed>>
      /\ \A m \in Models :
           /\ model'[m].exists = model[m].exists /\ model'[m].original = model[m].original
           /\ model'[m].content \in {model[m].content, model[m].content + 1}
           /\ m \notin Prepared(Len(Batch)) =>
                /\ model'[m].id = model[m].id /\ model'[m].content = model[m].content
                /\ given'[m] = given[m]
      /\ \/ /\ Goes("insert")
            /\ \A p \in 1..Len(Batch) : Batch[p] \in Models /\ model'[Batch[p]].id # NoId
         \/ Fails("nil") \/ Fails("hook")
  BY <1>1, PrepareDoes
<1>3. /\ Moves /\ ~NextCall /\ run'.todo = run.todo /\ run'.in = run.in
      /\ \/ run'.step = "failed"
         \/ /\ run'.step = "insert"
            /\ \A p \in 1..Len(Batch) : Batch[p] \in Models /\ model'[Batch[p]].id # NoId
  <2>1. run \in RunRecords /\ run.todo \in Seq(Operations)
    BY <1>1 DEF Typed, RunRecords
  <2>2. Goes("insert") => run'.todo = run.todo /\ run'.step = "insert" /\ run'.in = run.in
    BY <2>1 DEF Goes, RunRecords
  <2>3. \A error : Fails(error) =>
          run'.todo = run.todo /\ run'.step = "failed" /\ run'.in = run.in
    BY <2>1 DEF Fails, RunRecords
  <2>4. NextCall => run'.todo = Tail(run.todo)
    BY <2>1 DEF NextCall, RunRecords
  <2>5. Tail(run.todo) # run.todo
    BY <1>2, <2>1, TailIsShorter
  <2>6. Moves
    BY <1>2 DEF Moves
  <2> QED
    BY <1>2, <2>2, <2>3, <2>4, <2>5, <2>6
<1>4. All' = All /\ Batch' = Batch
  BY <1>2, <1>3 DEF All, After, Batch, Now
<1>5. ASSUME run'.step # "failed", NEW op \in OperationNames, NEW m \in Models, Fine(op, m)
      PROVE  Fine(op, m)'
  <2>1. Kept(op, m) /\ model[m].id # NoId
    BY <1>2, <1>5 DEF Fine, Renewed, At
  <2>2. CASE m \in Prepared(Len(Batch))
    <3>1. PICK p \in 1..Len(Batch) : m = Batch[p]
      BY <2>2 DEF Prepared
    <3>2. Renewed(m)'
      BY <1>2, <1>3, <1>4, <1>5, <2>2 DEF Renewed, At, Prepared
    <3> QED
      BY <1>3, <1>5, <3>1, <3>2 DEF Fine
  <2>3. CASE m \notin Prepared(Len(Batch))
    <3>1. Kept(op, m)'
      BY <1>2, <1>4, <2>1, <2>3, KeptStays
    <3> QED
      BY <1>2, <2>1, <2>3, <3>1 DEF Fine
  <2> QED
    BY <2>2, <2>3
<1>6. Grown'
  <2>1. \A m \in Models : model[m].content \in Nat /\ model[m].original \in Nat
    BY <1>1, SizesAssumption DEF Typed, ModelRecords, Contents
  <2> QED
    BY <1>2, <2>1 DEF More, Grown
<1>7. Snapshots'
  BY RenamedKeepsSnapshot DEF Snapshots
<1>8. StoredAsIs'
  BY <1>3 DEF StoredAsIs, At
<1>9. Now \in Operations
  BY <1>1, <1>2, BatchIsTyped
<1> QED
  BY <1>2, <1>3, <1>5, <1>6, <1>7, <1>8, <1>9, CallStepKeepsMore

\* An insert writes over nothing, and stores the models as they are.
LEMMA InsertKeepsMore ==
  ASSUME Inv, More, Insert
  PROVE  More'
<1>1. At("insert") /\ UNCHANGED <<fresh, model, calls, given, misled, strayed>>
  BY DEF Insert
<1>2. PICK places \in SUBSET Storable :
        /\ Inserted(places)
        /\ \/ places = Storable /\ StoredAll /\ Goes("finish")
           \/ \E error \in {"duplicate", "transient"} : Fails(error)
  BY DEF Insert
<1>3. run.todo # <<>> /\ run.in # "nothing" /\ Typed /\ Quiet /\ Ready
  BY <1>1 DEF At, Inv
<1> DEFINE new == [i \in Ids |->
             IF i \in IdsAt(places)
             THEN model[Batch[CHOOSE p \in places : IdAt(p) = i]].content ELSE NoDoc]
<1>4. /\ places \subseteq 1..Len(Batch)
      /\ \A p \in places : Batch[p] \in Models /\ IdAt(p) \in Ids /\ All[IdAt(p)] = NoDoc
      /\ \A p, q \in places : IdAt(p) = IdAt(q) => p = q
  BY <1>1, StorableIsFree
<1>5. ASSUME NEW p \in places
      PROVE  new[IdAt(p)] = model[Batch[p]].content /\ new[IdAt(p)] # NoDoc
  <2>1. IdAt(p) \in IdsAt(places) /\ IdAt(p) \in Ids
    BY <1>4 DEF IdsAt
  <2>2. p = CHOOSE q \in places : IdAt(q) = IdAt(p)
    BY <1>4
  <2>3. model[Batch[p]] \in ModelRecords
    BY <1>3, <1>4 DEF Typed
  <2> QED
    BY <2>1, <2>2, <2>3, NamesAssumption DEF ModelRecords
<1>6. \A i \in Ids : new[i] # NoDoc => \E p \in places : i = IdAt(p)
  BY DEF IdsAt
<1>7. new \in Stock
  <2>1. \A i \in Ids : new[i] \in Contents \cup {NoDoc}
    <3> SUFFICES ASSUME NEW i \in Ids, new[i] # NoDoc
                 PROVE  new[i] \in Contents
      OBVIOUS
    <3>1. PICK p \in places : i = IdAt(p)
      BY <1>6
    <3>2. model[Batch[p]] \in ModelRecords
      BY <1>3, <1>4 DEF Typed
    <3>3. new[IdAt(p)] = model[Batch[p]].content /\ model[Batch[p]].content \in Contents
      BY <1>5, <3>2 DEF ModelRecords
    <3> HIDE DEF new
    <3> QED
      BY <3>1, <3>3
  <2> QED
    BY <2>1 DEF Stock
<1>8. Stores(new)
  BY <1>2 DEF Inserted
<1> HIDE DEF new
<1>9. All' = After(All, new) /\ All \in Stock
  BY <1>3, <1>7, <1>8, StoresAdds, AfterIsStock DEF All, Typed
<1>10. \A i \in Ids : All'[i] = IF new[i] = NoDoc THEN All[i] ELSE new[i]
  BY <1>7, <1>9, AfterIsStock
<1>11. \A i \in Ids : All[i] # NoDoc => All'[i] = All[i]
  BY <1>4, <1>6, <1>10
<1>12. \A p \in places : All'[IdAt(p)] = model[Batch[p]].content
  BY <1>4, <1>5, <1>10
<1>13. \A m \in Models : under[m] \subseteq under'[m]
  BY <1>1, <1>2, InsertedKeeps
<1>14. \A op, m : m \in Models /\ Kept(op, m) => Kept(op, m)'
  BY <1>1, <1>11, <1>13, StepStays
<1>15. /\ Moves /\ ~NextCall /\ run'.todo = run.todo
       /\ run'.in = run.in /\ run'.step \in {"finish", "failed"}
       /\ run'.step = "finish" => places = Storable /\ StoredAll
  <2>1. run \in RunRecords /\ run.todo \in Seq(Operations)
    BY <1>3 DEF Typed, RunRecords
  <2>2. Goes("finish") => run'.todo = run.todo /\ run'.step = "finish" /\ run'.in = run.in
    BY <2>1 DEF Goes, RunRecords
  <2>3. \A error : Fails(error) =>
          run'.todo = run.todo /\ run'.step = "failed" /\ run'.in = run.in
    BY <2>1 DEF Fails, RunRecords
  <2>4. NextCall => run'.todo = Tail(run.todo)
    BY <2>1 DEF NextCall, RunRecords
  <2>5. Tail(run.todo) # run.todo
    BY <1>3, <2>1, TailIsShorter
  <2> QED
    BY <1>2, <2>2, <2>3, <2>4, <2>5 DEF Moves
<1>16. Grown'
  BY <1>1 DEF More, Grown
<1>17. Snapshots'
  <2> SUFFICES ASSUME NEW m \in Models, model[m].exists, model[m].content = model[m].original
               PROVE  Kept("Save", m)'
    BY <1>1 DEF Snapshots
  <2>1. Kept("Save", m)
    BY DEF More, Snapshots
  <2> QED
    BY <1>14, <2>1
<1>18. StoredAsIs'
  <2> SUFFICES ASSUME run'.step = "finish", NEW p \in 1..Len(Batch)
               PROVE  All'[model[Batch[p]].id] = model[Batch[p]].content
    BY <1>1, <1>15 DEF StoredAsIs, At, Batch, Now
  <2>1. p \in places
    BY <1>3, <1>15, BatchIsTyped DEF StoredAll
  <2> QED
    BY <1>12, <2>1 DEF IdAt
<1>19. Now \in Operations
  BY <1>3, BatchIsTyped
<1>20. ASSUME run'.step # "failed", NEW op \in OperationNames, NEW m \in Models, Fine(op, m)
       PROVE  Fine(op, m)'
  <2>1. CASE Kept(op, m)
    BY <1>1, <1>14, <1>20, <2>1 DEF Fine
  <2>2. CASE Renewed(m)
    <3>1. PICK p \in 1..Len(Batch) : m = Batch[p]
      BY <2>2 DEF Renewed, Prepared
    <3>2. Batch' = Batch /\ At("finish")'
      BY <1>3, <1>15, <1>20 DEF Batch, Now, At
    <3>3. Finishing'
      BY InsertKeeps DEF Inv
    <3>4. model[m].id \in under'[m] /\ All'[model[m].id] = model[m].content
      BY <1>1, <1>18, <3>1, <3>2, <3>3 DEF Finishing, StoredAsIs
    <3> QED
      BY <1>1, <1>20, <3>4 DEF Fine, Kept
  <2> QED
    BY <1>20, <2>1, <2>2 DEF Fine
<1>21. run.step # "failed"
  BY <1>1 DEF At
<1> QED
  BY <1>3, <1>15, <1>16, <1>17, <1>18, <1>19, <1>20, <1>21, CallStepKeepsMore

\* Snapshots are taken of models that are stored as they are.
LEMMA FinishKeepsMore ==
  ASSUME Inv, More, Finish
  PROVE  More'
<1>1. At("finish") /\ UNCHANGED <<docs, writes, fresh, calls, under, given, misled, strayed>>
  BY DEF Finish
<1>2. PICK k \in 0..Len(Batch) :
        IF k = Len(Batch) THEN Known(Prepared(k)) /\ NextCall
        ELSE Known(Prepared(k + 1)) /\ Fails("hook")
  BY DEF Finish
<1>3. /\ run.in # "nothing" /\ run.todo # <<>> /\ Typed
  BY <1>1 DEF At, Inv
<1>4. Len(Batch) \in Nat
  BY <1>3, BatchIsTyped
<1>5. PICK n \in 0..Len(Batch) : Known(Prepared(n))
  <2>1. CASE k = Len(Batch)
    BY <1>2, <2>1
  <2>2. CASE k # Len(Batch)
    <3>1. k + 1 \in 0..Len(Batch)
      BY <1>4, <2>2
    <3> QED
      BY <1>2, <2>2, <3>1
  <2> QED
    BY <2>1, <2>2
<1>6. \A p \in 1..Len(Batch) :
        /\ Batch[p] \in Models /\ model[Batch[p]].id # NoId
        /\ model[Batch[p]].id \in under[Batch[p]]
        /\ All[model[Batch[p]].id] = model[Batch[p]].content
  BY <1>1 DEF Inv, Ready, Finishing, More, StoredAsIs
<1>7. \A m \in Prepared(n) : \E p \in 1..Len(Batch) : Batch[p] = m
  BY <1>4 DEF Prepared
<1>8. \A m \in Models :
        /\ model'[m].id = model[m].id /\ model'[m].content = model[m].content
        /\ m \notin Prepared(n) => model'[m] = model[m]
        /\ m \in Prepared(n) => model'[m].original = model[m].content
  BY <1>3, <1>5, <1>6, <1>7, KnownIsTyped
<1>9. \A m \in Models : model'[m].id = model[m].id /\ model'[m].content = model[m].content
  BY <1>8
<1>10. All' = All
  BY <1>1 DEF All, After
<1>11. \A op, m : m \in Models /\ Kept(op, m) => Kept(op, m)'
  BY <1>1, <1>9, <1>10, StepStays
<1>12. Grown'
  <2> SUFFICES ASSUME NEW m \in Models
               PROVE  model'[m].original <= model'[m].content
    BY DEF Grown
  <2>1. model[m].content \in Nat
    BY <1>3, SizesAssumption DEF Typed, ModelRecords, Contents
  <2> QED
    BY <1>8, <1>9, <2>1 DEF More, Grown
<1>13. Snapshots'
  <2> SUFFICES ASSUME NEW m \in Models, model'[m].exists, model'[m].content = model'[m].original
               PROVE  Kept("Save", m)
    BY <1>11 DEF Snapshots
  <2>1. CASE m \in Prepared(n)
    BY <1>6, <1>7, <2>1 DEF Kept
  <2>2. CASE m \notin Prepared(n)
    BY <1>8, <2>2 DEF More, Snapshots
  <2> QED
    BY <2>1, <2>2
<1>14. Moves /\ run'.step \in {"prepare", "failed"}
  BY <1>2, <1>3, MoveSteps DEF Moves
<1>15. StoredAsIs'
  BY <1>14 DEF StoredAsIs, At
<1>16. PICK now : now = Now
  OBVIOUS
<1>17. now \in Operations
  BY <1>3, <1>16, BatchIsTyped
<1>18. IsKept(now)'
  <2> SUFFICES ASSUME NEW p \in 1..Len(now.on)
               PROVE  now.on[p] \in Models /\ Fine(now.op, now.on[p])'
    BY DEF IsKept
  <2>1. /\ now.on[p] \in Models /\ model[now.on[p]].id # NoId /\ Kept(now.op, now.on[p])
    BY <1>6, <1>16 DEF Batch, Kept
  <2> QED
    BY <1>9, <1>11, <2>1 DEF Fine
<1>19. \A op \in OperationNames : \A m \in Models : Fine(op, m) => Fine(op, m)'
  BY <1>1, <1>9, <1>11 DEF Fine, Renewed, At
<1>20. run.step # "failed"
  BY <1>1 DEF At
<1> QED
  BY <1>3, <1>12, <1>13, <1>14, <1>15, <1>16, <1>17, <1>18, <1>19, <1>20, CallStepKeepsMore

LEMMA NothingToCreateKeepsMore ==
  ASSUME Inv, More, NothingToCreate
  PROVE  More'
<1>1. /\ run.in # "nothing" /\ run.todo # <<>> /\ run.step = "prepare" /\ Batch = <<>>
      /\ NextCall /\ UNCHANGED <<docs, writes, fresh, model, calls, under, given, misled, strayed, unlucky>>
  BY DEF NothingToCreate, At, history
<1>2. Typed
  BY DEF Inv
<1>3. Moves /\ run'.step = "prepare"
  BY <1>1, <1>2, MoveSteps DEF Moves
<1>4. All' = All
  BY <1>1 DEF All, After
<1>5. \A op, m : m \in Models /\ Kept(op, m) => Kept(op, m)'
  BY <1>1, <1>4, StepStays
<1>6. Snapshots' /\ Grown' /\ StoredAsIs'
  BY <1>1, <1>3, <1>5 DEF More, Snapshots, Grown, StoredAsIs, At
<1>7. PICK now : now = Now
  OBVIOUS
<1>8. now \in Operations /\ now.on = <<>>
  BY <1>1, <1>2, <1>7, BatchIsTyped DEF Batch
<1>9. IsKept(now)'
  BY <1>8 DEF IsKept
<1>10. \A op \in OperationNames : \A m \in Models : Fine(op, m) => Fine(op, m)'
  BY <1>1, <1>5 DEF Fine, Renewed, At
<1> QED
  BY <1>1, <1>3, <1>6, <1>7, <1>8, <1>9, <1>10, CallStepKeepsMore

\* An update writes over one document, which is another model's too only if
\* the one that is saved was led astray.
LEMMA UpdateKeepsMore ==
  ASSUME Inv, More, Update
  PROVE  More'
<1>1. /\ run.in # "nothing" /\ run.todo # <<>> /\ run.step = "prepare"
      /\ Batch # <<>> /\ Batch[1] # Nil /\ ~Inserts(Batch[1])
      /\ UNCHANGED <<fresh, calls, under, given, misled, unlucky>>
  BY DEF Update, At
<1>2. /\ Typed /\ Quiet /\ docs \in Stock /\ writes \in Stock
      /\ model \in [Models -> ModelRecords]
  BY DEF Inv, Typed
<1>3. PICK now : now = Now
  OBVIOUS
<1>4. now \in Operations /\ now.on = Batch /\ Batch \in Seq(Models \cup {Nil})
  BY <1>1, <1>2, <1>3, BatchIsTyped DEF Batch
<1>5. PICK m \in Models : m = Batch[1]
  BY <1>1, <1>4
<1>6. now.op = "Save" /\ model[m].exists /\ Len(now.on) = 1 /\ now.on[1] = m
  BY <1>1, <1>3, <1>4, <1>5 DEF Inserts, Operations
<1>7. model[m] \in ModelRecords /\ model[m].id # NoId
  BY <1>2, <1>6 DEF Typed
<1> DEFINE i == model[m].id
           new == [NoWrites EXCEPT ![i] = model[m].content]
           Written == IF Seen[i] = NoDoc THEN UNCHANGED <<docs, writes, strayed>>
                      ELSE /\ Stores(new)
                           /\ strayed' = strayed \cup {j \in {i} : Astray(m)}
<1>8. \/ /\ model[m].content = model[m].original
         /\ NextCall /\ UNCHANGED <<docs, writes, model, strayed>>
      \/ Written /\ Known({m}) /\ NextCall
      \/ /\ Written \/ UNCHANGED <<docs, writes, strayed>>
         /\ model' = model /\ (Fails("hook") \/ Fails("transient"))
  BY <1>5 DEF Update
<1>9. i \in Ids /\ model[m].content \in Contents
  BY <1>7 DEF ModelRecords
<1>10. new \in Stock
  BY <1>9, NoWritesIsStock DEF Stock
<1>11. \A j \in Ids : new[j] = IF j = i THEN model[m].content ELSE NoDoc
  BY <1>9 DEF NoWrites
<1>12. Seen = All /\ All \in Stock
  BY <1>1, <1>2, SeenIsAll, AfterIsStock DEF All
<1>13. UNCHANGED <<docs, writes>> => All' = All
  BY DEF All, After
<1> HIDE DEF new
<1>14. Stores(new) => \A j \in Ids : All'[j] = IF j = i THEN model[m].content ELSE All[j]
  <2> SUFFICES ASSUME Stores(new)
               PROVE  \A j \in Ids : All'[j] = IF j = i THEN model[m].content ELSE All[j]
    OBVIOUS
  <2>1. All' = After(All, new)
    BY <1>1, <1>2, <1>10, StoresAdds
  <2>2. \A j \in Ids : All'[j] = IF new[j] = NoDoc THEN All[j] ELSE new[j]
    BY <1>10, <1>12, <2>1, AfterIsStock
  <2> QED
    BY <1>9, <1>11, <2>2, NamesAssumption
<1>15. /\ \A j \in Ids : j # i => All'[j] = All[j]
       /\ \/ All'[i] = All[i]
          \/ All'[i] = model[m].content /\ (Astray(m) => i \in strayed')
       /\ strayed \subseteq strayed'
  BY <1>8, <1>9, <1>13, <1>14
<1>16. Written /\ All[i] # NoDoc => All'[i] = model[m].content
  BY <1>9, <1>12, <1>14
<1> HIDE DEF Written
<1>17. \A n \in Models :
         /\ model'[n].id = model[n].id /\ model'[n].content = model[n].content
         /\ \/ model'[n] = model[n]
            \/ n = m /\ Known({m}) /\ model'[n].original = model[n].content
  <2>1. CASE model' = model
    BY <2>1
  <2>2. CASE Known({m})
    <3>1. \A n \in Models \cap {m} : model[n].id # NoId
      BY <1>7
    <3> QED
      BY <1>2, <2>2, <3>1, KnownIsTyped
  <2> QED
    BY <1>8, <2>1, <2>2
<1>18. ~Astray(m) => i \in under[m] /\ All[i] # NoDoc
  BY <1>6, KnownAreFound
<1>19. ASSUME NEW op, NEW n \in Models, Kept(op, n)
       PROVE  Kept(op, n)'
  <2>1. CASE model[n].id \in under[n] /\ All[model[n].id] = model[n].content
    <3>1. model[n].id \in Ids
      BY <1>2, <2>1 DEF Typed
    <3>2. CASE model[n].id # i \/ All'[i] = All[i]
      <4>1. All'[model'[n].id] = model'[n].content
        BY <1>15, <1>17, <2>1, <3>1, <3>2
      <4> QED
        BY <1>1, <1>17, <2>1, <4>1 DEF Kept
    <3>3. CASE n = m /\ All'[i] # All[i]
      <4>1. All'[model'[n].id] = model'[n].content
        BY <1>15, <1>17, <3>3
      <4> QED
        BY <1>1, <1>17, <2>1, <4>1 DEF Kept
    <3>4. CASE model[n].id = i /\ n # m /\ All'[i] # All[i]
      <4>1. i \notin under[m]
        BY <2>1, <3>4 DEF Inv, Apart
      <4>2. i \in strayed'
        BY <1>15, <1>18, <3>4, <4>1
      <4> QED
        BY <1>17, <3>4, <4>2 DEF Kept
    <3> QED
      BY <3>2, <3>3, <3>4
  <2>2. CASE op = "Save" /\ Astray(n)
    BY <1>1, <2>2 DEF Kept, Astray
  <2>3. CASE model[n].id \in strayed
    BY <1>15, <1>17, <2>3 DEF Kept
  <2> QED
    BY <1>19, <2>1, <2>2, <2>3 DEF Kept
<1>20. Written /\ Known({m}) => Kept("Save", m)'
  <2> SUFFICES ASSUME Written
               PROVE  Kept("Save", m)'
    OBVIOUS
  <2>1. CASE Astray(m)
    BY <1>1, <2>1 DEF Kept, Astray
  <2>2. CASE ~Astray(m)
    <3>1. All'[model'[m].id] = model'[m].content /\ model'[m].id \in under'[m]
      BY <1>1, <1>16, <1>17, <1>18, <2>2
    <3> QED
      BY <3>1 DEF Kept
  <2> QED
    BY <2>1, <2>2
<1>21. model[m].content = model[m].original => Kept("Save", m)'
  BY <1>6, <1>19 DEF More, Snapshots
<1>22. Snapshots'
  <2> SUFFICES ASSUME NEW n \in Models, model'[n].exists, model'[n].content = model'[n].original
               PROVE  Kept("Save", n)'
    BY DEF Snapshots
  <2>1. CASE model'[n] = model[n]
    <3>1. Kept("Save", n)
      BY <2>1 DEF More, Snapshots
    <3> QED
      BY <1>19, <3>1
  <2>2. CASE n = m /\ model'[n] # model[n]
    <3>1. Written
      BY <1>7, <1>8, <2>2
    <3> QED
      BY <1>17, <1>20, <2>2, <3>1
  <2> QED
    BY <1>17, <2>1, <2>2
<1>23. Grown'
  <2> SUFFICES ASSUME NEW n \in Models
               PROVE  model'[n].original <= model'[n].content
    BY DEF Grown
  <2>1. model[n].content \in Nat
    BY <1>2, SizesAssumption DEF ModelRecords, Contents
  <2> QED
    BY <1>17, <2>1 DEF More, Grown
<1>24. Moves /\ run'.step \in {"prepare", "failed"} /\ (NextCall => run'.step = "prepare")
  BY <1>2, <1>8, MoveSteps DEF Moves
<1>25. StoredAsIs'
  BY <1>24 DEF StoredAsIs, At
<1>26. NextCall => Kept("Save", m)'
  <2>1. Fails("hook") \/ Fails("transient") => run'.step = "failed"
    BY <1>2, MoveSteps
  <2> QED
    BY <1>8, <1>20, <1>21, <1>24, <2>1
<1>27. NextCall => IsKept(now)'
  <2> SUFFICES ASSUME NextCall, NEW p \in 1..Len(now.on)
               PROVE  now.on[p] \in Models /\ Fine(now.op, now.on[p])'
    BY DEF IsKept
  <2>1. p = 1
    BY <1>6
  <2> QED
    BY <1>6, <1>7, <1>17, <1>26, <2>1 DEF Fine
<1>28. \A op \in OperationNames : \A n \in Models : Fine(op, n) => Fine(op, n)'
  BY <1>1, <1>17, <1>19 DEF Fine, Renewed, At
<1> QED
  BY <1>1, <1>3, <1>4, <1>22, <1>23, <1>24, <1>25, <1>27, <1>28, CallStepKeepsMore

LEMMA ReturnEnds ==
  ASSUME NEW told \in {"nil", "error"}, Return(told)
  PROVE  /\ Left' /\ Done' = 0 /\ Untold' /\ run'.step = "idle" /\ run'.told = told
<1>1. /\ run'.in = "nothing" /\ run'.step = "idle" /\ run'.told = told
      /\ run'.todo = <<>> /\ run'.body = <<>>
  BY DEF Return, Idle
<1> QED
  BY <1>1 DEF Left, Done, Untold

LEMMA RunAgainEnds ==
  ASSUME Typed, Untold, run.in = "transaction", RunAgain
  PROVE  /\ Left' /\ Done' = 0 /\ Untold' /\ run'.step = "prepare" /\ run'.told # "nil"
<1>1. run \in RunRecords /\ Len(run.body) \in Nat /\ run.told = "nothing"
  BY DEF Typed, RunRecords, Untold
<1>2. /\ run'.told = "nothing" /\ run'.step = "prepare"
      /\ run'.todo = run.body /\ run'.body = run.body
  BY <1>1 DEF RunAgain, RunRecords
<1>3. Done' = 0
  BY <1>1, <1>2 DEF Done
<1> QED
  BY <1>1, <1>2, <1>3 DEF Left, Untold

\* Snapshots of models whose documents are taken back are known to mislead.
LEMMA EndKeepsMore ==
  ASSUME Inv, More, writes' = NoWrites, docs' \in Stock, run'.step \in {"idle", "prepare"},
         Left', Done' = 0, Untold', UNCHANGED <<model, given, strayed>>,
         \/ docs' = All /\ UNCHANGED <<under, misled>>
         \/ docs' = docs /\ TakeBack
  PROVE  More'
<1>1. Typed /\ docs \in Stock /\ writes \in Stock
  BY DEF Inv, Typed
<1>2. All' = docs'
  <2>1. All' = After(docs', NoWrites)
    BY DEF All, After
  <2> QED
    BY <2>1, AfterNothing
<1>3. misled \subseteq misled'
  BY DEF TakeBack
<1>4. Grown'
  BY DEF More, Grown
<1>5. Snapshots'
  <2> SUFFICES ASSUME NEW m \in Models, model[m].exists, model[m].content = model[m].original
               PROVE  Kept("Save", m)'
    BY DEF Snapshots
  <2>1. Kept("Save", m)
    BY DEF More, Snapshots
  <2>2. CASE Astray(m)
    BY <1>3, <2>2 DEF Kept, Astray
  <2>3. CASE model[m].id \in strayed
    BY <2>3 DEF Kept
  <2>4. CASE model[m].id \in under[m] /\ All[model[m].id] = model[m].content
    <3>1. model[m].id \in Ids /\ model[m].content # NoDoc
      BY <1>1, <2>4, NamesAssumption DEF Typed, ModelRecords
    <3>2. CASE docs' = All /\ UNCHANGED <<under, misled>>
      BY <1>2, <2>4, <3>2 DEF Kept
    <3>3. CASE docs' = docs /\ TakeBack
      <4>1. CASE docs[model[m].id] = model[m].content
        <5>1. model[m].id \in under'[m]
          BY <2>4, <3>1, <3>3, <4>1 DEF TakeBack
        <5> QED
          BY <1>2, <3>3, <4>1, <5>1 DEF Kept
      <4>2. CASE docs[model[m].id] # model[m].content
        <5>1. writes[model[m].id] # NoDoc
          BY <1>1, <2>4, <3>1, <4>2, AfterIsStock DEF All
        <5>2. m \in misled'
          BY <3>3, <4>2, <5>1 DEF TakeBack
        <5> QED
          BY <5>2 DEF Kept, Astray
      <4> QED
        BY <4>1, <4>2
    <3> QED
      BY <3>2, <3>3
  <2> QED
    BY <2>1, <2>2, <2>3, <2>4 DEF Kept
<1>6. DoneIsStored' /\ StoredAsIs'
  BY DEF DoneIsStored, StoredAsIs, At
<1> QED
  BY <1>4, <1>5, <1>6 DEF More

LEMMA ReturnsKeepsMore ==
  ASSUME Inv, More, Returns
  PROVE  More'
<1>1. /\ run.in = "call" /\ UNCHANGED <<docs, fresh, model, calls, under, given, misled, strayed, unlucky>>
      /\ Return("error") \/ Return("nil")
  BY DEF Returns, history
<1>2. docs \in Stock /\ writes = NoWrites /\ writes' = NoWrites
  BY <1>1 DEF Inv, Typed, Quiet, Return
<1>3. All = docs
  BY <1>2, AfterNothing DEF All
<1>4. Left' /\ Done' = 0 /\ Untold' /\ run'.step = "idle"
  BY <1>1, ReturnEnds
<1> QED
  BY <1>1, <1>2, <1>3, <1>4, EndKeepsMore

LEMMA AbortKeepsMore ==
  ASSUME Inv, More, Abort
  PROVE  More' /\ run'.told # "nil"
<1>1. /\ run.in = "transaction" /\ TakeBack
      /\ Return("error") \/ RunAgain
      /\ UNCHANGED <<docs, fresh, model, calls, given, strayed, unlucky>>
  BY DEF Abort
<1>2. docs \in Stock /\ writes' = NoWrites
  BY <1>1 DEF Inv, Typed, Return, RunAgain
<1>3. /\ Left' /\ Done' = 0 /\ Untold' /\ run'.step \in {"idle", "prepare"}
      /\ run'.told # "nil"
  BY <1>1, ReturnEnds, RunAgainEnds DEF Inv, More
<1> QED
  BY <1>1, <1>2, <1>3, EndKeepsMore

LEMMA CommitKeepsMore ==
  ASSUME Inv, More, Commit
  PROVE  More' /\ (run'.told = "nil" => docs' = All)
<1>1. /\ run.in = "transaction" /\ run.todo = <<>>
      /\ UNCHANGED <<fresh, model, calls, given, strayed, unlucky>>
      /\ \/ Applied /\ (Return("nil") \/ Return("error"))
         \/ UNCHANGED docs /\ TakeBack /\ (Return("error") \/ RunAgain)
  BY DEF Commit
<1>2. docs \in Stock /\ All \in Stock /\ writes' = NoWrites
  BY <1>1, AfterIsStock DEF Inv, Typed, All, Return, RunAgain
<1>3. /\ Left' /\ Done' = 0 /\ Untold' /\ run'.step \in {"idle", "prepare"}
      /\ run'.told = "nil" => Applied
  BY <1>1, ReturnEnds, RunAgainEnds DEF Inv, More
<1>4. Applied => docs' = All /\ UNCHANGED <<under, misled>>
  BY DEF Applied, All
<1> QED
  BY <1>1, <1>2, <1>3, <1>4, EndKeepsMore

LEMMA MoreNext == Inv /\ More /\ [Next]_vars => More'
<1> SUFFICES ASSUME Inv, More, [Next]_vars
             PROVE  More'
  OBVIOUS
<1>1. CASE UNCHANGED vars
  <2>1. UNCHANGED <<docs, writes, fresh, model, run, calls, under, given, misled, strayed, unlucky>>
    BY <1>1 DEF vars, history
  <2>2. All' = All /\ Done' = Done
    BY <2>1 DEF All, After, Done
  <2>3. Snapshots' /\ Grown' /\ Left' /\ Untold'
    BY <2>1, <2>2 DEF More, Snapshots, Grown, Left, Untold, Kept, Astray
  <2>4. Batch' = Batch /\ At("insert")' = At("insert") /\ At("finish")' = At("finish")
    BY <2>1 DEF At, Batch, Now
  <2>5. \A op, m : Fine(op, m) => Fine(op, m)'
    BY <2>1, <2>2, <2>4 DEF Fine, Renewed, Prepared, Kept, Astray
  <2>6. \A call : IsKept(call) => IsKept(call)'
    BY <2>5 DEF IsKept
  <2>7. DoneIsStored' /\ StoredAsIs'
    BY <2>1, <2>2, <2>4, <2>6 DEF More, DoneIsStored, StoredAsIs
  <2> QED
    BY <2>3, <2>7 DEF More
<1> QED
  BY <1>1, CallsKeepMore, EditKeepsMore, BulkWriteKeepsMore, PrepareKeepsMore,
     InsertKeepsMore, FinishKeepsMore, NothingToCreateKeepsMore, UpdateKeepsMore,
     ReturnsKeepsMore, AbortKeepsMore, CommitKeepsMore DEF Next

LEMMA AlwaysMore == Spec => [](Inv /\ More)
<1>1. Init => Inv /\ More
  BY InvInit, MoreInit
<1>2. Inv /\ More /\ [Next]_vars => (Inv /\ More)'
  BY InvNext, MoreNext
<1> QED
  BY <1>1, <1>2, PTL DEF Spec

\* A transaction is told nothing before it ends.
LEMMA OnlyCommitTells ==
  ASSUME Inv, More, [Next]_vars, run.in = "transaction", run'.told = "nil"
  PROVE  Commit
<1>1. run.told = "nothing" /\ run \in RunRecords
  BY DEF Inv, Typed, More, Untold
<1>2. ~UNCHANGED vars
  BY <1>1 DEF vars
<1>3. ~Call /\ ~Transaction /\ ~Edit /\ ~BulkWrite /\ ~Returns
  BY DEF Call, Transaction, Begins, Edit, BulkWrite, Returns
<1>4. Moves => run'.told = run.told
  BY <1>1 DEF Moves, Goes, Fails, NextCall, RunRecords
<1>5. ~Prepare /\ ~NothingToCreate
  BY <1>1, <1>4 DEF Prepare, NothingToCreate, Moves
<1>6. ~Insert /\ ~Finish
  BY <1>1, <1>4 DEF Insert, Finish, Moves
<1>7. ~Update
  BY <1>1, <1>4 DEF Update, Moves
<1>8. ~Abort
  BY AbortKeepsMore
<1> QED
  BY <1>2, <1>3, <1>5, <1>6, <1>7, <1>8 DEF Next

-----------------------------------------------------------------------------
\* Types, for any numbers of models, calls and attempts.
THEOREM BatchTypeCorrect == Spec => []TypeOK
<1>1. Inv => TypeOK
  BY DEF Inv, Typed, Stock, RunRecords, Steps, TypeOK
<1> QED
  BY <1>1, AlwaysInv, PTL

\* However often a batch or a callback is tried again, a model is stored
\* under one _id, but for those a hook gave it when it was stored already
\* (hooks.go:17-24, model.go:96-100, bulk.go:57-59), and no two models under
\* the same.
THEOREM OneDocumentForEveryModel == Spec => []OneDocumentPerModel
<1>1. Inv => OneDocumentPerModel
  BY DEF Inv, Own, Single, Apart, OneDocumentPerModel
<1> QED
  BY <1>1, AlwaysInv, PTL

\* A model that knows it exists is stored, unless an attempt that was taken
\* back has told it so (bulk.go:64-78, transaction.go:46-48), or a hook has
\* given it an _id that was then not inserted.
THEOREM KnownModelsAreAlwaysStored == Spec => []KnownModelsAreStored
BY AlwaysInv, PTL DEF Inv

\* A stored model that does not know it was reported as not inserted, or is
\* in the insert under way (bulk.go:64-78).
THEOREM StoredModelsAreAlwaysKnown == Spec => []StoredModelsAreKnown
BY AlwaysInv, PTL DEF Inv

\* When Transaction returns nil, every model its callback was to create or
\* save is stored as it is, but for models that were led astray before they
\* were saved, and documents that such a Save wrote over (transaction.go:46,
\* state.go:295).
THEOREM CommittedModelsAreStored == Spec => CommittedIsStored
<1> DEFINE Committed ==
      run.in = "transaction" /\ run'.told = "nil" =>
        \A k \in DOMAIN run.body : \A p \in DOMAIN run.body[k].on :
          LET m == run.body[k].on[p] IN
          \/ docs'[model[m].id] = model[m].content
          \/ run.body[k].op = "Save" /\ Astray(m)
          \/ model[m].id \in strayed
<1>1. Inv /\ More /\ [Next]_vars => Committed
  <2> SUFFICES ASSUME Inv, More, [Next]_vars, run.in = "transaction", run'.told = "nil",
                      NEW k \in DOMAIN run.body, NEW p \in DOMAIN run.body[k].on,
                      NEW m, m = run.body[k].on[p]
               PROVE  \/ docs'[model[m].id] = model[m].content
                      \/ run.body[k].op = "Save" /\ Astray(m)
                      \/ model[m].id \in strayed
    OBVIOUS
  <2>1. run.todo = <<>> /\ run.step # "failed" /\ docs' = All
    BY OnlyCommitTells, CommitKeepsMore DEF Commit
  <2>2. run.body \in Seq(Operations)
    BY DEF Inv, Typed, RunRecords
  <2>3. k \in 1..Done /\ run.body[k] \in Operations
    BY <2>1, <2>2 DEF Done
  <2>4. IsKept(run.body[k])
    BY <2>1, <2>3 DEF More, DoneIsStored
  <2>5. p \in 1..Len(run.body[k].on)
    BY <2>3 DEF Operations
  <2>6. Kept(run.body[k].op, m)
    BY <2>1, <2>4, <2>5 DEF IsKept, Fine, Renewed, At
  <2> QED
    BY <2>1, <2>6 DEF Kept
<1> QED
  BY <1>1, AlwaysMore, PTL DEF Spec, CommittedIsStored
===============================================================================
