------------------------------ MODULE OdmBatch ------------------------------
(***************************************************************************)
(* CreateMany and Transaction of the MongoDB mapper (src/odm/bulk.go,      *)
(* src/odm/transaction.go), with the Create and Save they are used with.   *)
(* A batch is prepared model by model, inserted by one InsertMany and then *)
(* finished model by model; each part may stop half way.  A transaction    *)
(* runs its callback, and runs it again after a transient error: what the  *)
(* callback wrote is taken back then, but what it did to the models in     *)
(* memory is not.                                                          *)
(***************************************************************************)
EXTENDS Integers, Sequences, FiniteSets

CONSTANTS
  Models,       \* the model variables of the caller
  Hooked,       \* those that BeforeCreate or a Creating observer may change
  Nil,          \* a nil pointer in a batch
  MaxId,        \* _ids are 1 .. MaxId; those up to Given are chosen by callers
  Given,
  NoId,         \* a model whose ID is not set
  NoDoc,        \* no document under an _id
  MaxValue,     \* a document's content is 1 .. MaxValue: the caller's edits
  Calls,        \* the calls made outside transactions
  Callbacks,    \* what callbacks of transactions do: sequences of calls
  MaxCalls,     \* bound on the calls, transactions and edits of a behaviour
  MaxAttempts   \* bound on how often a callback is run

Ids == 1 .. MaxId
Contents == 1 .. MaxValue
Operations ==
  {o \in [op : {"Create", "CreateMany", "Save"}, on : Seq(Models \cup {Nil}),
          ordered : BOOLEAN, inner : BOOLEAN] : o.op # "CreateMany" => Len(o.on) = 1}

ASSUME SizesAssumption ==
  /\ MaxId \in Nat /\ Given \in 0 .. MaxId /\ MaxValue \in Nat \ {0}
  /\ MaxCalls \in Nat /\ MaxAttempts \in Nat \ {0}
ASSUME NamesAssumption ==
  /\ Hooked \subseteq Models /\ Nil \notin Models /\ NoId \notin Ids /\ NoDoc \notin Contents
  /\ IsFiniteSet(Models)
ASSUME CallsAssumption ==
  /\ Calls \subseteq Operations
  /\ Callbacks \subseteq Seq(Operations)
  \* A write beside a transaction, behind one of its own, may wait for it: none does.
  /\ \A body \in Callbacks : \A k \in DOMAIN body : \A j \in 1 .. k :
       body[j].inner => body[k].inner

VARIABLES
  docs,      \* the collection: _id -> content, or NoDoc
  writes,    \* what the open transaction has written, NoDoc where nothing
  fresh,     \* the next _id NewObjectID hands out
  model,     \* the models: id, content, modelState.exists and .original
  run,       \* the call or transaction under way
  calls,     \* how many were begun
  under,     \* history: the _ids under which a model was inserted
  given,     \* history: the _ids a hook gave a model that was stored already
  misled,    \* history: the models whose snapshot a taken back write has left
  strayed,   \* history: the _ids Save wrote for models that were led astray
  unlucky    \* history: the models whose insert was reported as a failure

history == <<under, given, misled, strayed, unlucky>>
vars == <<docs, writes, fresh, model, run, calls, history>>

-----------------------------------------------------------------------------
(* The call under way.  body is the callback, todo what is left of it,     *)
(* step where its first call is, and told what the last call returned.     *)
Idle == [in |-> "nothing", body |-> <<>>, todo |-> <<>>, step |-> "idle",
         error |-> "none", attempt |-> 1, told |-> "nothing"]

Now == Head(run.todo)
Batch == Now.on
Inside == run.in = "transaction" /\ Now.inner   \* given the callback's ctx

NoWrites == [i \in Ids |-> NoDoc]
After(old, new) == [i \in Ids |-> IF new[i] = NoDoc THEN old[i] ELSE new[i]]
Seen == IF Inside THEN After(docs, writes) ELSE docs

Goes(step) == run' = [run EXCEPT !.step = step]
Fails(error) == run' = [run EXCEPT !.step = "failed", !.error = error]
NextCall == run' = [run EXCEPT !.todo = Tail(@), !.step = "prepare"]

At(step) == run.in # "nothing" /\ run.step = step /\ run.todo # <<>>

\* The server stores contents under _ids, for the transaction or at once.
Stores(new) ==
  IF Inside
  THEN writes' = After(writes, new) /\ UNCHANGED docs
  ELSE docs' = After(docs, new) /\ UNCHANGED writes

-----------------------------------------------------------------------------
(* Calls begin.                                                            *)
Begins(in, body) ==
  /\ run.in = "nothing" /\ calls < MaxCalls
  /\ calls' = calls + 1
  /\ run' = [Idle EXCEPT !.in = in, !.body = body, !.todo = body, !.step = "prepare"]
  /\ writes' = NoWrites
  /\ UNCHANGED <<docs, fresh, model, history>>

Call == \E call \in Calls : Begins("call", <<call>>)
Transaction == \E body \in Callbacks : Begins("transaction", body)

\* Between calls the caller changes a model, or writes with BulkWrite, which
\* neither prepares nor checks anything.
Edit ==
  /\ run.in = "nothing" /\ calls < MaxCalls
  /\ calls' = calls + 1
  /\ \E m \in Models :
       /\ model[m].content < MaxValue
       /\ model' = [model EXCEPT ![m].content = @ + 1]
  /\ UNCHANGED <<docs, writes, fresh, run, history>>

BulkWrite ==
  /\ run.in = "nothing" /\ calls < MaxCalls
  /\ calls' = calls + 1
  /\ \E i \in 1 .. Given :
       /\ docs[i] = NoDoc
       /\ docs' = [docs EXCEPT ![i] = 1]
  /\ UNCHANGED <<writes, fresh, model, run, history>>

-----------------------------------------------------------------------------
(* Preparation: the nil check, BeforeCreate, the Creating observers and    *)
(* prepareForInsert, model by model.                                       *)
\* Mutation of Inserts: Create, like Save, does not insert a model twice.
InsertsNew(m) == ~model[m].exists
Inserts(m) == Now.op # "Save" \/ ~model[m].exists

Position(m) == CHOOSE i \in DOMAIN Batch :
                 Batch[i] = m /\ \A j \in 1 .. i - 1 : Batch[j] # m
Prepared(k) == {Batch[i] : i \in 1 .. k}
Touched(k) == Hooked \cap Prepared(k)

\* The _id the hooks leave a model with: their own choice, or the one it had.
Named(own, m) == IF m \in DOMAIN own THEN own[m] ELSE model[m].id

\* Mutation of NeedsId: every insert assigns a new _id.
AlwaysNeedsId(ms, own) == ms
NeedsId(ms, own) == {m \in ms : Named(own, m) = NoId}

\* The models due get new _ids, whether NewObjectID generates them in a hook
\* or in prepareForInsert.
AssignIds(due, own, edited) ==
  LET id(m) == IF m \notin due THEN Named(own, m)
               ELSE fresh + Cardinality({n \in due \ {m} : Position(n) < Position(m)})
  IN /\ model' = [m \in Models |-> [model[m] EXCEPT
                    !.id = id(m), !.content = IF m \in edited THEN @ + 1 ELSE @]]
     /\ fresh' = fresh + Cardinality(due)

\* renamed are the models a hook gave an _id: those stored under another one
\* may be stored a second time.
NotesGiven(renamed) ==
  given' = [m \in Models |->
    IF m \in renamed /\ under[m] # {} THEN given[m] \cup ({model'[m].id} \ under[m])
    ELSE given[m]]

\* The first k models are prepared, and the hooks have run for those reached:
\* the one behind them, too, if it is its hook or observer that fails.  (Each
\* variable has a bound of its own: TLC takes \E a, b \in SUBSET {} for FALSE.)
Prepare ==
  /\ At("prepare") /\ Batch # <<>>
  /\ \A m \in Prepared(Len(Batch)) \ {Nil} : Inserts(m)
  /\ \E k, reached \in 0 .. Len(Batch) :
       /\ k <= reached /\ reached <= k + 1 /\ Nil \notin Prepared(reached)
       /\ \E new \in SUBSET Touched(reached), named \in SUBSET Touched(reached),
             edited \in SUBSET Touched(reached) :
          \E own \in [named -> 1 .. Given] :
            LET due == new \cup NeedsId(Prepared(k), own) IN
            /\ new \cap named = {} /\ \A m \in edited : model[m].content < MaxValue
            /\ Cardinality(due) <= MaxId + 1 - fresh
            /\ AssignIds(due, own, edited)
            /\ NotesGiven(new \cup named)
       /\ IF k = Len(Batch) THEN Goes("insert")
          ELSE Fails(IF Batch[k + 1] = Nil THEN "nil" ELSE "hook")
  /\ UNCHANGED <<docs, writes, calls, under, misled, strayed, unlucky>>

-----------------------------------------------------------------------------
(* InsertMany, or InsertOne for one model.                                 *)
IdAt(i) == model[Batch[i]].id

\* The positions the server can store: an ordered insert stops at the first
\* document whose _id is taken.
Free(i) == Seen[IdAt(i)] = NoDoc /\ \A j \in 1 .. i - 1 : IdAt(j) # IdAt(i)
Storable ==
  {i \in DOMAIN Batch : IF Now.ordered THEN \A j \in 1 .. i : Free(j) ELSE Free(i)}

IdsAt(places) == {IdAt(p) : p \in places}

Inserted(places) ==
  /\ Stores([i \in Ids |->
       IF i \in IdsAt(places)
       THEN model[Batch[CHOOSE p \in places : IdAt(p) = i]].content ELSE NoDoc])
  /\ under' = [m \in Models |-> under[m] \cup IdsAt({p \in places : Batch[p] = m})]

\* Mutation of StoredAll: an unordered insert that stored something is taken
\* for a success.
StoredAny == Storable # {}
StoredAll == Storable = DOMAIN Batch

Insert ==
  /\ At("insert")
  /\ \/ /\ Inserted(Storable)
        /\ IF StoredAll
           THEN Goes("finish") /\ UNCHANGED unlucky
           ELSE Fails("duplicate") /\ unlucky' = unlucky \cup Prepared(Len(Batch))
     \* The connection breaks: some of it may have been stored.
     \/ /\ \E places \in SUBSET Storable :
             /\ Now.ordered => \A p \in places : \A q \in 1 .. p : q \in places
             /\ Inserted(places)
        /\ Fails("transient") /\ unlucky' = unlucky \cup Prepared(Len(Batch))
  /\ UNCHANGED <<fresh, model, calls, given, misled, strayed>>

\* Mutation of Known: the snapshot forgets that the model exists.
KnownAsNew(ms) == model' = [m \in Models |->
  IF m \in ms THEN [model[m] EXCEPT !.original = model[m].content] ELSE model[m]]

\* snapshot, AfterCreate and the Created observers, model by model: the model
\* whose hook fails is snapshotted, the ones behind it are not.
Known(ms) == model' = [m \in Models |->
  IF m \in ms THEN [model[m] EXCEPT !.exists = TRUE, !.original = model[m].content]
  ELSE model[m]]

Finish ==
  /\ At("finish")
  /\ \E k \in 0 .. Len(Batch) :
       IF k = Len(Batch)
       THEN Known(Prepared(k)) /\ NextCall /\ UNCHANGED unlucky
       ELSE /\ Known(Prepared(k + 1)) /\ Fails("hook")
            /\ unlucky' = unlucky \cup Prepared(Len(Batch))
  /\ UNCHANGED <<docs, writes, fresh, calls, under, given, misled, strayed>>

\* Nothing is sent for an empty batch.
NothingToCreate ==
  /\ At("prepare") /\ Batch = <<>>
  /\ NextCall
  /\ UNCHANGED <<docs, writes, fresh, model, calls, history>>

\* A taken back attempt has told m that it is stored, or a hook has given m
\* another _id than it is stored under.
Astray(m) == m \in misled \/ given[m] # {}

\* Save of a model that exists: an UpdateOne by _id, if there is anything to
\* write, that need not match.  The snapshot is taken last.
Update ==
  /\ At("prepare") /\ Batch # <<>> /\ Batch[1] # Nil /\ ~Inserts(Batch[1])
  /\ LET m == Batch[1]
         Written == IF Seen[model[m].id] = NoDoc THEN UNCHANGED <<docs, writes, strayed>>
                    ELSE /\ Stores([NoWrites EXCEPT ![model[m].id] = model[m].content])
                         /\ strayed' = strayed \cup {i \in {model[m].id} : Astray(m)}
     IN IF model[m].content = model[m].original
        THEN NextCall /\ UNCHANGED <<docs, writes, model, strayed>>
        ELSE \/ Written /\ Known({m}) /\ NextCall
             \/ /\ Written \/ UNCHANGED <<docs, writes, strayed>>
                /\ Fails("hook") \/ Fails("transient")
                /\ UNCHANGED model
  /\ UNCHANGED <<fresh, calls, under, given, misled, unlucky>>

-----------------------------------------------------------------------------
(* The end of a call, and of an attempt of a transaction.                  *)
Return(told) == run' = [Idle EXCEPT !.told = told] /\ writes' = NoWrites

Returns ==
  /\ run.in = "call"
  /\ \/ run.step = "failed" /\ Return("error")
     \/ run.todo = <<>> /\ Return("nil")
  /\ UNCHANGED <<docs, fresh, model, calls, history>>

\* What was written in this attempt is not there, and the models whose
\* snapshots say it is do not hear of it.
TakeBack ==
  /\ misled' = misled \cup
       {m \in Models : /\ model[m].exists
                       /\ \E i \in under[m] \cup {model[m].id} :
                            writes[i] # NoDoc /\ docs[i] # model[m].original}
  /\ under' = [m \in Models |-> {i \in under[m] : docs[i] # NoDoc}]

\* WithTransaction runs the callback again after a transient error.
RunAgain ==
  /\ run.attempt < MaxAttempts
  /\ run' = [run EXCEPT !.todo = run.body, !.step = "prepare", !.error = "none",
                        !.attempt = @ + 1]
  /\ writes' = NoWrites

Abort ==
  /\ run.in = "transaction" /\ run.step = "failed"
  /\ TakeBack
  /\ Return("error") \/ (run.error = "transient" /\ RunAgain)
  /\ UNCHANGED <<docs, fresh, model, calls, given, strayed, unlucky>>

\* An error of the commit may mean that it was aborted, or, when the outcome
\* stays unknown, that it was not.
Applied == docs' = After(docs, writes) /\ UNCHANGED <<under, misled>>
Commit ==
  /\ run.in = "transaction" /\ run.step # "failed" /\ run.todo = <<>>
  /\ \/ Applied /\ (Return("nil") \/ Return("error"))
     \/ UNCHANGED docs /\ TakeBack /\ (Return("error") \/ RunAgain)
  /\ UNCHANGED <<fresh, model, calls, given, strayed, unlucky>>

-----------------------------------------------------------------------------
Init ==
  /\ docs = [i \in Ids |-> NoDoc]
  /\ writes = NoWrites
  /\ fresh = Given + 1
  /\ model \in [Models -> {[id |-> i, content |-> 1, exists |-> FALSE, original |-> 0] :
                             i \in {NoId} \cup 1 .. Given}]
  /\ run = Idle /\ calls = 0
  /\ under = [m \in Models |-> {}] /\ given = [m \in Models |-> {}]
  /\ misled = {} /\ strayed = {} /\ unlucky = {}

Next ==
  \/ Call \/ Transaction \/ Edit \/ BulkWrite
  \/ Prepare \/ Insert \/ Finish \/ NothingToCreate \/ Update
  \/ Returns \/ Abort \/ Commit

Spec == Init /\ [][Next]_vars

-----------------------------------------------------------------------------
ModelRecords == [id : Ids \cup {NoId}, content : Contents, exists : BOOLEAN,
                 original : Contents \cup {0}]
\* Types, and that a model exists if and only if it has a snapshot, with an
\* _id in it.
TypeOK ==
  /\ docs \in [Ids -> Contents \cup {NoDoc}]
  /\ writes \in [Ids -> Contents \cup {NoDoc}]
  /\ fresh \in Given + 1 .. MaxId + 1
  /\ model \in [Models -> ModelRecords]
  /\ \A m \in Models : /\ model[m].exists => model[m].id # NoId
                       /\ model[m].exists <=> model[m].original # 0
  /\ run.in \in {"nothing", "call", "transaction"}
  /\ run.step \in {"idle", "prepare", "insert", "finish", "failed"}
  /\ run.attempt \in 1 .. MaxAttempts
  /\ calls \in 0 .. MaxCalls
  /\ under \in [Models -> SUBSET Ids]
  /\ given \in [Models -> SUBSET Ids]

\* However often a batch or a callback is tried again, whatever of it was
\* stored before: a model is stored under one _id (model.go:96-100,
\* bulk.go:57-59), but for those a BeforeCreate or a Creating observer gave it
\* when it was stored already (hooks.go:17-24); and no two models are stored
\* under the same.
OneDocumentPerModel ==
  \A m, n \in Models :
    /\ \A i, j \in under[m] \ given[m] : i = j
    /\ m # n => under[m] \cap under[n] = {}

\* A model that knows it exists has a document of its own, which it inserted,
\* unless it was told so by an attempt of a transaction that was taken back
\* (bulk.go:64-78, transaction.go:46-48), or its _id is one that a hook gave it
\* since, for an insert that then failed.
KnownModelsAreStored ==
  \A m \in Models : model[m].exists =>
    \/ model[m].id \in under[m] /\ After(docs, writes)[model[m].id] # NoDoc
    \/ m \in misled
    \/ model[m].id \in given[m]

\* A stored model that does not know it exists, which a Save would insert
\* again, is in the insert under way or was reported as not inserted: part of
\* a batch that stopped half way (bulk.go:64-78).
StoredModelsAreKnown ==
  \A m \in Models : under[m] # {} /\ ~model[m].exists =>
    \/ m \in unlucky
    \/ At("finish") /\ m \in Prepared(Len(Batch))

\* When Transaction returns nil, every model its callback was to create is
\* stored as it is, however often the callback ran.  A model it was to save is
\* too, unless it was led astray: an attempt that was taken back has left its
\* snapshot, or a hook has given it another _id.  Save finds nothing to write
\* then, or a document to update that is not there, and the change is lost
\* without an error, or is written over the document another model has under
\* the _id (transaction.go:46, state.go:295).
CommittedIsStored ==
  [][run.in = "transaction" /\ run'.told = "nil" =>
       \A k \in DOMAIN run.body : \A p \in DOMAIN run.body[k].on :
         LET m == run.body[k].on[p] IN
         \/ docs'[model[m].id] = model[m].content
         \/ run.body[k].op = "Save" /\ Astray(m)
         \/ model[m].id \in strayed]_vars
=============================================================================
