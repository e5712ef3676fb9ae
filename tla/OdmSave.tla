------------------------------- MODULE OdmSave -------------------------------
(***************************************************************************)
(* Create and Save of the MongoDB mapper (src/odm): several goroutines,    *)
(* each holding one model in memory, insert and update documents of one    *)
(* collection while other programs update and delete documents directly.   *)
(*                                                                         *)
(* A model remembers whether it exists in the database and how it looked   *)
(* when it last agreed with it (modelState).  Save inserts a model that    *)
(* does not exist yet; otherwise it sends a $set/$unset of the fields that *)
(* differ from that snapshot, between two rounds of hooks and observers.   *)
(*                                                                         *)
(* A handle is one goroutine together with the model variable it owns.     *)
(* The model is private to its handle, so a step of a handle is everything *)
(* it does up to its next hook or database call.                           *)
(***************************************************************************)
EXTENDS Integers, FiniteSets

CONSTANTS
  Handles,          \* the goroutines, each with its own model variable
  Ids,              \* the _ids documents can have
  Fields,           \* the model's own fields, other than _id and updated_at
  Undeclared,       \* fields documents carry and the model type does not
  OmitEmpty,        \* the fields tagged omitempty
  UpdatedAt,        \* the field Model.UpdatedAt is stored in
  Values, Zero,     \* what a field of a model can hold; Go's zero value
  Absent,           \* "the document has no such field"
  NoDoc, NoId,      \* no document under an _id; a model whose ID is not set
  Timestamped,      \* TRUE for odm.Model, FALSE for odm.IdentityModel
  Seeds,            \* what the documents there at the start may look like
  Projections,      \* the sets of fields a Select or Exclude loads
  BeforeCreateHooks,\* what BeforeCreate and the Creating observers may do:
                    \* "ok", "edit", "fail", or "identify": set the _id
  BeforeUpdateHooks,\* the same for BeforeUpdate and the Updating observers,
  AfterCreateHooks, \* for AfterCreate and the Created observers,
  AfterUpdateHooks, \* and for AfterUpdate and the Updated observers, none
                    \* of which changes the _id of a model
  Outcomes,         \* of a write: "ok", "refused" (an error, nothing done) or
                    \* "unacknowledged" (an error, but the server did it)
  MaxTime,          \* bound on the clock
  MaxCalls          \* bound on the calls callers make

HookOutcomes == {"ok", "edit", "fail"}

ASSUME FieldsAssumption ==
  /\ UpdatedAt \notin Fields \cup Undeclared
  /\ Fields \cap Undeclared = {}
  /\ OmitEmpty \subseteq Fields
ASSUME ValuesAssumption == Zero \in Values /\ Absent \notin Values
ASSUME IdAssumption == NoId \notin Ids
ASSUME BoundsAssumption == MaxTime \in Nat \ {0} /\ MaxCalls \in Nat
ASSUME ChoicesAssumption ==
  /\ Seeds \subseteq [Fields \cup Undeclared -> Values \cup {Absent}]
  /\ Timestamped \in BOOLEAN
  /\ Outcomes \subseteq {"ok", "refused", "unacknowledged"}
  /\ BeforeCreateHooks \subseteq HookOutcomes \cup {"identify"}
  /\ BeforeUpdateHooks \subseteq HookOutcomes
  /\ AfterCreateHooks \subseteq HookOutcomes
  /\ AfterUpdateHooks \subseteq HookOutcomes

VARIABLES
  docs,      \* the collection: _id -> document, or NoDoc
  used,      \* the _ids that have been handed out or chosen
  now,       \* DB.now
  pc,        \* where each handle is in Create or Save
  id,        \* IdentityModel.ID
  model,     \* the model's other fields, as Go holds them
  exists,    \* modelState.exists
  original,  \* modelState.original: the marshalled model
  written,   \* modelState.written: the names of the fields it lists
  calls,     \* the calls made so far
  synced,    \* history: per field, what the handle last read from the
             \* database or was told it wrote there
  inserted,  \* history: the _ids under which this model was inserted
  given      \* history: the _ids a hook gave this model when a document of
             \* it was stored already under another one

memory == <<id, model, exists, original, written>>
history == <<synced, inserted, given>>
vars == <<docs, used, now, pc, memory, calls, history>>

Times == 0 .. MaxTime   \* 0 is the zero time.Time; the clock starts at 1
ModelFields == Fields \cup {UpdatedAt}
DocFields == ModelFields \cup Undeclared
InMemory == Values \cup Times
Stored == InMemory \cup {Absent}
Nothing == [f \in ModelFields |-> Absent]

ASSUME NoDocAssumption == NoDoc \notin [DocFields -> Stored]

Steps == {"empty", "idle", "before_create", "creating", "insert",
          "after_create", "created", "before_update", "updating", "write",
          "after_update", "updated", "snapshot"}

-----------------------------------------------------------------------------
(* The codec: an omitempty field at its zero value is left out, and an     *)
(* absent field decodes as the zero value.                                 *)

Encode(f, v) == IF f \in OmitEmpty /\ v = Zero THEN Absent ELSE v
Decode(v) == IF v = Absent THEN Zero ELSE v
Marshal(m) == [f \in ModelFields |-> Encode(f, m[f])]

\* Mutation of Hydrate: an absent field is not given its zero value.
HydrateAsStored(doc, p) ==
  [f \in ModelFields |-> IF f \in p THEN doc[f] ELSE IF f = UpdatedAt THEN 0 ELSE Zero]

\* The model a document decodes to when the query loads the fields p.
Hydrate(doc, p) ==
  [f \in ModelFields |-> IF f \in p THEN Decode(doc[f])
                         ELSE IF f = UpdatedAt THEN 0 ELSE Zero]

\* diff: the fields a $set or $unset would name.
Changed(h) == {f \in ModelFields : Marshal(model[h])[f] # original[h][f]}

\* What snapshot leaves as the original of a model m.
SnapshotOf(m) == Marshal(m)

\* touchUpdatedAt and prepareForInsert set UpdatedAt on the model itself.
Stamped(m) == IF Timestamped THEN [m EXCEPT ![UpdatedAt] = now] ELSE m

\* The document InsertOne stores, and the one UpdateOne leaves behind.
Inserted(m) == [f \in DocFields |-> IF f \in ModelFields THEN Marshal(m)[f] ELSE Absent]
Updated(doc, fields, m) ==
  [f \in DocFields |-> IF f \in fields THEN Marshal(m)[f] ELSE doc[f]]

\* UpdateOne with the filter {_id: i}: a document that is not there is not
\* matched, and that is no error.
AfterUpdateOne(i, fields, m) ==
  [docs EXCEPT ![i] = IF @ = NoDoc THEN @ ELSE Updated(@, fields, m)]

-----------------------------------------------------------------------------
(* What callers do between calls of Create and Save.                       *)

Call == calls < MaxCalls /\ calls' = calls + 1
GoTo(h, step) == pc' = [pc EXCEPT ![h] = step]

\* A caller builds a model of its own, with or without an _id.
New(h) ==
  /\ pc[h] \in {"empty", "idle"}
  /\ Call
  /\ \E i \in Ids \cup {NoId}, m \in [Fields -> Values] :
       /\ id' = [id EXCEPT ![h] = i]
       /\ model' = [model EXCEPT ![h] =
                      [f \in ModelFields |-> IF f \in Fields THEN m[f] ELSE 0]]
       /\ used' = used \cup ({i} \ {NoId})
  /\ exists' = [exists EXCEPT ![h] = FALSE]
  /\ original' = [original EXCEPT ![h] = Nothing]
  /\ written' = [written EXCEPT ![h] = {}]
  /\ synced' = [synced EXCEPT ![h] = Nothing]
  /\ inserted' = [inserted EXCEPT ![h] = {}]
  /\ given' = [given EXCEPT ![h] = {}]
  /\ GoTo(h, "idle")
  /\ UNCHANGED <<docs, now>>

\* Get, First or Find hydrates a model and snapshots it.
Load(h) ==
  /\ pc[h] \in {"empty", "idle"}
  /\ Call
  /\ \E i \in {j \in Ids : docs[j] # NoDoc}, p \in Projections :
       LET m == Hydrate(docs[i], p) IN
       /\ id' = [id EXCEPT ![h] = i]
       /\ model' = [model EXCEPT ![h] = m]
       /\ original' = [original EXCEPT ![h] = SnapshotOf(m)]
       /\ synced' = [synced EXCEPT ![h] = Marshal(m)]
  /\ exists' = [exists EXCEPT ![h] = TRUE]
  /\ written' = [written EXCEPT ![h] = {}]
  /\ inserted' = [inserted EXCEPT ![h] = {}]
  /\ given' = [given EXCEPT ![h] = {}]
  /\ GoTo(h, "idle")
  /\ UNCHANGED <<docs, used, now>>

\* One field of the model is assigned another value.
Assign(h, f, v) ==
  /\ v # model[h][f]
  /\ model' = [model EXCEPT ![h][f] = v]

Edit(h) ==
  /\ pc[h] = "idle"
  /\ Call
  /\ \E f \in Fields, v \in Values : Assign(h, f, v)
  /\ UNCHANGED <<docs, used, now, pc, id, exists, original, written, history>>

-----------------------------------------------------------------------------
(* Create and Save.                                                        *)

\* Save of a model that does not exist, or Create of any model.
Create(h) ==
  /\ pc[h] = "idle"
  /\ Call
  /\ GoTo(h, "before_create")
  /\ UNCHANGED <<docs, used, now, memory, history>>

\* Save of a model that exists: a clean one is not written and wakes no hook.
SaveExisting(h) ==
  /\ pc[h] = "idle"
  /\ exists[h]
  /\ Changed(h) # {}
  /\ Call
  /\ GoTo(h, "before_update")
  /\ UNCHANGED <<docs, used, now, memory, history>>

\* A hook gives the model an _id of its choice, as BeforeCreate may: one
\* generated anew each time it runs, or one the application derives.
Identify(h, i) ==
  /\ id' = [id EXCEPT ![h] = i]
  /\ used' = used \cup {i}
  /\ given' = [given EXCEPT ![h] =
                 IF inserted[h] = {} THEN @ ELSE @ \cup ({i} \ inserted[h])]

\* A hook, or one round of observers: it may change the model and may fail,
\* which ends the call with the error and leaves everything as it is.
Hook(h, at, next, allowed) ==
  /\ pc[h] = at
  /\ \/ /\ "ok" \in allowed
        /\ GoTo(h, next)
        /\ UNCHANGED model
        /\ UNCHANGED <<used, id, given>>
     \/ /\ "edit" \in allowed
        /\ \E f \in Fields, v \in Values : Assign(h, f, v)
        /\ GoTo(h, next)
        /\ UNCHANGED <<used, id, given>>
     \/ /\ "identify" \in allowed
        /\ \E i \in Ids : Identify(h, i)
        /\ GoTo(h, next)
        /\ UNCHANGED model
     \/ /\ "fail" \in allowed
        /\ GoTo(h, "idle")
        /\ UNCHANGED <<used, id, model, given>>
  /\ UNCHANGED <<docs, now, exists, original, written, calls, synced, inserted>>

BeforeCreate(h) == Hook(h, "before_create", "creating", BeforeCreateHooks)
Creating(h) == Hook(h, "creating", "insert", BeforeCreateHooks)
AfterCreate(h) == Hook(h, "after_create", "created", AfterCreateHooks)
Created(h) == Hook(h, "created", "idle", AfterCreateHooks)
BeforeUpdate(h) == Hook(h, "before_update", "updating", BeforeUpdateHooks)
Updating(h) == Hook(h, "updating", "write", BeforeUpdateHooks)
AfterUpdate(h) == Hook(h, "after_update", "updated", AfterUpdateHooks)
UpdatedObservers(h) == Hook(h, "updated", "snapshot", AfterUpdateHooks)

\* Mutation of InsertId: every attempt generates a new ObjectID.
InsertNewId(h) == Ids \ used

\* prepareForInsert: a model without an _id is given a fresh ObjectID, and
\* keeps it whatever becomes of the insert.
InsertId(h) == IF id[h] = NoId THEN Ids \ used ELSE {id[h]}

PrepareForInsert(h, i) ==
  /\ id' = [id EXCEPT ![h] = i]
  /\ used' = used \cup {i}
  /\ model' = [model EXCEPT ![h] = Stamped(@)]

\* InsertOne succeeds; the snapshot precedes the after-hooks.
Insert(h) ==
  /\ pc[h] = "insert"
  /\ "ok" \in Outcomes
  /\ \E i \in InsertId(h) :
       /\ docs[i] = NoDoc
       /\ PrepareForInsert(h, i)
       /\ docs' = [docs EXCEPT ![i] = Inserted(Stamped(model[h]))]
       /\ inserted' = [inserted EXCEPT ![h] = @ \cup {i}]
  /\ exists' = [exists EXCEPT ![h] = TRUE]
  /\ original' = [original EXCEPT ![h] = SnapshotOf(Stamped(model[h]))]
  /\ written' = [written EXCEPT ![h] = {}]
  /\ synced' = [synced EXCEPT ![h] = Marshal(Stamped(model[h]))]
  /\ GoTo(h, "after_create")
  /\ UNCHANGED <<now, calls, given>>

\* InsertOne reports an error: the _id is taken (ErrDuplicateKey), the
\* server refused, or its answer was lost after the document was stored.
InsertFails(h) ==
  /\ pc[h] = "insert"
  /\ \E i \in InsertId(h) :
       /\ PrepareForInsert(h, i)
       /\ \/ /\ docs[i] # NoDoc \/ "refused" \in Outcomes
             /\ UNCHANGED <<docs, inserted>>
          \/ /\ docs[i] = NoDoc
             /\ "unacknowledged" \in Outcomes
             /\ docs' = [docs EXCEPT ![i] = Inserted(Stamped(model[h]))]
             /\ inserted' = [inserted EXCEPT ![h] = @ \cup {i}]
  /\ GoTo(h, "idle")
  /\ UNCHANGED <<now, exists, original, written, calls, synced, given>>

\* The recomputed difference is empty: the hooks took the change back.
NothingToWrite(h) ==
  /\ pc[h] = "write"
  /\ Changed(h) = {}
  /\ GoTo(h, "idle")
  /\ UNCHANGED <<docs, used, now, memory, calls, history>>

\* Mutation of UpdateFields: every field of the model is sent.
UpdateEveryField(h) == ModelFields

\* The fields of the update: the difference, and updated_at besides.
UpdateFields(h) == Changed(h) \cup (IF Timestamped THEN {UpdatedAt} ELSE {})

\* Mutation of Write: the snapshot is refreshed before the after-hooks.
WriteAndSnapshot(h) ==
  /\ pc[h] = "write"
  /\ Changed(h) # {}
  /\ model' = [model EXCEPT ![h] = Stamped(@)]
  /\ docs' = AfterUpdateOne(id[h], UpdateFields(h), Stamped(model[h]))
  /\ written' = [written EXCEPT ![h] = UpdateFields(h)]
  /\ original' = [original EXCEPT ![h] = SnapshotOf(Stamped(model[h]))]
  /\ GoTo(h, "after_update")
  /\ UNCHANGED <<used, now, id, exists, calls, history>>

\* UpdateOne succeeds and recordWrite remembers what it sent.
Write(h) ==
  /\ pc[h] = "write"
  /\ Changed(h) # {}
  /\ "ok" \in Outcomes
  /\ model' = [model EXCEPT ![h] = Stamped(@)]
  /\ docs' = AfterUpdateOne(id[h], UpdateFields(h), Stamped(model[h]))
  /\ written' = [written EXCEPT ![h] = UpdateFields(h)]
  /\ synced' = [synced EXCEPT ![h] = [f \in ModelFields |->
                  IF f \in UpdateFields(h) THEN Marshal(Stamped(model[h]))[f] ELSE @[f]]]
  /\ GoTo(h, "after_update")
  /\ UNCHANGED <<used, now, id, exists, original, calls, inserted, given>>

\* UpdateOne reports an error; updated_at has been stamped on the model.
WriteFails(h) ==
  /\ pc[h] = "write"
  /\ Changed(h) # {}
  /\ model' = [model EXCEPT ![h] = Stamped(@)]
  /\ \/ /\ "refused" \in Outcomes
        /\ UNCHANGED docs
     \/ /\ "unacknowledged" \in Outcomes
        /\ docs' = AfterUpdateOne(id[h], UpdateFields(h), Stamped(model[h]))
  /\ GoTo(h, "idle")
  /\ UNCHANGED <<used, now, id, exists, original, written, calls, history>>

\* Mutation of Snapshot: the model is not marshalled again.
SnapshotForgotten(h) ==
  /\ pc[h] = "snapshot"
  /\ GoTo(h, "idle")
  /\ UNCHANGED <<docs, used, now, memory, calls, history>>

\* The last step of update: the model is clean again.
Snapshot(h) ==
  /\ pc[h] = "snapshot"
  /\ exists' = [exists EXCEPT ![h] = TRUE]
  /\ original' = [original EXCEPT ![h] = SnapshotOf(model[h])]
  /\ GoTo(h, "idle")
  /\ UNCHANGED <<docs, used, now, id, model, written, calls, history>>

-----------------------------------------------------------------------------
(* Other programs, and the clock.                                          *)

\* timestampedOps adds updated_at to what a query-level update sets.
SetField(doc, f, v) ==
  [g \in DocFields |-> CASE g = f -> v
                         [] g = UpdatedAt /\ Timestamped -> now
                         [] OTHER -> doc[g]]

\* A query-level Update sets or unsets one field of one document.
QueryUpdate(i) ==
  /\ docs[i] # NoDoc
  /\ Call
  /\ \E f \in Fields \cup Undeclared, v \in Values \cup {Absent} :
       /\ v # docs[i][f]
       /\ docs' = [docs EXCEPT ![i] = SetField(@, f, v)]
  /\ UNCHANGED <<used, now, pc, memory, history>>

\* A query-level Delete removes one document.
QueryDelete(i) ==
  /\ docs[i] # NoDoc
  /\ Call
  /\ docs' = [docs EXCEPT ![i] = NoDoc]
  /\ UNCHANGED <<used, now, pc, memory, history>>

Tick ==
  /\ now < MaxTime
  /\ now' = now + 1
  /\ UNCHANGED <<docs, used, pc, memory, calls, history>>

-----------------------------------------------------------------------------
\* The collection starts with some documents, all alike.
Init ==
  /\ \E S \in SUBSET Ids, d \in Seeds :
       /\ used = S
       /\ docs = [i \in Ids |-> IF i \in S
                    THEN [f \in DocFields |-> IF f = UpdatedAt THEN 1 ELSE d[f]]
                    ELSE NoDoc]
  /\ now = 1
  /\ pc = [h \in Handles |-> "empty"]
  /\ id = [h \in Handles |-> NoId]
  /\ model = [h \in Handles |-> [f \in ModelFields |-> IF f \in Fields THEN Zero ELSE 0]]
  /\ exists = [h \in Handles |-> FALSE]
  /\ original = [h \in Handles |-> Nothing]
  /\ written = [h \in Handles |-> {}]
  /\ calls = 0
  /\ synced = [h \in Handles |-> Nothing]
  /\ inserted = [h \in Handles |-> {}]
  /\ given = [h \in Handles |-> {}]

Step(h) ==
  \/ New(h) \/ Load(h) \/ Edit(h) \/ Create(h) \/ SaveExisting(h)
  \/ BeforeCreate(h) \/ Creating(h) \/ Insert(h) \/ InsertFails(h)
  \/ AfterCreate(h) \/ Created(h)
  \/ BeforeUpdate(h) \/ Updating(h)
  \/ NothingToWrite(h) \/ Write(h) \/ WriteFails(h)
  \/ AfterUpdate(h) \/ UpdatedObservers(h) \/ Snapshot(h)

Next ==
  \/ \E h \in Handles : Step(h)
  \/ \E i \in Ids : QueryUpdate(i) \/ QueryDelete(i)
  \/ Tick

Spec == Init /\ [][Next]_vars

-----------------------------------------------------------------------------
TypeOK ==
  /\ docs \in [Ids -> [DocFields -> Stored] \cup {NoDoc}]
  /\ used \subseteq Ids
  /\ now \in Times
  /\ pc \in [Handles -> Steps]
  /\ id \in [Handles -> Ids \cup {NoId}]
  /\ model \in [Handles -> [ModelFields -> InMemory]]
  /\ exists \in [Handles -> BOOLEAN]
  /\ original \in [Handles -> [ModelFields -> Stored]]
  /\ written \in [Handles -> SUBSET ModelFields]
  /\ calls \in 0 .. MaxCalls
  /\ synced \in [Handles -> [ModelFields -> Stored]]
  /\ inserted \in [Handles -> SUBSET Ids]
  /\ given \in [Handles -> SUBSET Ids]

\* "original is the model as it last agreed with the database": between
\* calls, the snapshot of a model that exists holds, for each of its fields,
\* exactly what this model last read from the database or was told it wrote
\* there.  (It is what makes IsDirty, Changes and the next Save right.)
OriginalAgrees ==
  \A h \in Handles : pc[h] = "idle" /\ exists[h] =>
    \A f \in Fields : original[h][f] = synced[h][f]

\* "A field another writer changed in the meantime survives untouched unless
\* this model changed it too": when Save's update alters the document, each
\* field it alters is one the model declares and whose value in the model is
\* not what this handle last exchanged with the database.  Fields the model
\* does not declare and fields a projection did not load are never altered,
\* and a document that was deleted is never brought back.
NoClobber ==
  [][\A h \in Handles :
       pc[h] = "write" /\ pc'[h] # "write" /\ docs'[id[h]] # docs[id[h]] =>
         /\ docs[id[h]] # NoDoc /\ docs'[id[h]] # NoDoc
         /\ \A f \in DocFields \ {UpdatedAt} :
              docs'[id[h]][f] # docs[id[h]][f] =>
                f \in Fields /\ Marshal(model[h])[f] # synced[h][f]]_vars

\* However often Create and Save are retried after errors (a failed hook, a
\* refused or unacknowledged insert, a failed after-hook), one model is only
\* ever stored under one _id: a retry is refused as a duplicate or becomes an
\* update, never a second document.  Only a BeforeCreate or a Creating
\* observer can make it one: what it stores is under an _id that hook gave a
\* model that was stored already, as one that sets a new ID each time it runs
\* does when an insert is retried that had happened without being reported.
OneDocument ==
  \A h \in Handles : \A i, j \in inserted[h] \ given[h] : i = j

\* While AfterUpdate and the Updated observers run, "odm.Changes still
\* reports what was just written": the fields it names are those of the
\* update that was sent.
HooksSeeWrite ==
  \A h \in Handles : pc[h] \in {"after_update", "updated"} =>
    Changed(h) \cap Fields = written[h] \cap Fields

\* "WasChanged reports what the model's last Save wrote": once UpdateOne has
\* succeeded, the document holds the values of the fields it names.
ReportedWritesHappened ==
  [][\A h \in Handles :
       pc[h] = "write" /\ pc'[h] = "after_update" =>
         /\ docs'[id[h]] # NoDoc
         /\ \A f \in written'[h] : docs'[id[h]][f] = Marshal(model'[h])[f]]_vars
=============================================================================
