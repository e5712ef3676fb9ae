---------------------------- MODULE OdmSaveProofs ----------------------------
(***************************************************************************)
(* Proofs about OdmSave, for any handles, documents, fields and bounds.    *)
(*                                                                         *)
(* Type correctness and OneDocument hold whatever hooks and writes do.     *)
(* That the snapshot agrees with the database, and with it that Save       *)
(* clobbers no other writer's field, needs the after-update hooks neither  *)
(* to fail nor to change the model: update takes its snapshot after them.  *)
(***************************************************************************)
EXTENDS OdmSave, TLAPS

-----------------------------------------------------------------------------
(* What the codec and the two writes return.                               *)

LEMMA MarshalType ==
  ASSUME NEW m \in [ModelFields -> InMemory]
  PROVE  Marshal(m) \in [ModelFields -> Stored]
BY DEF Marshal, Encode, Stored

LEMMA StampedType ==
  ASSUME NEW m \in [ModelFields -> InMemory], now \in Times
  PROVE  Stamped(m) \in [ModelFields -> InMemory]
BY DEF Stamped, InMemory

\* Stamping changes no field of the model's own.
LEMMA StampedFields ==
  ASSUME NEW m \in [ModelFields -> InMemory], NEW f \in Fields
  PROVE  Marshal(Stamped(m))[f] = Marshal(m)[f]
BY FieldsAssumption DEF Stamped, Marshal, Encode, ModelFields

LEMMA HydrateType ==
  ASSUME NEW doc \in [DocFields -> Stored], NEW p
  PROVE  Hydrate(doc, p) \in [ModelFields -> InMemory]
<1>1. 0 \in Times
  BY BoundsAssumption DEF Times
<1>2. \A v \in Stored : Decode(v) \in InMemory
  BY ValuesAssumption DEF Decode, Stored, InMemory
<1>3. \A f \in ModelFields : doc[f] \in Stored
  BY DEF DocFields
<1> QED
  BY <1>1, <1>2, <1>3, ValuesAssumption DEF Hydrate, InMemory

LEMMA InsertedType ==
  ASSUME NEW m \in [ModelFields -> InMemory]
  PROVE  Inserted(m) \in [DocFields -> Stored]
BY MarshalType DEF Inserted, Stored

LEMMA AfterUpdateOneType ==
  ASSUME TypeOK, NEW i \in Ids \cup {NoId}, NEW fields \in SUBSET ModelFields,
         NEW m \in [ModelFields -> InMemory]
  PROVE  AfterUpdateOne(i, fields, m) \in [Ids -> [DocFields -> Stored] \cup {NoDoc}]
<1>1. \A doc \in [DocFields -> Stored] :
        Updated(doc, fields, m) \in [DocFields -> Stored]
  BY MarshalType DEF Updated
<1> QED
  BY <1>1 DEF AfterUpdateOne, TypeOK

LEMMA UpdateFieldsType ==
  ASSUME NEW h PROVE UpdateFields(h) \in SUBSET ModelFields
BY DEF UpdateFields, Changed, ModelFields

-----------------------------------------------------------------------------
LEMMA InitTypeOK == Init => TypeOK
<1> SUFFICES ASSUME Init PROVE TypeOK
  OBVIOUS
<1>1. 0 \in Times /\ 1 \in Times
  BY BoundsAssumption DEF Times
<1>2. docs \in [Ids -> [DocFields -> Stored] \cup {NoDoc}] /\ used \subseteq Ids
  <2>1. PICK S \in SUBSET Ids, d \in Seeds :
          /\ used = S
          /\ docs = [i \in Ids |-> IF i \in S
               THEN [f \in DocFields |-> IF f = UpdatedAt THEN 1 ELSE d[f]]
               ELSE NoDoc]
    BY DEF Init
  <2>2. d \in [Fields \cup Undeclared -> Values \cup {Absent}]
    BY ChoicesAssumption
  <2>3. [f \in DocFields |-> IF f = UpdatedAt THEN 1 ELSE d[f]] \in [DocFields -> Stored]
    BY <1>1, <2>2 DEF DocFields, ModelFields, Stored, InMemory
  <2> QED
    BY <2>1, <2>3
<1>3. Nothing \in [ModelFields -> Stored]
  BY DEF Nothing, Stored
<1>4. model \in [Handles -> [ModelFields -> InMemory]]
  BY <1>1, ValuesAssumption DEF Init, InMemory
<1> QED
  BY <1>1, <1>2, <1>3, <1>4, BoundsAssumption DEF Init, TypeOK, Steps

LEMMA AssignType ==
  ASSUME NEW h \in Handles, NEW f \in Fields, NEW v \in Values, Assign(h, f, v),
         model \in [Handles -> [ModelFields -> InMemory]]
  PROVE  model' \in [Handles -> [ModelFields -> InMemory]]
<1>1. v \in InMemory /\ f \in ModelFields
  BY DEF InMemory, ModelFields
<1>2. [model[h] EXCEPT ![f] = v] \in [ModelFields -> InMemory]
  BY <1>1
<1>3. model' = [model EXCEPT ![h] = [model[h] EXCEPT ![f] = v]]
  BY DEF Assign
<1> QED
  BY <1>2, <1>3

LEMMA IdentifyType ==
  ASSUME TypeOK, NEW h \in Handles, NEW i \in Ids, Identify(h, i)
  PROVE  /\ id' \in [Handles -> Ids \cup {NoId}]
         /\ used' \subseteq Ids
         /\ given' \in [Handles -> SUBSET Ids]
<1>1. (IF inserted[h] = {} THEN given[h] ELSE given[h] \cup ({i} \ inserted[h])) \in SUBSET Ids
  BY DEF TypeOK
<1> QED
  BY <1>1 DEF Identify, TypeOK

\* A hook changes only its handle's place and one field of its model, or its
\* _id.
LEMMA HookType ==
  ASSUME TypeOK, NEW h \in Handles, NEW at, NEW next \in Steps, NEW allowed,
         Hook(h, at, next, allowed)
  PROVE  TypeOK'
<1>1. "idle" \in Steps
  BY DEF Steps
<1>2. pc' \in [Handles -> Steps]
  BY <1>1 DEF Hook, GoTo, TypeOK
<1>3. model' \in [Handles -> [ModelFields -> InMemory]]
  <2>1. ASSUME NEW f \in Fields, NEW v \in Values, Assign(h, f, v)
        PROVE  model' \in [Handles -> [ModelFields -> InMemory]]
    BY <2>1, AssignType DEF TypeOK
  <2> QED
    BY <2>1 DEF Hook, TypeOK
<1>4. /\ id' \in [Handles -> Ids \cup {NoId}]
      /\ used' \subseteq Ids
      /\ given' \in [Handles -> SUBSET Ids]
  <2>1. CASE UNCHANGED <<used, id, given>>
    BY <2>1 DEF TypeOK
  <2>2. CASE \E i \in Ids : Identify(h, i)
    BY <2>2, IdentifyType
  <2> QED
    BY <2>1, <2>2 DEF Hook
<1> QED
  BY <1>2, <1>3, <1>4 DEF Hook, TypeOK

LEMMA StepTypeOK ==
  ASSUME TypeOK, NEW h \in Handles, Step(h) PROVE TypeOK'
<1> USE DEF GoTo, Call
<1>a. /\ "idle" \in Steps /\ "before_create" \in Steps /\ "creating" \in Steps
      /\ "insert" \in Steps /\ "after_create" \in Steps /\ "created" \in Steps
      /\ "before_update" \in Steps /\ "updating" \in Steps /\ "write" \in Steps
      /\ "after_update" \in Steps /\ "updated" \in Steps /\ "snapshot" \in Steps
  BY DEF Steps
<1>b. now \in Times /\ 0 \in Times
  BY BoundsAssumption DEF TypeOK, Times
<1>c. calls < MaxCalls => calls + 1 \in 0 .. MaxCalls
  BY BoundsAssumption DEF TypeOK
<1>d. Nothing \in [ModelFields -> Stored]
  BY DEF Nothing, Stored
<1>e. Stamped(model[h]) \in [ModelFields -> InMemory]
  BY <1>b, StampedType DEF TypeOK
<1>f. /\ Marshal(Stamped(model[h])) \in [ModelFields -> Stored]
      /\ SnapshotOf(Stamped(model[h])) \in [ModelFields -> Stored]
      /\ SnapshotOf(model[h]) \in [ModelFields -> Stored]
  BY <1>e, MarshalType DEF TypeOK, SnapshotOf
<1>g. UpdateFields(h) \in SUBSET ModelFields
  BY UpdateFieldsType
<1>h. AfterUpdateOne(id[h], UpdateFields(h), Stamped(model[h]))
        \in [Ids -> [DocFields -> Stored] \cup {NoDoc}]
  BY <1>e, <1>g, AfterUpdateOneType DEF TypeOK
<1>1. CASE New(h)
  <2>1. PICK i \in Ids \cup {NoId}, m \in [Fields -> Values] :
          /\ id' = [id EXCEPT ![h] = i]
          /\ model' = [model EXCEPT ![h] =
                         [f \in ModelFields |-> IF f \in Fields THEN m[f] ELSE 0]]
          /\ used' = used \cup ({i} \ {NoId})
    BY <1>1 DEF New
  <2>2. [f \in ModelFields |-> IF f \in Fields THEN m[f] ELSE 0] \in [ModelFields -> InMemory]
    BY <1>b DEF InMemory
  <2> QED
    BY <1>1, <1>a, <1>c, <1>d, <2>1, <2>2 DEF New, TypeOK
<1>2. CASE Load(h)
  <2>1. PICK i \in {j \in Ids : docs[j] # NoDoc}, p \in Projections :
          /\ id' = [id EXCEPT ![h] = i]
          /\ model' = [model EXCEPT ![h] = Hydrate(docs[i], p)]
          /\ original' = [original EXCEPT ![h] = SnapshotOf(Hydrate(docs[i], p))]
          /\ synced' = [synced EXCEPT ![h] = Marshal(Hydrate(docs[i], p))]
    BY <1>2 DEF Load
  <2>2. Hydrate(docs[i], p) \in [ModelFields -> InMemory]
    BY HydrateType DEF TypeOK
  <2>3. Marshal(Hydrate(docs[i], p)) \in [ModelFields -> Stored]
    BY <2>2, MarshalType
  <2> QED
    BY <1>2, <1>a, <1>c, <2>1, <2>2, <2>3 DEF Load, TypeOK, SnapshotOf
<1>3. CASE Edit(h)
  <2>1. model' \in [Handles -> [ModelFields -> InMemory]]
    BY <1>3, AssignType DEF Edit, TypeOK
  <2> QED
    BY <1>3, <1>c, <2>1 DEF Edit, TypeOK, history
<1>4. CASE Create(h) \/ SaveExisting(h) \/ NothingToWrite(h)
  BY <1>4, <1>a, <1>c DEF Create, SaveExisting, NothingToWrite, TypeOK, memory, history
<1>5. CASE BeforeCreate(h) \/ Creating(h) \/ AfterCreate(h) \/ Created(h)
           \/ BeforeUpdate(h) \/ Updating(h) \/ AfterUpdate(h) \/ UpdatedObservers(h)
  BY <1>5, <1>a, HookType DEF BeforeCreate, Creating, AfterCreate, Created,
     BeforeUpdate, Updating, AfterUpdate, UpdatedObservers
<1>6. CASE Insert(h)
  <2>1. PICK i \in InsertId(h) :
          /\ docs[i] = NoDoc
          /\ PrepareForInsert(h, i)
          /\ docs' = [docs EXCEPT ![i] = Inserted(Stamped(model[h]))]
          /\ inserted' = [inserted EXCEPT ![h] = @ \cup {i}]
    BY <1>6 DEF Insert
  <2>2. i \in Ids
    BY DEF InsertId, TypeOK
  <2>3. Inserted(Stamped(model[h])) \in [DocFields -> Stored]
    BY <1>e, InsertedType
  <2> QED
    BY <1>6, <1>a, <1>e, <1>f, <2>1, <2>2, <2>3 DEF Insert, PrepareForInsert, TypeOK
<1>7. CASE InsertFails(h)
  <2>1. PICK i \in InsertId(h) :
          /\ PrepareForInsert(h, i)
          /\ \/ UNCHANGED <<docs, inserted>>
             \/ /\ docs' = [docs EXCEPT ![i] = Inserted(Stamped(model[h]))]
                /\ inserted' = [inserted EXCEPT ![h] = @ \cup {i}]
    BY <1>7 DEF InsertFails
  <2>2. i \in Ids
    BY DEF InsertId, TypeOK
  <2>3. Inserted(Stamped(model[h])) \in [DocFields -> Stored]
    BY <1>e, InsertedType
  <2>4. docs' \in [Ids -> [DocFields -> Stored] \cup {NoDoc}]
    BY <2>1, <2>2, <2>3 DEF TypeOK
  <2>5. inserted' \in [Handles -> SUBSET Ids]
    <3>1. inserted[h] \cup {i} \in SUBSET Ids
      BY <2>2 DEF TypeOK
    <3>2. inserted' = inserted \/ inserted' = [inserted EXCEPT ![h] = inserted[h] \cup {i}]
      BY <2>1
    <3> QED
      BY <3>1, <3>2 DEF TypeOK
  <2>6. id' \in [Handles -> Ids \cup {NoId}] /\ used' \subseteq Ids
    BY <2>1, <2>2 DEF PrepareForInsert, TypeOK
  <2>7. model' \in [Handles -> [ModelFields -> InMemory]]
    BY <1>e, <2>1 DEF PrepareForInsert, TypeOK
  <2> QED
    BY <1>7, <1>a, <2>4, <2>5, <2>6, <2>7 DEF InsertFails, TypeOK
<1>8. CASE Write(h)
  BY <1>8, <1>a, <1>e, <1>f, <1>g, <1>h DEF Write, TypeOK
<1>9. CASE WriteFails(h)
  BY <1>9, <1>a, <1>e, <1>h DEF WriteFails, TypeOK, history
<1>10. CASE Snapshot(h)
  BY <1>10, <1>a, <1>f DEF Snapshot, TypeOK, history
<1> QED
  BY <1>1, <1>2, <1>3, <1>4, <1>5, <1>6, <1>7, <1>8, <1>9, <1>10 DEF Step

LEMMA OtherTypeOK ==
  ASSUME TypeOK, (\E i \in Ids : QueryUpdate(i) \/ QueryDelete(i)) \/ Tick
  PROVE  TypeOK'
<1>0. Call => calls' \in 0 .. MaxCalls
  BY BoundsAssumption DEF TypeOK, Call
<1>1. ASSUME NEW i \in Ids, QueryUpdate(i) PROVE TypeOK'
  <2>1. PICK f \in Fields \cup Undeclared, v \in Values \cup {Absent} :
          docs' = [docs EXCEPT ![i] = SetField(@, f, v)]
    BY <1>1 DEF QueryUpdate
  <2>2. docs[i] \in [DocFields -> Stored] /\ v \in Stored /\ now \in Stored
    BY <1>1 DEF QueryUpdate, TypeOK, Stored, InMemory
  <2>3. SetField(docs[i], f, v) \in [DocFields -> Stored]
    BY <2>2 DEF SetField
  <2>4. docs' \in [Ids -> [DocFields -> Stored] \cup {NoDoc}]
    BY <2>1, <2>3 DEF TypeOK
  <2> QED
    BY <1>0, <1>1, <2>4 DEF QueryUpdate, TypeOK, memory, history
<1>2. ASSUME NEW i \in Ids, QueryDelete(i) PROVE TypeOK'
  <2>1. docs' \in [Ids -> [DocFields -> Stored] \cup {NoDoc}]
    BY <1>2 DEF QueryDelete, TypeOK
  <2> QED
    BY <1>0, <1>2, <2>1 DEF QueryDelete, TypeOK, memory, history
<1>3. CASE Tick
  <2>1. now' \in Times
    BY <1>3, BoundsAssumption DEF Tick, Times, TypeOK
  <2> QED
    BY <1>3, <2>1 DEF Tick, TypeOK, memory, history
<1> QED
  BY <1>1, <1>2, <1>3

LEMMA NextTypeOK == TypeOK /\ [Next]_vars => TypeOK'
<1>1. ASSUME TypeOK, UNCHANGED vars PROVE TypeOK'
  BY <1>1 DEF vars, memory, history, TypeOK
<1> QED
  BY <1>1, StepTypeOK, OtherTypeOK DEF Next

\* Every variable keeps its type, whatever the hooks do and however the
\* writes end.
THEOREM TypeCorrect == Spec => []TypeOK
BY InitTypeOK, NextTypeOK, PTL DEF Spec

-----------------------------------------------------------------------------
(* Handles do not touch each other's models.                               *)

\* What a step of anyone but a handle itself leaves to that handle.
LEMMA OthersKeep ==
  ASSUME [Next]_vars, TypeOK, NEW g \in Handles, ~Step(g)
  PROVE  /\ pc'[g] = pc[g] /\ id'[g] = id[g] /\ model'[g] = model[g]
         /\ exists'[g] = exists[g] /\ original'[g] = original[g]
         /\ written'[g] = written[g]
         /\ synced'[g] = synced[g] /\ inserted'[g] = inserted[g]
         /\ given'[g] = given[g]
<1> USE DEF TypeOK, memory, history
<1>1. ASSUME NEW h \in Handles, h # g, Step(h)
      PROVE  /\ pc'[g] = pc[g] /\ id'[g] = id[g] /\ model'[g] = model[g]
             /\ exists'[g] = exists[g] /\ original'[g] = original[g]
             /\ written'[g] = written[g]
             /\ synced'[g] = synced[g] /\ inserted'[g] = inserted[g]
             /\ given'[g] = given[g]
  <2> USE <1>1 DEF GoTo
  <2>1. CASE New(h) \/ Load(h) \/ Edit(h) \/ Create(h) \/ SaveExisting(h)
    BY <2>1 DEF New, Load, Edit, Create, SaveExisting, Assign
  <2>2. ASSUME NEW at, NEW next, NEW allowed, Hook(h, at, next, allowed)
        PROVE  /\ pc'[g] = pc[g] /\ id'[g] = id[g] /\ model'[g] = model[g]
               /\ exists'[g] = exists[g] /\ original'[g] = original[g]
               /\ written'[g] = written[g]
               /\ synced'[g] = synced[g] /\ inserted'[g] = inserted[g]
               /\ given'[g] = given[g]
    BY <2>2 DEF Hook, Assign, Identify
  <2>3. CASE BeforeCreate(h) \/ Creating(h) \/ AfterCreate(h) \/ Created(h)
             \/ BeforeUpdate(h) \/ Updating(h) \/ AfterUpdate(h) \/ UpdatedObservers(h)
    BY <2>2, <2>3 DEF BeforeCreate, Creating, AfterCreate, Created, BeforeUpdate,
       Updating, AfterUpdate, UpdatedObservers
  <2>4. CASE Insert(h) \/ InsertFails(h)
    BY <2>4 DEF Insert, InsertFails, PrepareForInsert
  <2>5. CASE NothingToWrite(h) \/ Write(h) \/ WriteFails(h) \/ Snapshot(h)
    BY <2>5 DEF NothingToWrite, Write, WriteFails, Snapshot
  <2> QED
    BY <2>1, <2>3, <2>4, <2>5 DEF Step
<1>2. CASE \E i \in Ids : QueryUpdate(i) \/ QueryDelete(i)
  BY <1>2 DEF QueryUpdate, QueryDelete
<1>3. CASE Tick
  BY <1>3 DEF Tick
<1>4. CASE UNCHANGED vars
  BY <1>4 DEF vars
<1> QED
  BY <1>1, <1>2, <1>3, <1>4 DEF Next

-----------------------------------------------------------------------------
(* One model is stored under one _id.                                      *)

\* The strengthening of OneDocument: what a model was stored under without a
\* hook's doing is the _id it still has, unless a hook has given it another.
OwnDocument ==
  \A h \in Handles :
    /\ \A i, j \in inserted[h] \ given[h] : i = j
    /\ id[h] \in given[h] \/ inserted[h] \ given[h] \subseteq {id[h]}

LEMMA NextOwnDocument == TypeOK /\ OwnDocument /\ [Next]_vars => OwnDocument'
<1> DEFINE Single(ins, giv, i) ==
      /\ \A j, k \in ins \ giv : j = k
      /\ i \in giv \/ ins \ giv \subseteq {i}
<1> SUFFICES ASSUME TypeOK, OwnDocument, [Next]_vars, NEW g \in Handles
             PROVE  Single(inserted'[g], given'[g], id'[g])
  BY DEF OwnDocument
<1>0. Single(inserted[g], given[g], id[g])
  BY DEF OwnDocument
<1>1. CASE ~Step(g)
  BY <1>0, <1>1, OthersKeep
<1>2. CASE New(g) \/ Load(g)
  BY <1>2 DEF New, Load, TypeOK
<1>3. CASE Insert(g) \/ InsertFails(g)
  <2>1. PICK i \in InsertId(g) :
          /\ id' = [id EXCEPT ![g] = i]
          /\ inserted' = inserted \/ inserted' = [inserted EXCEPT ![g] = @ \cup {i}]
    BY <1>3 DEF Insert, InsertFails, PrepareForInsert
  <2>2. /\ inserted'[g] = inserted[g] \/ inserted'[g] = inserted[g] \cup {i}
        /\ id'[g] = i /\ given'[g] = given[g]
    BY <1>3, <2>1 DEF TypeOK, Insert, InsertFails
  <2>3. CASE id[g] = NoId
    <3>1. id[g] \notin given[g] /\ id[g] \notin inserted[g]
      BY <2>3, IdAssumption DEF TypeOK
    <3>2. inserted[g] \ given[g] = {}
      BY <1>0, <3>1
    <3> QED
      BY <2>2, <3>2
  <2>4. CASE id[g] # NoId
    BY <1>0, <2>2, <2>4 DEF InsertId
  <2> QED
    BY <2>3, <2>4
<1>4. ASSUME UNCHANGED <<id, inserted, given>>
      PROVE  Single(inserted'[g], given'[g], id'[g])
  BY <1>0, <1>4
<1>5. CASE Edit(g) \/ Create(g) \/ SaveExisting(g) \/ NothingToWrite(g) \/ Write(g)
           \/ WriteFails(g) \/ Snapshot(g)
  <2>1. UNCHANGED <<id, inserted, given>>
    BY <1>5 DEF Edit, Create, SaveExisting, NothingToWrite, Write, WriteFails,
       Snapshot, memory, history
  <2> QED
    BY <1>4, <2>1
<1>6. ASSUME NEW at, NEW next, NEW allowed, Hook(g, at, next, allowed)
      PROVE  Single(inserted'[g], given'[g], id'[g])
  <2>1. CASE UNCHANGED <<used, id, given>>
    BY <1>4, <1>6, <2>1 DEF Hook
  <2>2. ASSUME NEW i \in Ids, Identify(g, i)
        PROVE  Single(inserted'[g], given'[g], id'[g])
    <3>1. /\ id'[g] = i /\ inserted'[g] = inserted[g]
          /\ given'[g] = IF inserted[g] = {} THEN given[g]
                        ELSE given[g] \cup ({i} \ inserted[g])
      BY <1>6, <2>2 DEF Identify, Hook, TypeOK
    <3>2. CASE inserted[g] = {}
      BY <3>1, <3>2
    <3>3. CASE inserted[g] # {}
      <4>1. inserted'[g] \ given'[g] = inserted[g] \ given[g]
        BY <3>1, <3>3
      <4>2. CASE i \in given'[g]
        BY <1>0, <3>1, <4>1, <4>2
      <4>3. CASE i \notin given'[g]
        <5>1. i \in inserted[g] \ given[g]
          BY <3>1, <3>3, <4>3
        <5> QED
          BY <1>0, <3>1, <4>1, <5>1
      <4> QED
        BY <4>2, <4>3
    <3> QED
      BY <3>2, <3>3
  <2> QED
    BY <1>6, <2>1, <2>2 DEF Hook
<1>7. CASE BeforeCreate(g) \/ Creating(g) \/ AfterCreate(g) \/ Created(g)
           \/ BeforeUpdate(g) \/ Updating(g) \/ AfterUpdate(g) \/ UpdatedObservers(g)
  BY <1>6, <1>7 DEF BeforeCreate, Creating, AfterCreate, Created, BeforeUpdate,
     Updating, AfterUpdate, UpdatedObservers
<1> QED
  BY <1>1, <1>2, <1>3, <1>5, <1>7 DEF Step

\* However often Create and Save are retried after whatever errors, a model
\* is only ever inserted under one _id, apart from the _ids a before-create
\* hook gave it once it was stored.
THEOREM OneDocumentPerModel == Spec => []OneDocument
<1>1. Init => OwnDocument
  BY DEF Init, OwnDocument
<1>2. OwnDocument => OneDocument
  BY DEF OwnDocument, OneDocument
<1> QED
  BY <1>1, <1>2, TypeCorrect, NextOwnDocument, PTL DEF Spec

-----------------------------------------------------------------------------
(* The snapshot and the database.                                          *)

Afterwards == {"after_update", "updated", "snapshot"}

\* Save's update path is only entered with a model that exists.
UpdateExists ==
  \A h \in Handles :
    pc[h] \in {"before_update", "updating", "write"} \cup Afterwards => exists[h]

\* The strengthening of OriginalAgrees.  Between UpdateOne and the final
\* snapshot it is the model itself that agrees with the database.
Agreement ==
  \A h \in Handles : exists[h] => \A f \in Fields :
    synced[h][f] = IF pc[h] \in Afterwards THEN Marshal(model[h])[f]
                   ELSE original[h][f]

LEMMA NextUpdateExists ==
  TypeOK /\ UpdateExists /\ [Next]_vars => UpdateExists'
<1> SUFFICES ASSUME TypeOK, UpdateExists, [Next]_vars, NEW g \in Handles,
                    pc'[g] \in {"before_update", "updating", "write"} \cup Afterwards
             PROVE  exists'[g]
  BY DEF UpdateExists
<1> USE DEF TypeOK, GoTo, Afterwards
<1>1. CASE ~Step(g)
  BY <1>1, OthersKeep DEF UpdateExists
<1>2. CASE New(g) \/ Load(g) \/ Edit(g) \/ Create(g) \/ SaveExisting(g)
  BY <1>2 DEF New, Load, Edit, Create, SaveExisting, memory
<1>3. CASE Insert(g) \/ InsertFails(g)
  BY <1>3 DEF Insert, InsertFails
<1>4. CASE NothingToWrite(g) \/ Write(g) \/ WriteFails(g) \/ Snapshot(g)
  BY <1>4 DEF NothingToWrite, Write, WriteFails, Snapshot, UpdateExists
<1>5. CASE BeforeCreate(g) \/ Creating(g) \/ AfterCreate(g) \/ Created(g)
  BY <1>5 DEF BeforeCreate, Creating, AfterCreate, Created, Hook
<1>6. CASE BeforeUpdate(g) \/ Updating(g) \/ AfterUpdate(g) \/ UpdatedObservers(g)
  BY <1>6 DEF BeforeUpdate, Updating, AfterUpdate, UpdatedObservers, Hook, UpdateExists
<1> QED
  BY <1>1, <1>2, <1>3, <1>4, <1>5, <1>6 DEF Step

LEMMA NextAgreement ==
  ASSUME AfterUpdateHooks \subseteq {"ok"}
  PROVE  TypeOK /\ UpdateExists /\ Agreement /\ [Next]_vars => Agreement'
<1> SUFFICES ASSUME TypeOK, UpdateExists, Agreement, [Next]_vars, NEW g \in Handles,
                    exists'[g], NEW f \in Fields
             PROVE  synced'[g][f] = IF pc'[g] \in Afterwards THEN Marshal(model'[g])[f]
                                    ELSE original'[g][f]
  BY DEF Agreement, Marshal
<1>0. f \in ModelFields
  BY DEF ModelFields
<1> USE DEF TypeOK, GoTo, Afterwards
<1>1. CASE ~Step(g)
  BY <1>1, OthersKeep DEF Agreement
<1>2. CASE New(g)
  BY <1>2 DEF New
<1>3. CASE Load(g)
  BY <1>3 DEF Load, SnapshotOf
<1>4. CASE Edit(g) \/ Create(g) \/ SaveExisting(g) \/ NothingToWrite(g)
  BY <1>4 DEF Edit, Create, SaveExisting, NothingToWrite, Agreement, memory, history
<1>5. CASE Insert(g)
  BY <1>5 DEF Insert, SnapshotOf
<1>6. CASE InsertFails(g)
  BY <1>6 DEF InsertFails, Agreement
<1>7. CASE Write(g)
  <2>1. /\ synced'[g][f] = IF f \in UpdateFields(g) THEN Marshal(Stamped(model[g]))[f]
                           ELSE synced[g][f]
        /\ model'[g] = Stamped(model[g])
        /\ pc'[g] = "after_update"
    BY <1>7, <1>0 DEF Write
  <2>2. Marshal(Stamped(model[g]))[f] = Marshal(model[g])[f]
    BY StampedFields
  <2>3. CASE f \in UpdateFields(g)
    BY <2>1, <2>3
  <2>4. CASE f \notin UpdateFields(g)
    <3>1. Marshal(model[g])[f] = original[g][f]
      BY <1>0, <2>4 DEF UpdateFields, Changed
    <3>2. synced[g][f] = original[g][f]
      BY <1>7 DEF Write, Agreement, UpdateExists
    <3> QED
      BY <2>1, <2>2, <2>4, <3>1, <3>2
  <2> QED
    BY <2>3, <2>4
<1>8. CASE WriteFails(g)
  BY <1>8 DEF WriteFails, Agreement, history
<1>9. CASE Snapshot(g)
  BY <1>9 DEF Snapshot, Agreement, UpdateExists, SnapshotOf, history
<1>10. CASE BeforeCreate(g) \/ Creating(g) \/ AfterCreate(g) \/ Created(g)
            \/ BeforeUpdate(g) \/ Updating(g)
  BY SMTT(30), <1>10 DEF BeforeCreate, Creating, AfterCreate, Created, BeforeUpdate, Updating,
     Hook, Agreement, history
<1>11. CASE AfterUpdate(g) \/ UpdatedObservers(g)
  BY <1>11 DEF AfterUpdate, UpdatedObservers, Hook, Agreement, history
<1> QED
  BY <1>1, <1>2, <1>3, <1>4, <1>5, <1>6, <1>7, <1>8, <1>9, <1>10, <1>11 DEF Step

\* With after-update hooks that neither fail nor change the model, the two
\* invariants always hold.
LEMMA AgreementCorrect ==
  ASSUME AfterUpdateHooks \subseteq {"ok"}
  PROVE  Spec => [](TypeOK /\ UpdateExists /\ Agreement)
<1>1. Init => UpdateExists /\ Agreement
  BY DEF Init, UpdateExists, Agreement, Afterwards
<1>2. TypeOK /\ UpdateExists /\ Agreement /\ [Next]_vars => Agreement'
  BY NextAgreement
<1> QED
  BY <1>1, <1>2, InitTypeOK, NextTypeOK, NextUpdateExists, PTL DEF Spec

\* The snapshot of a model between calls is the model as it last agreed with
\* the database.
THEOREM SnapshotAgrees ==
  ASSUME AfterUpdateHooks \subseteq {"ok"}
  PROVE  Spec => []OriginalAgrees
<1>1. Agreement => OriginalAgrees
  BY DEF Agreement, OriginalAgrees, Afterwards
<1> QED
  BY <1>1, AgreementCorrect, PTL

\* Save alters a field of a document only where the model differs from what
\* it last read or wrote there: no other writer's field is lost.
THEOREM SaveClobbersNothing ==
  ASSUME AfterUpdateHooks \subseteq {"ok"}
  PROVE  Spec => NoClobber
<1> DEFINE Kept(h) ==
      pc[h] = "write" /\ pc'[h] # "write" /\ docs'[id[h]] # docs[id[h]] =>
         /\ docs[id[h]] # NoDoc /\ docs'[id[h]] # NoDoc
         /\ \A f \in DocFields \ {UpdatedAt} :
              docs'[id[h]][f] # docs[id[h]][f] =>
                f \in Fields /\ Marshal(model[h])[f] # synced[h][f]
<1>1. ASSUME TypeOK, UpdateExists, Agreement, [Next]_vars, NEW h \in Handles,
             pc[h] = "write", pc'[h] # "write", docs'[id[h]] # docs[id[h]]
      PROVE  Kept(h)
  <2>1. Write(h) \/ WriteFails(h)
    BY <1>1, OthersKeep DEF Step, New, Load, Edit, Create, SaveExisting, BeforeCreate,
       Creating, Insert, InsertFails, AfterCreate, Created, BeforeUpdate, Updating,
       NothingToWrite, AfterUpdate, UpdatedObservers, Snapshot, Hook
  <2>2. docs' = AfterUpdateOne(id[h], UpdateFields(h), Stamped(model[h]))
    BY <1>1, <2>1 DEF Write, WriteFails
  <2>3. id[h] \in Ids
    BY <1>1, <2>2 DEF AfterUpdateOne, TypeOK
  <2>4. /\ docs[id[h]] # NoDoc
        /\ docs'[id[h]] = Updated(docs[id[h]], UpdateFields(h), Stamped(model[h]))
    BY <1>1, <2>2, <2>3 DEF AfterUpdateOne, TypeOK
  <2>5. docs'[id[h]] # NoDoc
    <3>1. Marshal(Stamped(model[h])) \in [ModelFields -> Stored]
      BY <1>1, StampedType, MarshalType DEF TypeOK
    <3>2. docs[id[h]] \in [DocFields -> Stored]
      BY <1>1, <2>3, <2>4 DEF TypeOK
    <3>3. docs'[id[h]] \in [DocFields -> Stored]
      BY <2>4, <3>1, <3>2, UpdateFieldsType DEF Updated
    <3> QED
      BY <3>3, NoDocAssumption
  <2>6. ASSUME NEW f \in DocFields \ {UpdatedAt}, docs'[id[h]][f] # docs[id[h]][f]
        PROVE  f \in Fields /\ Marshal(model[h])[f] # synced[h][f]
    <3>1. f \in UpdateFields(h)
      BY <2>4, <2>6 DEF Updated
    <3>2. f \in Fields /\ Marshal(model[h])[f] # original[h][f]
      BY <3>1, <2>6 DEF UpdateFields, Changed, ModelFields
    <3>3. synced[h][f] = original[h][f]
      BY <1>1, <3>2 DEF Agreement, UpdateExists, Afterwards
    <3> QED
      BY <3>2, <3>3
  <2> QED
    BY <2>4, <2>5, <2>6
<1>2. TypeOK /\ UpdateExists /\ Agreement /\ [Next]_vars => \A h \in Handles : Kept(h)
  BY <1>1
<1>3. (\A h \in Handles : Kept(h)) => [\A h \in Handles : Kept(h)]_vars
  OBVIOUS
<1> QED
  BY <1>2, AgreementCorrect, PTL DEF NoClobber, Spec

-----------------------------------------------------------------------------
(* What the after-update hooks see.                                        *)

LEMMA NextHooksSeeWrite ==
  ASSUME AfterUpdateHooks \subseteq {"ok"}
  PROVE  TypeOK /\ HooksSeeWrite /\ [Next]_vars => HooksSeeWrite'
<1> SUFFICES ASSUME TypeOK, HooksSeeWrite, [Next]_vars, NEW g \in Handles,
                    pc'[g] \in {"after_update", "updated"}
             PROVE  \A f \in Fields : f \in written'[g] <=>
                      Marshal(model'[g])[f] # original'[g][f]
  BY DEF HooksSeeWrite, Changed, ModelFields, Marshal
<1>0. \A f \in Fields : f \in Changed(g) <=> Marshal(model[g])[f] # original[g][f]
  BY DEF Changed, ModelFields
<1> USE DEF TypeOK, GoTo
<1>1. CASE ~Step(g)
  BY <1>0, <1>1, OthersKeep DEF HooksSeeWrite
<1>2. CASE New(g) \/ Load(g) \/ Edit(g) \/ Create(g) \/ SaveExisting(g)
  BY <1>2 DEF New, Load, Edit, Create, SaveExisting
<1>3. CASE Insert(g) \/ InsertFails(g) \/ NothingToWrite(g) \/ WriteFails(g) \/ Snapshot(g)
  BY <1>3 DEF Insert, InsertFails, NothingToWrite, WriteFails, Snapshot
<1>4. CASE Write(g)
  <2>1. /\ written'[g] = UpdateFields(g)
        /\ model'[g] = Stamped(model[g])
        /\ original'[g] = original[g]
    BY <1>4 DEF Write
  <2>2. \A f \in Fields : f \in UpdateFields(g) <=> f \in Changed(g)
    BY FieldsAssumption DEF UpdateFields
  <2>3. \A f \in Fields : Marshal(Stamped(model[g]))[f] = Marshal(model[g])[f]
    BY StampedFields
  <2> QED
    BY <1>0, <2>1, <2>2, <2>3
<1>5. CASE BeforeCreate(g) \/ Creating(g) \/ AfterCreate(g) \/ Created(g)
           \/ BeforeUpdate(g) \/ Updating(g)
  BY <1>5 DEF BeforeCreate, Creating, AfterCreate, Created, BeforeUpdate, Updating, Hook
<1>6. CASE AfterUpdate(g) \/ UpdatedObservers(g)
  BY <1>0, <1>6 DEF AfterUpdate, UpdatedObservers, Hook, HooksSeeWrite
<1> QED
  BY <1>1, <1>2, <1>3, <1>4, <1>5, <1>6 DEF Step

\* While AfterUpdate and the Updated observers run, Changes names the fields
\* of the update that was sent, as long as none of them changes the model.
THEOREM HooksSeeTheWrite ==
  ASSUME AfterUpdateHooks \subseteq {"ok"}
  PROVE  Spec => []HooksSeeWrite
<1>1. Init => HooksSeeWrite
  BY DEF Init, HooksSeeWrite
<1> QED
  BY <1>1, InitTypeOK, NextTypeOK, NextHooksSeeWrite, PTL DEF Spec
=============================================================================
