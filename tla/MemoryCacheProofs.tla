-------------------------- MODULE MemoryCacheProofs --------------------------
(***************************************************************************)
(* Proofs about MemoryCache, for every width of the integers, all keys,    *)
(* values and times to live: the overflow tests are exact, and the store   *)
(* implements the contract of cache.Store.                                 *)
(***************************************************************************)
EXTENDS MemoryCache, TLAPS

-----------------------------------------------------------------------------
(* Machine arithmetic.                                                     *)

\* addOverflows holds of the wrapped sum exactly when the sum is no int64,
\* and a sum that is an int64 is not changed by wrapping.
THEOREM AddOverflowExact ==
  ASSUME NEW a \in Int64, NEW b \in Int64
  PROVE  /\ addOverflows(a, b, Wrap(a + b)) <=> a + b \notin Int64
         /\ a + b \in Int64 => Wrap(a + b) = a + b
BY HalfAssumption DEF addOverflows, SignsDiffer, Wrap, Int64

\* The same for subOverflows, the least int64 included, whose negation is
\* none.
THEOREM SubOverflowExact ==
  ASSUME NEW a \in Int64, NEW b \in Int64
  PROVE  /\ subOverflows(a, b, Wrap(a - b)) <=> a - b \notin Int64
         /\ a - b \in Int64 => Wrap(a - b) = a - b
BY HalfAssumption DEF subOverflows, SignsDiffer, Wrap, Int64

-----------------------------------------------------------------------------
(* Types.                                                                  *)

LEMMA ExpiryType ==
  ASSUME TypeOK, NEW ttl \in TTLs
  PROVE  /\ expiryFor(ttl) \in Nat
         /\ expiryFor(ttl) = NoExpiry \/ now < expiryFor(ttl)
         /\ expiryFor(ttl) = NoExpiry <=> ttl <= 0
BY TTLsAssumption, MaxTimeAssumption DEF TypeOK, expiryFor, NoExpiry

LEMMA StoredType ==
  ASSUME TypeOK, NEW k \in Keys, NEW v \in Values, NEW e \in Nat
  PROVE  Stored(k, v, e) \in [Keys -> Entries \cup {Absent}]
BY DEF TypeOK, Stored, Entries

LEMMA RemovedType ==
  ASSUME TypeOK, NEW k \in Keys
  PROVE  /\ [data EXCEPT ![k] = Absent] \in [Keys -> Entries \cup {Absent}]
         /\ Evicted(k) \in [Keys -> Entries \cup {Absent}]
BY DEF TypeOK, Evicted

LEMMA EntryType ==
  ASSUME TypeOK, NEW k \in Keys, Live(k)
  PROVE  data[k].val \in Values /\ data[k].expiresAt \in Nat
BY DEF TypeOK, Live, Entries

\* What is the same of addTo and subFrom.
LEMMA CountType ==
  ASSUME TypeOK, NEW op, NEW k \in Keys, NEW delta, NEW next, NEW overflows \in BOOLEAN,
         overflows \/ next \in Int64,
         Count(op, k, delta, next, overflows)
  PROVE  data' \in [Keys -> Entries \cup {Absent}]
<1>1. CASE data' = Evicted(k)
  BY <1>1, RemovedType
<1>2. CASE data' = Stored(k, next, CurrentExpiry(k)) /\ next \in Int64
  <2>1. CurrentExpiry(k) \in Nat
    BY EntryType DEF CurrentExpiry, NoExpiry
  <2> QED
    BY <1>2, <2>1, StoredType DEF Values
<1> QED
  BY <1>1, <1>2 DEF Count

LEMMA CallType ==
  ASSUME TypeOK, Call
  PROVE  data' \in [Keys -> Entries \cup {Absent}]
<1>1. ASSUME NEW k \in Keys, NEW v \in Values, NEW ttl \in TTLs,
             Put(k, v, ttl) \/ Add(k, v, ttl)
      PROVE  data' \in [Keys -> Entries \cup {Absent}]
  <2>1. Stored(k, v, expiryFor(ttl)) \in [Keys -> Entries \cup {Absent}]
    BY ExpiryType, StoredType
  <2> QED
    BY <1>1, <2>1 DEF Put, Add, TypeOK
<1>2. ASSUME NEW k \in Keys, NEW v \in Values, Forever(k, v)
      PROVE  data' \in [Keys -> Entries \cup {Absent}]
  BY <1>2, StoredType DEF Forever, NoExpiry
<1>3. ASSUME NEW k \in Keys, Get(k) \/ Has(k) \/ Pull(k) \/ Forget(k)
      PROVE  data' \in [Keys -> Entries \cup {Absent}]
  BY <1>3, RemovedType DEF Get, Has, Pull, Forget
<1>4. ASSUME NEW k \in Keys, NEW by \in Int64, Increment(k, by)
      PROVE  data' \in [Keys -> Entries \cup {Absent}]
  <2> DEFINE cur == IF Current(k) \in Int64 THEN Current(k) ELSE 0
  <2>1. cur \in Int64
    BY HalfAssumption DEF Int64
  <2> HIDE DEF cur
  <2>2. addOverflows(cur, by, Wrap(cur + by)) \/ Wrap(cur + by) \in Int64
    BY <2>1, AddOverflowExact
  <2>3. addOverflows(cur, by, Wrap(cur + by)) \in BOOLEAN
    BY DEF addOverflows
  <2>4. Count("Increment", k, by, Wrap(cur + by), addOverflows(cur, by, Wrap(cur + by)))
    BY <1>4 DEF Increment, cur
  <2> QED
    BY <2>2, <2>3, <2>4, CountType
<1>5. ASSUME NEW k \in Keys, NEW by \in Int64, Decrement(k, by)
      PROVE  data' \in [Keys -> Entries \cup {Absent}]
  <2> DEFINE cur == IF Current(k) \in Int64 THEN Current(k) ELSE 0
  <2>1. cur \in Int64
    BY HalfAssumption DEF Int64
  <2> HIDE DEF cur
  <2>2. subOverflows(cur, by, Wrap(cur - by)) \/ Wrap(cur - by) \in Int64
    BY <2>1, SubOverflowExact
  <2>3. subOverflows(cur, by, Wrap(cur - by)) \in BOOLEAN
    BY DEF subOverflows
  <2>4. Count("Decrement", k, by, Wrap(cur - by), subOverflows(cur, by, Wrap(cur - by)))
    BY <1>5 DEF Decrement, cur
  <2> QED
    BY <2>2, <2>3, <2>4, CountType
<1>6. Flush => data' \in [Keys -> Entries \cup {Absent}]
  BY DEF Flush, TypeOK
<1> QED
  BY <1>1, <1>2, <1>3, <1>4, <1>5, <1>6 DEF Call

LEMMA TypeInvariant ==
  /\ Init => TypeOK
  /\ TypeOK /\ [Next]_vars => TypeOK'
<1>1. Init => TypeOK
  BY MaxTimeAssumption DEF Init, TypeOK
<1>2. TypeOK /\ UNCHANGED vars => TypeOK'
  BY DEF TypeOK, vars
<1>3. TypeOK /\ Call /\ UNCHANGED <<now, prefixed>> => TypeOK'
  BY CallType DEF TypeOK
<1>4. TypeOK /\ Tick => TypeOK'
  BY MaxTimeAssumption DEF TypeOK, Tick
<1> QED
  BY <1>1, <1>2, <1>3, <1>4 DEF Next

\* Every stored counter is an int64, and expiries are points in time.
THEOREM TypeCorrect == Spec => []TypeOK
BY TypeInvariant, PTL DEF Spec

-----------------------------------------------------------------------------
(* The refinement mapping.                                                 *)

\* How the contract names an expiry.
Due(e) == IF e = NoExpiry THEN Never ELSE e

\* The contract's store at one key.
LEMMA StoreAt ==
  ASSUME TypeOK, NEW k \in Keys
  PROVE  /\ Live(k) => /\ ContractStore[k] = [val |-> data[k].val, due |-> Due(data[k].expiresAt)]
                       /\ ContractStore[k] # Absent
                       /\ ContractStore[k].val = data[k].val
                       /\ ContractStore[k].due = Due(data[k].expiresAt)
         /\ ~Live(k) => ContractStore[k] = Absent
<1>1. CASE Live(k)
  <2>1. data[k].val \in Values /\ data[k].expiresAt \in Nat
    BY <1>1, EntryType
  <2> DEFINE r == [val |-> data[k].val, due |-> Due(data[k].expiresAt)]
  <2>2. ContractStore[k] = r
    BY <1>1 DEF ContractStore, Due
  <2>3. r \in [val : Values, due : Int \cup {Never}]
    BY <2>1 DEF Due
  <2> QED
    BY <1>1, <2>2, <2>3, AbsentAssumption
<1>2. CASE ~Live(k)
  BY <1>2 DEF ContractStore
<1> QED
  BY <1>1, <1>2

\* A call looks a key up in the map as the contract does in its store.
LEMMA ValueFound ==
  ASSUME TypeOK, NEW k \in Keys
  PROVE  C!Value(k) = Found(k) /\ (ContractStore[k] = Absent <=> ~Live(k))
BY StoreAt DEF C!Value, Found

\* Evicting an expired entry is invisible.
LEMMA EvictedMaps ==
  ASSUME TypeOK, NEW k \in Keys, data' = Evicted(k), now' = now
  PROVE  ContractStore' = ContractStore
<1>1. ASSUME NEW j \in Keys PROVE Live(j)' = Live(j) /\ (Live(j) => data'[j] = data[j])
  BY DEF Live, Evicted, TypeOK
<1> QED
  BY <1>1 DEF ContractStore

LEMMA RemovedMaps ==
  ASSUME TypeOK, NEW k \in Keys, data' = [data EXCEPT ![k] = Absent], now' = now
  PROVE  C!Remove(k)
<1>1. ASSUME NEW j \in Keys
      PROVE  Live(j)' = (Live(j) /\ j # k) /\ (Live(j)' => data'[j] = data[j])
  BY DEF Live, TypeOK
<1>2. ContractStore' = [ContractStore EXCEPT ![k] = Absent]
  BY <1>1 DEF ContractStore
<1> QED
  BY <1>2 DEF C!Remove

LEMMA StoredMaps ==
  ASSUME TypeOK, NEW k \in Keys, NEW v \in Values, NEW e \in Nat,
         e = NoExpiry \/ now < e, data' = Stored(k, v, e), now' = now
  PROVE  C!Set(k, v, Due(e))
<1>1. data' = [data EXCEPT ![k] = [val |-> v, expiresAt |-> e]]
  BY DEF Stored
<1>2. data'[k] = [val |-> v, expiresAt |-> e] /\ \A j \in Keys \ {k} : data'[j] = data[j]
  BY <1>1 DEF TypeOK
<1>3. data'[k] \in Entries
  BY <1>2 DEF Entries
<1>4. Live(k)'
  BY <1>2, <1>3, AbsentAssumption DEF Live
<1>5. \A j \in Keys \ {k} : Live(j)' = Live(j)
  BY <1>2 DEF Live
<1>6. data'[k].val = v /\ data'[k].expiresAt = e
  BY <1>2
<1> DEFINE View(f, j, l) == IF l THEN [val |-> f[j].val, due |-> Due(f[j].expiresAt)] ELSE Absent
<1>7. ContractStore = [j \in Keys |-> View(data, j, Live(j))]
  BY DEF ContractStore, Due
<1>8. ContractStore' = [j \in Keys |-> View(data', j, Live(j)')]
  BY DEF ContractStore, Due
<1>9. View(data', k, Live(k)') = [val |-> v, due |-> Due(e)]
  BY <1>4, <1>6
<1>10. \A j \in Keys \ {k} : View(data', j, Live(j)') = View(data, j, Live(j))
  BY <1>2, <1>5
<1> HIDE DEF View
<1>11. ContractStore' = [ContractStore EXCEPT ![k] = [val |-> v, due |-> Due(e)]]
  BY <1>7, <1>8, <1>9, <1>10
<1> QED
  BY <1>11 DEF C!Set

LEMMA DueExpiry ==
  ASSUME TypeOK, NEW ttl \in TTLs
  PROVE  C!Due(ttl) = Due(expiryFor(ttl))
BY ExpiryType DEF C!Due, Due, expiryFor

\* One step of addTo or subFrom whose overflow test is exact.
LEMMA CountMaps ==
  ASSUME TypeOK, NEW op, NEW k \in Keys, NEW delta, NEW exact \in Int, NEW next,
         NEW overflows \in BOOLEAN,
         overflows <=> exact \notin Int64, exact \in Int64 => next = exact,
         Count(op, k, delta, next, overflows), now' = now
  PROVE  /\ last' = <<op, k, delta, C!Answer(k, exact)>>
         /\ C!Count(k, exact)
<1>1. C!Int64 = Int64
  BY DEF C!Int64, Int64
<1>2. C!Value(k) = Found(k) /\ (ContractStore[k] = Absent <=> ~Live(k))
  BY ValueFound
<1>3. Current(k) \in Int64 <=> C!Value(k) \in Int64 \cup {Absent}
  <2>1. CASE Live(k)
    <3>1. Found(k) = data[k].val /\ Current(k) = data[k].val /\ data[k].val # Absent
      BY <2>1, EntryType, ValuesAssumption DEF Found, Current
    <3> QED
      BY <1>2, <3>1
  <2>2. CASE ~Live(k)
    BY <1>2, <2>2, HalfAssumption DEF Found, Current, Int64
  <2> QED
    BY <2>1, <2>2
<1>4. CASE Current(k) \notin Int64 \/ overflows
  <2>1. data' = Evicted(k)
        /\ last' = <<op, k, delta, IF Current(k) \notin Int64 THEN NotAnInteger ELSE WouldOverflow>>
    BY <1>4 DEF Count
  <2>2. UNCHANGED ContractStore
    BY <2>1, EvictedMaps
  <2> QED
    BY <1>1, <1>3, <1>4, <2>1, <2>2 DEF C!Count, C!Answer
<1>5. CASE Current(k) \in Int64 /\ ~overflows
  <2>1. data' = Stored(k, exact, CurrentExpiry(k)) /\ last' = <<op, k, delta, exact>>
    BY <1>5 DEF Count
  <2>2. CurrentExpiry(k) \in Nat /\ (CurrentExpiry(k) = NoExpiry \/ now < CurrentExpiry(k))
    BY EntryType DEF CurrentExpiry, NoExpiry, Live
  <2>3. exact \in Values
    BY <1>5 DEF Values
  <2>4. C!Set(k, exact, Due(CurrentExpiry(k)))
    BY <2>1, <2>2, <2>3, StoredMaps
  <2>5. Due(CurrentExpiry(k)) = IF ContractStore[k] = Absent THEN Never ELSE ContractStore[k].due
    BY <1>2, StoreAt DEF CurrentExpiry, Due
  <2> QED
    BY <1>1, <1>3, <1>5, <2>1, <2>4, <2>5 DEF C!Count, C!Answer
<1> QED
  BY <1>4, <1>5

\* What the counter holds before it is counted.
LEMMA CounterCurrent ==
  ASSUME TypeOK, NEW k \in Keys
  PROVE  C!Counter(k) = (IF Current(k) \in Int64 THEN Current(k) ELSE 0)
         /\ C!Counter(k) \in Int64
<1>1. C!Int64 = Int64 /\ 0 \in Int64
  BY HalfAssumption DEF C!Int64, Int64
<1>2. Absent \notin Int64
  BY ValuesAssumption DEF Values
<1> QED
  BY <1>1, <1>2, ValueFound DEF C!Counter, Found, Current

LEMMA CallMaps ==
  ASSUME TypeOK, Call, now' = now
  PROVE  C!Call
<1>0. C!Int64 = Int64 /\ C!Values = Values
  BY DEF C!Int64, C!Values, Int64, Values
<1>1. ASSUME NEW k \in Keys, NEW v \in Values, NEW ttl \in TTLs, Put(k, v, ttl)
      PROVE  C!Put(k, v, ttl)
  <2>1. C!Set(k, v, Due(expiryFor(ttl)))
    BY <1>1, ExpiryType, StoredMaps DEF Put
  <2> QED
    BY <1>1, <2>1, DueExpiry DEF Put, C!Put
<1>2. ASSUME NEW k \in Keys, NEW v \in Values, NEW ttl \in TTLs, Add(k, v, ttl)
      PROVE  C!Add(k, v, ttl)
  <2>1. CASE Live(k)
    <3>1. data' = Evicted(k)
      BY <1>2, <2>1 DEF Add, Evicted
    <3>2. UNCHANGED ContractStore
      BY <3>1, EvictedMaps
    <3> QED
      BY <1>2, <2>1, <3>2, ValueFound DEF Add, C!Add
  <2>2. CASE ~Live(k)
    <3>1. C!Set(k, v, Due(expiryFor(ttl)))
      BY <1>2, <2>2, ExpiryType, StoredMaps DEF Add
    <3> QED
      BY <1>2, <2>2, <3>1, ValueFound, DueExpiry DEF Add, C!Add
  <2> QED
    BY <2>1, <2>2
<1>3. ASSUME NEW k \in Keys, NEW v \in Values, Forever(k, v)
      PROVE  C!Forever(k, v)
  <2>1. C!Set(k, v, Due(NoExpiry))
    BY <1>3, StoredMaps DEF Forever, NoExpiry
  <2> QED
    BY <1>3, <2>1 DEF Forever, C!Forever, Due
<1>4. ASSUME NEW k \in Keys PROVE (Get(k) => C!Get(k)) /\ (Has(k) => C!Has(k))
  <2>1. data' = Evicted(k) => UNCHANGED ContractStore
    BY EvictedMaps
  <2>2. (ContractStore[k] # Absent) = Live(k)
    BY ValueFound DEF Live
  <2>3. Get(k) => C!Get(k)
    BY <2>1, ValueFound DEF Get, C!Get
  <2>4. Has(k) => C!Has(k)
    BY <2>1, <2>2 DEF Has, C!Has
  <2> QED
    BY <2>3, <2>4
<1>5. ASSUME NEW k \in Keys PROVE (Pull(k) => C!Pull(k)) /\ (Forget(k) => C!Forget(k))
  BY RemovedMaps, ValueFound DEF Pull, Forget, C!Pull, C!Forget
<1>6. ASSUME NEW k \in Keys, NEW by \in Int64, Increment(k, by)
      PROVE  C!Increment(k, by)
  <2> DEFINE cur == C!Counter(k)
             next == Wrap(cur + by)
  <2>1. cur = (IF Current(k) \in Int64 THEN Current(k) ELSE 0) /\ cur \in Int64
    BY CounterCurrent
  <2> HIDE DEF cur
  <2>2. Count("Increment", k, by, next, addOverflows(cur, by, next))
    BY <1>6, <2>1 DEF Increment
  <2>3. addOverflows(cur, by, next) \in BOOLEAN /\ cur + by \in Int
    BY <2>1 DEF addOverflows, Int64
  <2>4. /\ addOverflows(cur, by, next) <=> cur + by \notin Int64
        /\ cur + by \in Int64 => next = cur + by
    BY <2>1, AddOverflowExact
  <2> HIDE DEF next
  <2>5. /\ last' = <<"Increment", k, by, C!Answer(k, cur + by)>>
        /\ C!Count(k, cur + by)
    BY <2>2, <2>3, <2>4, CountMaps
  <2> QED
    BY <2>5 DEF C!Increment, cur
<1>7. ASSUME NEW k \in Keys, NEW by \in Int64, Decrement(k, by)
      PROVE  C!Decrement(k, by)
  <2> DEFINE cur == C!Counter(k)
             next == Wrap(cur - by)
  <2>1. cur = (IF Current(k) \in Int64 THEN Current(k) ELSE 0) /\ cur \in Int64
    BY CounterCurrent
  <2> HIDE DEF cur
  <2>2. Count("Decrement", k, by, next, subOverflows(cur, by, next))
    BY <1>7, <2>1 DEF Decrement
  <2>3. subOverflows(cur, by, next) \in BOOLEAN /\ cur - by \in Int
    BY <2>1 DEF subOverflows, Int64
  <2>4. /\ subOverflows(cur, by, next) <=> cur - by \notin Int64
        /\ cur - by \in Int64 => next = cur - by
    BY <2>1, SubOverflowExact
  <2> HIDE DEF next
  <2>5. /\ last' = <<"Decrement", k, by, C!Answer(k, cur - by)>>
        /\ C!Count(k, cur - by)
    BY <2>2, <2>3, <2>4, CountMaps
  <2> QED
    BY <2>5 DEF C!Decrement, cur
<1>8. Flush => C!Flush
  <2>1. ASSUME Flush, prefixed PROVE ContractStore' = [k \in Keys |-> Absent]
    BY <2>1 DEF Flush, ContractStore, Live
  <2>2. ASSUME Flush, ~prefixed PROVE ContractStore' = ContractStore
    <3>1. \A k \in Keys : data'[k] = data[k] /\ Live(k)' = Live(k)
      BY <2>2 DEF Flush, Live
    <3> QED
      BY <3>1 DEF ContractStore
  <2> QED
    BY <2>1, <2>2 DEF Flush, C!Flush
<1> QED
  BY <1>0, <1>1, <1>2, <1>3, <1>4, <1>5, <1>6, <1>7, <1>8 DEF Call, C!Call

LEMMA TickMaps ==
  ASSUME TypeOK, Tick
  PROVE  C!Tick
<1>1. ASSUME NEW k \in Keys
      PROVE  ContractStore'[k] = IF C!Expired(k, now + 1) THEN Absent ELSE ContractStore[k]
  <2>1. data' = data /\ now' = now + 1 /\ now \in Nat
    BY DEF Tick, TypeOK
  <2>2. CASE ~Live(k)
    <3>1. ~Live(k)'
      BY <2>1, <2>2 DEF Live, TypeOK, Entries
    <3> QED
      BY <2>2, <3>1, StoreAt DEF ContractStore
  <2>3. CASE Live(k)
    <3>1. data[k].expiresAt \in Nat
      BY <2>3, EntryType
    <3>2. Live(k)' <=> ~C!Expired(k, now + 1)
      <4>1. Live(k)' <=> data[k].expiresAt = NoExpiry \/ now + 1 < data[k].expiresAt
        BY <2>1, <2>3 DEF Live
      <4>2. ContractStore[k] # Absent /\ ContractStore[k].due = Due(data[k].expiresAt)
        BY <2>3, StoreAt
      <4>3. C!Expired(k, now + 1) <=>
              data[k].expiresAt # NoExpiry /\ data[k].expiresAt <= now + 1
        BY <3>1, <4>2, ValuesAssumption DEF C!Expired, Due
      <4> QED
        BY <2>1, <3>1, <4>1, <4>3
    <3>3. Live(k)' => ContractStore'[k] = ContractStore[k]
      BY <2>1, <2>3 DEF ContractStore
    <3>4. ~Live(k)' => ContractStore'[k] = Absent
      BY DEF ContractStore
    <3> QED
      BY <3>2, <3>3, <3>4
  <2> QED
    BY <2>2, <2>3
<1>2. ContractStore' = [k \in Keys |-> ContractStore'[k]]
  BY DEF ContractStore
<1> QED
  BY <1>1, <1>2 DEF Tick, C!Tick, C!Expire

\* The in-process cache keeps the promises of cache.Store, step by step: its
\* lazy eviction cannot be told from keys that go when they are due, and its
\* wrapping counters not from exact ones that refuse to overflow.
THEOREM ImplementsContract == Spec => Contract
<1>1. Init => C!Init
  BY DEF Init, C!Init, ContractStore, Live
<1>2. TypeOK /\ [Next]_vars => [C!Next]_C!vars
  <2>1. ASSUME UNCHANGED vars PROVE UNCHANGED C!vars
    <3>1. \A k \in Keys : data'[k] = data[k] /\ Live(k)' = Live(k)
      BY <2>1 DEF vars, Live
    <3>2. ContractStore' = ContractStore
      BY <3>1 DEF ContractStore
    <3> QED
      BY <2>1, <3>2 DEF vars, C!vars
  <2>2. ASSUME TypeOK, Call, UNCHANGED <<now, prefixed>> PROVE C!Next
    BY <2>2, CallMaps DEF C!Next
  <2>3. ASSUME TypeOK, Tick PROVE C!Next
    BY <2>3, TickMaps DEF C!Next
  <2> QED
    BY <2>1, <2>2, <2>3 DEF Next
<1> QED
  BY <1>1, <1>2, TypeInvariant, PTL DEF Spec, Contract, C!Spec
=============================================================================
