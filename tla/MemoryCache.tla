------------------------------ MODULE MemoryCache ------------------------------
(***************************************************************************)
(* The in-process cache (src/cache/memory/memory.go): a map guarded by a   *)
(* mutex.  Every call of Store holds the mutex from beginning to end, so a *)
(* call is one step.  An expired entry stays in the map until a call that  *)
(* looks at its key evicts it.  Counters are int64 and wrap around.        *)
(***************************************************************************)
EXTENDS CacheValues

NoExpiry == 0   \* the zero time.Time; the clock starts at 1

VARIABLES
  data,       \* Store.data: key -> entry
  now,        \* Store.now
  prefixed,   \* Store.prefix # ""
  last        \* the last call and what it returned

vars == <<data, now, prefixed, last>>

Entries == [val : Values, expiresAt : Nat]

ASSUME AbsentAssumption ==
  Absent \notin Entries \cup [val : Values, due : Int \cup {Never}]

-----------------------------------------------------------------------------
\* get: an entry is live until its expiry, exclusive.
Live(k) ==
  /\ data[k] # Absent
  /\ data[k].expiresAt = NoExpiry \/ now < data[k].expiresAt

\* What get leaves of the map.
Evicted(k) == IF Live(k) THEN data ELSE [data EXCEPT ![k] = Absent]

expiryFor(ttl) == IF ttl <= 0 THEN NoExpiry ELSE now + ttl
Stored(k, v, expiresAt) == [data EXCEPT ![k] = [val |-> v, expiresAt |-> expiresAt]]
Found(k) == IF Live(k) THEN data[k].val ELSE Absent

Get(k) ==
  /\ data' = Evicted(k)
  /\ last' = <<"Get", k, Found(k)>>

Put(k, v, ttl) ==
  /\ data' = Stored(k, v, expiryFor(ttl))
  /\ last' = <<"Put", k, v, ttl>>

Add(k, v, ttl) ==
  /\ data' = IF Live(k) THEN data ELSE Stored(k, v, expiryFor(ttl))
  /\ last' = <<"Add", k, v, ttl, ~Live(k)>>

Forever(k, v) ==
  /\ data' = Stored(k, v, NoExpiry)
  /\ last' = <<"Forever", k, v>>

Pull(k) ==
  /\ data' = [data EXCEPT ![k] = Absent]
  /\ last' = <<"Pull", k, Found(k)>>

Forget(k) ==
  /\ data' = [data EXCEPT ![k] = Absent]
  /\ last' = <<"Forget", k>>

Has(k) ==
  /\ data' = Evicted(k)
  /\ last' = <<"Has", k, Live(k)>>

-----------------------------------------------------------------------------
(* Counters.                                                               *)

\* Mutation of Wrap: the machine's integers are taken to be unbounded.
Unbounded(n) == n

\* What is left of the sum or difference of two int64.
Wrap(n) == IF n >= Half THEN n - 2 * Half
           ELSE IF n < -Half THEN n + 2 * Half
           ELSE n

\* x ^ y is negative when the signs of x and y differ, x & y when both are
\* negative.
SignsDiffer(x, y) == (x < 0) # (y < 0)
addOverflows(a, b, c) == SignsDiffer(a, c) /\ SignsDiffer(b, c)
subOverflows(a, b, c) == SignsDiffer(a, b) /\ SignsDiffer(a, c)

\* currentInt: the counter and its expiry, 0 and none for an absent key.
Current(k) == IF Live(k) THEN data[k].val ELSE 0
CurrentExpiry(k) == IF Live(k) THEN data[k].expiresAt ELSE NoExpiry

\* The end of addTo and subFrom, once next has been computed.
Count(op, k, delta, next, overflows) ==
  IF Current(k) \notin Int64
  THEN data' = Evicted(k) /\ last' = <<op, k, delta, NotAnInteger>>
  ELSE IF overflows
  THEN data' = Evicted(k) /\ last' = <<op, k, delta, WouldOverflow>>
  ELSE data' = Stored(k, next, CurrentExpiry(k)) /\ last' = <<op, k, delta, next>>

\* addTo
Increment(k, by) ==
  LET cur == IF Current(k) \in Int64 THEN Current(k) ELSE 0
      next == Wrap(cur + by)
  IN Count("Increment", k, by, next, addOverflows(cur, by, next))

\* Mutation of Decrement: by is negated and handed to addTo.
DecrementByNegation(k, by) ==
  LET cur == IF Current(k) \in Int64 THEN Current(k) ELSE 0
      next == Wrap(cur + Wrap(-by))
  IN Count("Decrement", k, by, next, addOverflows(cur, Wrap(-by), next))

\* subFrom
Decrement(k, by) ==
  LET cur == IF Current(k) \in Int64 THEN Current(k) ELSE 0
      next == Wrap(cur - by)
  IN Count("Decrement", k, by, next, subOverflows(cur, by, next))

-----------------------------------------------------------------------------
Flush ==
  /\ data' = IF prefixed THEN [k \in Keys |-> Absent] ELSE data
  /\ last' = <<"Flush", prefixed>>

Call ==
  \/ \E k \in Keys, v \in Values, ttl \in TTLs : Put(k, v, ttl) \/ Add(k, v, ttl)
  \/ \E k \in Keys, v \in Values : Forever(k, v)
  \/ \E k \in Keys : Get(k) \/ Has(k) \/ Pull(k) \/ Forget(k)
  \/ \E k \in Keys, by \in Int64 : Increment(k, by) \/ Decrement(k, by)
  \/ Flush

\* Time passes; the map is not touched.
Tick == now < MaxTime /\ now' = now + 1 /\ UNCHANGED <<data, prefixed, last>>

Init ==
  /\ data = [k \in Keys |-> Absent]
  /\ now = 1
  /\ prefixed \in BOOLEAN
  /\ last = <<>>

Next ==
  \/ (Call /\ UNCHANGED <<now, prefixed>>)
  \/ Tick

Spec == Init /\ [][Next]_vars

-----------------------------------------------------------------------------
TypeOK ==
  /\ data \in [Keys -> Entries \cup {Absent}]
  /\ now \in 1 .. MaxTime
  /\ prefixed \in BOOLEAN

\* The contract sees the live entries only.
ContractStore ==
  [k \in Keys |-> IF Live(k)
     THEN [val |-> data[k].val,
           due |-> IF data[k].expiresAt = NoExpiry THEN Never ELSE data[k].expiresAt]
     ELSE Absent]

C == INSTANCE CacheStore WITH store <- ContractStore

\* The memory store keeps the promises of cache.Store: no call can tell that
\* expired entries are still in the map, a counter keeps the expiry of its
\* key, and every result is the exact one or an error.
Contract == C!Spec
=============================================================================
