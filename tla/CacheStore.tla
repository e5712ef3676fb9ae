------------------------------ MODULE CacheStore ------------------------------
(***************************************************************************)
(* What cache.Store (src/cache/cache.go) promises its callers, whichever   *)
(* driver is behind it: a map from keys to values in which a key is gone   *)
(* the instant its time to live is over, and in which counters are exact   *)
(* or an error.  Each call takes effect at once and is answered in last.   *)
(***************************************************************************)
EXTENDS CacheValues

VARIABLES
  store,      \* key -> its value and when it is due to go, or Absent
  now,        \* the store's clock
  prefixed,   \* whether the store was given a key prefix
  last        \* the last call and what it returned

vars == <<store, now, prefixed, last>>

-----------------------------------------------------------------------------
Due(ttl) == IF ttl <= 0 THEN Never ELSE now + ttl
Set(k, v, due) == store' = [store EXCEPT ![k] = [val |-> v, due |-> due]]
Remove(k) == store' = [store EXCEPT ![k] = Absent]
Value(k) == IF store[k] = Absent THEN Absent ELSE store[k].val

Put(k, v, ttl) ==
  /\ last' = <<"Put", k, v, ttl>>
  /\ Set(k, v, Due(ttl))

\* "Add writes val only if key is absent, reporting whether it wrote."
Add(k, v, ttl) ==
  /\ last' = <<"Add", k, v, ttl, store[k] = Absent>>
  /\ IF store[k] = Absent THEN Set(k, v, Due(ttl)) ELSE UNCHANGED store

Forever(k, v) ==
  /\ last' = <<"Forever", k, v>>
  /\ Set(k, v, Never)

Get(k) ==
  /\ last' = <<"Get", k, Value(k)>>
  /\ UNCHANGED store

Has(k) ==
  /\ last' = <<"Has", k, store[k] # Absent>>
  /\ UNCHANGED store

\* "Pull returns the value and removes the key, atomically."
Pull(k) ==
  /\ last' = <<"Pull", k, Value(k)>>
  /\ Remove(k)

Forget(k) ==
  /\ last' = <<"Forget", k>>
  /\ Remove(k)

\* "An absent key is treated as 0. Errors rather than silently wrapping if
\* the result would overflow int64."  The key's expiry stays what it was.
Count(k, result) ==
  IF Value(k) \notin Int64 \cup {Absent} \/ result \notin Int64
  THEN UNCHANGED store
  ELSE Set(k, result, IF store[k] = Absent THEN Never ELSE store[k].due)

Answer(k, result) ==
  IF Value(k) \notin Int64 \cup {Absent} THEN NotAnInteger
  ELSE IF result \notin Int64 THEN WouldOverflow
  ELSE result

Counter(k) == IF Value(k) \in Int64 THEN Value(k) ELSE 0

Increment(k, by) ==
  /\ last' = <<"Increment", k, by, Answer(k, Counter(k) + by)>>
  /\ Count(k, Counter(k) + by)

Decrement(k, by) ==
  /\ last' = <<"Decrement", k, by, Answer(k, Counter(k) - by)>>
  /\ Count(k, Counter(k) - by)

\* "Flush removes every key this store owns" or refuses to.
Flush ==
  /\ last' = <<"Flush", prefixed>>
  /\ store' = IF prefixed THEN [k \in Keys |-> Absent] ELSE store

Call ==
  \/ \E k \in Keys, v \in Values, ttl \in TTLs : Put(k, v, ttl) \/ Add(k, v, ttl)
  \/ \E k \in Keys, v \in Values : Forever(k, v)
  \/ \E k \in Keys : Get(k) \/ Has(k) \/ Pull(k) \/ Forget(k)
  \/ \E k \in Keys, by \in Int64 : Increment(k, by) \/ Decrement(k, by)
  \/ Flush

\* Time passes, and what is due is gone.
Expired(k, t) == store[k] # Absent /\ store[k].due # Never /\ store[k].due <= t
Expire ==
  /\ now < MaxTime
  /\ now' = now + 1
  /\ store' = [k \in Keys |-> IF Expired(k, now + 1) THEN Absent ELSE store[k]]
Tick == Expire /\ UNCHANGED <<prefixed, last>>

Init ==
  /\ store = [k \in Keys |-> Absent]
  /\ now = 1
  /\ prefixed \in BOOLEAN
  /\ last = <<>>

Next ==
  \/ (Call /\ UNCHANGED <<now, prefixed>>)
  \/ Tick

Spec == Init /\ [][Next]_vars
=============================================================================
