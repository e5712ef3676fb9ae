--------------------------- MODULE RedisCacheProofs ---------------------------
(***************************************************************************)
(* Proofs about RedisCache, for any number of stores, clients, keys and    *)
(* retries and every size of the batches: what is stored and collected is  *)
(* what its type says, a Flush that returns without an error has removed   *)
(* all its store had, every command is a step of the cache contract, and   *)
(* a call under way comes nearer its end with each of its steps.           *)
(***************************************************************************)
EXTENDS RedisCache, FiniteSetTheorems, SequenceTheorems, TLAPS

-----------------------------------------------------------------------------
(* Names and patterns.                                                     *)

\* The pattern of a flushed store matches its names and no others.
LEMMA PatternIsExact ==
  ASSUME NEW s \in Stores, Prefix[s] # <<>>, NEW n \in Names
  PROVE  Matches(n, globEscape(Prefix[s])) <=> n \in NamesOf[s]
<1> DEFINE p == Prefix[s]
<1>1. p \in Seq(STRING)
  BY StoresAssumption
<1>2. /\ Len(globEscape(p)) = Len(p)
      /\ \A i \in 1..Len(p) : globEscape(p)[i] = IF p[i] \in Metacharacters THEN <<"\\", p[i]>> ELSE <<p[i]>>
  BY <1>1 DEF globEscape
<1>3. ASSUME n \in NamesOf[s]
      PROVE  Matches(n, globEscape(p))
  <2>1. PICK k \in Owned[s] : n = Append(p, k)
    BY <1>3 DEF NamesOf, key
  <2>2. Len(p) <= Len(n) /\ \A i \in 1..Len(p) : n[i] = p[i]
    BY <2>1, <1>1
  <2> QED
    BY <1>2, <2>2 DEF Matches
<1>4. ASSUME Matches(n, globEscape(p))
      PROVE  n \in NamesOf[s]
  <2>1. Len(p) <= Len(n) /\ \A i \in 1..Len(p) : n[i] = p[i]
    <3>1. Len(p) <= Len(n)
      BY <1>2, <1>4 DEF Matches
    <3>2. ASSUME NEW i \in 1..Len(p)
          PROVE  n[i] = p[i]
      <4>1. globEscape(p)[i] \in {<<"\\", n[i]>>, <<n[i]>>, <<"?">>}
        BY <1>2, <1>4 DEF Matches
      <4>2. CASE p[i] \in Metacharacters
        <5>1. globEscape(p)[i] = <<"\\", p[i]>>
          BY <1>2, <4>2
        <5>2. <<"\\", p[i]>> \in {<<"\\", n[i]>>, <<n[i]>>, <<"?">>}
          BY <4>1, <5>1
        <5> QED
          BY <5>2
      <4>3. CASE p[i] \notin Metacharacters
        <5>1. globEscape(p)[i] = <<p[i]>>
          BY <1>2, <4>3
        <5>2. <<p[i]>> \in {<<"\\", n[i]>>, <<n[i]>>, <<"?">>}
          BY <4>1, <5>1
        <5>3. p[i] # "?"
          BY <4>3 DEF Metacharacters
        <5> QED
          BY <5>2, <5>3
      <4> QED
        BY <4>2, <4>3
    <3> QED
      BY <3>1, <3>2
  <2>2. BeginsWith(n, p)
    BY <2>1 DEF BeginsWith
  <2>3. PICK t \in Stores : n \in NamesOf[t]
    BY DEF Names
  <2> QED
    BY <2>2, <2>3, StoresAssumption
<1> QED
  BY <1>3, <1>4

-----------------------------------------------------------------------------
(* Types.                                                                  *)

\* What a call of store s is asked to do.
Requests(s) ==
  {<<op, k, v, ttl>> : op \in {"Put", "Add"}, k \in Owned[s], v \in Values, ttl \in TTLs}
    \cup {<<"Forever", k, v>> : k \in Owned[s], v \in Values}
    \cup {<<op, k>> : op \in {"Get", "Has", "Pull", "Forget"}, k \in Owned[s]}
    \cup {<<op, k, by>> : op \in {"Increment", "Decrement"}, k \in Owned[s], by \in Int64}
    \cup {<<"Flush">>}

Fields == {"step", "store", "request", "told", "tries", "ahead", "page", "batch"}
FlushIsOn(r) == r.step # "idle" /\ r.request[1] = "Flush"

\* What is known of a client's call.
CallOK(r) ==
  /\ DOMAIN r = Fields
  /\ r.step \in {"idle", "sent", "answered"}
  /\ r.tries \in 0..MaxRetries
  /\ r.ahead \subseteq Names
  /\ Cardinality(r.batch) <= BatchSize
  /\ r.step # "idle" => /\ r.store \in Stores /\ r.request \in Requests(r.store)
                        /\ r.page \cup r.batch \subseteq NamesOf[r.store]
  /\ r.step = "idle" => r.page = {} /\ r.batch = {}
  /\ FlushIsOn(r) => Prefix[r.store] # <<>>

CallsOK == DOMAIN call = Clients /\ \A c \in Clients : CallOK(call[c])

EntryOK(e, t) == e = Absent \/ (e \in Entries /\ (e.due = Never \/ e.due > t))
DbOK == DOMAIN db = Names /\ \A n \in Names : EntryOK(db[n], now)

\* The inductive invariant of the types.
Typed ==
  /\ CallsOK /\ DbOK
  /\ now \in 1..MaxTime /\ calls \in 0..MaxCalls
  /\ doomed \in [Clients -> SUBSET Names]

LEMMA TypedIsTypeOK == Typed => TypeOK
BY DEF Typed, CallsOK, CallOK, DbOK, EntryOK, TypeOK

LEMMA OneCallChanges ==
  ASSUME CallsOK, NEW c \in Clients, NEW r, CallOK(r), call' = [call EXCEPT ![c] = r]
  PROVE  CallsOK'
BY DEF CallsOK

LEMMA IdleIsOK == CallOK(Idle)
<1>1. Cardinality({}) = 0
  BY FS_EmptySet
<1> QED
  BY <1>1, SizesAssumption DEF CallOK, Idle, Fields, FlushIsOn

\* Each step of a call leaves it as it should be.
LEMMA BeginOK ==
  ASSUME Typed, NEW c \in Clients, NEW s \in Stores, NEW request \in Requests(s),
         request[1] = "Flush" => Prefix[s] # <<>>, Begin(c, s, request)
  PROVE  Typed'
<1> DEFINE r == [Idle EXCEPT !.step = "sent", !.store = s, !.request = request]
<1>1. CallOK(r)
  BY IdleIsOK DEF CallOK, Idle, Fields, FlushIsOn
<1>2. CallsOK'
  BY <1>1, OneCallChanges DEF Begin, Typed
<1> QED
  BY <1>2, SizesAssumption DEF Begin, Typed, DbOK

LEMMA AsksOK ==
  ASSUME Typed, NEW c \in Clients, Asks(c)
  PROVE  Typed'
<1> DEFINE Chosen(s, k) ==
        \/ \E v \in Puts, ttl \in TTLs :
             Begin(c, s, <<"Put", k, v, ttl>>) \/ Begin(c, s, <<"Add", k, v, ttl>>)
        \/ \E v \in Puts : Begin(c, s, <<"Forever", k, v>>)
        \/ \E op \in {"Get", "Has", "Pull", "Forget"} : Begin(c, s, <<op, k>>)
        \/ \E op \in {"Increment", "Decrement"}, by \in Amounts : Begin(c, s, <<op, k, by>>)
<1>1. PICK s \in Stores : \E k \in Owned[s] : Chosen(s, k)
  BY DEF Asks
<1> PICK k \in Owned[s] : Chosen(s, k)
  BY <1>1
<1>2. ASSUME NEW v \in Puts, NEW ttl \in TTLs, NEW op \in {"Put", "Add"},
             Begin(c, s, <<op, k, v, ttl>>)
      PROVE  Typed'
  <2>1. <<op, k, v, ttl>> \in Requests(s)
    BY InputsAssumption DEF Requests
  <2> QED
    BY <1>2, <2>1, BeginOK
<1>3. ASSUME NEW v \in Puts, Begin(c, s, <<"Forever", k, v>>)
      PROVE  Typed'
  <2>1. <<"Forever", k, v>> \in Requests(s)
    BY InputsAssumption DEF Requests
  <2> QED
    BY <1>3, <2>1, BeginOK
<1>4. ASSUME NEW op \in {"Get", "Has", "Pull", "Forget"}, Begin(c, s, <<op, k>>)
      PROVE  Typed'
  <2>1. <<op, k>> \in Requests(s)
    BY DEF Requests
  <2> QED
    BY <1>4, <2>1, BeginOK
<1>5. ASSUME NEW op \in {"Increment", "Decrement"}, NEW by \in Amounts,
             Begin(c, s, <<op, k, by>>)
      PROVE  Typed'
  <2>1. <<op, k, by>> \in Requests(s)
    BY InputsAssumption DEF Requests
  <2> QED
    BY <1>5, <2>1, BeginOK
<1> QED
  BY <1>2, <1>3, <1>4, <1>5

LEMMA FlushOK ==
  ASSUME Typed, NEW c \in Clients, NEW s \in Stores, Flush(c, s)
  PROVE  Typed'
<1> DEFINE r == [Idle EXCEPT !.step = "sent", !.store = s,
                             !.request = <<"Flush">>, !.ahead = Names]
<1>1. CallOK(r)
  <2>1. <<"Flush">> \in Requests(s)
    BY DEF Requests
  <2> QED
    BY <2>1, IdleIsOK DEF CallOK, Idle, Fields, FlushIsOn, Flush
<1>2. CallsOK'
  BY <1>1, OneCallChanges DEF Flush, Typed
<1>3. doomed' \in [Clients -> SUBSET Names]
  <2>1. {n \in NamesOf[s] : Present(n)} \subseteq Names
    BY DEF Names
  <2> QED
    BY <2>1 DEF Flush, Typed
<1> QED
  BY <1>2, <1>3, SizesAssumption DEF Flush, Typed, DbOK

LEMMA NameOK ==
  ASSUME Typed, NEW c \in Clients, call[c].step = "sent", call[c].request[1] # "Flush"
  PROVE  /\ call[c].request[2] \in Owned[call[c].store]
         /\ Name(c) \in Names
<1>1. call[c].store \in Stores /\ call[c].request \in Requests(call[c].store)
  BY DEF Typed, CallsOK, CallOK
<1>2. call[c].request[2] \in Owned[call[c].store]
  BY <1>1 DEF Requests
<1> QED
  BY <1>1, <1>2 DEF Name, Names, NamesOf

\* The entries after the commands that change them.
LEMMA SetOK ==
  ASSUME Typed, NEW n \in Names, NEW v \in Values, NEW due \in Int \cup {Never},
         due = Never \/ due > now, SET(n, v, due), now' = now
  PROVE  DbOK' /\ doomed' \in [Clients -> SUBSET Names]
<1>1. EntryOK([val |-> v, due |-> due], now)
  BY DEF EntryOK, Entries
<1> QED
  BY <1>1 DEF SET, DbOK, Typed

LEMMA DelOK ==
  ASSUME Typed, NEW names, DEL(names), now' = now
  PROVE  DbOK' /\ doomed' \in [Clients -> SUBSET Names]
BY DEF DEL, DbOK, Typed, EntryOK

LEMMA ExpiryOK ==
  ASSUME Typed, NEW ttl \in TTLs
  PROVE  expiryFor(ttl) \in Int \cup {Never} /\ (expiryFor(ttl) = Never \/ expiryFor(ttl) > now)
BY TTLsAssumption DEF Typed, expiryFor

LEMMA ExecutedOK ==
  ASSUME Typed, NEW c \in Clients, NEW answer, call[c].step = "sent", Executed(c, answer)
  PROVE  CallsOK' /\ now' = now /\ now' \in 1..MaxTime /\ calls' \in 0..MaxCalls
<1> DEFINE r == [call[c] EXCEPT !.step = "answered", !.told = call[c].request \o answer]
<1>1. CallOK(call[c]) /\ c \in DOMAIN call
  BY DEF Typed, CallsOK
<1>2. CallOK(r)
  BY <1>1 DEF CallOK, Fields, FlushIsOn
<1>3. call' = [call EXCEPT ![c] = r]
  BY <1>1 DEF Executed
<1> QED
  BY <1>2, <1>3, OneCallChanges DEF Typed, Executed

\* What a command needs for the types to hold after it.
LEMMA CommandOK ==
  ASSUME Typed, NEW c \in Clients, NEW answer, call[c].step = "sent", Executed(c, answer),
         DbOK' /\ doomed' \in [Clients -> SUBSET Names]
  PROVE  Typed'
BY ExecutedOK DEF Typed

LEMMA WritesOK ==
  ASSUME Typed, NEW c \in Clients, Put(c) \/ Add(c) \/ Forever(c)
  PROVE  Typed'
<1>1. call[c].store \in Stores /\ call[c].request \in Requests(call[c].store)
  BY DEF Put, Add, Forever, Sent, Typed, CallsOK, CallOK
<1>2. Name(c) \in Names
  BY NameOK DEF Put, Add, Forever, Sent
<1>3. ASSUME Put(c) \/ Add(c)
      PROVE  Typed'
  <2>1. call[c].request[3] \in Values /\ call[c].request[4] \in TTLs
    BY <1>1, <1>3 DEF Requests, Put, Add, Sent
  <2>2. DbOK' /\ doomed' \in [Clients -> SUBSET Names]
    <3>1. SET(Name(c), call[c].request[3], expiryFor(call[c].request[4])) \/ Reads
      BY <1>3 DEF Put, Add
    <3>2. now' = now
      BY <1>3 DEF Put, Add, Executed
    <3>3. Reads => DbOK' /\ doomed' \in [Clients -> SUBSET Names]
      BY <3>2 DEF Reads, Typed, DbOK
    <3> QED
      BY <1>2, <2>1, <3>1, <3>2, <3>3, ExpiryOK, SetOK
  <2> QED
    BY <1>3, <2>2, CommandOK DEF Put, Add, Sent
<1>4. ASSUME Forever(c)
      PROVE  Typed'
  <2>1. call[c].request[3] \in Values
    BY <1>1, <1>4 DEF Requests, Forever, Sent
  <2>2. DbOK' /\ doomed' \in [Clients -> SUBSET Names]
    BY <1>2, <1>4, <2>1, SetOK DEF Forever, Executed
  <2> QED
    BY <1>4, <2>2, CommandOK DEF Forever, Sent
<1> QED
  BY <1>3, <1>4

LEMMA ReadsOK ==
  ASSUME Typed, NEW c \in Clients, Get(c) \/ Has(c)
  PROVE  Typed'
<1>1. DbOK' /\ doomed' \in [Clients -> SUBSET Names]
  BY DEF Get, Has, Reads, Executed, Typed, DbOK
<1> QED
  BY <1>1, CommandOK DEF Get, Has, Sent

LEMMA RemovalsOK ==
  ASSUME Typed, NEW c \in Clients, Pull(c) \/ Forget(c) \/ DeleteBatch(c)
  PROVE  Typed'
<1>1. DbOK' /\ doomed' \in [Clients -> SUBSET Names]
  BY DelOK DEF Pull, Forget, DeleteBatch, Executed
<1> QED
  BY <1>1, CommandOK DEF Pull, Forget, DeleteBatch, Sent

\* What is the same of Increment and Decrement.
LEMMA CountOK ==
  ASSUME Typed, NEW c \in Clients, NEW result, call[c].step = "sent",
         call[c].request[1] # "Flush", Count(c, result)
  PROVE  Typed'
<1> DEFINE n == Name(c)
<1>1. n \in Names
  BY NameOK
<1>2. ASSUME NEW answer, Reads, Executed(c, answer)
      PROVE  Typed'
  <2>1. DbOK' /\ doomed' \in [Clients -> SUBSET Names]
    BY <1>2 DEF Reads, Executed, Typed, DbOK
  <2> QED
    BY <1>2, <2>1, CommandOK
<1>3. ASSUME result \in Int64, SET(n, result, IF Present(n) THEN db[n].due ELSE Never),
             Executed(c, <<result>>)
      PROVE  Typed'
  <2> DEFINE due == IF Present(n) THEN db[n].due ELSE Never
  <2>1. due \in Int \cup {Never} /\ (due = Never \/ due > now)
    BY <1>1 DEF Typed, DbOK, EntryOK, Entries, Present
  <2>2. result \in Values
    BY <1>3 DEF Values
  <2>3. now' = now
    BY <1>3 DEF Executed
  <2> HIDE DEF due
  <2>4. SET(n, result, due)
    BY <1>3 DEF due
  <2>5. DbOK' /\ doomed' \in [Clients -> SUBSET Names]
    BY <1>1, <2>1, <2>2, <2>3, <2>4, SetOK
  <2> QED
    BY <1>3, <2>5, CommandOK
<1> QED
  BY <1>2, <1>3 DEF Count

LEMMA CountersOK ==
  ASSUME Typed, NEW c \in Clients, Increment(c) \/ Decrement(c)
  PROVE  Typed'
<1>1. ASSUME Reads, Executed(c, <<WouldOverflow>>), call[c].step = "sent"
      PROVE  Typed'
  <2>1. DbOK' /\ doomed' \in [Clients -> SUBSET Names]
    BY <1>1 DEF Reads, Executed, Typed, DbOK
  <2> QED
    BY <1>1, <2>1, CommandOK
<1> QED
  BY <1>1, CountOK DEF Increment, Decrement, Sent

\* The steps of a call between its commands.
LEMMA CallStepOK ==
  ASSUME Typed, NEW c \in Clients, NEW r, CallOK(r), call' = [call EXCEPT ![c] = r],
         UNCHANGED <<db, now, calls>>, doomed' \in [Clients -> SUBSET Names]
  PROVE  Typed'
<1>1. CallsOK'
  BY OneCallChanges DEF Typed
<1> QED
  BY <1>1 DEF Typed, DbOK

LEMMA ReturnsOK ==
  ASSUME Typed, NEW c \in Clients, Answered(c) \/ Fails(c) \/ Flushed(c)
  PROVE  Typed'
<1>1. doomed' \in [Clients -> SUBSET Names]
  BY DEF Answered, Fails, Flushed, Typed
<1>2. Returned(c)
  BY DEF Answered, Fails, Flushed
<1> QED
  BY <1>1, <1>2, IdleIsOK, CallStepOK DEF Returned

LEMMA AgainOK ==
  ASSUME Typed, NEW c \in Clients, Again(c)
  PROVE  Typed'
<1> DEFINE r == [call[c] EXCEPT !.step = "sent", !.told = <<>>, !.tries = @ + 1]
<1>1. CallOK(call[c]) /\ c \in DOMAIN call
  BY DEF Typed, CallsOK
<1>2. CallOK(r)
  BY <1>1, SizesAssumption DEF CallOK, Fields, FlushIsOn, Again
<1>3. call' = [call EXCEPT ![c] = r]
  BY <1>1 DEF Again, CallOK, Fields
<1> QED
  BY <1>2, <1>3, CallStepOK DEF Again, Typed

LEMMA ScanOK ==
  ASSUME Typed, NEW c \in Clients, Scan(c)
  PROVE  Typed'
<1>1. CallOK(call[c]) /\ c \in DOMAIN call
  BY DEF Typed, CallsOK
<1>2. PICK part \in (SUBSET call[c].ahead) \ {{}} :
        call' = [call EXCEPT
          ![c].ahead = Ahead(c, part), ![c].tries = 0,
          ![c].page = {n \in part : Present(n) /\
                         Matches(n, globEscape(Prefix[call[c].store]))}]
  BY DEF Scan
<1> DEFINE page == {n \in part : Present(n) /\ Matches(n, globEscape(Prefix[call[c].store]))}
           r == [call[c] EXCEPT !.ahead = Ahead(c, part), !.tries = 0, !.page = page]
<1>3. page \subseteq NamesOf[call[c].store]
  <2>1. call[c].store \in Stores /\ Prefix[call[c].store] # <<>> /\ part \subseteq Names
    BY <1>1 DEF CallOK, FlushIsOn, Scan, Sent
  <2> QED
    BY <2>1, PatternIsExact
<1> HIDE DEF page
<1>4. call' = [call EXCEPT ![c] = r]
  BY <1>1, <1>2 DEF CallOK, Fields, page
<1>5. CallOK(r)
  BY <1>1, <1>3, SizesAssumption DEF CallOK, Fields, FlushIsOn, Scan, Sent, Ahead
<1> QED
  BY <1>4, <1>5, CallStepOK DEF Scan, Typed

LEMMA CollectOK ==
  ASSUME Typed, NEW c \in Clients, Collect(c)
  PROVE  Typed'
<1>1. CallOK(call[c]) /\ c \in DOMAIN call
  BY DEF Typed, CallsOK
<1>2. PICK part \in (SUBSET call[c].page) \ {{}} :
        /\ LET size == Cardinality(call[c].batch \cup part) IN
             size = BatchSize \/ (size < BatchSize /\ part = call[c].page)
        /\ call' = [call EXCEPT ![c].page = @ \ part, ![c].batch = @ \cup part]
  BY DEF Collect
<1> DEFINE r == [call[c] EXCEPT !.page = @ \ part, !.batch = @ \cup part]
<1>3. call' = [call EXCEPT ![c] = r]
  BY <1>1, <1>2 DEF CallOK, Fields
<1>4. CallOK(r)
  <2>1. call[c].batch \cup part \subseteq NamesOf[call[c].store] /\ call[c].store \in Stores
    BY <1>1 DEF CallOK, Collect, Sent
  <2>2. Cardinality(call[c].batch \cup part) \in Nat
    <3>1. call[c].batch \cup part \subseteq Names
      BY <2>1 DEF Names
    <3> QED
      BY <3>1, SizesAssumption, FS_Subset, FS_CardinalityType
  <2>3. Cardinality(r.batch) <= BatchSize
    BY <1>1, <1>2, <2>2, SizesAssumption DEF CallOK, Fields
  <2> QED
    BY <1>1, <2>1, <2>3 DEF CallOK, Fields, FlushIsOn, Collect, Sent
<1> QED
  BY <1>3, <1>4, CallStepOK DEF Collect, Typed

LEMMA NextBatchOK ==
  ASSUME Typed, NEW c \in Clients, NextBatch(c)
  PROVE  Typed'
<1> DEFINE r == [call[c] EXCEPT !.step = "sent", !.told = <<>>, !.batch = {}, !.tries = 0]
<1>1. CallOK(call[c]) /\ c \in DOMAIN call
  BY DEF Typed, CallsOK
<1>2. Cardinality({}) = 0
  BY FS_EmptySet
<1>3. call' = [call EXCEPT ![c] = r]
  BY <1>1 DEF NextBatch, CallOK, Fields
<1>4. CallOK(r)
  BY <1>1, <1>2, SizesAssumption DEF CallOK, Fields, FlushIsOn, NextBatch
<1> QED
  BY <1>3, <1>4, CallStepOK DEF NextBatch, Typed

LEMMA TickOK ==
  ASSUME Typed, Tick
  PROVE  Typed'
<1>1. DbOK'
  BY DEF Tick, Typed, DbOK, EntryOK, Entries, Present
<1>2. now' \in 1..MaxTime
  BY MaxTimeAssumption DEF Tick, Typed
<1> QED
  BY <1>1, <1>2 DEF Tick, Typed, CallsOK

LEMMA TypedInvariant ==
  /\ Init => Typed
  /\ Typed /\ [Next]_vars => Typed'
<1>1. ASSUME Init
      PROVE  Typed
  <2>1. CallsOK
    BY <1>1, IdleIsOK DEF Init, CallsOK
  <2>2. DbOK
    BY <1>1, InputsAssumption DEF Init, DbOK, EntryOK, Entries
  <2> QED
    BY <1>1, <2>1, <2>2, MaxTimeAssumption, SizesAssumption DEF Init, Typed
<1>2. ASSUME Typed, UNCHANGED vars
      PROVE  Typed'
  BY <1>2 DEF vars, Typed, CallsOK, DbOK
<1>3. ASSUME Typed, NEW c \in Clients, Calls(c) \/ Proceeds(c)
      PROVE  Typed'
  <2>1. ASSUME NEW s \in Stores, RefusesToFlush(c, s)
        PROVE  Typed'
    BY <1>3, <2>1, SizesAssumption DEF RefusesToFlush, Typed, CallsOK, DbOK
  <2> QED
    BY <1>3, <2>1, AsksOK, FlushOK, WritesOK, ReadsOK, RemovalsOK, CountersOK, ReturnsOK,
       AgainOK, ScanOK, CollectOK, NextBatchOK DEF Calls, Proceeds, Command
<1>4. ASSUME Typed, Tick
      PROVE  Typed'
  BY <1>4, TickOK
<1> QED
  BY <1>1, <1>2, <1>3, <1>4 DEF Next

\* Whatever is lost and sent again, and whatever runs beside a Flush: no entry
\* outlives its expiry, and what a Flush collects belongs to its own store.
THEOREM TypeCorrect == Spec => []TypeOK
BY TypedInvariant, TypedIsTypeOK, PTL DEF Spec

-----------------------------------------------------------------------------
(* Flush.                                                                  *)

\* What a call may still come to remove.
ToGo(r) ==
  IF r.step = "idle" THEN {}
  ELSE IF r.step = "answered" THEN r.ahead \cup r.page
  ELSE r.ahead \cup r.page \cup r.batch

Clears(c) ==
  /\ \A n \in doomed[c] : Present(n) => n \in ToGo(call[c])
  /\ call[c].step # "idle" =>
       IF call[c].request[1] = "Flush" THEN doomed[c] \subseteq NamesOf[call[c].store]
       ELSE doomed[c] = {}
Clearing == \A c \in Clients : Clears(c)

LEMMA ClearingRemovesAll == Clearing => FlushRemovesAll
BY DEF Clearing, Clears, ToGo, FlushRemovesAll

\* No doomed name appears, but in a Flush that begins.
NoneAppears(d) ==
  /\ doomed'[d] \subseteq doomed[d]
  /\ \A n \in doomed'[d] : Present(n)' => Present(n)

LEMMA SetAppears ==
  ASSUME Typed, NEW n \in Names, NEW v, NEW due, SET(n, v, due), NEW d \in Clients
  PROVE  NoneAppears(d)
BY DEF SET, NoneAppears, Present, Typed, DbOK

LEMMA DelAppears ==
  ASSUME Typed, NEW names, DEL(names), NEW d \in Clients
  PROVE  NoneAppears(d) /\ \A n \in names \cap Names : ~Present(n)'
BY DEF DEL, NoneAppears, Present, Typed, DbOK

LEMMA ReadsAppear ==
  ASSUME UNCHANGED <<db, doomed>>, NEW d \in Clients
  PROVE  NoneAppears(d)
BY DEF NoneAppears, Present

\* Whoever is not concerned stays as it should be.
LEMMA OthersClear ==
  ASSUME NEW d \in Clients, Clears(d), call'[d] = call[d], NoneAppears(d)
  PROVE  Clears(d)'
BY DEF Clears, NoneAppears

\* A call that proceeds: the others are not concerned.
LEMMA OneClears ==
  ASSUME Typed, Clearing, NEW c \in Clients, NEW r, call' = [call EXCEPT ![c] = r],
         \A d \in Clients \ {c} : NoneAppears(d),
         \A n \in doomed'[c] : Present(n)' => n \in ToGo(r),
         r.step # "idle" =>
           IF r.request[1] = "Flush" THEN doomed'[c] \subseteq NamesOf[r.store]
           ELSE doomed'[c] = {}
  PROVE  Clearing'
<1>1. c \in DOMAIN call
  BY DEF Typed, CallsOK
<1>2. Clears(c)'
  BY <1>1 DEF Clears
<1>3. ASSUME NEW d \in Clients \ {c}
      PROVE  Clears(d)'
  BY <1>1, <1>3, OthersClear DEF Clearing
<1> QED
  BY <1>2, <1>3 DEF Clearing

LEMMA BeginClears ==
  ASSUME Typed, Clearing, NEW c \in Clients, NEW s, NEW request, request[1] # "Flush",
         Begin(c, s, request)
  PROVE  Clearing'
<1> DEFINE r == [Idle EXCEPT !.step = "sent", !.store = s, !.request = request]
<1>1. \A d \in Clients \ {c} : NoneAppears(d)
  BY DEF Begin, NoneAppears, Present, Typed
<1>2. doomed'[c] = {} /\ r.request = request /\ call' = [call EXCEPT ![c] = r]
  BY DEF Begin, Typed, Idle
<1> QED
  BY <1>1, <1>2, OneClears

LEMMA FlushClears ==
  ASSUME Typed, Clearing, NEW c \in Clients, NEW s \in Stores, Flush(c, s)
  PROVE  Clearing'
<1> DEFINE r == [Idle EXCEPT !.step = "sent", !.store = s,
                             !.request = <<"Flush">>, !.ahead = Names]
<1>1. \A d \in Clients \ {c} : NoneAppears(d)
  BY DEF Flush, NoneAppears, Present, Typed
<1>2. /\ doomed'[c] \subseteq NamesOf[s] /\ call' = [call EXCEPT ![c] = r]
      /\ r.request[1] = "Flush" /\ r.store = s /\ r.step = "sent" /\ r.ahead = Names
  BY DEF Flush, Typed, Idle
<1> HIDE DEF r
<1>3. NamesOf[s] \subseteq Names
  BY DEF Names
<1>4. doomed'[c] \subseteq ToGo(r)
  BY <1>2, <1>3 DEF ToGo
<1> QED
  BY <1>1, <1>2, <1>4, OneClears

\* A command of a call that is no Flush.
LEMMA CommandClears ==
  ASSUME Typed, Clearing, NEW c \in Clients, NEW answer, Executed(c, answer),
         call[c].step = "sent", call[c].request[1] # "Flush",
         \A d \in Clients : NoneAppears(d)
  PROVE  Clearing'
<1> DEFINE r == [call[c] EXCEPT !.step = "answered", !.told = call[c].request \o answer]
<1>1. CallOK(call[c]) /\ c \in DOMAIN call
  BY DEF Typed, CallsOK
<1>2. call' = [call EXCEPT ![c] = r] /\ r.request = call[c].request
  BY <1>1 DEF Executed, CallOK, Fields
<1>3. doomed'[c] = {}
  BY DEF Clearing, Clears, NoneAppears
<1> QED
  BY <1>2, <1>3, OneClears

LEMMA SinglesClear ==
  ASSUME Typed, Clearing, NEW c \in Clients,
         \/ Put(c) \/ Add(c) \/ Forever(c) \/ Get(c) \/ Has(c) \/ Pull(c) \/ Forget(c)
         \/ Increment(c) \/ Decrement(c)
  PROVE  Clearing'
<1>1. call[c].step = "sent" /\ call[c].request[1] # "Flush"
  BY DEF Put, Add, Forever, Get, Has, Pull, Forget, Increment, Decrement, Sent
<1>2. Name(c) \in Names
  BY <1>1, NameOK
<1>3. PICK answer : Executed(c, answer)
  BY DEF Put, Add, Forever, Get, Has, Pull, Forget, Increment, Decrement, Count
<1>4. \/ \E v, due : SET(Name(c), v, due)
      \/ \E names : DEL(names)
      \/ UNCHANGED <<db, doomed>>
  <2>1. CASE Put(c) \/ Add(c) \/ Forever(c)
    BY <2>1 DEF Put, Add, Forever, Reads
  <2>2. CASE Get(c) \/ Has(c)
    BY <2>2 DEF Get, Has, Reads
  <2>3. CASE Pull(c) \/ Forget(c)
    BY <2>3 DEF Pull, Forget
  <2>4. CASE Increment(c) \/ Decrement(c)
    BY <2>4 DEF Increment, Decrement, Count, Reads
  <2> QED
    BY <2>1, <2>2, <2>3, <2>4
<1>5. \A d \in Clients : NoneAppears(d)
  BY <1>2, <1>4, SetAppears, DelAppears, ReadsAppear
<1> QED
  BY <1>1, <1>3, <1>5, CommandClears

LEMMA DeleteBatchClears ==
  ASSUME Typed, Clearing, NEW c \in Clients, DeleteBatch(c)
  PROVE  Clearing'
<1> DEFINE r == [call[c] EXCEPT !.step = "answered", !.told = call[c].request \o <<>>]
<1>1. CallOK(call[c]) /\ c \in DOMAIN call
  BY DEF Typed, CallsOK
<1>2. /\ call' = [call EXCEPT ![c] = r] /\ r.request = call[c].request
      /\ r.step = "answered" /\ r.store = call[c].store
      /\ r.ahead = call[c].ahead /\ r.page = call[c].page
  BY <1>1 DEF DeleteBatch, Executed, CallOK, Fields
<1>3. \A d \in Clients : NoneAppears(d)
  BY DelAppears DEF DeleteBatch
<1>4. \A n \in call[c].batch \cap Names : ~Present(n)'
  BY DelAppears DEF DeleteBatch
<1>5. \A n \in doomed'[c] : Present(n)' => n \in ToGo(r)
  BY <1>2, <1>3, <1>4 DEF Clearing, Clears, ToGo, NoneAppears, DeleteBatch, Sent, Typed
<1>6. doomed'[c] \subseteq NamesOf[r.store]
  BY <1>2, <1>3 DEF Clearing, Clears, NoneAppears, DeleteBatch, Sent
<1> HIDE DEF r
<1> QED
  BY <1>2, <1>3, <1>5, <1>6, OneClears DEF DeleteBatch, Sent

LEMMA ReturnsClear ==
  ASSUME Typed, Clearing, NEW c \in Clients, Answered(c) \/ Fails(c) \/ Flushed(c)
  PROVE  Clearing'
<1>1. call' = [call EXCEPT ![c] = Idle] /\ Idle.step = "idle" /\ ToGo(Idle) = {}
  BY DEF Answered, Fails, Flushed, Returned, Idle, ToGo
<1>2. \A d \in Clients \ {c} : NoneAppears(d)
  BY DEF Answered, Fails, Flushed, Returned, NoneAppears, Present, Typed
<1>3. \A n \in doomed'[c] : ~Present(n)'
  <2>1. CASE Answered(c)
    BY <2>1 DEF Answered, Clearing, Clears
  <2>2. CASE Fails(c)
    BY <2>2 DEF Fails, Typed
  <2>3. CASE Flushed(c)
    <3>1. ToGo(call[c]) = {}
      BY <2>3 DEF Flushed, Exhausted, BatchIsDue, Sent, ToGo
    <3> QED
      BY <2>3, <3>1 DEF Flushed, Returned, Clearing, Clears, Present
  <2> QED
    BY <2>1, <2>2, <2>3
<1> QED
  BY <1>1, <1>2, <1>3, OneClears

\* The steps of a call that send nothing to the entries.
LEMMA QuietClears ==
  ASSUME Typed, Clearing, NEW c \in Clients, NEW r, call' = [call EXCEPT ![c] = r],
         UNCHANGED <<db, doomed>>, call[c].step # "idle",
         r.request = call[c].request, r.store = call[c].store,
         \A n \in ToGo(call[c]) \ ToGo(r) : n \in doomed[c] => ~Present(n)
  PROVE  Clearing'
<1>1. \A d \in Clients : NoneAppears(d)
  BY ReadsAppear
<1>2. \A n \in doomed'[c] : Present(n)' => n \in ToGo(r)
  BY DEF Clearing, Clears, Present
<1> QED
  BY <1>1, <1>2, OneClears DEF Clearing, Clears

LEMMA AgainClears ==
  ASSUME Typed, Clearing, NEW c \in Clients, Again(c)
  PROVE  Clearing'
<1> DEFINE r == [call[c] EXCEPT !.step = "sent", !.told = <<>>, !.tries = @ + 1]
<1>1. CallOK(call[c]) /\ c \in DOMAIN call
  BY DEF Typed, CallsOK
<1>2. call' = [call EXCEPT ![c] = r]
  BY <1>1 DEF Again, CallOK, Fields
<1>3. r.request = call[c].request /\ r.store = call[c].store /\ ToGo(call[c]) \subseteq ToGo(r)
  BY <1>1 DEF Again, CallOK, Fields, ToGo
<1> HIDE DEF r
<1> QED
  BY <1>2, <1>3, QuietClears DEF Again

LEMMA ScanClears ==
  ASSUME Typed, Clearing, NEW c \in Clients, Scan(c)
  PROVE  Clearing'
<1>1. CallOK(call[c]) /\ c \in DOMAIN call
  BY DEF Typed, CallsOK
<1>2. PICK part \in (SUBSET call[c].ahead) \ {{}} :
        call' = [call EXCEPT
          ![c].ahead = Ahead(c, part), ![c].tries = 0,
          ![c].page = {n \in part : Present(n) /\
                         Matches(n, globEscape(Prefix[call[c].store]))}]
  BY DEF Scan
<1> DEFINE page == {n \in part : Present(n) /\ Matches(n, globEscape(Prefix[call[c].store]))}
           r == [call[c] EXCEPT !.ahead = Ahead(c, part), !.tries = 0, !.page = page]
<1>3. ASSUME NEW n \in doomed[c], Present(n), n \in part
      PROVE  n \in page
  <2>1. call[c].store \in Stores /\ Prefix[call[c].store] # <<>> /\ n \in Names
    BY <1>1 DEF CallOK, FlushIsOn, Scan, Sent, Typed
  <2>2. n \in NamesOf[call[c].store]
    BY DEF Clearing, Clears, Scan, Sent
  <2> QED
    BY <1>3, <2>1, <2>2, PatternIsExact
<1> HIDE DEF page
<1>4. call' = [call EXCEPT ![c] = r]
  BY <1>1, <1>2 DEF CallOK, Fields, page
<1>5. /\ r.request = call[c].request /\ r.store = call[c].store
      /\ r.ahead = call[c].ahead \ part /\ r.page = page
      /\ r.batch = call[c].batch /\ r.step = "sent"
  BY <1>1 DEF CallOK, Fields, Ahead, Scan, Sent
<1> HIDE DEF r
<1>6. \A n \in ToGo(call[c]) \ ToGo(r) : n \in doomed[c] => ~Present(n)
  BY <1>3, <1>5 DEF ToGo, Scan, Sent
<1> QED
  BY <1>4, <1>5, <1>6, QuietClears DEF Scan, Sent

LEMMA CollectClears ==
  ASSUME Typed, Clearing, NEW c \in Clients, Collect(c)
  PROVE  Clearing'
<1>1. CallOK(call[c]) /\ c \in DOMAIN call
  BY DEF Typed, CallsOK
<1>2. PICK part \in (SUBSET call[c].page) \ {{}} :
        call' = [call EXCEPT ![c].page = @ \ part, ![c].batch = @ \cup part]
  BY DEF Collect
<1> DEFINE r == [call[c] EXCEPT !.page = @ \ part, !.batch = @ \cup part]
<1>3. call' = [call EXCEPT ![c] = r]
  BY <1>1, <1>2 DEF CallOK, Fields
<1>4. /\ r.request = call[c].request /\ r.store = call[c].store
      /\ r.ahead = call[c].ahead /\ r.page = call[c].page \ part
      /\ r.batch = call[c].batch \cup part /\ r.step = "sent"
  BY <1>1 DEF CallOK, Fields, Collect, Sent
<1> HIDE DEF r
<1>5. ToGo(call[c]) \subseteq ToGo(r)
  BY <1>4 DEF ToGo, Collect, Sent
<1> QED
  BY <1>3, <1>4, <1>5, QuietClears DEF Collect, Sent

LEMMA NextBatchClears ==
  ASSUME Typed, Clearing, NEW c \in Clients, NextBatch(c)
  PROVE  Clearing'
<1> DEFINE r == [call[c] EXCEPT !.step = "sent", !.told = <<>>, !.batch = {}, !.tries = 0]
<1>1. CallOK(call[c]) /\ c \in DOMAIN call
  BY DEF Typed, CallsOK
<1>2. call' = [call EXCEPT ![c] = r]
  BY <1>1 DEF NextBatch, CallOK, Fields
<1>3. /\ r.request = call[c].request /\ r.store = call[c].store
      /\ ToGo(call[c]) \subseteq ToGo(r)
  BY <1>1 DEF CallOK, Fields, NextBatch, ToGo
<1> HIDE DEF r
<1> QED
  BY <1>2, <1>3, QuietClears DEF NextBatch

LEMMA ClearingInvariant ==
  /\ Init => Clearing
  /\ Typed /\ Clearing /\ [Next]_vars => Clearing'
<1>1. ASSUME Init
      PROVE  Clearing
  BY <1>1 DEF Init, Clearing, Clears, Idle
<1>2. ASSUME Typed, Clearing, UNCHANGED call, \A d \in Clients : NoneAppears(d)
      PROVE  Clearing'
  BY <1>2, OthersClear DEF Clearing
<1>3. ASSUME Typed, Clearing, NEW c \in Clients, Calls(c) \/ Proceeds(c)
      PROVE  Clearing'
  <2>1. ASSUME Asks(c)
        PROVE  Clearing'
    BY <1>3, <2>1, BeginClears DEF Asks
  <2>2. ASSUME NEW s \in Stores, RefusesToFlush(c, s)
        PROVE  Clearing'
    BY <1>2, <1>3, <2>2, ReadsAppear DEF RefusesToFlush
  <2> QED
    BY <1>3, <2>1, <2>2, FlushClears, SinglesClear, DeleteBatchClears, ReturnsClear,
       AgainClears, ScanClears, CollectClears, NextBatchClears DEF Calls, Proceeds, Command
<1>4. ASSUME Typed, Clearing, Tick
      PROVE  Clearing'
  <2>1. \A d \in Clients : NoneAppears(d)
    BY <1>4 DEF Tick, NoneAppears, Present, Typed
  <2> QED
    BY <1>2, <1>4, <2>1 DEF Tick
<1>5. ASSUME Typed, Clearing, UNCHANGED vars
      PROVE  Clearing'
  BY <1>2, <1>5, ReadsAppear DEF vars
<1> QED
  BY <1>1, <1>3, <1>4, <1>5 DEF Next

\* A Flush that returned without an error has left nothing of what its store
\* held when it began and nobody wrote since (redis.go:127-153).
THEOREM FlushesAreComplete == Spec => []FlushRemovesAll
<1>1. Typed /\ Clearing /\ [Next]_vars => Typed' /\ Clearing'
  BY TypedInvariant, ClearingInvariant
<1>2. Init => Typed /\ Clearing
  BY TypedInvariant, ClearingInvariant
<1> QED
  BY <1>1, <1>2, ClearingRemovesAll, PTL DEF Spec

-----------------------------------------------------------------------------
(* The contract: one command is one step of it.                            *)

\* The entries of store s, as its callers know them.
EntriesOf(s) == [k \in Owned[s] |-> db[key(s, k)]]
EntriesAfter(s) == [k \in Owned[s] |-> db'[key(s, k)]]

LEMMA KeysAreNames ==
  ASSUME NEW s \in Stores
  PROVE  /\ \A k \in Owned[s] : key(s, k) \in NamesOf[s] /\ key(s, k) \in Names
         /\ \A k, j \in Owned[s] : key(s, k) = key(s, j) => k = j
<1>1. Prefix[s] \in Seq(STRING)
  BY StoresAssumption
<1>2. \A k, j : Append(Prefix[s], k)[Len(Prefix[s]) + 1] = k
  BY <1>1
<1>3. \A k, j : Append(Prefix[s], k) = Append(Prefix[s], j) => k = j
  BY <1>2
<1>4. \A k \in Owned[s] : key(s, k) \in NamesOf[s]
  BY DEF NamesOf
<1>5. NamesOf[s] \subseteq Names
  BY DEF Names
<1> QED
  BY <1>3, <1>4, <1>5 DEF key

LEMMA SetView ==
  ASSUME Typed, NEW s \in Stores, NEW k \in Owned[s], NEW v, NEW due, SET(key(s, k), v, due)
  PROVE  EntriesAfter(s) = [EntriesOf(s) EXCEPT ![k] = [val |-> v, due |-> due]]
<1>1. DOMAIN db = Names /\ db' = [db EXCEPT ![key(s, k)] = [val |-> v, due |-> due]]
  BY DEF Typed, DbOK, SET
<1>2. \A j \in Owned[s] : db'[key(s, j)] =
        IF j = k THEN [val |-> v, due |-> due] ELSE db[key(s, j)]
  BY <1>1, KeysAreNames
<1> QED
  BY <1>2 DEF EntriesAfter, EntriesOf

LEMMA DelView ==
  ASSUME Typed, NEW s \in Stores, NEW k \in Owned[s], DEL({key(s, k)})
  PROVE  EntriesAfter(s) = [EntriesOf(s) EXCEPT ![k] = Absent]
<1>1. db' = [n \in Names |-> IF n \in {key(s, k)} THEN Absent ELSE db[n]]
  BY DEF DEL
<1>2. \A j \in Owned[s] : db'[key(s, j)] = IF j = k THEN Absent ELSE db[key(s, j)]
  BY <1>1, KeysAreNames
<1> QED
  BY <1>2 DEF EntriesAfter, EntriesOf

LEMMA ReadView ==
  ASSUME Reads, NEW s \in Stores
  PROVE  EntriesAfter(s) = EntriesOf(s)
BY DEF Reads, EntriesAfter, EntriesOf

\* An answer goes behind its request.
LEMMA KeyAnswered ==
  ASSUME NEW op, NEW k, NEW answer
  PROVE  <<op, k>> \o <<answer>> = <<op, k, answer>>
<1> DEFINE parts == {op, k, answer}
<1>1. <<op, k>> \in Seq(parts) /\ <<answer>> \in Seq(parts)
      /\ <<op, k, answer>> \in Seq(parts)
  OBVIOUS
<1>2. Len(<<op, k>> \o <<answer>>) = 3 /\ <<op, k>> \o <<answer>> \in Seq(parts)
  BY <1>1
<1>3. \A i \in 1..3 : (<<op, k>> \o <<answer>>)[i] = <<op, k, answer>>[i]
  BY <1>1
<1> QED
  BY <1>1, <1>2, <1>3, SeqEqual

LEMMA AmountAnswered ==
  ASSUME NEW op, NEW k, NEW by, NEW answer
  PROVE  <<op, k, by>> \o <<answer>> = <<op, k, by, answer>>
<1> DEFINE parts == {op, k, by, answer}
<1>1. <<op, k, by>> \in Seq(parts) /\ <<answer>> \in Seq(parts)
      /\ <<op, k, by, answer>> \in Seq(parts)
  OBVIOUS
<1>2. Len(<<op, k, by>> \o <<answer>>) = 4 /\ <<op, k, by>> \o <<answer>> \in Seq(parts)
  BY <1>1
<1>3. \A i \in 1..4 : (<<op, k, by>> \o <<answer>>)[i] = <<op, k, by, answer>>[i]
  BY <1>1
<1> QED
  BY <1>1, <1>2, <1>3, SeqEqual

LEMMA WriteAnswered ==
  ASSUME NEW op, NEW k, NEW v, NEW ttl, NEW answer
  PROVE  <<op, k, v, ttl>> \o <<answer>> = <<op, k, v, ttl, answer>>
<1> DEFINE parts == {op, k, v, ttl, answer}
<1>1. <<op, k, v, ttl>> \in Seq(parts) /\ <<answer>> \in Seq(parts)
      /\ <<op, k, v, ttl, answer>> \in Seq(parts)
  OBVIOUS
<1>2. Len(<<op, k, v, ttl>> \o <<answer>>) = 5 /\ <<op, k, v, ttl>> \o <<answer>> \in Seq(parts)
  BY <1>1
<1>3. \A i \in 1..5 : (<<op, k, v, ttl>> \o <<answer>>)[i] = <<op, k, v, ttl, answer>>[i]
  BY <1>1
<1> QED
  BY <1>1, <1>2, <1>3, SeqEqual

\* What is told once a command is executed.
LEMMA ToldAfter ==
  ASSUME Typed, NEW c \in Clients, NEW answer, Executed(c, answer)
  PROVE  call'[c].told = call[c].request \o answer /\ now' = now
BY DEF Executed, Typed, CallsOK, CallOK, Fields

\* The call a command is about.
LEMMA Asking ==
  ASSUME Typed, NEW c \in Clients, call[c].step = "sent", call[c].request[1] # "Flush"
  PROVE  LET s == call[c].store k == call[c].request[2] IN
         /\ s \in Stores /\ k \in Owned[s] /\ Name(c) = key(s, k) /\ Name(c) \in Names
         /\ call[c].request \in Requests(s)
         /\ EntriesOf(s)[k] = db[Name(c)]
<1>1. call[c].store \in Stores /\ call[c].request \in Requests(call[c].store)
  BY DEF Typed, CallsOK, CallOK
<1> QED
  BY <1>1, NameOK DEF Name, EntriesOf

\* The contract's calls, said of the entries before and after.
LEMMA PutStep ==
  ASSUME NEW s \in Stores, NEW c \in Clients,
         NEW k \in Owned[s], NEW v \in Values, NEW ttl \in TTLs, now' = now,
         call'[c].told = <<"Put", k, v, ttl>>,
         EntriesAfter(s) = [EntriesOf(s) EXCEPT ![k] = [val |-> v, due |-> expiryFor(ttl)]]
  PROVE  S(s, c)!Next
<1>1. S(s, c)!Put(k, v, ttl)
  BY DEF S!Put, S!Set, S!Due, expiryFor, EntriesAfter, EntriesOf
<1>2. S(s, c)!Call
  BY <1>1 DEF S!Call, S!Values, S!Int64, Values, Int64
<1> QED
  BY <1>2 DEF S!Next

LEMMA AddStep ==
  ASSUME NEW s \in Stores, NEW c \in Clients,
         NEW k \in Owned[s], NEW v \in Values, NEW ttl \in TTLs, now' = now,
         call'[c].told = <<"Add", k, v, ttl, EntriesOf(s)[k] = Absent>>,
         EntriesAfter(s) =
           IF EntriesOf(s)[k] = Absent
           THEN [EntriesOf(s) EXCEPT ![k] = [val |-> v, due |-> expiryFor(ttl)]]
           ELSE EntriesOf(s)
  PROVE  S(s, c)!Next
<1>1. S(s, c)!Add(k, v, ttl)
  BY DEF S!Add, S!Set, S!Due, expiryFor, EntriesAfter, EntriesOf
<1>2. S(s, c)!Call
  BY <1>1 DEF S!Call, S!Values, S!Int64, Values, Int64
<1> QED
  BY <1>2 DEF S!Next

LEMMA ForeverStep ==
  ASSUME NEW s \in Stores, NEW c \in Clients,
         NEW k \in Owned[s], NEW v \in Values, now' = now,
         call'[c].told = <<"Forever", k, v>>,
         EntriesAfter(s) = [EntriesOf(s) EXCEPT ![k] = [val |-> v, due |-> Never]]
  PROVE  S(s, c)!Next
<1>1. S(s, c)!Forever(k, v)
  BY DEF S!Forever, S!Set, EntriesAfter, EntriesOf
<1>2. S(s, c)!Call
  BY <1>1 DEF S!Call, S!Values, S!Int64, Values, Int64
<1> QED
  BY <1>2 DEF S!Next

\* What callers are told of a key.
ValueIn(entries, k) == IF entries[k] = Absent THEN Absent ELSE entries[k].val

LEMMA GetStep ==
  ASSUME NEW s \in Stores, NEW c \in Clients, NEW k \in Owned[s], now' = now,
         \/ call'[c].told = <<"Get", k, ValueIn(EntriesOf(s), k)>>
         \/ call'[c].told = <<"Has", k, EntriesOf(s)[k] # Absent>>,
         EntriesAfter(s) = EntriesOf(s)
  PROVE  S(s, c)!Next
<1>1. S(s, c)!Get(k) \/ S(s, c)!Has(k)
  BY DEF S!Get, S!Has, S!Value, ValueIn, EntriesAfter, EntriesOf
<1>2. S(s, c)!Call
  BY <1>1 DEF S!Call
<1> QED
  BY <1>2 DEF S!Next

LEMMA RemoveStep ==
  ASSUME NEW s \in Stores, NEW c \in Clients, NEW k \in Owned[s], now' = now,
         \/ call'[c].told = <<"Pull", k, ValueIn(EntriesOf(s), k)>>
         \/ call'[c].told = <<"Forget", k>>,
         EntriesAfter(s) = [EntriesOf(s) EXCEPT ![k] = Absent]
  PROVE  S(s, c)!Next
<1>1. S(s, c)!Pull(k) \/ S(s, c)!Forget(k)
  BY DEF S!Pull, S!Forget, S!Remove, S!Value, ValueIn, EntriesAfter, EntriesOf
<1>2. S(s, c)!Call
  BY <1>1 DEF S!Call
<1> QED
  BY <1>2 DEF S!Next

\* The contract's answer of a counter, and its entries after it.
CountAnswer(entries, k, result) ==
  IF ValueIn(entries, k) \notin Int64 \cup {Absent} THEN NotAnInteger
  ELSE IF result \notin Int64 THEN WouldOverflow
  ELSE result
CountEntries(entries, k, result) ==
  IF ValueIn(entries, k) \notin Int64 \cup {Absent} \/ result \notin Int64
  THEN entries
  ELSE [entries EXCEPT ![k] =
          [val |-> result, due |-> IF entries[k] = Absent THEN Never ELSE entries[k].due]]
CounterIn(entries, k) == IF ValueIn(entries, k) \in Int64 THEN ValueIn(entries, k) ELSE 0

LEMMA CountStep ==
  ASSUME NEW s \in Stores, NEW c \in Clients,
         NEW k \in Owned[s], NEW by \in Int64, NEW result, now' = now,
         EntriesAfter(s) = CountEntries(EntriesOf(s), k, result),
         \/ /\ result = CounterIn(EntriesOf(s), k) + by
            /\ call'[c].told =
                 <<"Increment", k, by, CountAnswer(EntriesOf(s), k, result)>>
         \/ /\ result = CounterIn(EntriesOf(s), k) - by
            /\ call'[c].told =
                 <<"Decrement", k, by, CountAnswer(EntriesOf(s), k, result)>>
  PROVE  S(s, c)!Next
<1>1. /\ S(s, c)!Counter(k) = CounterIn(EntriesOf(s), k)
      /\ S(s, c)!Answer(k, result) = CountAnswer(EntriesOf(s), k, result)
  BY DEF S!Counter, S!Answer, S!Value, S!Int64, Int64, CounterIn, CountAnswer,
         ValueIn, EntriesOf
<1>2. S(s, c)!Count(k, result)
  BY DEF S!Count, S!Set, S!Value, S!Int64, Int64, CountEntries, ValueIn, EntriesAfter,
         EntriesOf
<1>3. S(s, c)!Increment(k, by) \/ S(s, c)!Decrement(k, by)
  BY <1>1, <1>2 DEF S!Increment, S!Decrement
<1>4. S(s, c)!Call
  BY <1>3 DEF S!Call, S!Int64, Int64
<1> QED
  BY <1>4 DEF S!Next

LEMMA ExpireStep ==
  ASSUME NEW s \in Stores, NEW c \in Clients, Typed, Tick
  PROVE  S(s, c)!Expire
<1>1. \A k \in Owned[s] : key(s, k) \in Names
  BY KeysAreNames
<1>2. \A k \in Owned[s] : db'[key(s, k)] =
        IF db[key(s, k)] # Absent /\ db[key(s, k)].due # Never
           /\ db[key(s, k)].due <= now + 1
        THEN Absent ELSE db[key(s, k)]
  BY <1>1 DEF Tick, Present
<1>3. now < MaxTime /\ now' = now + 1
  BY DEF Tick
<1> QED
  BY <1>2, <1>3 DEF S!Expire, S!Expired

\* What the commands do, in the contract's terms.
LEMMA WritesByContract ==
  ASSUME Typed, NEW c \in Clients, Put(c) \/ Add(c) \/ Forever(c),
         NEW s, s = call[c].store, NEW k, k = call[c].request[2]
  PROVE  S(s, c)!Next
<1>1. call[c].step = "sent" /\ call[c].request[1] # "Flush"
  BY DEF Put, Add, Forever, Sent
<1>2. /\ s \in Stores /\ k \in Owned[s] /\ Name(c) = key(s, k)
      /\ call[c].request \in Requests(s) /\ EntriesOf(s)[k] = db[Name(c)]
  BY <1>1, Asking
<1>3. CASE Put(c)
  <2>1. PICK v \in Values, ttl \in TTLs : call[c].request = <<"Put", k, v, ttl>>
    BY <1>2, <1>3 DEF Put, Sent, Requests
  <2>2. call'[c].told = call[c].request \o <<>> /\ now' = now
    BY <1>3, ToldAfter DEF Put
  <2>3. call'[c].told = <<"Put", k, v, ttl>>
    BY <2>1, <2>2
  <2>4. EntriesAfter(s) = [EntriesOf(s) EXCEPT ![k] = [val |-> v, due |-> expiryFor(ttl)]]
    BY <1>2, <1>3, <2>1, SetView DEF Put
  <2> QED
    BY <1>2, <2>2, <2>3, <2>4, PutStep
<1>4. CASE Add(c)
  <2>1. PICK v \in Values, ttl \in TTLs : call[c].request = <<"Add", k, v, ttl>>
    BY <1>2, <1>4 DEF Add, Sent, Requests
  <2>2. call'[c].told = call[c].request \o <<~Present(Name(c))>> /\ now' = now
    BY <1>4, ToldAfter DEF Add
  <2>3. (~Present(Name(c))) = (EntriesOf(s)[k] = Absent)
    BY <1>2 DEF Present
  <2>4. call'[c].told = call[c].request \o <<EntriesOf(s)[k] = Absent>>
    BY <2>2, <2>3
  <2>5. call'[c].told = <<"Add", k, v, ttl, EntriesOf(s)[k] = Absent>>
    BY <2>1, <2>4, WriteAnswered
  <2>6. EntriesAfter(s) =
          IF EntriesOf(s)[k] = Absent
          THEN [EntriesOf(s) EXCEPT ![k] = [val |-> v, due |-> expiryFor(ttl)]]
          ELSE EntriesOf(s)
    BY <1>2, <1>4, <2>1, SetView, ReadView DEF Add, Present
  <2> QED
    BY <1>2, <2>2, <2>5, <2>6, AddStep
<1>5. CASE Forever(c)
  <2>1. PICK v \in Values : call[c].request = <<"Forever", k, v>>
    BY <1>2, <1>5 DEF Forever, Sent, Requests
  <2>2. call'[c].told = call[c].request \o <<>> /\ now' = now
    BY <1>5, ToldAfter DEF Forever
  <2>3. call'[c].told = <<"Forever", k, v>>
    BY <2>1, <2>2
  <2>4. EntriesAfter(s) = [EntriesOf(s) EXCEPT ![k] = [val |-> v, due |-> Never]]
    BY <1>2, <1>5, <2>1, SetView DEF Forever
  <2> QED
    BY <1>2, <2>2, <2>3, <2>4, ForeverStep
<1> QED
  BY <1>3, <1>4, <1>5

LEMMA ReadsByContract ==
  ASSUME Typed, NEW c \in Clients, Get(c) \/ Has(c) \/ Pull(c) \/ Forget(c),
         NEW s, s = call[c].store, NEW k, k = call[c].request[2]
  PROVE  S(s, c)!Next
<1>1. call[c].step = "sent" /\ call[c].request[1] # "Flush"
  BY DEF Get, Has, Pull, Forget, Sent
<1>2. /\ s \in Stores /\ k \in Owned[s] /\ Name(c) = key(s, k)
      /\ call[c].request \in Requests(s) /\ EntriesOf(s)[k] = db[Name(c)]
  BY <1>1, Asking
<1>3. Value(Name(c)) = ValueIn(EntriesOf(s), k)
  BY <1>2 DEF Value, Present, ValueIn
<1>4. CASE Get(c)
  <2>1. call[c].request = <<"Get", k>>
    BY <1>2, <1>4 DEF Get, Sent, Requests
  <2>2. call'[c].told = call[c].request \o <<Value(Name(c))>> /\ now' = now
    BY <1>4, ToldAfter DEF Get
  <2>3. call'[c].told = <<"Get", k, ValueIn(EntriesOf(s), k)>>
    BY <1>3, <2>1, <2>2, KeyAnswered
  <2> QED
    BY <1>2, <1>4, <2>2, <2>3, ReadView, GetStep DEF Get
<1>5. CASE Has(c)
  <2>1. call[c].request = <<"Has", k>>
    BY <1>2, <1>5 DEF Has, Sent, Requests
  <2>2. call'[c].told = call[c].request \o <<Present(Name(c))>> /\ now' = now
    BY <1>5, ToldAfter DEF Has
  <2>3. Present(Name(c)) = (EntriesOf(s)[k] # Absent)
    BY <1>2 DEF Present
  <2>4. call'[c].told = call[c].request \o <<EntriesOf(s)[k] # Absent>>
    BY <2>2, <2>3
  <2>5. call'[c].told = <<"Has", k, EntriesOf(s)[k] # Absent>>
    BY <2>1, <2>4, KeyAnswered
  <2> QED
    BY <1>2, <1>5, <2>2, <2>5, ReadView, GetStep DEF Has
<1>6. CASE Pull(c)
  <2>1. call[c].request = <<"Pull", k>>
    BY <1>2, <1>6 DEF Pull, Sent, Requests
  <2>2. call'[c].told = call[c].request \o <<Value(Name(c))>> /\ now' = now
    BY <1>6, ToldAfter DEF Pull
  <2>3. call'[c].told = <<"Pull", k, ValueIn(EntriesOf(s), k)>>
    BY <1>3, <2>1, <2>2, KeyAnswered
  <2> QED
    BY <1>2, <1>6, <2>2, <2>3, DelView, RemoveStep DEF Pull
<1>7. CASE Forget(c)
  <2>1. call[c].request = <<"Forget", k>>
    BY <1>2, <1>7 DEF Forget, Sent, Requests
  <2>2. call'[c].told = call[c].request \o <<>> /\ now' = now
    BY <1>7, ToldAfter DEF Forget
  <2>3. call'[c].told = <<"Forget", k>>
    BY <2>1, <2>2
  <2> QED
    BY <1>2, <1>7, <2>2, <2>3, DelView, RemoveStep DEF Forget
<1> QED
  BY <1>4, <1>5, <1>6, <1>7

\* A counter changes and answers as the contract's does.
LEMMA CountView ==
  ASSUME Typed, NEW c \in Clients, NEW result, Count(c, result),
         NEW s \in Stores, NEW k \in Owned[s], Name(c) = key(s, k), Name(c) \in Names,
         EntriesOf(s)[k] = db[Name(c)]
  PROVE  /\ EntriesAfter(s) = CountEntries(EntriesOf(s), k, result)
         /\ Executed(c, <<CountAnswer(EntriesOf(s), k, result)>>)
<1> DEFINE due == IF Present(Name(c)) THEN db[Name(c)].due ELSE Never
<1>1. Value(Name(c)) = ValueIn(EntriesOf(s), k)
  BY DEF Value, Present, ValueIn
<1>2. CASE Value(Name(c)) \notin Int64 \cup {Absent}
  BY <1>1, <1>2, ReadView DEF Count, CountEntries, CountAnswer
<1>3. CASE Value(Name(c)) \in Int64 \cup {Absent} /\ result \notin Int64
  BY <1>1, <1>3, ReadView DEF Count, CountEntries, CountAnswer
<1>4. CASE Value(Name(c)) \in Int64 \cup {Absent} /\ result \in Int64
  <2>1. SET(key(s, k), result, due) /\ Executed(c, <<result>>)
    BY <1>4 DEF Count
  <2>2. due = IF EntriesOf(s)[k] = Absent THEN Never ELSE EntriesOf(s)[k].due
    BY DEF Present
  <2> HIDE DEF due
  <2>3. EntriesAfter(s) = [EntriesOf(s) EXCEPT ![k] = [val |-> result, due |-> due]]
    BY <2>1, SetView
  <2> QED
    BY <1>1, <1>4, <2>1, <2>2, <2>3 DEF CountEntries, CountAnswer
<1> QED
  BY <1>2, <1>3, <1>4

LEMMA CountersByContract ==
  ASSUME Typed, NEW c \in Clients, Increment(c) \/ Decrement(c),
         ~(call[c].request[1] = "Decrement" /\ call[c].request[3] = -Half),
         NEW s, s = call[c].store, NEW k, k = call[c].request[2]
  PROVE  S(s, c)!Next
<1>1. call[c].step = "sent" /\ call[c].request[1] # "Flush"
  BY DEF Increment, Decrement, Sent
<1>2. /\ s \in Stores /\ k \in Owned[s] /\ Name(c) = key(s, k) /\ Name(c) \in Names
      /\ call[c].request \in Requests(s) /\ EntriesOf(s)[k] = db[Name(c)]
  BY <1>1, Asking
<1>3. Counter(Name(c)) = CounterIn(EntriesOf(s), k)
  BY <1>2 DEF Counter, Value, Present, CounterIn, ValueIn
<1>4. CASE Increment(c)
  <2>1. PICK by \in Int64 : call[c].request = <<"Increment", k, by>>
    BY <1>2, <1>4 DEF Increment, Sent, Requests
  <2> DEFINE result == CounterIn(EntriesOf(s), k) + by
  <2>2. Count(c, result)
    BY <1>3, <1>4, <2>1 DEF Increment
  <2> HIDE DEF result
  <2>3. /\ EntriesAfter(s) = CountEntries(EntriesOf(s), k, result)
        /\ Executed(c, <<CountAnswer(EntriesOf(s), k, result)>>)
    BY <1>2, <2>2, CountView
  <2>4. now' = now /\ call'[c].told = call[c].request \o <<CountAnswer(EntriesOf(s), k, result)>>
    BY <2>3, ToldAfter
  <2>5. call'[c].told = <<"Increment", k, by, CountAnswer(EntriesOf(s), k, result)>>
    BY <2>1, <2>4, AmountAnswered
  <2> QED
    BY <1>2, <2>3, <2>4, <2>5, CountStep DEF result
<1>5. CASE Decrement(c)
  <2>1. PICK by \in Int64 : call[c].request = <<"Decrement", k, by>>
    BY <1>2, <1>5 DEF Decrement, Sent, Requests
  <2> DEFINE result == CounterIn(EntriesOf(s), k) - by
  <2>2. Count(c, result)
    BY <1>3, <1>5, <2>1 DEF Decrement
  <2> HIDE DEF result
  <2>3. /\ EntriesAfter(s) = CountEntries(EntriesOf(s), k, result)
        /\ Executed(c, <<CountAnswer(EntriesOf(s), k, result)>>)
    BY <1>2, <2>2, CountView
  <2>4. now' = now /\ call'[c].told = call[c].request \o <<CountAnswer(EntriesOf(s), k, result)>>
    BY <2>3, ToldAfter
  <2>5. call'[c].told = <<"Decrement", k, by, CountAnswer(EntriesOf(s), k, result)>>
    BY <2>1, <2>4, AmountAnswered
  <2> QED
    BY <1>2, <2>3, <2>4, <2>5, CountStep DEF result
<1> QED
  BY <1>4, <1>5

\* A command changes no entry but those it is about.
LEMMA OthersStay ==
  ASSUME Typed, NEW c \in Clients, Command(c), NEW s \in Stores, s # call[c].store
  PROVE  \A n \in NamesOf[s] : db'[n] = db[n]
<1> DEFINE mine == NamesOf[call[c].store]
<1>1. call[c].store \in Stores /\ NamesOf[s] \cap mine = {}
  <2>1. call[c].store \in Stores
    BY DEF Command, Put, Add, Forever, Get, Has, Pull, Forget, Increment, Decrement,
           DeleteBatch, Sent, Typed, CallsOK, CallOK
  <2> QED
    BY <2>1, StoresAssumption
<1>2. NamesOf[s] \subseteq Names /\ DOMAIN db = Names
  BY DEF Names, Typed, DbOK
<1>3. ASSUME Reads
      PROVE  \A n \in NamesOf[s] : db'[n] = db[n]
  BY <1>3 DEF Reads
<1>4. ASSUME NEW n \in mine, NEW v, NEW due, SET(n, v, due)
      PROVE  \A m \in NamesOf[s] : db'[m] = db[m]
  BY <1>1, <1>2, <1>4 DEF SET
<1>5. ASSUME NEW names \in SUBSET mine, DEL(names)
      PROVE  \A m \in NamesOf[s] : db'[m] = db[m]
  BY <1>1, <1>2, <1>5 DEF DEL
<1>6. CASE DeleteBatch(c)
  <2>1. call[c].batch \in SUBSET mine
    BY <1>6 DEF DeleteBatch, Sent, Typed, CallsOK, CallOK
  <2> QED
    BY <1>5, <1>6, <2>1 DEF DeleteBatch
<1>7. CASE ~DeleteBatch(c)
  <2>1. call[c].step = "sent" /\ call[c].request[1] # "Flush"
    BY <1>7 DEF Command, Put, Add, Forever, Get, Has, Pull, Forget, Increment, Decrement,
                Sent
  <2>2. Name(c) \in mine
    BY <1>1, <2>1, Asking, KeysAreNames
  <2>3. \/ Reads
        \/ \E v, due : SET(Name(c), v, due)
        \/ DEL({Name(c)})
    BY <1>7 DEF Command, Put, Add, Forever, Get, Has, Pull, Forget, Increment, Decrement,
                Count
  <2> QED
    BY <1>3, <1>4, <1>5, <2>2, <2>3
<1> QED
  BY <1>6, <1>7

LEMMA CommandsByContract ==
  ASSUME Typed, NEW c \in Clients, Command(c), NEW s, s = call[c].store
  PROVE  ByTheContract(s, c)
<1> DEFINE refused == call[c].request[1] = "Decrement" /\ call[c].request[3] = -Half
<1>1. s \in Stores /\ call[c].step = "sent"
  BY DEF Command, Put, Add, Forever, Get, Has, Pull, Forget, Increment, Decrement,
         DeleteBatch, Sent, Typed, CallsOK, CallOK
<1>2. CASE call[c].request[1] = "Flush"
  <2>1. DeleteBatch(c)
    BY <1>2 DEF Command, Put, Add, Forever, Get, Has, Pull, Forget, Increment, Decrement,
                Sent
  <2>2. NamesOf[s] \subseteq Names
    BY <1>1 DEF Names
  <2>3. \A n \in NamesOf[s] : db'[n] \in {db[n], Absent}
    BY <2>1, <2>2 DEF DeleteBatch, DEL
  <2> QED
    BY <1>2, <2>3 DEF ByTheContract
<1>3. CASE refused
  <2>1. Decrement(c)
    BY <1>3 DEF Command, Put, Add, Forever, Get, Has, Pull, Forget, Increment,
                DeleteBatch, Sent
  <2>2. UNCHANGED db
    BY <1>3, <2>1 DEF Decrement, Reads
  <2> QED
    BY <1>3, <2>2 DEF ByTheContract
<1>4. CASE call[c].request[1] # "Flush" /\ ~refused
  <2>1. ~DeleteBatch(c)
    BY <1>4 DEF DeleteBatch, Sent
  <2>2. \/ Put(c) \/ Add(c) \/ Forever(c)
        \/ Get(c) \/ Has(c) \/ Pull(c) \/ Forget(c)
        \/ Increment(c) \/ Decrement(c)
    BY <2>1 DEF Command
  <2>3. PICK k : k = call[c].request[2]
    OBVIOUS
  <2>4. S(s, c)!Next
    BY <1>4, <2>2, <2>3, WritesByContract, ReadsByContract, CountersByContract
  <2> QED
    BY <1>4, <2>4 DEF ByTheContract
<1> QED
  BY <1>2, <1>3, <1>4

LEMMA CommandsExecute ==
  ASSUME Typed, NEW c \in Clients, Command(c)
  PROVE  /\ Executes(c)
         /\ \A d \in Clients : Executes(d) => d = c
<1>1. call[c].step = "sent" /\ \E answer : Executed(c, answer)
  BY DEF Command, Put, Add, Forever, Get, Has, Pull, Forget, Increment, Decrement, Count,
         DeleteBatch, Sent
<1> PICK answer : Executed(c, answer)
  BY <1>1
<1>2. DOMAIN call = Clients /\ "step" \in DOMAIN call[c]
  BY DEF Typed, CallsOK, CallOK, Fields
<1>3. call'[c].step = "answered" /\ \A d \in Clients : d # c => call'[d] = call[d]
  BY <1>2 DEF Executed
<1> QED
  BY <1>1, <1>3 DEF Executes

\* A step that is no command executes none.
LEMMA OthersExecuteNothing ==
  ASSUME Typed, \A d \in Clients : call'[d].step = "answered" => call[d].step = "answered"
  PROVE  \A d \in Clients : ~Executes(d)
BY DEF Executes

LEMMA BetweenCommands ==
  ASSUME Typed, NEW c \in Clients, Calls(c) \/ Proceeds(c), ~Command(c)
  PROVE  /\ UNCHANGED db
         /\ \A d \in Clients : call'[d].step = "answered" => call[d].step = "answered"
<1>1. DOMAIN call = Clients /\ DOMAIN call[c] = Fields /\ DOMAIN Idle = Fields
  BY DEF Typed, CallsOK, CallOK, Fields, Idle
<1>2. CASE Asks(c)
  <2>1. \E s \in Stores : \E request : Begin(c, s, request)
    BY <1>2 DEF Asks
  <2> QED
    BY <1>1, <2>1 DEF Begin, Fields
<1>3. CASE \E s \in Stores : RefusesToFlush(c, s)
  BY <1>3 DEF RefusesToFlush
<1>4. CASE \E s \in Stores : Flush(c, s)
  BY <1>1, <1>4 DEF Flush, Fields
<1>5. CASE Answered(c) \/ Fails(c) \/ Flushed(c)
  BY <1>1, <1>5 DEF Answered, Fails, Flushed, Returned, Idle
<1>6. CASE Again(c)
  BY <1>1, <1>6 DEF Again, Fields
<1>7. CASE Scan(c)
  BY <1>1, <1>7 DEF Scan, Fields, Sent
<1>8. CASE Collect(c)
  BY <1>1, <1>8 DEF Collect, Fields, Sent
<1>9. CASE NextBatch(c)
  BY <1>1, <1>9 DEF NextBatch, Fields
<1> QED
  BY <1>2, <1>3, <1>4, <1>5, <1>6, <1>7, <1>8, <1>9 DEF Calls, Proceeds

\* The step that the contract allows each store.
LEMMA StepKeepsContract ==
  ASSUME Typed, [Next]_vars
  PROVE  StepsOfTheContract
<1> SUFFICES ASSUME NEW s \in Stores
             PROVE  \/ \E c \in Clients :
                          Executes(c) /\ call[c].store = s /\ ByTheContract(s, c)
                    \/ /\ \A c \in Clients : Executes(c) => call[c].store # s
                       /\ \/ \A n \in NamesOf[s] : db'[n] = db[n]
                          \/ \A c \in Clients : S(s, c)!Expire
  BY DEF StepsOfTheContract
<1>1. ASSUME NEW c \in Clients, Command(c), call[c].store = s
      PROVE  Executes(c) /\ ByTheContract(s, c)
  BY <1>1, CommandsExecute, CommandsByContract
<1>2. ASSUME NEW c \in Clients, Command(c), call[c].store # s
      PROVE  /\ \A d \in Clients : Executes(d) => call[d].store # s
             /\ \A n \in NamesOf[s] : db'[n] = db[n]
  BY <1>2, CommandsExecute, OthersStay
<1>3. ASSUME NEW c \in Clients, Calls(c) \/ Proceeds(c), ~Command(c)
      PROVE  /\ \A d \in Clients : ~Executes(d)
             /\ \A n \in NamesOf[s] : db'[n] = db[n]
  BY <1>3, BetweenCommands, OthersExecuteNothing
<1>4. ASSUME Tick
      PROVE  /\ \A d \in Clients : ~Executes(d)
             /\ \A c \in Clients : S(s, c)!Expire
  <2>1. call' = call
    BY <1>4 DEF Tick
  <2> QED
    BY <1>4, <2>1, ExpireStep, OthersExecuteNothing
<1>5. ASSUME UNCHANGED vars
      PROVE  /\ \A d \in Clients : ~Executes(d)
             /\ \A n \in NamesOf[s] : db'[n] = db[n]
  BY <1>5, OthersExecuteNothing DEF vars
<1> QED
  BY <1>1, <1>2, <1>3, <1>4, <1>5 DEF Next, Proceeds

\* Every command of a Store over Redis is a step of the contract that all
\* stores share (cache.go), whatever other clients do and whatever is sent
\* twice, with the exceptions that ByTheContract names: Flush works batch by
\* batch, and the least int64 cannot be subtracted (redis.go:62-153).
THEOREM CommandsKeepTheContract == Spec => KeepsTheContract
<1>1. Typed /\ [Next]_vars => StepsOfTheContract
  BY StepKeepsContract
<1>2. Typed /\ [Next]_vars => Typed'
  BY TypedInvariant
<1>3. Init => Typed
  BY TypedInvariant
<1> QED
  BY <1>1, <1>2, <1>3, PTL DEF Spec, KeepsTheContract

-----------------------------------------------------------------------------
(* Calls end.  What a call has before it: each name still to walk over may *)
(* take a scan, a collection and a deletion; each attempt of a command may *)
(* take a sending and an answer.                                           *)
Work(r) == 3 * Cardinality(r.ahead) + 2 * Cardinality(r.page) + Cardinality(r.batch)
Sends(r) == 2 * (MaxRetries - r.tries) + (IF r.step = "sent" THEN 1 ELSE 0)

\* The call has ended, has less of the keyspace before it, or has as much and
\* fewer attempts of the command under way.
Nearer(after, before) ==
  \/ after.step = "idle"
  \/ Work(after) < Work(before)
  \/ (Work(after) = Work(before) /\ Sends(after) < Sends(before))

LEMMA Sizes ==
  ASSUME NEW r, CallOK(r)
  PROVE  /\ IsFiniteSet(r.ahead) /\ Cardinality(r.ahead) \in Nat
         /\ IsFiniteSet(r.page) /\ Cardinality(r.page) \in Nat
         /\ IsFiniteSet(r.batch) /\ Cardinality(r.batch) \in Nat
         /\ r.tries \in Nat /\ MaxRetries - r.tries \in Nat
<1>1. r.ahead \subseteq Names /\ r.page \subseteq Names /\ r.batch \subseteq Names
  BY DEF CallOK, Names
<1>2. \A T \in SUBSET Names : IsFiniteSet(T) /\ Cardinality(T) \in Nat
  BY SizesAssumption, FS_Subset, FS_CardinalityType
<1> QED
  BY <1>1, <1>2, SizesAssumption DEF CallOK

LEMMA MeasuresCount ==
  ASSUME NEW r, CallOK(r)
  PROVE  Work(r) \in Nat /\ Sends(r) \in Nat
BY Sizes DEF Work, Sends

\* A part that is not empty is counted.
LEMMA PartsCount ==
  ASSUME NEW T, IsFiniteSet(T), NEW part \in SUBSET T, part # {}
  PROVE  /\ IsFiniteSet(part) /\ Cardinality(part) \in Nat /\ Cardinality(part) >= 1
         /\ Cardinality(T) \in Nat /\ Cardinality(T \ part) \in Nat
         /\ Cardinality(T \ part) = Cardinality(T) - Cardinality(part)
<1>1. IsFiniteSet(part) /\ T \cap part = part
  BY FS_Subset
<1>2. Cardinality(part) \in Nat /\ Cardinality(part) # 0
  BY <1>1, FS_CardinalityType, FS_EmptySet
<1>3. Cardinality(T \ part) = Cardinality(T) - Cardinality(part) /\ IsFiniteSet(T \ part)
  <2>1. /\ IsFiniteSet(T \ part)
        /\ Cardinality(T \ part) = Cardinality(T) - Cardinality(T \cap part)
    BY FS_Difference
  <2> QED
    BY <1>1, <2>1
<1>4. Cardinality(T) \in Nat /\ Cardinality(T \ part) \in Nat
  BY <1>3, FS_CardinalityType
<1> QED
  BY <1>1, <1>2, <1>3, <1>4

LEMMA UnionsCount ==
  ASSUME NEW T, IsFiniteSet(T), NEW part, IsFiniteSet(part)
  PROVE  /\ Cardinality(T) \in Nat /\ Cardinality(T \cup part) \in Nat
         /\ Cardinality(T \cup part) <= Cardinality(T) + Cardinality(part)
<1>1. Cardinality(T \cup part) = Cardinality(T) + Cardinality(part) - Cardinality(T \cap part)
  BY FS_Union
<1>2. IsFiniteSet(T \cup part) /\ IsFiniteSet(T \cap part)
  BY FS_Union, FS_Subset
<1>3. /\ Cardinality(T) \in Nat /\ Cardinality(part) \in Nat
      /\ Cardinality(T \cup part) \in Nat /\ Cardinality(T \cap part) \in Nat
  BY <1>2, FS_CardinalityType
<1> QED
  BY <1>1, <1>3

\* Each step of a call brings it nearer.
LEMMA ExecutedIsNearer ==
  ASSUME Typed, NEW c \in Clients, NEW answer, call[c].step = "sent", Executed(c, answer)
  PROVE  Nearer(call'[c], call[c])
<1>1. CallOK(call[c]) /\ c \in DOMAIN call
  BY DEF Typed, CallsOK
<1>2. /\ call'[c].step = "answered" /\ call'[c].tries = call[c].tries
      /\ call'[c].ahead = call[c].ahead /\ call'[c].page = call[c].page
      /\ call'[c].batch = call[c].batch
  BY <1>1 DEF Executed, CallOK, Fields
<1>3. Work(call'[c]) = Work(call[c])
  BY <1>2 DEF Work
<1>4. Sends(call'[c]) < Sends(call[c])
  BY <1>1, <1>2, Sizes DEF Sends
<1> QED
  BY <1>3, <1>4 DEF Nearer

LEMMA CommandIsNearer ==
  ASSUME Typed, NEW c \in Clients, Command(c)
  PROVE  Nearer(call'[c], call[c])
<1>1. call[c].step = "sent" /\ \E answer : Executed(c, answer)
  BY DEF Command, Put, Add, Forever, Get, Has, Pull, Forget, Increment, Decrement, Count,
         DeleteBatch, Sent
<1> QED
  BY <1>1, ExecutedIsNearer

LEMMA AgainIsNearer ==
  ASSUME Typed, NEW c \in Clients, Again(c)
  PROVE  Nearer(call'[c], call[c])
<1>1. CallOK(call[c]) /\ c \in DOMAIN call
  BY DEF Typed, CallsOK
<1>2. /\ call'[c].step = "sent" /\ call'[c].tries = call[c].tries + 1
      /\ call'[c].ahead = call[c].ahead /\ call'[c].page = call[c].page
      /\ call'[c].batch = call[c].batch
  BY <1>1 DEF Again, CallOK, Fields
<1>3. Work(call'[c]) = Work(call[c])
  BY <1>2 DEF Work
<1>4. Sends(call'[c]) < Sends(call[c])
  BY <1>1, <1>2, Sizes, SizesAssumption DEF Sends, Again
<1> QED
  BY <1>3, <1>4 DEF Nearer

LEMMA ScanIsNearer ==
  ASSUME Typed, NEW c \in Clients, Scan(c)
  PROVE  Nearer(call'[c], call[c])
<1>1. CallOK(call[c]) /\ c \in DOMAIN call
  BY DEF Typed, CallsOK
<1> DEFINE Hit(part) == {n \in part : Present(n) /\
                           Matches(n, globEscape(Prefix[call[c].store]))}
<1>2. PICK part \in (SUBSET call[c].ahead) \ {{}} :
        call' = [call EXCEPT ![c].ahead = Ahead(c, part), ![c].tries = 0,
                             ![c].page = Hit(part)]
  BY DEF Scan
<1>3. Hit(part) \subseteq part
  OBVIOUS
<1> HIDE DEF Hit
<1>4. /\ call'[c].ahead = call[c].ahead \ part /\ call'[c].page = Hit(part)
      /\ call'[c].batch = call[c].batch
  BY <1>1, <1>2 DEF Ahead, CallOK, Fields
<1>5. /\ Cardinality(part) \in Nat /\ Cardinality(part) >= 1
      /\ Cardinality(call[c].ahead) \in Nat /\ Cardinality(call'[c].ahead) \in Nat
      /\ Cardinality(call'[c].ahead) = Cardinality(call[c].ahead) - Cardinality(part)
      /\ IsFiniteSet(part)
  BY <1>1, <1>4, Sizes, PartsCount
<1>6. Cardinality(call'[c].page) \in Nat /\ Cardinality(call'[c].page) <= Cardinality(part)
  BY <1>3, <1>4, <1>5, FS_Subset, FS_CardinalityType
<1>7. Cardinality(call[c].page) = 0
  BY FS_EmptySet DEF Scan
<1>8. Cardinality(call[c].batch) \in Nat /\ Cardinality(call'[c].batch) = Cardinality(call[c].batch)
  BY <1>1, <1>4, Sizes
<1>9. Work(call'[c]) < Work(call[c])
  BY <1>5, <1>6, <1>7, <1>8 DEF Work
<1> QED
  BY <1>9 DEF Nearer

LEMMA CollectIsNearer ==
  ASSUME Typed, NEW c \in Clients, Collect(c)
  PROVE  Nearer(call'[c], call[c])
<1>1. CallOK(call[c]) /\ c \in DOMAIN call
  BY DEF Typed, CallsOK
<1>2. PICK part \in (SUBSET call[c].page) \ {{}} :
        call' = [call EXCEPT ![c].page = @ \ part, ![c].batch = @ \cup part]
  BY DEF Collect
<1>3. /\ call'[c].ahead = call[c].ahead /\ call'[c].page = call[c].page \ part
      /\ call'[c].batch = call[c].batch \cup part
  BY <1>1, <1>2 DEF CallOK, Fields
<1>4. /\ Cardinality(part) \in Nat /\ Cardinality(part) >= 1
      /\ Cardinality(call[c].page) \in Nat /\ Cardinality(call'[c].page) \in Nat
      /\ Cardinality(call'[c].page) = Cardinality(call[c].page) - Cardinality(part)
      /\ IsFiniteSet(part)
  BY <1>1, <1>3, Sizes, PartsCount
<1>5. /\ Cardinality(call[c].batch) \in Nat /\ Cardinality(call'[c].batch) \in Nat
      /\ Cardinality(call'[c].batch) <= Cardinality(call[c].batch) + Cardinality(part)
  BY <1>1, <1>3, <1>4, Sizes, UnionsCount
<1>6. Cardinality(call[c].ahead) \in Nat /\ Cardinality(call'[c].ahead) = Cardinality(call[c].ahead)
  BY <1>1, <1>3, Sizes
<1>7. Work(call'[c]) < Work(call[c])
  BY <1>4, <1>5, <1>6 DEF Work
<1> QED
  BY <1>7 DEF Nearer

\* A batch that was sent to be deleted holds a name.
BatchSent(c) ==
  call[c].step = "answered" /\ call[c].request[1] = "Flush" => call[c].batch # {}
BatchesHoldNames == \A c \in Clients : BatchSent(c)

LEMMA NextBatchIsNearer ==
  ASSUME Typed, NEW c \in Clients, BatchSent(c), NextBatch(c)
  PROVE  Nearer(call'[c], call[c])
<1>1. CallOK(call[c]) /\ c \in DOMAIN call
  BY DEF Typed, CallsOK
<1>2. /\ call'[c].ahead = call[c].ahead /\ call'[c].page = call[c].page
      /\ call'[c].batch = {}
  BY <1>1 DEF NextBatch, CallOK, Fields
<1>3. Cardinality(call[c].batch) \in Nat /\ Cardinality(call[c].batch) # 0
  <2>1. call[c].batch # {}
    BY DEF NextBatch, BatchSent
  <2> QED
    BY <1>1, <2>1, Sizes, FS_EmptySet
<1>4. Cardinality(call'[c].batch) = 0
  BY <1>2, FS_EmptySet
<1>5. /\ Cardinality(call[c].ahead) \in Nat /\ Cardinality(call'[c].ahead) = Cardinality(call[c].ahead)
      /\ Cardinality(call[c].page) \in Nat /\ Cardinality(call'[c].page) = Cardinality(call[c].page)
  BY <1>1, <1>2, Sizes
<1>6. Work(call'[c]) < Work(call[c])
  BY <1>3, <1>4, <1>5 DEF Work
<1> QED
  BY <1>6 DEF Nearer

LEMMA ProceedsIsNearer ==
  ASSUME Typed, NEW c \in Clients, BatchSent(c), Proceeds(c)
  PROVE  Nearer(call'[c], call[c])
<1>1. CASE Answered(c) \/ Fails(c) \/ Flushed(c)
  <2>1. call'[c].step = "idle"
    BY <1>1 DEF Answered, Fails, Flushed, Returned, Idle, Typed, CallsOK
  <2> QED
    BY <2>1 DEF Nearer
<1> QED
  BY <1>1, CommandIsNearer, AgainIsNearer, ScanIsNearer, CollectIsNearer, NextBatchIsNearer
     DEF Proceeds

\* A client moves its own call only.
LEMMA OneClientMoves ==
  ASSUME Typed, NEW c \in Clients, Calls(c) \/ Proceeds(c)
  PROVE  \A d \in Clients : d # c => call'[d] = call[d]
<1>1. DOMAIN call = Clients
  BY DEF Typed, CallsOK
<1>2. CASE Command(c)
  <2>1. \E answer : Executed(c, answer)
    BY <1>2 DEF Command, Put, Add, Forever, Get, Has, Pull, Forget, Increment, Decrement,
                Count, DeleteBatch
  <2> QED
    BY <1>1, <2>1 DEF Executed
<1>3. CASE Calls(c)
  BY <1>1, <1>3 DEF Calls, Asks, Begin, RefusesToFlush, Flush
<1>4. CASE Answered(c) \/ Fails(c) \/ Flushed(c) \/ Again(c) \/ NextBatch(c)
  BY <1>1, <1>4 DEF Answered, Fails, Flushed, Returned, Again, NextBatch
<1>5. CASE Scan(c) \/ Collect(c)
  BY <1>1, <1>5 DEF Scan, Collect
<1> QED
  BY <1>2, <1>3, <1>4, <1>5 DEF Proceeds

LEMMA BatchesHoldNamesInvariant ==
  /\ Init => BatchesHoldNames
  /\ Typed /\ BatchesHoldNames /\ [Next]_vars => BatchesHoldNames'
<1>1. Init => BatchesHoldNames
  BY DEF Init, BatchesHoldNames, BatchSent, Idle
<1>2. ASSUME Typed, BatchesHoldNames, NEW c \in Clients, Calls(c) \/ Proceeds(c)
      PROVE  BatchesHoldNames'
  <2>1. \A d \in Clients : d # c => BatchSent(d)'
    BY <1>2, OneClientMoves DEF BatchesHoldNames, BatchSent
  <2>2. BatchSent(c)'
    <3>1. CASE Command(c)
      <4>1. call[c].step = "sent" /\ \E answer : Executed(c, answer)
        BY <3>1 DEF Command, Put, Add, Forever, Get, Has, Pull, Forget, Increment, Decrement,
                    Count, DeleteBatch, Sent
      <4>2. call'[c].request = call[c].request /\ call'[c].batch = call[c].batch
        BY <1>2, <4>1 DEF Executed, Typed, CallsOK, CallOK, Fields
      <4>3. call[c].request[1] = "Flush" => BatchIsDue(c)
        BY <3>1 DEF Command, Put, Add, Forever, Get, Has, Pull, Forget, Increment, Decrement,
                    DeleteBatch, Sent
      <4>4. BatchIsDue(c) => call[c].batch # {}
        BY FS_EmptySet, SizesAssumption DEF BatchIsDue, Full
      <4> QED
        BY <4>2, <4>3, <4>4 DEF BatchSent
    <3>2. CASE ~Command(c)
      <4>1. UNCHANGED call \/ call'[c].step # "answered"
        <5>1. DOMAIN call = Clients /\ DOMAIN call[c] = Fields /\ DOMAIN Idle = Fields
          BY <1>2 DEF Typed, CallsOK, CallOK, Fields, Idle
        <5>2. CASE Asks(c)
          <6>1. \E s \in Stores : \E request : Begin(c, s, request)
            BY <5>2 DEF Asks
          <6> QED
            BY <5>1, <6>1 DEF Begin, Fields
        <5>3. CASE \E s \in Stores : RefusesToFlush(c, s)
          BY <5>3 DEF RefusesToFlush
        <5>4. CASE \E s \in Stores : Flush(c, s)
          BY <5>1, <5>4 DEF Flush, Fields
        <5>5. CASE Answered(c) \/ Fails(c) \/ Flushed(c)
          BY <5>1, <5>5 DEF Answered, Fails, Flushed, Returned, Idle
        <5>6. CASE Again(c) \/ NextBatch(c)
          BY <5>1, <5>6 DEF Again, NextBatch, Fields
        <5>7. CASE Scan(c)
          BY <5>1, <5>7 DEF Scan, Fields, Sent
        <5>8. CASE Collect(c)
          BY <5>1, <5>8 DEF Collect, Fields, Sent
        <5> QED
          BY <1>2, <3>2, <5>2, <5>3, <5>4, <5>5, <5>6, <5>7, <5>8 DEF Calls, Proceeds
      <4> QED
        BY <1>2, <4>1 DEF BatchesHoldNames, BatchSent
    <3> QED
      BY <3>1, <3>2
  <2> QED
    BY <2>1, <2>2 DEF BatchesHoldNames
<1>3. ASSUME BatchesHoldNames, UNCHANGED call
      PROVE  BatchesHoldNames'
  BY <1>3 DEF BatchesHoldNames, BatchSent
<1> QED
  BY <1>1, <1>2, <1>3 DEF Next, Tick, vars

\* What the ending of calls rests on (redis.go:127-153): whatever the other
\* clients do, a call that is under way stays as it is or comes nearer its end
\* by a measure in the natural numbers, and every step of its own brings it
\* nearer.  A key that other writers put back is not scanned again:
\* the cursor passes over the keyspace once.
GetsNearer(c) ==
  call[c].step # "idle" =>
    /\ Work(call[c]) \in Nat /\ Sends(call[c]) \in Nat
    /\ call'[c] = call[c] \/ Nearer(call'[c], call[c])
    /\ Proceeds(c) => Nearer(call'[c], call[c])

THEOREM CallsGetNearer == Spec => [][\A c \in Clients : GetsNearer(c)]_vars
<1>1. ASSUME Typed, BatchesHoldNames, [Next]_vars, NEW c \in Clients
      PROVE  GetsNearer(c)
  <2> SUFFICES ASSUME call[c].step # "idle"
               PROVE  /\ Work(call[c]) \in Nat /\ Sends(call[c]) \in Nat
                      /\ call'[c] = call[c] \/ Nearer(call'[c], call[c])
                      /\ Proceeds(c) => Nearer(call'[c], call[c])
    BY DEF GetsNearer
  <2>1. Work(call[c]) \in Nat /\ Sends(call[c]) \in Nat
    BY <1>1, MeasuresCount DEF Typed, CallsOK
  <2>2. Proceeds(c) => Nearer(call'[c], call[c])
    BY <1>1, ProceedsIsNearer DEF BatchesHoldNames
  <2>3. ~Calls(c)
    BY DEF Calls, Asks, Begin, RefusesToFlush, Flush
  <2>4. call'[c] = call[c] \/ Proceeds(c)
    <3>1. ASSUME NEW d \in Clients, Calls(d) \/ Proceeds(d), d # c
          PROVE  call'[c] = call[c]
      BY <1>1, <3>1, OneClientMoves
    <3> QED
      BY <1>1, <2>3, <3>1 DEF Next, Tick, vars
  <2> QED
    BY <2>1, <2>2, <2>4
<1>2. Typed /\ BatchesHoldNames /\ [Next]_vars => \A c \in Clients : GetsNearer(c)
  BY <1>1
<1>3. Typed /\ BatchesHoldNames /\ [Next]_vars => Typed' /\ BatchesHoldNames'
  BY TypedInvariant, BatchesHoldNamesInvariant
<1>4. Init => Typed /\ BatchesHoldNames
  BY TypedInvariant, BatchesHoldNamesInvariant
<1> QED
  BY <1>2, <1>3, <1>4, PTL DEF Spec
=============================================================================
