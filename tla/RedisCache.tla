----------------------------- MODULE RedisCache -----------------------------
(***************************************************************************)
(* cache/redis (src/cache/redis/redis.go): several Stores, each with a key *)
(* prefix of its own, in one Redis keyspace, called by clients that run    *)
(* beside each other.  All operations but Flush are one command.  A        *)
(* command is executed at once by the server; its request or its answer    *)
(* may be lost, and then the client library sends it again.  Flush is many *)
(* commands: SCAN pages of the keyspace, collected and deleted in batches. *)
(***************************************************************************)
EXTENDS CacheValues, Sequences, FiniteSets

CONSTANTS
  Stores, NoStore,
  Prefix,       \* store -> the sequence of characters its keys begin with
  Owned,        \* store -> the keys its callers use
  Asked,        \* bound: the names that single-command calls are about
  Clients,
  Puts,         \* the values callers write
  Left,         \* the values earlier callers may have left
  Amounts,      \* the amounts callers count by
  BatchSize,    \* flushBatchSize
  MaxRetries,   \* how often the client library sends a command again
  MaxCalls      \* bound on the calls of a behaviour

key(s, k) == Append(Prefix[s], k)
NamesOf == [s \in Stores |-> {key(s, k) : k \in Owned[s]}]
Names == UNION {NamesOf[s] : s \in Stores}

\* No store's prefix leads into another store's names.
BeginsWith(n, p) == Len(p) <= Len(n) /\ \A i \in 1..Len(p) : n[i] = p[i]
ASSUME StoresAssumption ==
  /\ \A s \in Stores : Prefix[s] \in Seq(STRING) /\ Owned[s] \subseteq Keys
  /\ \A s, t \in Stores : s # t => NamesOf[s] \cap NamesOf[t] = {}
  /\ \A s, t \in Stores : s # t /\ Prefix[s] # <<>> =>
       \A n \in NamesOf[t] : ~BeginsWith(n, Prefix[s])
  /\ NoStore \notin Stores
ASSUME InputsAssumption == Puts \cup Left \subseteq Values /\ Amounts \subseteq Int64
ASSUME SizesAssumption ==
  /\ BatchSize \in Nat \ {0} /\ MaxRetries \in Nat /\ MaxCalls \in Nat
  /\ IsFiniteSet(Names)

VARIABLES
  db,       \* name -> its value and when it is due to go, or Absent
  now,      \* the server's clock
  call,     \* client -> the call it has under way
  doomed,   \* client -> history: what its Flush has to have removed
  calls     \* how many calls were begun

vars == <<db, now, call, doomed, calls>>

-----------------------------------------------------------------------------
(* MATCH patterns: one element for each character of the key it matches.   *)
(* Escaped, a metacharacter stands for itself; left as it is, a ? stands   *)
(* for any character.                                                      *)
unescaped(prefix) == [i \in 1..Len(prefix) |-> <<prefix[i]>>]
Metacharacters == {"*", "?", "[", "]", "\\"}
globEscape(prefix) == [i \in 1..Len(prefix) |->
  IF prefix[i] \in Metacharacters THEN <<"\\", prefix[i]>> ELSE <<prefix[i]>>]

Matches(n, pattern) ==
  /\ Len(pattern) <= Len(n)
  /\ \A i \in 1..Len(pattern) :
       pattern[i] \in {<<"\\", n[i]>>, <<n[i]>>, <<"?">>}

expiryAtOnce(ttl) == IF ttl < 0 THEN Never ELSE now + ttl
expiryFor(ttl) == IF ttl <= 0 THEN Never ELSE now + ttl

-----------------------------------------------------------------------------
(* A client's call, and what may happen to its commands.                   *)
Idle == [step |-> "idle", store |-> NoStore, request |-> <<>>, told |-> <<>>,
         tries |-> 0, ahead |-> {}, page |-> {}, batch |-> {}]

Name(c) == key(call[c].store, call[c].request[2])
Present(n) == db[n] # Absent
Value(n) == IF Present(n) THEN db[n].val ELSE Absent

Sent(c, op) == call[c].step = "sent" /\ call[c].request[1] = op

Begin(c, s, request) ==
  /\ call[c].step = "idle" /\ calls < MaxCalls
  /\ calls' = calls + 1
  /\ call' = [call EXCEPT ![c] =
                [Idle EXCEPT !.step = "sent", !.store = s, !.request = request]]
  /\ doomed' = [doomed EXCEPT ![c] = {}]
  /\ UNCHANGED <<db, now>>

Asks(c) ==
  \E s \in Stores : \E k \in {k \in Owned[s] : key(s, k) \in Asked} :
    \/ \E v \in Puts, ttl \in TTLs :
         Begin(c, s, <<"Put", k, v, ttl>>) \/ Begin(c, s, <<"Add", k, v, ttl>>)
    \/ \E v \in Puts : Begin(c, s, <<"Forever", k, v>>)
    \/ \E op \in {"Get", "Has", "Pull", "Forget"} : Begin(c, s, <<op, k>>)
    \/ \E op \in {"Increment", "Decrement"}, by \in Amounts : Begin(c, s, <<op, k, by>>)

\* The server has executed the command; its answer is on its way.
Executed(c, answer) ==
  /\ call' = [call EXCEPT ![c].step = "answered",
                          ![c].told = call[c].request \o answer]
  /\ UNCHANGED <<now, calls>>

SET(n, v, due) ==
  /\ db' = [db EXCEPT ![n] = [val |-> v, due |-> due]]
  /\ doomed' = [c \in Clients |-> doomed[c] \ {n}]
DEL(names) ==
  /\ db' = [n \in Names |-> IF n \in names THEN Absent ELSE db[n]]
  /\ UNCHANGED doomed
Reads == UNCHANGED <<db, doomed>>

Returned(c) == call' = [call EXCEPT ![c] = Idle] /\ UNCHANGED <<db, now, calls>>

Answered(c) ==
  /\ call[c].step = "answered" /\ call[c].request[1] # "Flush"
  /\ Returned(c) /\ UNCHANGED doomed

\* The request or the answer was lost: the command is sent again.
Again(c) ==
  /\ call[c].step \in {"sent", "answered"} /\ call[c].tries < MaxRetries
  /\ call' = [call EXCEPT ![c].step = "sent", ![c].told = <<>>,
                          ![c].tries = @ + 1]
  /\ UNCHANGED <<db, now, doomed, calls>>

\* The retries are used up, or the caller's context has ended.
Fails(c) ==
  /\ call[c].step \in {"sent", "answered"}
  /\ Returned(c) /\ doomed' = [doomed EXCEPT ![c] = {}]

-----------------------------------------------------------------------------
(* The operations of one command.                                          *)
Put(c) ==
  /\ Sent(c, "Put")
  /\ SET(Name(c), call[c].request[3], expiryFor(call[c].request[4]))
  /\ Executed(c, <<>>)

Add(c) ==
  /\ Sent(c, "Add")
  /\ IF Present(Name(c)) THEN Reads
     ELSE SET(Name(c), call[c].request[3], expiryFor(call[c].request[4]))
  /\ Executed(c, <<~Present(Name(c))>>)

Forever(c) ==
  /\ Sent(c, "Forever")
  /\ SET(Name(c), call[c].request[3], Never)
  /\ Executed(c, <<>>)

Get(c) == Sent(c, "Get") /\ Reads /\ Executed(c, <<Value(Name(c))>>)
Has(c) == Sent(c, "Has") /\ Reads /\ Executed(c, <<Present(Name(c))>>)
Pull(c) == Sent(c, "Pull") /\ DEL({Name(c)}) /\ Executed(c, <<Value(Name(c))>>)
Forget(c) == Sent(c, "Forget") /\ DEL({Name(c)}) /\ Executed(c, <<>>)

\* INCRBY and DECRBY keep the expiry a key has.
Counter(n) == IF Value(n) \in Int64 THEN Value(n) ELSE 0
Count(c, result) ==
  LET n == Name(c) IN
  IF Value(n) \notin Int64 \cup {Absent} THEN Reads /\ Executed(c, <<NotAnInteger>>)
  ELSE IF result \notin Int64 THEN Reads /\ Executed(c, <<WouldOverflow>>)
  ELSE SET(n, result, IF Present(n) THEN db[n].due ELSE Never) /\ Executed(c, <<result>>)

Increment(c) ==
  /\ Sent(c, "Increment")
  /\ Count(c, Counter(Name(c)) + call[c].request[3])

\* Redis refuses to decrement by the least int64, which it cannot negate.
Decrement(c) ==
  /\ Sent(c, "Decrement")
  /\ IF call[c].request[3] = -Half
     THEN Reads /\ Executed(c, <<WouldOverflow>>)
     ELSE Count(c, Counter(Name(c)) - call[c].request[3])

-----------------------------------------------------------------------------
(* Flush.                                                                  *)
RefusesToFlush(c, s) ==   \* cache.ErrNoPrefix
  /\ Prefix[s] = <<>>
  /\ call[c].step = "idle" /\ calls < MaxCalls
  /\ calls' = calls + 1
  /\ UNCHANGED <<db, now, call, doomed>>

Flush(c, s) ==
  /\ Prefix[s] # <<>>
  /\ call[c].step = "idle" /\ calls < MaxCalls
  /\ calls' = calls + 1
  /\ call' = [call EXCEPT ![c] =
                [Idle EXCEPT !.step = "sent", !.store = s,
                             !.request = <<"Flush">>, !.ahead = Names]]
  /\ doomed' = [doomed EXCEPT ![c] = {n \in NamesOf[s] : Present(n)}]
  /\ UNCHANGED <<db, now>>

Full(c) == Cardinality(call[c].batch) >= BatchSize
Exhausted(c) == call[c].page = {} /\ call[c].ahead = {}

\* The server walks on over part of the keyspace.
FromTheStart(c, part) == Names
Ahead(c, part) == call[c].ahead \ part
Scan(c) ==
  /\ Sent(c, "Flush")
  /\ call[c].page = {} /\ call[c].ahead # {} /\ ~Full(c)
  /\ \E part \in (SUBSET call[c].ahead) \ {{}} :
       call' = [call EXCEPT
         ![c].ahead = Ahead(c, part), ![c].tries = 0,
         ![c].page = {n \in part : Present(n) /\
                        Matches(n, globEscape(Prefix[call[c].store]))}]
  /\ UNCHANGED <<db, now, doomed, calls>>

\* Names of the page go into the batch until it is full or they are used up.
Collect(c) ==
  /\ Sent(c, "Flush") /\ ~Full(c)
  /\ \E part \in (SUBSET call[c].page) \ {{}} :
       /\ LET size == Cardinality(call[c].batch \cup part) IN
            size = BatchSize \/ (size < BatchSize /\ part = call[c].page)
       /\ call' = [call EXCEPT ![c].page = @ \ part, ![c].batch = @ \cup part]
  /\ UNCHANGED <<db, now, doomed, calls>>

WhenFull(c) == Full(c)
BatchIsDue(c) == Full(c) \/ (Exhausted(c) /\ call[c].batch # {})
DeleteBatch(c) ==
  /\ Sent(c, "Flush") /\ BatchIsDue(c)
  /\ DEL(call[c].batch)
  /\ Executed(c, <<>>)

NextBatch(c) ==
  /\ call[c].step = "answered" /\ call[c].request[1] = "Flush"
  /\ call' = [call EXCEPT ![c].step = "sent", ![c].told = <<>>,
                          ![c].batch = {}, ![c].tries = 0]
  /\ UNCHANGED <<db, now, doomed, calls>>

Flushed(c) ==
  /\ Sent(c, "Flush") /\ Exhausted(c) /\ ~BatchIsDue(c)
  /\ Returned(c) /\ UNCHANGED doomed

-----------------------------------------------------------------------------
\* Time passes, and what is due is gone.
Tick ==
  /\ now < MaxTime
  /\ now' = now + 1
  /\ db' = [n \in Names |->
              IF Present(n) /\ db[n].due # Never /\ db[n].due <= now + 1
              THEN Absent ELSE db[n]]
  /\ UNCHANGED <<call, doomed, calls>>

\* Earlier clients may have left a value under every name.
Init ==
  /\ \E left \in {Absent} \cup {[val |-> v, due |-> Never] : v \in Left} :
       db = [n \in Names |-> left]
  /\ now = 1
  /\ call = [c \in Clients |-> Idle]
  /\ doomed = [c \in Clients |-> {}]
  /\ calls = 0

Calls(c) == Asks(c) \/ \E s \in Stores : RefusesToFlush(c, s) \/ Flush(c, s)
Command(c) ==
  \/ Put(c) \/ Add(c) \/ Forever(c) \/ Get(c) \/ Has(c) \/ Pull(c) \/ Forget(c)
  \/ Increment(c) \/ Decrement(c) \/ DeleteBatch(c)
Proceeds(c) ==
  \/ Command(c) \/ Answered(c) \/ Again(c) \/ Fails(c)
  \/ Scan(c) \/ Collect(c) \/ NextBatch(c) \/ Flushed(c)
Next == (\E c \in Clients : Calls(c) \/ Proceeds(c)) \/ Tick

\* Every command is answered, or given up after the client library's
\* timeouts, and the call that sent it goes on.
Fairness == \A c \in Clients : WF_vars(Proceeds(c))
Spec == Init /\ [][Next]_vars /\ Fairness

-----------------------------------------------------------------------------
Entries == [val : Values, due : Int \cup {Never}]
\* A batch that Flush collects, and every page of names it does, belong to
\* the store that is flushed; nothing outlives its expiry (redis.go:132-141).
TypeOK ==
  /\ \A n \in Names : db[n] = Absent \/ (db[n] \in Entries /\
       (db[n].due = Never \/ db[n].due > now))
  /\ now \in 1..MaxTime /\ calls \in 0..MaxCalls
  /\ \A c \in Clients :
       /\ call[c].step \in {"idle", "sent", "answered"}
       /\ call[c].step # "idle" => call[c].store \in Stores
       /\ call[c].tries \in 0..MaxRetries
       /\ call[c].ahead \subseteq Names
       /\ call[c].page \cup call[c].batch \subseteq
            UNION {NamesOf[s] : s \in {call[c].store} \cap Stores}
       /\ Cardinality(call[c].batch) <= BatchSize
       /\ doomed[c] \subseteq Names

\* When a Flush has returned without an error, every name its store had when
\* it began and nobody wrote since is gone, whatever ran beside it, and
\* whatever was sent twice (redis.go:127-153, cache.go:47-52).
FlushRemovesAll ==
  \A c \in Clients : call[c].step = "idle" => \A n \in doomed[c] : ~Present(n)

\* One command is one step of the contract: the answer is the contract's, the
\* store's entries change as it says, and no other store's do.  What is left
\* of it: a Flush removes names of its own store batch by batch, and Redis
\* refuses to decrement by the least int64 (redis.go:62-114).
S(s, c) == INSTANCE CacheStore WITH
  Keys <- Owned[s], TTLs <- TTLs,
  store <- [k \in Owned[s] |-> db[key(s, k)]],
  prefixed <- Prefix[s] # <<>>,
  last <- call[c].told

ByTheContract(s, c) ==
  CASE call[c].request[1] = "Flush" ->
         \A n \in NamesOf[s] : db'[n] \in {db[n], Absent}
    [] call[c].request[1] = "Decrement" /\ call[c].request[3] = -Half ->
         UNCHANGED db
    [] OTHER -> S(s, c)!Next

Executes(c) == call[c].step = "sent" /\ call'[c].step = "answered"
StepsOfTheContract ==
  \A s \in Stores :
    \/ \E c \in Clients : Executes(c) /\ call[c].store = s /\ ByTheContract(s, c)
    \/ /\ \A c \in Clients : Executes(c) => call[c].store # s
       /\ \/ \A n \in NamesOf[s] : db'[n] = db[n]
          \/ \A c \in Clients : S(s, c)!Expire
KeepsTheContract == [][StepsOfTheContract]_vars

\* Every call ends: with a bounded number of retries, and with a cursor that
\* passes over the keyspace once, also beside a call that puts a key back
\* (redis.go:132-153).
EveryCallReturns ==
  \A c \in Clients : (call[c].step # "idle") ~> (call[c].step = "idle")
=============================================================================
