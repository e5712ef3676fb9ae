---------------------------- MODULE TaskApiProofs ----------------------------
(***************************************************************************)
(* Proofs about TaskApi, for any tasks, requests, times and bounds: how    *)
(* long and why the cache serves an outdated task, and why an attachment   *)
(* outlives its task.  Each invariant is kept by the reads, fills and      *)
(* uploads already under way as well as by what is stored.                 *)
(***************************************************************************)
EXTENDS TaskApi, TLAPS

-----------------------------------------------------------------------------
(* Types.                                                                  *)

Requesting == {Idle} \cup [at : Steps, task : Tasks, val : {NoRow}, deadline : Nat]
              \cup [at : {"loaded"}, task : Tasks, val : Versions, deadline : Nat]

\* A request that is under way has a task, and one that has loaded a row knows
\* its version.
LEMMA RequestUnderWay ==
  ASSUME TypeOK, NEW r \in Requests, req[r].at # "idle"
  PROVE  /\ req[r].task \in Tasks
         /\ req[r].deadline \in Nat
         /\ req[r].at = "loaded" => req[r].val \in Versions
         /\ req[r].at # "loaded" => req[r].val = NoRow
BY DEF TypeOK, Idle, Steps

\* A request that moves on to another step stays well-formed.
LEMMA GoToType ==
  ASSUME TypeOK, NEW r \in Requests, req[r].at \notin {"idle", "loaded"},
         NEW step \in Steps, GoTo(r, step)
  PROVE  req' \in [Requests -> Requesting]
<1>1. req[r] \in [at : Steps, task : Tasks, val : {NoRow}, deadline : Nat]
  BY DEF TypeOK, Idle
<1>2. [req[r] EXCEPT !.at = step] \in [at : Steps, task : Tasks, val : {NoRow}, deadline : Nat]
  BY <1>1
<1> QED
  BY <1>2 DEF GoTo, TypeOK, Requesting

LEMMA AnswerType ==
  ASSUME TypeOK, NEW r \in Requests, Answer(r)
  PROVE  req' \in [Requests -> Requesting]
BY DEF Answer, TypeOK, Requesting

LEMMA BeginType ==
  ASSUME TypeOK, NEW r \in Requests, NEW step \in Steps, NEW deadline \in Nat,
         Begin(r, step, deadline)
  PROVE  req' \in [Requests -> Requesting]
BY DEF Begin, TypeOK, Requesting

LEMMA SetRowType ==
  ASSUME TypeOK, NEW t \in Tasks, NEW v \in Versions \cup {NoRow}, SetRow(t, v)
  PROVE  /\ rows' \in [Tasks -> Versions \cup {NoRow}]
         /\ gone' \in [Tasks -> [Versions -> Nat]]
<1>1. now \in Nat
  BY DEF TypeOK
<1> QED
  BY <1>1 DEF SetRow, TypeOK

LEMMA TaintType ==
  ASSUME TypeOK, NEW t \in Tasks, NEW S \in SUBSET Versions, Taint(t, S)
  PROVE  tainted' \subseteq Tasks \X Versions
BY DEF Taint, TypeOK

LEMMA NextTypeOK == TypeOK /\ [Next]_vars => TypeOK'
<1> SUFFICES ASSUME TypeOK, [Next]_vars PROVE TypeOK'
  OBVIOUS
<1> USE TimesAssumption, VersionsAssumption
<1>a. now \in Nat /\ now + RequestTime \in Nat /\ now + FillTime \in Nat
  BY DEF TypeOK
<1>b. \A t : InFlight(t) \subseteq Versions /\ Cached(t) \subseteq Versions
  BY DEF InFlight, Cached
<1>1. CASE UNCHANGED vars
  BY <1>1 DEF TypeOK, vars, service, history, Requesting
<1>2. ASSUME NEW t \in Tasks, CreateTask(t) PROVE TypeOK'
  <2>1. 1 \in Versions
    BY DEF Versions
  <2> QED
    BY <1>2, <2>1, SetRowType DEF CreateTask, TypeOK, service
<1>3. ASSUME NEW t \in Tasks, DeleteAttachment(t) PROVE TypeOK'
  BY <1>3 DEF DeleteAttachment, TypeOK, history
<1>4. ASSUME NEW r \in Requests, GetTask(r) PROVE TypeOK'
  <2>1. req' \in [Requests -> Requesting]
    BY <1>4, <1>a, BeginType DEF GetTask, Steps
  <2> QED
    BY <1>4, <2>1 DEF GetTask, TypeOK, history, Requesting
<1>5. ASSUME NEW r \in Requests, ReadCache(r) PROVE TypeOK'
  <2>1. req' \in [Requests -> Requesting]
    BY <1>5, AnswerType, GoToType DEF ReadCache, Steps
  <2> QED
    BY <1>5, <2>1 DEF ReadCache, TypeOK, history, Requesting
<1>6. ASSUME NEW r \in Requests, LoadRow(r) PROVE TypeOK'
  <2>1. CASE Answer(r)
    BY <1>6, <2>1, AnswerType DEF LoadRow, TypeOK, history, Requesting
  <2>2. CASE /\ Found(req[r].task)
             /\ req' = [req EXCEPT ![r].at = "loaded", ![r].val = rows[req[r].task]]
    <3>1. req[r] \in [at : Steps, task : Tasks, val : {NoRow}, deadline : Nat]
      BY <1>6 DEF LoadRow, TypeOK, Idle
    <3>2. rows[req[r].task] \in Versions
      BY <2>2, <3>1 DEF Found, TypeOK
    <3>3. req' \in [Requests -> Requesting]
      BY <2>2, <3>1, <3>2 DEF TypeOK, Requesting
    <3> QED
      BY <1>6, <3>3 DEF LoadRow, TypeOK, history, Requesting
  <2> QED
    BY <1>6, <2>1, <2>2 DEF LoadRow
<1>7. ASSUME NEW r \in Requests, Respond(r) PROVE TypeOK'
  <2>1. req' \in [Requests -> Requesting]
    BY <1>7, AnswerType DEF Respond
  <2>2. fills' \subseteq [task : Tasks, val : Versions, deadline : Nat]
    BY <1>7, <1>a, RequestUnderWay DEF Respond, TypeOK
  <2> QED
    BY <1>7, <2>1, <2>2 DEF Respond, TypeOK, history, Requesting
<1>8. ASSUME NEW r \in Requests, LoadTimesOut(r) PROVE TypeOK'
  BY <1>8, AnswerType DEF LoadTimesOut, TypeOK, history, Requesting
<1>9. ASSUME NEW r \in Requests, UpdateTask(r) \/ DeleteTask(r) \/ UploadAttachment(r)
      PROVE  TypeOK'
  <2>1. req' \in [Requests -> Requesting]
    BY <1>9, BeginType DEF UpdateTask, DeleteTask, UploadAttachment, Steps
  <2> QED
    BY <1>9, <2>1 DEF UpdateTask, DeleteTask, UploadAttachment, TypeOK, history, Requesting
<1>10. ASSUME NEW r \in Requests, UpdateRow(r) PROVE TypeOK'
  <2> DEFINE t == req[r].task
  <2>1. t \in Tasks
    BY <1>10, RequestUnderWay DEF UpdateRow
  <2>2. req' \in [Requests -> Requesting]
    BY <1>10, AnswerType, GoToType DEF UpdateRow, Steps
  <2>3. CASE UNCHANGED <<rows, latest, gone, tainted>>
    BY <1>10, <2>2, <2>3 DEF UpdateRow, TypeOK, Requesting
  <2>4. CASE /\ latest[t] < MaxVersion
             /\ latest' = [latest EXCEPT ![t] = @ + 1]
             /\ SetRow(t, latest[t] + 1)
             /\ Taint(t, InFlight(t)) \/ Taint(t, InFlight(t) \cup Cached(t))
    <3>1. latest[t] + 1 \in Versions /\ latest' \in [Tasks -> 0 .. MaxVersion]
      BY <2>1, <2>4 DEF TypeOK, Versions
    <3>2. tainted' \subseteq Tasks \X Versions
      <4>1. InFlight(t) \in SUBSET Versions /\ InFlight(t) \cup Cached(t) \in SUBSET Versions
        BY <1>b
      <4> HIDE DEF t
      <4> QED
        BY <2>1, <2>4, <4>1, TaintType
    <3>3. /\ rows' \in [Tasks -> Versions \cup {NoRow}]
          /\ gone' \in [Tasks -> [Versions -> Nat]]
      BY <2>1, <2>4, <3>1, SetRowType
    <3> QED
      BY <1>10, <2>2, <3>1, <3>2, <3>3 DEF UpdateRow, TypeOK, Requesting
  <2> QED
    BY <1>10, <2>3, <2>4 DEF UpdateRow
<1>11. ASSUME NEW r \in Requests, DeleteRow(r) PROVE TypeOK'
  <2> DEFINE t == req[r].task
  <2>1. t \in Tasks
    BY <1>11, RequestUnderWay DEF DeleteRow
  <2>2. req' \in [Requests -> Requesting]
    BY <1>11, AnswerType, GoToType DEF DeleteRow, Steps
  <2>3. CASE UNCHANGED <<rows, history>>
    BY <1>11, <2>2, <2>3 DEF DeleteRow, TypeOK, Requesting, history
  <2>4. CASE /\ SetRow(t, NoRow)
             /\ Taint(t, InFlight(t)) \/ Taint(t, InFlight(t) \cup Cached(t))
             /\ orphaned' \in {orphaned, orphaned \cup {t}}
    <3>1. tainted' \subseteq Tasks \X Versions
      <4>1. InFlight(t) \in SUBSET Versions /\ InFlight(t) \cup Cached(t) \in SUBSET Versions
        BY <1>b
      <4> HIDE DEF t
      <4> QED
        BY <2>1, <2>4, <4>1, TaintType
    <3>2. /\ rows' \in [Tasks -> Versions \cup {NoRow}]
          /\ gone' \in [Tasks -> [Versions -> Nat]]
      BY <2>1, <2>4, SetRowType
    <3> QED
      BY <1>11, <2>1, <2>2, <2>4, <3>1, <3>2 DEF DeleteRow, TypeOK, Requesting
  <2> QED
    BY <1>11, <2>3, <2>4 DEF DeleteRow
<1>12. ASSUME NEW r \in Requests, Invalidate(r) PROVE TypeOK'
  <2> DEFINE t == req[r].task
  <2>1. t \in Tasks
    BY <1>12, RequestUnderWay DEF Invalidate, AfterUpdate, AfterDelete
  <2>2. req' \in [Requests -> Requesting]
    BY <1>12, AnswerType, GoToType DEF Invalidate, AfterUpdate, AfterDelete, Steps
  <2>3. CASE Cache!Remove(t) /\ UNCHANGED tainted
    BY <1>12, <2>1, <2>2, <2>3 DEF Invalidate, TypeOK, Requesting, Cache!Remove
  <2>4. CASE UNCHANGED cache /\ Taint(t, Cached(t))
    <3>1. tainted' \subseteq Tasks \X Versions
      BY <1>b, <2>1, <2>4, TaintType
    <3> QED
      BY <1>12, <2>2, <2>4, <3>1 DEF Invalidate, TypeOK, Requesting
  <2> QED
    BY <1>12, <2>3, <2>4 DEF Invalidate, AfterUpdate, AfterDelete
<1>13. ASSUME NEW r \in Requests, Cleanup(r) PROVE TypeOK'
  BY <1>13, RequestUnderWay, AnswerType DEF Cleanup, TypeOK, Requesting
<1>14. ASSUME NEW r \in Requests, CheckExists(r) PROVE TypeOK'
  <2>1. req' \in [Requests -> Requesting]
    BY <1>14, AnswerType, GoToType DEF CheckExists, Steps
  <2> QED
    BY <1>14, <2>1 DEF CheckExists, TypeOK, history, Requesting
<1>15. ASSUME NEW r \in Requests, Store(r) PROVE TypeOK'
  BY <1>15, RequestUnderWay, AnswerType DEF Store, TypeOK, history, Requesting
<1>16. ASSUME NEW f \in fills, Fill(f) PROVE TypeOK'
  <2>1. f.task \in Tasks /\ f.val \in Versions
    BY DEF TypeOK
  <2>2. Cache!Due(ttl) \in Nat \cup {Never}
    BY <1>a DEF Cache!Due, TypeOK
  <2>3. cache' \in [Tasks -> Entries \cup {Absent}]
    BY <1>16, <2>1, <2>2 DEF Fill, Cache!Set, TypeOK, Entries
  <2> QED
    BY <1>16, <2>3 DEF Fill, TypeOK, history, Requesting
<1>17. ASSUME NEW f \in fills, FillFails(f) PROVE TypeOK'
  BY <1>17 DEF FillFails, TypeOK, history, Requesting
<1>18. CASE Crash
  <2>1. cache' \in [Tasks -> Entries \cup {Absent}]
    BY <1>18 DEF Crash, TypeOK
  <2> QED
    BY <1>18, <2>1 DEF Crash, TypeOK
<1>19. CASE Tick
  BY <1>19, <1>a DEF Tick, Cache!Expire, TypeOK, history, Requesting
<1> QED
  BY <1>1, <1>2, <1>3, <1>4, <1>5, <1>6, <1>7, <1>8, <1>9, <1>10, <1>11, <1>12,
     <1>13, <1>14, <1>15, <1>16, <1>17, <1>18, <1>19 DEF Next, Step

\* Every variable keeps its type; in particular only versions of a row are
\* ever loaded, put into the cache or served.
THEOREM TypeCorrect == Spec => []TypeOK
<1>1. Init => TypeOK
  BY TimesAssumption, VersionsAssumption DEF Init, TypeOK
<1> QED
  BY <1>1, NextTypeOK, PTL DEF Spec
-----------------------------------------------------------------------------
(* How long the cache may be stale.                                        *)

\* A version of t that is read, filled or cached and must be out of there by
\* end: it is the row's still, or stopped being it at most `slack` before end.
Fresh(t, v, end, slack) == v = rows[t] \/ end <= gone[t][v] + slack

\* What a read loaded is fresh but for the time the request may take, what a
\* fill carries but for the time it may take after that, and what is cached
\* but for the ttl after that.
FreshReads ==
  \A r \in Requests :
    /\ req[r].deadline <= now + RequestTime
    /\ req[r].at = "loaded" =>
         Fresh(req[r].task, req[r].val, req[r].deadline, RequestTime)

FreshFills ==
  \A f \in fills :
    /\ ttl > 0
    /\ f.deadline <= now + FillTime
    /\ Fresh(f.task, f.val, f.deadline, RequestTime + FillTime)

FreshCache ==
  \A t \in Tasks : cache[t] # Absent =>
    /\ ttl > 0
    /\ cache[t].due \in Nat
    /\ now < cache[t].due /\ cache[t].due <= now + ttl
    /\ Fresh(t, cache[t].val, cache[t].due, RequestTime + FillTime + ttl)

FreshEnough == FreshReads /\ FreshFills /\ FreshCache

\* A step in which requests begin, go on or end, and none has loaded a row.
RequestsGoOn ==
  \A r \in Requests :
    /\ req'[r].deadline <= now + RequestTime
    /\ req'[r].at = "loaded" => req'[r] = req[r]

LEMMA GoToGoesOn ==
  ASSUME TypeOK, FreshEnough, NEW r \in Requests, NEW step \in Steps, GoTo(r, step)
  PROVE  RequestsGoOn
<1>1. /\ req'[r].at = step /\ req'[r].deadline = req[r].deadline
      /\ \A q \in Requests \ {r} : req'[q] = req[q]
  BY DEF GoTo, TypeOK
<1> QED
  BY <1>1 DEF RequestsGoOn, FreshEnough, FreshReads, Steps

LEMMA AnswerGoesOn ==
  ASSUME TypeOK, FreshEnough, NEW r \in Requests, Answer(r)
  PROVE  RequestsGoOn
BY TimesAssumption DEF Answer, TypeOK, RequestsGoOn, FreshEnough, FreshReads, Idle

LEMMA BeginGoesOn ==
  ASSUME TypeOK, FreshEnough, NEW r \in Requests, NEW step \in Steps,
         NEW deadline \in 0 .. now + RequestTime, Begin(r, step, deadline)
  PROVE  RequestsGoOn
<1>1. /\ req'[r].at = step /\ req'[r].deadline = deadline
      /\ \A q \in Requests \ {r} : req'[q] = req[q]
  BY DEF Begin, TypeOK
<1> QED
  BY <1>1, TimesAssumption DEF TypeOK, RequestsGoOn, FreshEnough, FreshReads, Steps

\* A write to a row leaves fresh what was: its version stops being the row now,
\* and nothing needs to be out later than slack from now.
LEMMA SetRowKeepsFresh ==
  ASSUME TypeOK, NEW t \in Tasks, NEW w, SetRow(t, w),
         NEW u \in Tasks, NEW v \in Versions, NEW end \in Nat, NEW slack \in Nat,
         end <= now + slack, Fresh(u, v, end, slack)
  PROVE  Fresh(u, v, end, slack)'
<1>1. v # NoRow
  BY VersionsAssumption DEF Versions
<1>2. CASE v = rows[u] /\ u = t
  <2>1. gone'[u][v] = now
    BY <1>1, <1>2 DEF SetRow, TypeOK
  <2> QED
    BY <2>1 DEF Fresh
<1>3. CASE u # t
  BY <1>3 DEF SetRow, TypeOK, Fresh
<1>4. CASE v # rows[u] /\ u = t
  <2>1. gone'[u][v] = gone[u][v]
    BY <1>4 DEF SetRow, TypeOK
  <2> QED
    BY <1>4, <2>1 DEF Fresh
<1> QED
  BY <1>2, <1>3, <1>4

\* So a step that writes a row, and only lets requests go on or end, keeps
\* everything fresh.
LEMMA WriteKeepsFresh ==
  ASSUME TypeOK, FreshEnough, NEW t \in Tasks, NEW w, SetRow(t, w),
         UNCHANGED <<ttl, now, cache, fills>>, req' \in [Requests -> Requesting],
         RequestsGoOn
  PROVE  FreshEnough'
<1> USE TimesAssumption
<1>a. now \in Nat /\ ttl \in Int
  BY DEF TypeOK
<1>1. FreshReads'
  <2> SUFFICES ASSUME NEW r \in Requests, req'[r].at = "loaded"
               PROVE  Fresh(req[r].task, req[r].val, req[r].deadline, RequestTime)'
    BY DEF FreshReads, RequestsGoOn
  <2>1. req[r].at = "loaded" /\ req'[r] = req[r]
    BY DEF RequestsGoOn
  <2>2. req[r].task \in Tasks /\ req[r].val \in Versions /\ req[r].deadline \in Nat
    BY <2>1, RequestUnderWay
  <2>3. /\ req[r].deadline <= now + RequestTime
        /\ Fresh(req[r].task, req[r].val, req[r].deadline, RequestTime)
    BY <2>1 DEF FreshEnough, FreshReads
  <2> QED
    BY <2>1, <2>2, <2>3, SetRowKeepsFresh DEF Fresh
<1>2. FreshFills'
  <2> SUFFICES ASSUME NEW f \in fills
               PROVE  Fresh(f.task, f.val, f.deadline, RequestTime + FillTime)'
    BY <1>a DEF FreshEnough, FreshFills
  <2>1. f.task \in Tasks /\ f.val \in Versions /\ f.deadline \in Nat
    BY DEF TypeOK
  <2>2. /\ f.deadline <= now + (RequestTime + FillTime)
        /\ Fresh(f.task, f.val, f.deadline, RequestTime + FillTime)
    BY <1>a, <2>1 DEF FreshEnough, FreshFills
  <2>3. RequestTime + FillTime \in Nat
    OBVIOUS
  <2> QED
    BY <2>1, <2>2, <2>3, SetRowKeepsFresh DEF Fresh
<1>3. FreshCache'
  <2> SUFFICES ASSUME NEW u \in Tasks, cache[u] # Absent
               PROVE  Fresh(u, cache[u].val, cache[u].due, RequestTime + FillTime + ttl)'
    BY DEF FreshEnough, FreshCache
  <2>1. /\ cache[u].val \in Versions /\ cache[u].due \in Nat
        /\ RequestTime + FillTime + ttl \in Nat
    BY <1>a DEF TypeOK, Entries, FreshEnough, FreshCache
  <2>2. /\ cache[u].due <= now + (RequestTime + FillTime + ttl)
        /\ Fresh(u, cache[u].val, cache[u].due, RequestTime + FillTime + ttl)
    BY <1>a, <2>1 DEF FreshEnough, FreshCache
  <2> QED
    BY <2>1, <2>2, SetRowKeepsFresh DEF Fresh
<1> QED
  BY <1>1, <1>2, <1>3 DEF FreshEnough

\* A step that only lets requests go on or end, and forgets cached entries.
LEMMA OthersKeepFresh ==
  ASSUME TypeOK, FreshEnough, UNCHANGED <<ttl, now, rows, gone>>, fills' \subseteq fills,
         \A t \in Tasks : cache'[t] \in {cache[t], Absent},
         RequestsGoOn
  PROVE  FreshEnough'
<1>1. FreshReads'
  BY DEF FreshEnough, FreshReads, Fresh, RequestsGoOn
<1>2. FreshFills'
  BY DEF FreshEnough, FreshFills, Fresh
<1>3. FreshCache'
  BY DEF FreshEnough, FreshCache, Fresh
<1> QED
  BY <1>1, <1>2, <1>3 DEF FreshEnough
LEMMA NextFreshEnough == TypeOK /\ FreshEnough /\ [Next]_vars => FreshEnough'
<1> SUFFICES ASSUME TypeOK, FreshEnough, [Next]_vars PROVE FreshEnough'
  OBVIOUS
<1> USE TimesAssumption
<1>a. TypeOK'
  BY NextTypeOK
<1>b. now \in Nat /\ ttl \in Int
  BY DEF TypeOK
<1>1. CASE UNCHANGED vars
  BY <1>1 DEF vars, service, history, FreshEnough, FreshReads, FreshFills, FreshCache, Fresh
<1>2. ASSUME NEW t \in Tasks, CreateTask(t) PROVE FreshEnough'
  <2>1. RequestsGoOn
    BY <1>2 DEF CreateTask, service, RequestsGoOn, FreshEnough, FreshReads
  <2> QED
    BY <1>a, <1>2, <2>1, WriteKeepsFresh DEF CreateTask, service, TypeOK, Requesting
<1>3. ASSUME NEW t \in Tasks, DeleteAttachment(t) PROVE FreshEnough'
  BY <1>3 DEF DeleteAttachment, history, FreshEnough, FreshReads, FreshFills, FreshCache, Fresh
<1>4. ASSUME NEW r \in Requests, GetTask(r) PROVE FreshEnough'
  <2>1. RequestsGoOn
    BY <1>4, <1>b, BeginGoesOn DEF GetTask, Steps
  <2> QED
    BY <1>4, <2>1, OthersKeepFresh DEF GetTask, history
<1>5. ASSUME NEW r \in Requests, ReadCache(r) PROVE FreshEnough'
  <2>1. RequestsGoOn
    BY <1>5, AnswerGoesOn, GoToGoesOn DEF ReadCache, Steps
  <2> QED
    BY <1>5, <2>1, OthersKeepFresh DEF ReadCache, history
<1>6. ASSUME NEW r \in Requests, LoadRow(r) PROVE FreshEnough'
  <2>1. CASE Answer(r)
    BY <1>6, <2>1, AnswerGoesOn, OthersKeepFresh DEF LoadRow, history
  <2>2. CASE req' = [req EXCEPT ![r].at = "loaded", ![r].val = rows[req[r].task]]
    <3>1. /\ req'[r].val = rows[req'[r].task] /\ req'[r].deadline = req[r].deadline
          /\ \A q \in Requests \ {r} : req'[q] = req[q]
      BY <1>6, <2>2, RequestUnderWay DEF LoadRow, TypeOK, Idle
    <3>2. FreshReads'
      BY <1>6, <3>1 DEF LoadRow, history, FreshEnough, FreshReads, Fresh
    <3> QED
      BY <1>6, <3>2 DEF LoadRow, history, FreshEnough, FreshFills, FreshCache, Fresh
  <2> QED
    BY <1>6, <2>1, <2>2 DEF LoadRow
<1>7. ASSUME NEW r \in Requests, Respond(r) PROVE FreshEnough'
  <2>1. RequestsGoOn
    BY <1>7, AnswerGoesOn DEF Respond
  <2>2. FreshReads' /\ FreshCache'
    BY <1>7, <2>1 DEF Respond, history, RequestsGoOn, FreshEnough, FreshReads, FreshCache, Fresh
  <2>3. /\ req[r].task \in Tasks /\ req[r].val \in Versions /\ req[r].deadline \in Nat
        /\ now <= req[r].deadline
        /\ Fresh(req[r].task, req[r].val, req[r].deadline, RequestTime)
    BY <1>7, RequestUnderWay DEF Respond, FreshEnough, FreshReads
  <2>4. Fresh(req[r].task, req[r].val, now + FillTime, RequestTime + FillTime)
    <3>1. req[r].val # rows[req[r].task] => gone[req[r].task][req[r].val] \in Nat
      BY <2>3 DEF TypeOK
    <3> QED
      BY <1>b, <2>3, <3>1 DEF Fresh
  <2>5. FreshFills'
    <3> SUFFICES ASSUME NEW f \in fills', f \notin fills
                 PROVE  /\ ttl > 0
                        /\ f.deadline <= now + FillTime
                        /\ Fresh(f.task, f.val, f.deadline, RequestTime + FillTime)
      BY <1>7 DEF Respond, history, FreshEnough, FreshFills, Fresh
    <3> QED
      BY <1>7, <1>b, <2>4 DEF Respond, cachingEnabled
  <2> QED
    BY <2>2, <2>5 DEF FreshEnough
<1>8. ASSUME NEW r \in Requests,
             \/ LoadTimesOut(r) \/ Cleanup(r) \/ CheckExists(r) \/ Store(r)
             \/ UpdateTask(r) \/ DeleteTask(r) \/ UploadAttachment(r)
      PROVE  FreshEnough'
  <2>1. CASE LoadTimesOut(r) \/ Cleanup(r) \/ CheckExists(r) \/ Store(r)
    <3>1. RequestsGoOn
      BY <2>1, AnswerGoesOn, GoToGoesOn DEF LoadTimesOut, Cleanup, CheckExists, Store, Steps
    <3> QED
      BY <2>1, <3>1, OthersKeepFresh DEF LoadTimesOut, Cleanup, CheckExists, Store, history
  <2>2. CASE UpdateTask(r) \/ DeleteTask(r) \/ UploadAttachment(r)
    <3>1. RequestsGoOn
      BY <2>2, <1>b, BeginGoesOn DEF UpdateTask, DeleteTask, UploadAttachment, Steps
    <3> QED
      BY <2>2, <3>1, OthersKeepFresh DEF UpdateTask, DeleteTask, UploadAttachment, history
  <2> QED
    BY <1>8, <2>1, <2>2
<1>9. ASSUME NEW r \in Requests, UpdateRow(r) \/ DeleteRow(r) PROVE FreshEnough'
  <2>1. req[r].task \in Tasks
    BY <1>9, RequestUnderWay DEF UpdateRow, DeleteRow
  <2>2. RequestsGoOn
    BY <1>9, AnswerGoesOn, GoToGoesOn DEF UpdateRow, DeleteRow, Steps
  <2>3. CASE UNCHANGED <<rows, gone>>
    BY <1>9, <2>2, <2>3, OthersKeepFresh DEF UpdateRow, DeleteRow, history
  <2>4. ASSUME NEW w, SetRow(req[r].task, w) PROVE FreshEnough'
    BY <1>9, <1>a, <2>1, <2>2, <2>4, WriteKeepsFresh
       DEF UpdateRow, DeleteRow, TypeOK, Requesting
  <2> QED
    BY <1>9, <2>3, <2>4 DEF UpdateRow, DeleteRow, history
<1>10. ASSUME NEW r \in Requests, Invalidate(r) PROVE FreshEnough'
  <2>1. RequestsGoOn
    BY <1>10, AnswerGoesOn, GoToGoesOn DEF Invalidate, AfterUpdate, AfterDelete, Steps
  <2>2. \A t \in Tasks : cache'[t] \in {cache[t], Absent}
    BY <1>10 DEF Invalidate, AfterUpdate, AfterDelete, Cache!Remove, TypeOK
  <2> QED
    BY <1>10, <2>1, <2>2, OthersKeepFresh DEF Invalidate
<1>11. ASSUME NEW f \in fills, Fill(f) PROVE FreshEnough'
  <2>1. /\ f.task \in Tasks /\ f.val \in Versions /\ f.deadline \in Nat
        /\ ttl > 0 /\ now <= f.deadline
        /\ Fresh(f.task, f.val, f.deadline, RequestTime + FillTime)
    BY <1>11 DEF Fill, TypeOK, FreshEnough, FreshFills
  <2>2. Cache!Due(ttl) = now + ttl
    BY <1>b, <2>1 DEF Cache!Due
  <2>3. Fresh(f.task, f.val, now + ttl, RequestTime + FillTime + ttl)
    <3>1. gone[f.task][f.val] \in Nat
      BY <2>1 DEF TypeOK
    <3> QED
      BY <1>b, <2>1, <3>1 DEF Fresh
  <2>4. FreshReads' /\ FreshFills'
    BY <1>11 DEF Fill, history, FreshEnough, FreshReads, FreshFills, Fresh
  <2>5. cache' = [cache EXCEPT ![f.task] = [val |-> f.val, due |-> now + ttl]]
    BY <1>11, <2>2 DEF Fill, Cache!Set
  <2>6. FreshCache'
    <3> SUFFICES ASSUME NEW t \in Tasks, cache'[t] # Absent
                 PROVE  /\ ttl > 0
                        /\ cache'[t].due \in Nat
                        /\ now < cache'[t].due /\ cache'[t].due <= now + ttl
                        /\ Fresh(t, cache'[t].val, cache'[t].due, RequestTime + FillTime + ttl)
      BY <1>11 DEF Fill, history, FreshCache, Fresh
    <3>1. CASE t = f.task
      BY <1>b, <2>1, <2>3, <2>5, <3>1 DEF TypeOK
    <3>2. CASE t # f.task
      BY <2>5, <3>2 DEF TypeOK, FreshEnough, FreshCache
    <3> QED
      BY <3>1, <3>2
  <2> QED
    BY <2>4, <2>6 DEF FreshEnough
<1>12. ASSUME NEW f \in fills, FillFails(f) PROVE FreshEnough'
  BY <1>12 DEF FillFails, history, FreshEnough, FreshReads, FreshFills, FreshCache, Fresh
<1>13. CASE Crash
  <2>1. RequestsGoOn
    BY <1>13, <1>b DEF Crash, RequestsGoOn, Idle
  <2>2. \A t \in Tasks : cache'[t] \in {cache[t], Absent}
    BY <1>13 DEF Crash
  <2> QED
    BY <1>13, <2>1, <2>2, OthersKeepFresh DEF Crash
<1>14. CASE Tick
  <2>1. FreshReads'
    BY <1>14, <1>b DEF Tick, Cache!Expire, history, TypeOK, Idle, FreshEnough, FreshReads, Fresh
  <2>2. FreshFills'
    BY <1>14, <1>b DEF Tick, Cache!Expire, history, TypeOK, FreshEnough, FreshFills, Fresh
  <2>3. FreshCache'
    <3> SUFFICES ASSUME NEW t \in Tasks, cache'[t] # Absent
                 PROVE  /\ ttl > 0
                        /\ cache'[t].due \in Nat
                        /\ now' < cache'[t].due /\ cache'[t].due <= now' + ttl
                        /\ Fresh(t, cache'[t].val, cache'[t].due, RequestTime + FillTime + ttl)
      BY <1>14 DEF Tick, history, FreshCache, Fresh
    <3>1. cache'[t] = cache[t] /\ ~Cache!Expired(t, now + 1) /\ now' = now + 1
      BY <1>14 DEF Tick, Cache!Expire
    <3>2. /\ ttl > 0 /\ cache[t].due \in Nat /\ cache[t].due <= now + ttl
          /\ Fresh(t, cache[t].val, cache[t].due, RequestTime + FillTime + ttl)
      BY <3>1 DEF FreshEnough, FreshCache
    <3>3. now + 1 < cache[t].due
      BY <1>b, <3>1, <3>2, NamesAssumption DEF Cache!Expired
    <3> QED
      BY <1>b, <3>1, <3>2, <3>3
  <2> QED
    BY <2>1, <2>2, <2>3 DEF FreshEnough
<1> QED
  BY <1>1, <1>2, <1>3, <1>4, <1>5, <1>6, <1>7, <1>8, <1>9, <1>10, <1>11, <1>12,
     <1>13, <1>14 DEF Next, Step

\* Whatever calls fail and whenever the service crashes, the cache holds no task
\* that has been outdated for as long as a request, a fill and the ttl last; and
\* with a ttl that is not positive it holds none.
THEOREM StalenessBounded == Spec => []StaleOnlySoLong
<1>1. Init => FreshEnough
  BY TimesAssumption DEF Init, FreshEnough, FreshReads, FreshFills, FreshCache, Idle
<1>2. TypeOK /\ FreshEnough => StaleOnlySoLong
  <2> SUFFICES ASSUME TypeOK, FreshEnough, NEW t \in Tasks,
                      cache[t] # Absent, cache[t].val # rows[t]
               PROVE  now - gone[t][cache[t].val] < RequestTime + FillTime + ttl
    BY DEF StaleOnlySoLong
  <2>1. /\ now < cache[t].due /\ cache[t].due \in Nat
        /\ cache[t].due <= gone[t][cache[t].val] + (RequestTime + FillTime + ttl)
    BY DEF FreshEnough, FreshCache, Fresh
  <2>2. now \in Nat /\ gone[t][cache[t].val] \in Nat /\ ttl \in Int
    BY TimesAssumption DEF TypeOK, Entries
  <2> QED
    BY <2>1, <2>2, TimesAssumption
<1> QED
  BY <1>1, <1>2, TypeCorrect, NextFreshEnough, PTL DEF Spec
-----------------------------------------------------------------------------
(* Why the cache may be stale.                                             *)

OthersStay(r) == \A q \in Requests \ {r} : req'[q] = req[q]

\* A step of a request is no other request's.
LEMMA StepOthersStay ==
  ASSUME TypeOK, NEW r \in Requests, Step(r)
  PROVE  OthersStay(r)
BY DEF TypeOK, OthersStay, Step, GetTask, ReadCache, LoadRow, Respond, LoadTimesOut,
   UpdateTask, UpdateRow, DeleteTask, DeleteRow, Invalidate, AfterUpdate, AfterDelete,
   Cleanup, UploadAttachment, CheckExists, Store, Begin, GoTo, Answer

\* Only a row can be what a read loads.
LEMMA StepLoads ==
  ASSUME TypeOK, NEW r \in Requests, Step(r), req'[r].at = "loaded"
  PROVE  /\ req'[r].val = rows[req'[r].task]
         /\ UNCHANGED <<rows, latest, cache, fills, tainted>>
         /\ req[r].at = "row"
<1>1. \A step \in Steps : step # "loaded"
  BY DEF Steps
<1>2. LoadRow(r)
  BY <1>1 DEF TypeOK, Idle, Steps, Step, GetTask, ReadCache, Respond, LoadTimesOut,
     UpdateTask, UpdateRow, DeleteTask, DeleteRow, Invalidate, AfterUpdate, AfterDelete,
     Cleanup, UploadAttachment, CheckExists, Store, Begin, GoTo, Answer
<1>3. req' = [req EXCEPT ![r].at = "loaded", ![r].val = rows[req[r].task]]
  BY <1>2 DEF LoadRow, Answer, TypeOK, Idle
<1>4. req'[r].val = rows[req[r].task] /\ req'[r].task = req[r].task
  BY <1>2, <1>3 DEF LoadRow, TypeOK, Idle
<1> QED
  BY <1>2, <1>4 DEF LoadRow, history

\* A version of t that somebody may still put into the cache is the row's, or
\* is known to be outdated.
Known(t, v) == v = rows[t] \/ <<t, v>> \in tainted

Accounted ==
  /\ \A t \in Tasks : latest[t] = 0 => rows[t] = NoRow
  /\ \A r \in Requests : req[r].at = "loaded" => Known(req[r].task, req[r].val)
  /\ \A f \in fills : Known(f.task, f.val)
  /\ StaleOnlyByRace

InvalidatingSteps == {"invalidate", "forget"}

\* A step that changes no row and forgets no invalidation that is due.
LEMMA OthersKeepAccount ==
  ASSUME TypeOK, Accounted, UNCHANGED <<rows, latest>>, tainted \subseteq tainted',
         \A r \in Requests : req'[r].at = "loaded" =>
           req'[r] = req[r] \/ req'[r].val = rows[req'[r].task],
         \A f \in fills' : Known(f.task, f.val),
         \A t \in Tasks : cache'[t] \in {cache[t], Absent},
         \A t \in Tasks : Writing(t, InvalidatingSteps) =>
           \/ cache'[t] = Absent
           \/ Writing(t, InvalidatingSteps)'
           \/ <<t, cache[t].val>> \in tainted'
  PROVE  Accounted'
<1>1. StaleOnlyByRace'
  BY DEF Accounted, StaleOnlyByRace, InvalidatingSteps
<1> QED
  BY <1>1 DEF Accounted, Known

\* Whoever is to follow a write up is not a request that takes a step elsewhere.
LEMMA StillWriting ==
  ASSUME NEW r \in Requests, OthersStay(r), NEW S, NEW t,
         req[r].at \notin S, Writing(t, S)
  PROVE  Writing(t, S)'
BY DEF OthersStay, Writing

\* The write of a row: what is in flight is known to be outdated, and what is
\* cached is too, or is about to be invalidated.
LEMMA WriteKeepsAccount ==
  ASSUME TypeOK, Accounted, NEW r \in Requests, req[r].at \in {"update", "delete"},
         NEW w, SetRow(req[r].task, w), UNCHANGED <<cache, fills>>,
         \A u \in Tasks : latest'[u] = 0 => rows'[u] = NoRow,
         \/ /\ \E step \in InvalidatingSteps : GoTo(r, step)
            /\ Taint(req[r].task, InFlight(req[r].task))
         \/ /\ Answer(r)
            /\ Taint(req[r].task, InFlight(req[r].task) \cup Cached(req[r].task))
  PROVE  Accounted'
<1> DEFINE t == req[r].task
<1>1. /\ t \in Tasks
      /\ OthersStay(r)
      /\ req'[r].at # "loaded"
  BY RequestUnderWay DEF GoTo, Answer, TypeOK, Idle, OthersStay, InvalidatingSteps
<1>2. tainted \subseteq tainted' /\ \A v \in InFlight(t) : <<t, v>> \in tainted'
  BY DEF Taint
<1>3. \A u \in Tasks \ {t} : rows'[u] = rows[u]
  BY DEF SetRow, TypeOK
<1>4. ASSUME NEW u \in Tasks, NEW v \in Versions, Known(u, v), u = t => v \in InFlight(t)
      PROVE  v = rows'[u] \/ <<u, v>> \in tainted'
  BY <1>2, <1>3, <1>4 DEF Known
<1>5. ASSUME NEW q \in Requests, req'[q].at = "loaded"
      PROVE  Known(req[q].task, req[q].val)' /\ req'[q] = req[q]
  <2>1. req'[q] = req[q] /\ req[q].at = "loaded"
    BY <1>1, <1>5 DEF OthersStay
  <2>2. /\ req[q].task \in Tasks /\ req[q].val \in Versions
        /\ Known(req[q].task, req[q].val)
    BY <2>1, RequestUnderWay DEF Accounted
  <2>3. req[q].task = t => req[q].val \in InFlight(t)
    BY <2>2 DEF InFlight
  <2> QED
    BY <1>4, <2>1, <2>2, <2>3 DEF Known
<1>6. ASSUME NEW f \in fills' PROVE Known(f.task, f.val)'
  <2>1. f.task \in Tasks /\ f.val \in Versions /\ Known(f.task, f.val)
    BY <1>6 DEF TypeOK, Accounted
  <2>2. f.task = t => f.val \in InFlight(t)
    BY <1>6, <2>1 DEF InFlight
  <2> QED
    BY <1>4, <2>1, <2>2 DEF Known
<1>7. ASSUME NEW u \in Tasks, cache[u] # Absent, cache[u].val # rows'[u]
      PROVE  <<u, cache[u].val>> \in tainted' \/ Writing(u, InvalidatingSteps)'
  <2>1. CASE u = t
    <3>1. cache[u].val \in Cached(u)
      BY <1>7 DEF Cached, Cache!Value, TypeOK, Entries
    <3>2. CASE \E step \in InvalidatingSteps : GoTo(r, step)
      <4>1. req'[r].at \in InvalidatingSteps /\ req'[r].task = t
        BY <3>2 DEF GoTo, TypeOK
      <4> QED
        BY <2>1, <4>1 DEF Writing
    <3>3. CASE Taint(t, InFlight(t) \cup Cached(t))
      BY <2>1, <3>1, <3>3 DEF Taint
    <3> QED
      BY <3>2, <3>3
  <2>2. CASE u # t
    <3>1. cache[u].val # rows[u]
      BY <1>3, <1>7, <2>2
    <3>2. <<u, cache[u].val>> \in tainted \/ Writing(u, InvalidatingSteps)
      BY <1>7, <3>1 DEF Accounted, StaleOnlyByRace, InvalidatingSteps
    <3> QED
      BY <1>1, <1>2, <3>2, StillWriting DEF InvalidatingSteps
  <2> QED
    BY <2>1, <2>2
<1>8. StaleOnlyByRace'
  BY <1>7 DEF StaleOnlyByRace, InvalidatingSteps
<1> QED
  BY <1>5, <1>6, <1>8 DEF Accounted
\* A step of a request that is neither loading a row, writing one nor
\* invalidating.
LEMMA RequestKeepsAccount ==
  ASSUME TypeOK, Accounted, NEW r \in Requests, OthersStay(r),
         UNCHANGED <<rows, latest, cache, tainted>>, fills' \subseteq fills,
         req[r].at \notin InvalidatingSteps,
         req'[r].at = "loaded" => req'[r].val = rows[req'[r].task]
  PROVE  Accounted'
<1>1. \A q \in Requests : req'[q].at = "loaded" =>
        req'[q] = req[q] \/ req'[q].val = rows[req'[q].task]
  BY DEF OthersStay
<1>2. \A f \in fills' : Known(f.task, f.val)
  BY DEF Accounted
<1> QED
  BY <1>1, <1>2, OthersKeepAccount, StillWriting

LEMMA NextAccounted == TypeOK /\ Accounted /\ [Next]_vars => Accounted'
<1> SUFFICES ASSUME TypeOK, Accounted, [Next]_vars PROVE Accounted'
  OBVIOUS
<1>1. CASE UNCHANGED vars
  BY <1>1 DEF vars, service, history, Accounted, Known, StaleOnlyByRace, Writing
<1>2. ASSUME NEW t \in Tasks, CreateTask(t) PROVE Accounted'
  <2>1. \A u \in Tasks : u # t => rows'[u] = rows[u] /\ latest'[u] = latest[u]
    BY <1>2 DEF CreateTask, SetRow, TypeOK
  <2>2. rows[t] = NoRow /\ latest'[t] # 0
    BY <1>2 DEF CreateTask, Accounted, TypeOK
  <2>3. \A u \in Tasks, v \in Versions : Known(u, v) => Known(u, v)'
    BY <1>2, <2>1, <2>2, VersionsAssumption DEF CreateTask, Known, Versions
  <2>4. \A r \in Requests : req'[r].at = "loaded" => Known(req[r].task, req[r].val)'
    BY <1>2, <2>3, RequestUnderWay DEF CreateTask, service, Accounted
  <2>5. \A f \in fills' : Known(f.task, f.val)'
    BY <1>2, <2>3 DEF CreateTask, service, Accounted, TypeOK
  <2>6. StaleOnlyByRace'
    <3>1. ASSUME NEW u \in Tasks, cache[u] # Absent, cache[u].val # rows'[u]
          PROVE  cache[u].val # rows[u]
      BY <2>1, <2>2, <3>1, VersionsAssumption DEF TypeOK, Entries, Versions
    <3> QED
      BY <1>2, <3>1 DEF CreateTask, service, Accounted, StaleOnlyByRace, Writing
  <2> QED
    BY <1>2, <2>1, <2>2, <2>4, <2>5, <2>6 DEF CreateTask, service, Accounted
<1>3. ASSUME NEW t \in Tasks, DeleteAttachment(t) PROVE Accounted'
  BY <1>3 DEF DeleteAttachment, history, Accounted, Known, StaleOnlyByRace, Writing
<1>4. ASSUME NEW r \in Requests,
             \/ GetTask(r) \/ ReadCache(r) \/ LoadRow(r) \/ LoadTimesOut(r)
             \/ UpdateTask(r) \/ DeleteTask(r) \/ UploadAttachment(r)
             \/ CheckExists(r) \/ Store(r) \/ Cleanup(r)
      PROVE  Accounted'
  <2>1. Step(r)
    BY <1>4 DEF Step
  <2>2. OthersStay(r)
    BY <2>1, StepOthersStay
  <2>3. req[r].at \notin InvalidatingSteps
    BY <1>4 DEF GetTask, ReadCache, LoadRow, LoadTimesOut, UpdateTask, DeleteTask, Idle,
       UploadAttachment, CheckExists, Store, Cleanup, Begin, InvalidatingSteps
  <2>4. UNCHANGED <<rows, latest, cache, fills, tainted>>
    BY <1>4 DEF GetTask, ReadCache, LoadRow, LoadTimesOut, UpdateTask, DeleteTask,
       UploadAttachment, CheckExists, Store, Cleanup, history
  <2> QED
    BY <2>1, <2>2, <2>3, <2>4, StepLoads, RequestKeepsAccount
<1>5. ASSUME NEW r \in Requests, Respond(r) PROVE Accounted'
  <2>1. Step(r) /\ OthersStay(r)
    BY <1>5, StepOthersStay DEF Step
  <2>2. UNCHANGED <<rows, latest, cache, tainted>>
    BY <1>5 DEF Respond, history
  <2>3. \A q \in Requests : req'[q].at = "loaded" => req'[q] = req[q]
    BY <1>5, <2>1 DEF Respond, Answer, OthersStay, TypeOK, Idle
  <2>4. \A f \in fills' : Known(f.task, f.val)
    BY <1>5 DEF Respond, Accounted
  <2>5. \A t \in Tasks : Writing(t, InvalidatingSteps) => Writing(t, InvalidatingSteps)'
    BY <1>5, <2>1, StillWriting DEF Respond, InvalidatingSteps
  <2> QED
    BY <2>2, <2>3, <2>4, <2>5, OthersKeepAccount
<1>6. ASSUME NEW r \in Requests, UpdateRow(r) \/ DeleteRow(r) PROVE Accounted'
  <2> DEFINE t == req[r].task
  <2>1. t \in Tasks
    BY <1>6, RequestUnderWay DEF UpdateRow, DeleteRow
  <2>2. CASE UNCHANGED <<rows, latest, tainted>> /\ Answer(r)
    <3>1. OthersStay(r) /\ req'[r].at # "loaded"
      BY <2>2 DEF Answer, OthersStay, TypeOK, Idle
    <3> QED
      BY <1>6, <2>2, <3>1, RequestKeepsAccount DEF UpdateRow, DeleteRow, InvalidatingSteps
  <2>3. CASE /\ \E w : /\ SetRow(t, w)
                       /\ \/ w = NoRow /\ UNCHANGED latest
                          \/ latest' = [latest EXCEPT ![t] = @ + 1]
             /\ \/ /\ \E step \in InvalidatingSteps : GoTo(r, step)
                   /\ Taint(t, InFlight(t))
                \/ Answer(r) /\ Taint(t, InFlight(t) \cup Cached(t))
    <3>1. \A u \in Tasks : latest'[u] = 0 => rows'[u] = NoRow
      BY <2>1, <2>3 DEF SetRow, TypeOK, Accounted
    <3>2. UNCHANGED <<cache, fills>> /\ req[r].at \in {"update", "delete"}
      BY <1>6 DEF UpdateRow, DeleteRow
    <3> QED
      BY <2>3, <3>1, <3>2, WriteKeepsAccount
  <2> QED
    BY <1>6, <2>2, <2>3 DEF UpdateRow, DeleteRow, history, InvalidatingSteps
<1>7. ASSUME NEW r \in Requests, Invalidate(r) PROVE Accounted'
  <2> DEFINE t == req[r].task
  <2>1. t \in Tasks /\ OthersStay(r)
    BY <1>7, RequestUnderWay, StepOthersStay DEF Invalidate, AfterUpdate, AfterDelete, Step
  <2>2. UNCHANGED <<rows, latest, fills>>
    BY <1>7 DEF Invalidate
  <2>3. \A q \in Requests : req'[q].at = "loaded" => req'[q] = req[q]
    BY <1>7, <2>1, StepLoads DEF Step, Invalidate, AfterUpdate, AfterDelete, OthersStay
  <2>4. \/ Cache!Remove(t) /\ UNCHANGED tainted
        \/ UNCHANGED cache /\ Taint(t, Cached(t))
    BY <1>7 DEF Invalidate, AfterUpdate, AfterDelete
  <2>5. \A u \in Tasks : cache'[u] \in {cache[u], Absent}
    BY <2>4 DEF Cache!Remove, TypeOK
  <2>6. ASSUME NEW u \in Tasks, Writing(u, InvalidatingSteps)
        PROVE  \/ cache'[u] = Absent
               \/ Writing(u, InvalidatingSteps)'
               \/ <<u, cache[u].val>> \in tainted'
    <3>1. CASE u = t
      BY <2>1, <2>4, <3>1 DEF Cache!Remove, Cache!Value, Taint, Cached, TypeOK, Entries
    <3>2. CASE u # t
      BY <2>1, <2>6, <3>2 DEF Writing, OthersStay
    <3> QED
      BY <3>1, <3>2
  <2>7. tainted \subseteq tainted' /\ \A f \in fills' : Known(f.task, f.val)
    BY <2>2, <2>4 DEF Taint, Accounted
  <2> QED
    BY <2>2, <2>3, <2>5, <2>6, <2>7, OthersKeepAccount
<1>8. ASSUME NEW f \in fills, Fill(f) PROVE Accounted'
  <2>1. f.task \in Tasks /\ f.val \in Versions /\ Known(f.task, f.val)
    BY DEF TypeOK, Accounted
  <2>2. \A t \in Tasks : cache'[t] # cache[t] => cache'[t].val = f.val /\ t = f.task
    BY <1>8 DEF Fill, Cache!Set, TypeOK
  <2>3. StaleOnlyByRace'
    BY <1>8, <2>1, <2>2 DEF Fill, history, Accounted, StaleOnlyByRace, Known, Writing
  <2> QED
    BY <1>8, <2>3 DEF Fill, history, Accounted, Known
<1>9. ASSUME NEW f \in fills, FillFails(f) PROVE Accounted'
  BY <1>9 DEF FillFails, history, Accounted, Known, StaleOnlyByRace, Writing
<1>10. CASE Crash
  <2>1. \A r \in Requests : req'[r].at # "loaded"
    BY <1>10 DEF Crash, Idle
  <2>2. UNCHANGED <<rows, latest>> /\ tainted \subseteq tainted' /\ fills' = {}
        /\ \A t \in Tasks : cache'[t] \in {cache[t], Absent}
    BY <1>10 DEF Crash
  <2>3. ASSUME NEW t \in Tasks, Writing(t, InvalidatingSteps), cache'[t] # Absent
        PROVE  <<t, cache[t].val>> \in tainted'
    <3>1. cache[t].val \in Cached(t) /\ cache[t].val \in Versions
      BY <2>2, <2>3 DEF Cached, Cache!Value, TypeOK, Entries
    <3> QED
      BY <1>10, <2>3, <3>1 DEF Crash, InvalidatingSteps
  <2> QED
    BY <2>1, <2>2, <2>3, OthersKeepAccount
<1>11. CASE Tick
  <2>1. \A t \in Tasks : cache'[t] \in {cache[t], Absent}
    BY <1>11 DEF Tick, Cache!Expire
  <2>2. UNCHANGED <<rows, latest, req, fills, tainted>>
    BY <1>11 DEF Tick, history
  <2>3. \A t \in Tasks : Writing(t, InvalidatingSteps) => Writing(t, InvalidatingSteps)'
    BY <2>2 DEF Writing
  <2>4. \A f \in fills' : Known(f.task, f.val)
    BY <2>2 DEF Accounted
  <2> QED
    BY <2>1, <2>2, <2>3, <2>4, OthersKeepAccount
<1> QED
  BY <1>1, <1>2, <1>3, <1>4, <1>5, <1>6, <1>7, <1>8, <1>9, <1>10, <1>11 DEF Next, Step

\* The cache serves an outdated task only until the write that outdated it has
\* forgotten it, unless a read of the old row was under way at the write or the
\* invalidation was lost.
THEOREM StalenessExplained == Spec => []StaleOnlyByRace
<1>1. Init => Accounted
  BY DEF Init, Accounted, StaleOnlyByRace, Idle
<1>2. Accounted => StaleOnlyByRace
  BY DEF Accounted
<1> QED
  BY <1>1, <1>2, TypeCorrect, NextAccounted, PTL DEF Spec
-----------------------------------------------------------------------------
(* Why an attachment outlives its task.                                    *)

CleaningSteps == {"forget", "cleanup"}

\* An upload that has found its task, and whose task is gone, is known to leave
\* an attachment behind.
UploadsKnown ==
  \A r \in Requests : req[r].at = "store" =>
    rows[req[r].task] # NoRow \/ req[r].task \in orphaned

NoSurprise == UploadsKnown /\ NoOrphans

\* A step that changes no row, finds no task and forgets no clean-up that is due.
LEMMA OthersOrphanNothing ==
  ASSUME TypeOK, NoSurprise, UNCHANGED rows, orphaned \subseteq orphaned',
         \A r \in Requests : req'[r].at = "store" => req'[r] = req[r],
         attachments' \subseteq attachments,
         \A t \in attachments' : Writing(t, CleaningSteps) =>
           Writing(t, CleaningSteps)' \/ t \in orphaned'
  PROVE  NoSurprise'
BY DEF NoSurprise, UploadsKnown, NoOrphans, CleaningSteps

\* A step of a request that has nothing to clean up and does not write a row.
LEMMA RequestOrphansNothing ==
  ASSUME TypeOK, NoSurprise, NEW r \in Requests, OthersStay(r),
         UNCHANGED <<rows, attachments, orphaned>>,
         req[r].at \notin CleaningSteps, req'[r].at # "store"
  PROVE  NoSurprise'
<1>1. \A q \in Requests : req'[q].at = "store" => req'[q] = req[q]
  BY DEF OthersStay
<1> QED
  BY <1>1, OthersOrphanNothing, StillWriting

LEMMA NextNoSurprise == TypeOK /\ NoSurprise /\ [Next]_vars => NoSurprise'
<1> SUFFICES ASSUME TypeOK, NoSurprise, [Next]_vars PROVE NoSurprise'
  OBVIOUS
<1>1. CASE UNCHANGED vars
  BY <1>1 DEF vars, service, history, NoSurprise, UploadsKnown, NoOrphans, Writing
<1>2. ASSUME NEW t \in Tasks, CreateTask(t) PROVE NoSurprise'
  <2>1. \A u \in Tasks : rows'[u] # rows[u] => rows'[u] # NoRow
    BY <1>2, VersionsAssumption DEF CreateTask, SetRow, TypeOK
  <2> QED
    BY <1>2, <2>1, RequestUnderWay
       DEF CreateTask, service, TypeOK, NoSurprise, UploadsKnown, NoOrphans, Writing
<1>3. ASSUME NEW t \in Tasks, DeleteAttachment(t) PROVE NoSurprise'
  BY <1>3 DEF DeleteAttachment, history, NoSurprise, UploadsKnown, NoOrphans, Writing
<1>4. ASSUME NEW r \in Requests,
             \/ GetTask(r) \/ ReadCache(r) \/ LoadRow(r) \/ LoadTimesOut(r) \/ Respond(r)
             \/ UpdateTask(r) \/ DeleteTask(r) \/ UploadAttachment(r)
      PROVE  NoSurprise'
  <2>1. OthersStay(r)
    BY <1>4, StepOthersStay DEF Step
  <2>2. req[r].at \notin CleaningSteps
    BY <1>4 DEF GetTask, ReadCache, LoadRow, LoadTimesOut, Respond, UpdateTask, DeleteTask,
       UploadAttachment, Begin, Idle, CleaningSteps
  <2>3. req'[r].at # "store"
    BY <1>4 DEF GetTask, ReadCache, LoadRow, LoadTimesOut, Respond, UpdateTask, DeleteTask,
       UploadAttachment, Begin, GoTo, Answer, Idle, TypeOK
  <2>4. UNCHANGED <<rows, attachments, orphaned>>
    BY <1>4 DEF GetTask, ReadCache, LoadRow, LoadTimesOut, Respond, UpdateTask, DeleteTask,
       UploadAttachment, history
  <2> QED
    BY <2>1, <2>2, <2>3, <2>4, RequestOrphansNothing
<1>5. ASSUME NEW r \in Requests, CheckExists(r) PROVE NoSurprise'
  <2>1. OthersStay(r) /\ req'[r].task \in {req[r].task, NoTask}
    BY <1>5, StepOthersStay DEF Step, CheckExists, GoTo, Answer, TypeOK, Idle
  <2>2. req'[r].at = "store" => rows[req'[r].task] # NoRow
    BY <1>5, RequestUnderWay DEF CheckExists, Found, GoTo, Answer, TypeOK, Idle
  <2>3. UploadsKnown'
    BY <1>5, <2>1, <2>2 DEF CheckExists, history, OthersStay, NoSurprise, UploadsKnown
  <2>4. \A t : Writing(t, CleaningSteps) => Writing(t, CleaningSteps)'
    BY <1>5, <2>1, StillWriting DEF CheckExists, CleaningSteps
  <2> QED
    BY <1>5, <2>3, <2>4 DEF CheckExists, history, NoSurprise, NoOrphans, CleaningSteps
<1>6. ASSUME NEW r \in Requests, Store(r) PROVE NoSurprise'
  <2>1. OthersStay(r) /\ req'[r].at # "store"
    BY <1>6, StepOthersStay DEF Step, Store, Answer, TypeOK, Idle
  <2>2. UploadsKnown'
    BY <1>6, <2>1 DEF Store, history, OthersStay, NoSurprise, UploadsKnown
  <2>3. rows[req[r].task] # NoRow \/ req[r].task \in orphaned
    BY <1>6 DEF Store, NoSurprise, UploadsKnown
  <2>4. \A t : Writing(t, CleaningSteps) => Writing(t, CleaningSteps)'
    BY <1>6, <2>1, StillWriting DEF Store, CleaningSteps
  <2> QED
    BY <1>6, <2>2, <2>3, <2>4 DEF Store, history, NoSurprise, NoOrphans, CleaningSteps
<1>7. ASSUME NEW r \in Requests, UpdateRow(r) \/ DeleteRow(r) PROVE NoSurprise'
  <2> DEFINE t == req[r].task
  <2>1. /\ t \in Tasks /\ OthersStay(r) /\ req'[r].at # "store"
        /\ req[r].at \notin CleaningSteps
    <3>1. t \in Tasks /\ OthersStay(r)
      BY <1>7, RequestUnderWay, StepOthersStay DEF Step, UpdateRow, DeleteRow
    <3>2. Answer(r) \/ GoTo(r, "invalidate") \/ GoTo(r, "forget")
      BY <1>7 DEF UpdateRow, DeleteRow
    <3>3. req'[r].at # "store"
      BY <3>2 DEF GoTo, Answer, TypeOK, Idle
    <3> QED
      BY <1>7, <3>1, <3>3 DEF UpdateRow, DeleteRow, CleaningSteps
  <2>2. CASE UNCHANGED <<rows, orphaned>>
    BY <1>7, <2>1, <2>2, RequestOrphansNothing DEF UpdateRow, DeleteRow
  <2>3. CASE UpdateRow(r) /\ SetRow(t, latest[t] + 1)
    <3>1. \A u \in Tasks : rows'[u] # rows[u] => rows'[u] # NoRow
      BY <2>1, <2>3, VersionsAssumption DEF SetRow, TypeOK
    <3>2. UploadsKnown'
      BY <2>1, <2>3, <3>1, RequestUnderWay DEF UpdateRow, OthersStay, NoSurprise, UploadsKnown
    <3>3. \A u : Writing(u, CleaningSteps) => Writing(u, CleaningSteps)'
      BY <2>1, StillWriting
    <3> QED
      BY <2>3, <3>1, <3>2, <3>3 DEF UpdateRow, TypeOK, NoSurprise, NoOrphans, CleaningSteps
  <2>4. CASE /\ DeleteRow(r) /\ SetRow(t, NoRow) /\ orphaned \subseteq orphaned'
             /\ Uploading(t) => t \in orphaned'
             /\ GoTo(r, "forget") \/ t \in orphaned'
    <3>1. \A u \in Tasks \ {t} : rows'[u] = rows[u]
      BY <2>4 DEF SetRow, TypeOK
    <3>2. UploadsKnown'
      BY <2>1, <2>4, <3>1, RequestUnderWay DEF OthersStay, NoSurprise, UploadsKnown, Uploading
    <3>3. \A u : Writing(u, CleaningSteps) => Writing(u, CleaningSteps)'
      BY <2>1, StillWriting
    <3>4. \A u : u = t /\ GoTo(r, "forget") => Writing(u, CleaningSteps)'
      BY <2>1 DEF GoTo, TypeOK, Writing, CleaningSteps
    <3>5. ASSUME NEW u \in attachments, rows'[u] = NoRow
          PROVE  u \in orphaned' \/ Writing(u, CleaningSteps)'
      <4>1. CASE u = t
        BY <2>4, <3>4, <4>1
      <4>2. CASE u # t
        <5>1. u \in orphaned \/ Writing(u, CleaningSteps)
          BY <3>1, <3>5, <4>2 DEF TypeOK, NoSurprise, NoOrphans, CleaningSteps
        <5> QED
          BY <2>4, <3>3, <5>1
      <4> QED
        BY <4>1, <4>2
    <3> QED
      BY <2>4, <3>2, <3>5 DEF DeleteRow, NoSurprise, NoOrphans, CleaningSteps
  <2> QED
    BY <1>7, <2>2, <2>3, <2>4 DEF UpdateRow, DeleteRow, history
<1>8. ASSUME NEW r \in Requests, Invalidate(r) PROVE NoSurprise'
  <2>1. OthersStay(r) /\ req'[r].at # "store"
    BY <1>8, StepOthersStay
       DEF Step, Invalidate, AfterUpdate, AfterDelete, GoTo, Answer, TypeOK, Idle
  <2>2. UNCHANGED <<rows, attachments, orphaned>>
    BY <1>8 DEF Invalidate
  <2>3. CASE AfterUpdate(r)
    BY <2>1, <2>2, <2>3, RequestOrphansNothing DEF AfterUpdate, CleaningSteps
  <2>4. CASE AfterDelete(r)
    <3>1. req'[r].at = "cleanup" /\ req'[r].task = req[r].task
      BY <2>4 DEF AfterDelete, GoTo, TypeOK
    <3>2. \A t : Writing(t, CleaningSteps) => Writing(t, CleaningSteps)'
      BY <2>1, <3>1 DEF OthersStay, Writing, CleaningSteps
    <3>3. \A q \in Requests : req'[q].at = "store" => req'[q] = req[q]
      BY <2>1 DEF OthersStay
    <3> QED
      BY <2>2, <3>2, <3>3, OthersOrphanNothing
  <2> QED
    BY <1>8, <2>3, <2>4 DEF Invalidate
<1>9. ASSUME NEW r \in Requests, Cleanup(r) PROVE NoSurprise'
  <2> DEFINE t == req[r].task
  <2>1. OthersStay(r) /\ req'[r].at # "store"
    BY <1>9, StepOthersStay DEF Step, Cleanup, Answer, TypeOK, Idle
  <2>2. /\ UNCHANGED rows /\ attachments' \subseteq attachments
        /\ orphaned \subseteq orphaned' /\ (t \in attachments' => t \in orphaned')
    BY <1>9 DEF Cleanup
  <2>3. \A u : u # t /\ Writing(u, CleaningSteps) => Writing(u, CleaningSteps)'
    BY <2>1 DEF OthersStay, Writing
  <2>4. \A q \in Requests : req'[q].at = "store" => req'[q] = req[q]
    BY <2>1 DEF OthersStay
  <2> QED
    BY <2>2, <2>3, <2>4, OthersOrphanNothing
<1>10. ASSUME NEW f \in fills, Fill(f) \/ FillFails(f) PROVE NoSurprise'
  BY <1>10 DEF Fill, FillFails, history, NoSurprise, UploadsKnown, NoOrphans, Writing
<1>11. CASE Crash
  BY <1>11 DEF Crash, Idle, TypeOK, NoSurprise, UploadsKnown, NoOrphans
<1>12. CASE Tick
  BY <1>12 DEF Tick, history, NoSurprise, UploadsKnown, NoOrphans, Writing
<1> QED
  BY <1>1, <1>2, <1>3, <1>4, <1>5, <1>6, <1>7, <1>8, <1>9, <1>10, <1>11, <1>12
     DEF Next, Step

\* An attachment outlives its task only until the deletion has cleaned it up,
\* unless an upload had found the task before or the clean-up was lost.
THEOREM OrphansExplained == Spec => []NoOrphans
<1>1. Init => NoSurprise
  BY DEF Init, NoSurprise, UploadsKnown, NoOrphans, Idle
<1>2. NoSurprise => NoOrphans
  BY DEF NoSurprise
<1> QED
  BY <1>1, <1>2, TypeCorrect, NextNoSurprise, PTL DEF Spec
=============================================================================
