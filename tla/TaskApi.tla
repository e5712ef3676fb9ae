------------------------------- MODULE TaskApi -------------------------------
(***************************************************************************)
(* The example task service (src/examples/nethttp/handlers.go; the Fiber   *)
(* one does the same): tasks are rows in Postgres, read through a cache    *)
(* that is filled in the background and forgotten after each write, and a  *)
(* task may have an attachment in storage.                                 *)
(*                                                                         *)
(* A request is one goroutine; one step of it is one call to the database, *)
(* the cache or the storage.  Any call may fail, and a write that reports  *)
(* an error may have happened.  The process may crash and start again.     *)
(***************************************************************************)
EXTENDS Integers, FiniteSets

CONSTANTS
  Tasks,        \* the tasks that may be created: every id is used once
  Requests,     \* the requests that are handled at the same time
  TTLs,         \* what CACHE_TTL_SECONDS may be set to
  RequestTime,  \* requestTimeout: how long a request's context lasts
  FillTime,     \* how long a background fill may take
  MaxVersion,   \* bound on the versions of a task
  MaxTime,      \* bound on the clock
  NoTask, NoRow, Absent, Never

ASSUME TimesAssumption ==
  RequestTime \in Nat /\ FillTime \in Nat /\ MaxTime \in Nat \ {0} /\ TTLs \subseteq Int
ASSUME VersionsAssumption == MaxVersion \in Nat \ {0} /\ NoRow \notin Nat
ASSUME NamesAssumption == NoTask \notin Tasks /\ Never \notin Int

VARIABLES
  ttl,         \* handlers.ttl
  now,         \* the clock
  rows,        \* task -> the version its row holds, or NoRow
  latest,      \* task -> the last version written, 0 before it is created
  cache,       \* what the cache.Store holds
  attachments, \* the tasks with an attachment in storage
  req,         \* request -> where it is, and what it knows
  fills,       \* the background fills under way
  gone,        \* history: when each version of a task stopped being the row
  tainted,     \* history: the versions that may outlive their row in the cache
  orphaned     \* history: the tasks whose attachment may outlive them

service == <<cache, attachments, req, fills>>
history == <<gone, tainted, orphaned>>
vars == <<ttl, now, rows, latest, service, history>>

Versions == 1 .. MaxVersion
Idle == [at |-> "idle", task |-> NoTask, val |-> NoRow, deadline |-> 0]

\* Where a request is, besides having loaded a row: before the call of the same
\* name, or of the first one of its handler.
Steps == {"cache", "row", "update", "invalidate", "delete", "forget", "cleanup",
          "exists", "store"}

\* What the cache holds of a task: a version, and when it is due to go.
Entries == [val : Versions, due : Nat \cup {Never}]

ASSUME AbsentAssumption == Absent \notin Entries

Cache == INSTANCE CacheStore WITH
  Keys <- Tasks, store <- cache, prefixed <- TRUE, last <- <<>>,
  Half <- 1, Text <- Versions, NotAnInteger <- "not an integer",
  WouldOverflow <- "would overflow"

-----------------------------------------------------------------------------
\* A request's context ends at its deadline; for a request that writes, that
\* is one more way for a call to fail.
Begin(r, step, deadline) ==
  /\ req[r] = Idle
  /\ \E t \in Tasks :
       req' = [req EXCEPT ![r] = [at |-> step, task |-> t, val |-> NoRow,
                                  deadline |-> deadline]]

GoTo(r, step) == req' = [req EXCEPT ![r].at = step]
Answer(r) == req' = [req EXCEPT ![r] = Idle]

\* The versions of t somebody has read and may still put into the cache.
InFlight(t) ==
  {v \in Versions : \/ \E r \in Requests : req[r].task = t /\ req[r].val = v
                    \/ \E f \in fills : f.task = t /\ f.val = v}

Cached(t) == {v \in Versions : v = Cache!Value(t)}

\* The row of t becomes v: another version, or none.
SetRow(t, v) ==
  /\ rows' = [rows EXCEPT ![t] = v]
  /\ gone' = IF rows[t] = NoRow THEN gone ELSE [gone EXCEPT ![t][rows[t]] = now]

Taint(t, S) == tainted' = tainted \cup ({t} \X S)

-----------------------------------------------------------------------------
(* createTask *)

\* The row's id is new.  The answer may be lost, but nobody waits for it.
CreateTask(t) ==
  /\ latest[t] = 0
  /\ latest' = [latest EXCEPT ![t] = 1]
  /\ SetRow(t, 1)
  /\ UNCHANGED <<ttl, now, service, tainted, orphaned>>

-----------------------------------------------------------------------------
(* getTask *)

\* Mutation of cachingEnabled: a ttl of 0 is left to the cache.
cachingUnlessNegative == ttl >= 0

cachingEnabled == ttl > 0

GetTask(r) ==
  /\ Begin(r, IF cachingEnabled THEN "cache" ELSE "row", now + RequestTime)
  /\ UNCHANGED <<ttl, now, rows, latest, cache, attachments, fills, history>>

\* A hit is the answer; a miss, an error or an unreadable entry is not.
ReadCache(r) ==
  /\ req[r].at = "cache"
  /\ \/ Cache!Value(req[r].task) # Absent /\ Answer(r)
     \/ GoTo(r, "row")
  /\ UNCHANGED <<ttl, now, rows, latest, cache, attachments, fills, history>>

\* Mutation of Found: the row is not looked for.
FoundAlways(t) == TRUE

\* GetOne, ConditionalUpdate and Exists match a row.
Found(t) == rows[t] # NoRow

\* GetOne: a row, no row or an error.
LoadRow(r) ==
  /\ req[r].at = "row"
  /\ \/ /\ Found(req[r].task)
        /\ now <= req[r].deadline
        /\ req' = [req EXCEPT ![r].at = "loaded", ![r].val = rows[req[r].task]]
     \/ Answer(r)
  /\ UNCHANGED <<ttl, now, rows, latest, cache, attachments, fills, history>>

\* GetOne returns in time, fillCache starts its goroutine and the request is
\* answered.
Respond(r) ==
  /\ req[r].at = "loaded"
  /\ now <= req[r].deadline
  /\ fills' = IF cachingEnabled
              THEN fills \cup {[task |-> req[r].task, val |-> req[r].val,
                                deadline |-> now + FillTime]}
              ELSE fills
  /\ Answer(r)
  /\ UNCHANGED <<ttl, now, rows, latest, cache, attachments, history>>

\* The row comes too late, and GetOne returns the context's error.
LoadTimesOut(r) ==
  /\ req[r].at = "loaded"
  /\ now > req[r].deadline
  /\ Answer(r)
  /\ UNCHANGED <<ttl, now, rows, latest, cache, attachments, fills, history>>

Fill(f) ==
  /\ now <= f.deadline
  /\ Cache!Set(f.task, f.val, Cache!Due(ttl))
  /\ fills' = fills \ {f}
  /\ UNCHANGED <<ttl, now, rows, latest, attachments, req, history>>

FillFails(f) ==
  /\ fills' = fills \ {f}
  /\ UNCHANGED <<ttl, now, rows, latest, cache, attachments, req, history>>

-----------------------------------------------------------------------------
(* updateTask and deleteTask *)

UpdateTask(r) ==
  /\ Begin(r, "update", 0)
  /\ UNCHANGED <<ttl, now, rows, latest, cache, attachments, fills, history>>

\* ConditionalUpdate: a row was updated, or none, or there is an error after
\* which the row may have been updated all the same.
UpdateRow(r) ==
  LET t == req[r].task IN
  /\ req[r].at = "update"
  /\ \/ /\ Found(t)
        /\ latest[t] < MaxVersion
        /\ latest' = [latest EXCEPT ![t] = @ + 1]
        /\ SetRow(t, latest[t] + 1)
        /\ \/ GoTo(r, "invalidate") /\ Taint(t, InFlight(t))
           \/ Answer(r) /\ Taint(t, InFlight(t) \cup Cached(t))
     \/ Answer(r) /\ UNCHANGED <<rows, latest, gone, tainted>>
  /\ UNCHANGED <<ttl, now, cache, attachments, fills, orphaned>>

DeleteTask(r) ==
  /\ Begin(r, "delete", 0)
  /\ UNCHANGED <<ttl, now, rows, latest, cache, attachments, fills, history>>

\* The uploads that have found the task and not stored anything yet.
Uploading(t) == \E r \in Requests : req[r].task = t /\ req[r].at = "store"

\* Delete, of a row that may not be there.
DeleteRow(r) ==
  LET t == req[r].task IN
  /\ req[r].at = "delete"
  /\ \/ /\ SetRow(t, NoRow)
        /\ \/ /\ GoTo(r, "forget")
              /\ Taint(t, InFlight(t))
              /\ orphaned' = IF Uploading(t) THEN orphaned \cup {t} ELSE orphaned
           \/ /\ Answer(r)
              /\ Taint(t, InFlight(t) \cup Cached(t))
              /\ orphaned' = orphaned \cup {t}
     \/ Answer(r) /\ UNCHANGED <<rows, history>>
  /\ UNCHANGED <<ttl, now, latest, cache, attachments, fills>>

\* Mutation of AfterDelete: only updates invalidate.
CleanupAtOnce(r) ==
  /\ req[r].at = "forget"
  /\ GoTo(r, "cleanup")
  /\ UNCHANGED <<cache, tainted>>

\* invalidateCache: an error is logged, and the request goes on.
AfterDelete(r) ==
  LET t == req[r].task IN
  /\ req[r].at = "forget"
  /\ \/ Cache!Remove(t) /\ UNCHANGED tainted
     \/ UNCHANGED cache /\ Taint(t, Cached(t))
  /\ GoTo(r, "cleanup")

AfterUpdate(r) ==
  LET t == req[r].task IN
  /\ req[r].at = "invalidate"
  /\ \/ Cache!Remove(t) /\ UNCHANGED tainted
     \/ UNCHANGED cache /\ Taint(t, Cached(t))
  /\ Answer(r)

Invalidate(r) ==
  /\ AfterUpdate(r) \/ AfterDelete(r)
  /\ UNCHANGED <<ttl, now, rows, latest, attachments, fills, gone, orphaned>>

\* deleteTask deletes the attachment last; an error is only logged.
Cleanup(r) ==
  LET t == req[r].task IN
  /\ req[r].at = "cleanup"
  /\ \/ attachments' = attachments \ {t} /\ UNCHANGED orphaned
     \/ UNCHANGED attachments /\ orphaned' = orphaned \cup {t}
  /\ Answer(r)
  /\ UNCHANGED <<ttl, now, rows, latest, cache, fills, gone, tainted>>

-----------------------------------------------------------------------------
(* uploadAttachment and deleteAttachment *)

UploadAttachment(r) ==
  /\ Begin(r, "exists", 0)
  /\ UNCHANGED <<ttl, now, rows, latest, cache, attachments, fills, history>>

CheckExists(r) ==
  /\ req[r].at = "exists"
  /\ \/ Found(req[r].task) /\ GoTo(r, "store")
     \/ Answer(r)
  /\ UNCHANGED <<ttl, now, rows, latest, cache, attachments, fills, history>>

\* storage.Put, which may fail before or after it has left a file.
Store(r) ==
  /\ req[r].at = "store"
  /\ \/ attachments' = attachments \cup {req[r].task}
     \/ UNCHANGED attachments
  /\ Answer(r)
  /\ UNCHANGED <<ttl, now, rows, latest, cache, fills, history>>

DeleteAttachment(t) ==
  /\ t \in attachments
  /\ attachments' = attachments \ {t}
  /\ UNCHANGED <<ttl, now, rows, latest, cache, req, fills, history>>

-----------------------------------------------------------------------------
(* The process and the clock. *)

Writing(t, steps) == \E r \in Requests : req[r].task = t /\ req[r].at \in steps

\* Requests and fills are lost, wherever they are; so is the cache, when it
\* is the in-process one.
Crash ==
  /\ req' = [r \in Requests |-> Idle]
  /\ fills' = {}
  /\ cache' \in {cache, [t \in Tasks |-> Absent]}
  /\ tainted' = tainted \cup
       {p \in Tasks \X Versions :
          p[2] \in Cached(p[1]) /\ Writing(p[1], {"invalidate", "forget"})}
  /\ orphaned' = orphaned \cup {t \in Tasks : Writing(t, {"forget", "cleanup"})}
  /\ UNCHANGED <<ttl, now, rows, latest, attachments, gone>>

\* The cache drops what is due.
Tick ==
  /\ Cache!Expire
  /\ UNCHANGED <<ttl, rows, latest, attachments, req, fills, history>>

Init ==
  /\ ttl \in TTLs
  /\ now = 1
  /\ rows = [t \in Tasks |-> NoRow]
  /\ latest = [t \in Tasks |-> 0]
  /\ cache = [t \in Tasks |-> Absent]
  /\ attachments = {}
  /\ req = [r \in Requests |-> Idle]
  /\ fills = {}
  /\ gone = [t \in Tasks |-> [v \in Versions |-> 0]]
  /\ tainted = {}
  /\ orphaned = {}

Step(r) ==
  \/ GetTask(r) \/ ReadCache(r) \/ LoadRow(r) \/ Respond(r) \/ LoadTimesOut(r)
  \/ UpdateTask(r) \/ UpdateRow(r)
  \/ DeleteTask(r) \/ DeleteRow(r) \/ Invalidate(r) \/ Cleanup(r)
  \/ UploadAttachment(r) \/ CheckExists(r) \/ Store(r)

Next ==
  \/ \E t \in Tasks : CreateTask(t) \/ DeleteAttachment(t)
  \/ \E r \in Requests : Step(r)
  \/ \E f \in fills : Fill(f) \/ FillFails(f)
  \/ Crash
  \/ Tick

Spec == Init /\ [][Next]_vars

-----------------------------------------------------------------------------
TypeOK ==
  /\ ttl \in TTLs
  /\ now \in 1 .. MaxTime
  /\ rows \in [Tasks -> Versions \cup {NoRow}]
  /\ latest \in [Tasks -> 0 .. MaxVersion]
  /\ cache \in [Tasks -> Entries \cup {Absent}]
  /\ attachments \subseteq Tasks
  /\ req \in [Requests ->
              {Idle} \cup [at : Steps, task : Tasks, val : {NoRow}, deadline : Nat]
              \cup [at : {"loaded"}, task : Tasks, val : Versions, deadline : Nat]]
  /\ fills \subseteq [task : Tasks, val : Versions, deadline : Nat]
  /\ gone \in [Tasks -> [Versions -> Nat]]
  /\ tainted \subseteq Tasks \X Versions
  /\ orphaned \subseteq Tasks

\* "The tradeoff is a cache entry that can stay stale until its ttl expires":
\* whatever fails, the cache never serves what the row has not been for
\* longer than a read, a fill and the ttl may take.  With a ttl of 0 caching
\* is off, "rather than reaching cache.Store.Put's own ttl <= 0".
StaleOnlySoLong ==
  \A t \in Tasks : cache[t] # Absent /\ cache[t].val # rows[t] =>
    now - gone[t][cache[t].val] < RequestTime + FillTime + ttl

\* The cache serves an outdated version only while the write that outdated it
\* is about to invalidate it, or if a reader had loaded that version before
\* the write and filled it in afterwards, or if the invalidation was lost.
StaleOnlyByRace ==
  \A t \in Tasks : cache[t] # Absent /\ cache[t].val # rows[t] =>
    <<t, cache[t].val>> \in tainted \/ Writing(t, {"invalidate", "forget"})

\* An attachment outlives its task only while the deletion is about to clean
\* it up, or if an upload had found the task before, or if the clean-up was
\* lost; and there is none for a task that was never created.
NoOrphans ==
  \A t \in attachments : rows[t] = NoRow =>
    t \in orphaned \/ Writing(t, {"forget", "cleanup"})
=============================================================================
