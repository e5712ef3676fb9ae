# Chandlery in TLA+

Chandlery is a set of Go packages that a web service is put together from:
configuration, caches, file storage, a Postgres repository, a MongoDB mapper
(`odm`, two thirds of the code), validation and responses, with two example
services.  This directory holds TLA+ models of the parts whose correctness
depends on the order in which things happen, the TLC configurations that check
small instances of them, and proofs, checked by TLAPS, that the main properties
hold for every value of the constants.

    tlc -workers 4 -config OdmSave.cfg MCOdmSave
    tlapm OdmSaveProofs.tla

Contents: [1 the system](#1-the-system), [2 the modules](#2-the-modules),
[3 what the runs show](#3-what-the-runs-show), [4 what is proved](#4-what-is-proved),
[5 what is not modelled](#5-what-is-not-modelled), [6 the plan](#6-the-plan).

## 1 The system

| component | state | operations | what is hard |
|---|---|---|---|
| `odm` models, `Create`, `Save`, hooks, observers | in each model: `exists`, the `original` snapshot, the last `written` change; the collection | `Create`, `Save`, the reads that hydrate models, query-level `Update` and `Delete` | a model is read, changed and saved while other goroutines and programs write the same document; hooks in the middle may change the model or fail; a write may fail after it has happened |
| `odm` cursor pagination | none between calls but the cursor the caller keeps | `CursorPaginate` | documents come and go between pages; sort values repeat; the cursor may come from another query |
| `odm` query builder, filters, staged updates, scopes, soft delete | queries are values whose slices share backing arrays; `deleted_at` in documents | `Where` and its like, `OrWhere`, `WithTrashed`, `OnlyTrashed`, `Set Unset Inc`, `Select`, `Limit`, `Get First Count Update Delete Restore ForceDelete` | goroutines derive queries from a shared one; an `OrWhere` beside the scope that hides trash; an update MongoDB would refuse |
| `odm` relations | the page of models being loaded | `With`, and what `Get` then runs | one query per relation beside other programs' writes; keys that are arrays, null, absent or repeated |
| `odm` `CreateMany`, `BulkWrite`, `Transaction` | the models of the batch or of the callback; what the transaction has written | `CreateMany`, `Transaction`, the `Create` and `Save` inside | a batch stops half way; a transaction's callback is run again although the models have changed |
| `odm` aggregation, indexes, connection, metadata | none | `Aggregate`, `SyncIndexes`, `New` | one driver call each |
| `cache.Store` and its drivers `cache/memory`, `cache/redis` | key, value, expiry | `Get Put Add Forever Pull Forget Has Increment Decrement Flush` | expiry is lazy; counters are at the edge of int64; Redis flushes in several round trips |
| `storage.Disk` and its drivers `storage/local`, `storage/s3` | files or objects | `Put Get Copy Move Delete`, directories, signed URLs | a call is several system calls or requests, others come between them and each may fail; S3 has no directories, and lists by pages |
| `db`, `db/postgres` | rows | `Create Update Delete GetOne GetMany Count`, `ConditionalUpdate` | left to Postgres: one statement per call |
| the example services | tasks, their cache entries and attachments | the HTTP handlers | cache-aside reads filled in the background; check-then-act on attachments |
| `env`, `validator`, `respond`, conformance suites, release scripts | none | | nothing that depends on order |

How they meet: the example services call `db`, a `cache.Store` and a
`storage.Disk`; the two cache drivers and the two storage drivers implement one
contract each, which the conformance suites test; within `odm` everything goes
through a `Collection` to the MongoDB driver, and `Save` and `Create` call back
into the program through hooks and observers.

What makes each one correct:

  - *models and Save*: the snapshot agrees with the database; a save changes
    what its model changed and nothing else; what is reported as written is
    there; one model is one document; hooks see what is being written.
  - *pagination*: no row is skipped or repeated, pages are in order, `HasMore`
    tells the truth.
  - *caches*: every driver behaves as one map in which a key is gone the
    instant it expires, with exact counters.
  - *queries*: a query means what its chain of calls says, for ever, and trash
    stays where it is unless the chain asks for it.
  - *relations*: loading is a join.
  - *batches and transactions*: a model is stored once; what is stored is known
    to be, and what a committed transaction was to store is stored.
  - *storage*: a file is what one `Put` wrote; what is reported as deleted is
    gone; a listing misses nothing; a `Move` loses nothing.
  - *the services*: what is served stale is stale for a bounded time.

`PROJECT.json` lists each component with its files and status, and under
`hazards` each place where the code could go wrong in a way tests hardly reach,
with the properties that watch over it.

## 2 The modules

| module | models | uses |
|---|---|---|
| `OdmSave` | `src/odm/state.go`, `collection.go`, `model.go`, `hooks.go`, `observer.go`, `execute.go` (reads, query-level writes) | |
| `OdmPagination` | `src/odm/pagination.go`, `cursor.go` | |
| `CacheValues` | the keys, values and errors of a cache | |
| `CacheStore` | the contract in `src/cache/cache.go`: the abstract specification | `CacheValues` |
| `MemoryCache` | `src/cache/memory/memory.go` | `CacheValues`, instance of `CacheStore` |
| `RedisCache` | `src/cache/redis/redis.go`, and the retries of the client library as it is configured there | `CacheValues`, instance of `CacheStore` for every store and client |
| `OdmQuery` | `src/odm/query.go`, `filter.go`, `update.go`, `scopes.go`, `soft_delete.go`, the methods of `execute.go` that run a query | |
| `OdmRelations` | `src/odm/relation.go`, `has_one.go`, `has_many.go`, `belongs_to.go`, `belongs_to_many.go` | |
| `OdmQueries` | a program that runs queries or loads relations | `OdmQuery`, `OdmRelations` |
| `OdmBatch` | `src/odm/bulk.go`, `transaction.go`, with the parts of `collection.go`, `state.go` and `model.go` they call | |
| `StoragePaths` | paths, and what `src/storage/storage.go` says of the four listings | |
| `StorageLocal` | `src/storage/local/local.go` | `StoragePaths` |
| `StorageS3` | `src/storage/s3/s3.go` | `StoragePaths` |
| `Storage` | a program that has opened either disk | `StorageLocal`, `StorageS3` |
| `TaskApi` | `src/examples/nethttp/handlers.go`, its twin `src/examples/fiber/handlers.go`, the calls of `src/db/repository.go` they make | instance of `CacheStore` |
| `MC...` | small instances for TLC | the module they are named after |
| `...Proofs` | theorems | the module they are named after |

### OdmSave

A *handle* is a goroutine and the model variable it owns.  The model is private
to the goroutine, so one step takes a handle to its next hook, observer or
database call, and `pc` names where it is:

    idle --Create--> before_create, creating, insert, after_create, created --> idle
    idle --SaveExisting--> before_update, updating, write, after_update, updated, snapshot --> idle

| variable | code |
|---|---|
| `docs` | the collection |
| `id`, `model` | `IdentityModel.ID` and the model's fields as Go holds them |
| `exists`, `original`, `written` | `modelState` (`state.go:15-32`) |
| `now`, `used` | `DB.now`; the ObjectIDs handed out |
| `calls` | the bound on what callers do |
| `synced`, `inserted`, `given` | history, read by no action: what the handle last exchanged with the database, where it was stored, and the `_id`s a hook gave a model that was stored already |

A document is a function from fields to values or `Absent`.  `Encode` and
`Decode` keep the one thing the codec does that matters here: an `omitempty`
field at its zero value is not written, and a missing field reads as the zero
value, so a change to it is an `$unset`.  `Projections` are the field sets a
`Select` loads; `Undeclared` are fields that documents have and the model type
does not.  Every round of hooks or observers may leave the model, assign one
field or fail, as the constants `BeforeCreateHooks`, `BeforeUpdateHooks`,
`AfterCreateHooks` and `AfterUpdateHooks` allow.  `BeforeCreate` and the
`Creating` observers may also set the `_id` (`Identify`), each time they run, as
`hooks.go:17-24` shows.  No other hook, and no caller once the model is built,
changes a model's `_id`: an update would go to another document.  A write
succeeds, is refused, or happens without being acknowledged (`Outcomes`).
`created_at` is left out: it is stamped beside `updated_at` and never after.

### OdmPagination

One caller pages; the others insert, delete and rewrite.  `Page` and `LastPage`
are the two ways a call of `CursorPaginate` ends, with and without a next
cursor.  The caller may change its query between pages: a cursor of another sort
is refused (`CursorFits`).  What MongoDB does is written apart from what the
code does: `Precedes` is the server's sort, in which null and missing come
before numbers, while `GreaterThan` and `LessThan` are `$gt` and `$lt`, which
never match across types.  `Keyset` is built from the second and has to agree
with the first.  One `Find` is one step; a server cursor that is read in several
batches while others write may see some of their writes, which is not modelled.

### CacheStore and MemoryCache

`CacheStore` is what callers may rely on: a map whose keys vanish the instant
they expire, and arithmetic in the integers with an error when the result is no
int64.  `MemoryCache` is the code: expired entries stay in the map until a call
looks at them, arithmetic wraps and is checked afterwards by signs.  `last`
holds each call and its answer in both, so the refinement

    C == INSTANCE CacheStore WITH store <- ContractStore
    Contract == C!Spec

compares answers as well as contents.  `ContractStore` forgets the entries that
have expired.  A call holds the mutex throughout and is one step.

### RedisCache

Several stores, each with a prefix, in one Redis keyspace.  A name is a sequence
of characters, because escaping the prefix in the `MATCH` pattern is part of
what `Flush` is about.  `call` is what a client is waiting for: a request that is
`sent`, executed by the server in one step (`Put`, `Add`, ... are these steps),
`answered`, and then returned; `Again` is the client library's retry after the
request or the answer was lost, `Fails` a retry budget or a context at its end.

| variable | code |
|---|---|
| `db`, `now` | the server: names, values, expiries, its clock |
| `call` | the operation a goroutine is in: the command, its answer, how often it was retried, and for `Flush` the part of the keyspace still `ahead` of the cursor, the `page` scanned and the `batch` of names collected |
| `doomed` | history: what was there when the `Flush` began and was not written since |

The contract is that of `cache/memory`, `CacheStore`, instantiated per store and
client: `KeepsTheContract` says that at the moment the server executes a command
of a store the answer and the entries change as `CacheStore!Next` says, and that
nothing else changes the store's entries but expiry.  Two things are excepted in
the property and nowhere else: a `Flush` takes the names away batch by batch, and
`Decrement` of the least int64 is refused.

### OdmQuery, OdmRelations, OdmQueries

A query is the struct `Query[T]`: slices (`array`, `len`) into `memory`, the
backing arrays, plus its scope, projection, limits and error.  `Builds` calls one
builder method on any query there is, so a shared query is extended in every
order; `Runs` executes one.  `meant` is the history against which queries are
judged: what the chain of calls says, read from left to right, kept without
slices or scopes.  A condition is the set of (shapes of) documents it selects,
which makes `buildFilter` an intersection and `$or` a union; `compileUpdate`
and what the server makes of an update are written out, because
`TrashIsRespected` compares documents before and after.

`OdmRelations` is the load of relations onto one page of parents.  `stack` holds
the loads under way, a nested relation on top of the one that fetched its
parents; `Load` is the one query of a relation, `Attach` the index and the copies,
`Write` another program's write to a related collection between two queries.  A
field holds the sequence of its keys: one for a scalar, several for an array, the
null key, or `Missing`.  `RelationsAreJoins` compares what is attached with a join
of the parents and of the collection as it was at that query.  `validate`, which
looks at the declaration of a relation only, is one of the chain's `Mistakes`.

`OdmQueries` is a program that does either; the two share no state.

### OdmBatch

One caller, since what is at stake is the state of its own models against the
collection.  `run` is the call or transaction under way: the callback (`body`),
what is `todo` of it, the `step` of the call that is running, and the attempt.

    call, transaction --> prepare --> insert --> finish --> (next call) --> return, commit
                             |          |          |
                             +----------+----------+--> failed --> return, abort --> (run again)

| variable | code |
|---|---|
| `docs`, `writes` | the collection; what the open transaction has written |
| `model` | per model the `_id`, its content, `modelState.exists` and `.original` |
| `fresh` | `NewObjectID` |
| `run` | the call, or `WithTransaction` and its callback |
| `under`, `given`, `misled`, `strayed`, `unlucky` | history: the `_id`s a model was stored under; those a hook gave it when it was stored already; models whose snapshot speaks of a write that was taken back; the `_id`s that a `Save` of a model led astray has written; models whose insert was reported as failed |

`Prepare` (the nil check, `BeforeCreate`, the `Creating` observers,
`prepareForInsert`) stops at any model; the hooks of the models in `Hooked`,
among them those of the model it stops at, may have changed its content and set
its `_id`, to a new one or to one callers use.
`Insert` stores what the server can store (ordered: up to the first duplicate) or
part of it when the connection breaks, `Finish` (snapshot, `AfterCreate`) stops
at any model.  A call may be given the callback's context or not (`inner`).
`CreateMany` does not reset what `WasChanged` reports, as `Create` does; the model
has no such record.

### StorageLocal, StorageS3, Storage

A path is a value and `Above` its ancestors; spelling (a leading slash) is taken
off by both drivers before anything else happens and has no place.

*Local.*  `node` is the name space, `data` the inodes, each a sequence of chunks.
A call is a record in `call` whose `step` is the system call it makes next:
`Put` is MkdirAll, Create, a write per chunk; `Get` is open and a read per chunk;
`Delete` a Remove per path; `RemoveAll` a Remove per entry; the walk of `AllFiles`
one ReadDir per directory.  Every other caller may come between.  `Create`
empties the inode that is there, so whoever reads or writes it is `disturbed`, and
an inode whose last write failed or was disturbed is `torn`: these two are the
histories by which a property can say "unless somebody wrote to the same file".
`Copy` of a directory opens it, truncates the target and fails when it reads;
`Move` renames directories too.

*S3.* `bucket` maps keys to objects, a directory marker being the key with a
slash.  A request is one step; it may fail at the server or after it.  `Move` is
Copy and Delete, `DeleteDirectory` alternates pages of a listing and bulk
deletes, and a listing is pages of at most `PageSize` keys in order, each page
as the bucket is then.  Single `HeadObject` and `GetObject` calls are all
`Look`.  A page of a listing may fail.  `list` returns the error;
`DeleteDirectory` hands the entry that stands for it to the bulk deletion
without looking at it (`s3.go:377-386`), so what it had not listed stays
(`unseen`).  What the client library makes of an entry with an error and no key
is not in this repository: the call may fail by it or return nil, and the model
has both.

`Storage` is a program with a `storage.Disk` of either kind.  What both promise is
not the same: on S3 a `Put` is atomic and a `Move` is not, on the local disk it is
the other way round, so the properties are stated for each.

### TaskApi

The task service in both its forms, which differ only in the web framework.  A
request is one goroutine; each call it makes to the database, the cache or the
storage is one step, and `req` says before which call it is:

    GetTask:          cache --hit--> answered
                      cache --miss, error--> row --> loaded --> answered, and a fill starts
    UpdateTask:       update --> invalidate --> answered
    DeleteTask:       delete --> forget --> cleanup --> answered
    UploadAttachment: exists --> store --> answered

| variable | code |
|---|---|
| `rows`, `latest` | the table: the version a task's row holds, the last one written |
| `cache` | the `cache.Store`, with the operations of `CacheStore` |
| `attachments` | the storage, by `task.AttachmentKey` |
| `ttl`, `now` | `handlers.ttl`; the clock |
| `req`, `fills` | the requests and the goroutines of `fillCache` |
| `gone`, `tainted`, `orphaned` | history, read by no action: when a version stopped being the row's; which versions a read had loaded, or a lost invalidation left, when they were outdated; which tasks' attachments an upload or a lost clean-up may leave |

Every call may fail; a write may fail after it has happened; the process may
crash between any two calls, which loses the requests and the fills, and the
cache too if it is the in-process one.  A task is one of its versions, and a
request's context is its `deadline`: a row that comes later is no answer.  The
model takes a `Put` of a fill to happen by the deadline of its context or not at
all.  With Redis that is the client's doing.  `cache/memory` does not look at its
context (`memory.go:65`), so there it says that the goroutine is run within that
time, which is about the Go scheduler and not about this code.

The handlers that only read (`healthz`, `listTasks`, `downloadAttachment`,
`attachmentURL`) are left out: no other step depends on them.

## 3 What the runs show

| run | configuration | states | checks |
|---|---|---|---|
| `odm_save` | `OdmSave.cfg` | 4.2 million | `TypeOK`, `OriginalAgrees`, `OneDocument`, `HooksSeeWrite`, `NoClobber` hold |
| `odm_save_deleted` | `OdmSaveDeleted.cfg` | | `ReportedWritesHappened` is violated |
| `odm_save_after_edit` | `OdmSaveAfterEdit.cfg` | | `OriginalAgrees` is violated |
| `odm_save_after_error` | `OdmSaveAfterError.cfg` | | `NoClobber` is violated |
| `odm_pagination` | `OdmPagination.cfg` | 147 thousand | `TypeOK`, `ExactlyOnce`, `InOrder`, `HasMoreHonest` hold |
| `odm_pagination_null` | `OdmPaginationNull.cfg` | | `ExactlyOnce` is violated |
| `memory_cache` | `MemoryCache.cfg` | 31 thousand | `TypeOK` and the refinement `Contract` hold |
| `task_api` | `TaskApi.cfg` | 1.4 million | `TypeOK`, `StaleOnlySoLong`, `StaleOnlyByRace`, `NoOrphans` hold |
| `redis_cache` | `RedisCache.cfg` | 317 thousand | `TypeOK`, `FlushRemovesAll`, the contract `KeepsTheContract`, and that `EveryCallReturns` |
| `storage` | `Storage.cfg` | 1.1 million | local: `LocalTypeOK`, `SettledFilesAreWhole`, `ReadsAreWhole`, `WritesWhatItWasGiven`, `ListsAllOrNothing`; S3: `S3TypeOK`, `DeletionsAreComplete`, `MovesLoseNothing`, `ListingsAreComplete`, `ListingsAgree` |
| `odm_batch` | `OdmBatch.cfg` | 5.1 million | `TypeOK`, `OneDocumentPerModel`, `KnownModelsAreStored`, `StoredModelsAreKnown`, `CommittedIsStored` |
| `odm_query` | `OdmQuery.cfg` | 1.4 million | `QueryTypeOK`, `FiltersMeanTheirChain`, `WhatIsSentIsLegal`, `DerivedQueriesStay`, `TrashIsRespected`, `RelationsAreJoins` |

**Bounds.** *OdmSave*: two handles and two documents, so that goroutines share a
document and have one each; an ordinary and an `omitempty` field, and one the
model does not declare; two values.  `MaxCalls = 5` is enough for one handle to
load, edit and save while another does the same, or for a save, a foreign write
and a second save; `MaxTime = 2` gives two distinct stamps.  *OdmPagination*:
three documents in pages of one or two, so that there are full, partial and
empty last pages; two values for two sort fields, so that ties occur on either
and on both; `MaxWrites = 3`.  *MemoryCache*: integers of two bits (-2 .. 1),
where every value is at the boundary or next to it; two keys; a clock that runs
past the longest time to live (`MaxTime = 3`).  *TaskApi*: one task, since
nothing relates two; two requests at a time, which is what each race needs,
besides any number of fills, failures and crashes; two versions, so that one may
outdate the other and a deletion both; `ttl` 1 and 0, caching on and off; a
request and a fill of one tick each, so that the staleness bound is 3 and is
reached within `MaxTime = 4`.  *RedisCache*: two clients with two calls between
them, so that a `Flush` meets every command; batches of two of three names, so
that there are full and partial ones; one retry per command, so that every one
may be executed twice; two-bit integers; a store whose prefix is a wildcard to
`SCAN`, beside one whose names it would match unescaped, and one without a
prefix.  The names that single commands are about are those in `Asked`; `Flush`
is about all of them.  *Storage*: a directory with a file and a directory with a
file, so that each listing has something to include and something to leave out;
two callers with two calls between them; files of one and of two chunks, so that
a shorter one overwrites a longer one and a write can be half done; pages of two
keys, so that listings take several.  Nothing lies in the paths that are copied
and moved, so a directory that is moved is an empty one (`PathsAssumption`);
some disks have such a directory at the start.  *OdmBatch*: three models, one of
them with hooks that change it and its `_id`; three `_id`s, one of which callers
and hooks may choose themselves, so that two models may claim it; batches of all
models, of one twice, with a nil, of nothing; callbacks whose calls are inside
the transaction, or beside it; four calls, edits or transactions of two
attempts.  *OdmQuery*: four queries, the seed among them, which three calls can
derive from one another in every shape; six documents that cover every value of
`n` in and out of the trash; projections of `_id` and two other fields, so that
a `Select` and an `Exclude` can meet on different ones; two parents and two
related documents whose keys cover every kind, one write.

Deadlock checking is off where the callers' bound or the last page ends the
behaviour.  Keys, handles, documents, inodes and the storage's clients are
symmetric.  The storage run has a view that leaves out the contents of inodes
nobody can reach any more.

**Fairness.**  One property is about what must happen: `EveryCallReturns`, under
weak fairness of `Proceeds(c)` for every client.  That is what the client library
gives: a command is answered, or its timeout ends it, and then it is sent again
or given up, a bounded number of times.  Nothing is assumed of Redis, of which
command of which client comes first, or of the number of pages.  The cursor's
passing over the keyspace once is what `SCAN` guarantees of a `Flush` that others
keep writing beside.  Elsewhere nothing waits: the mapper, the memory cache and
the disks do one step after the other, and the only progress to state is that of
the caller and the server.  The task service promises nothing that must happen:
fills, invalidations and clean-ups are best-effort.

**The hard cases of the newer runs.** `CommittedIsStored` excuses a `Save` in a
callback whose earlier attempt was taken back: the model's snapshot still says
that the change is written, so the second attempt has nothing to write and
commits without it (`transaction.go:46`, `state.go:295`).
`KnownModelsAreStored` has the same excuse, and `StoredModelsAreKnown` that of a
batch which stopped half way.  `OneDocument` and `OneDocumentPerModel` except
the `_id`s a hook gave a model that was stored already (below), and nothing
else; the two properties of what is known and what is committed except what
follows from that: a model whose `_id` was changed by a hook of an insert that
failed, and the document a `Save` of it wrote.  `DeletionsAreComplete` excepts
the keys behind a listing page that failed.  No excuse is idle: each of the
properties fails without it.  `ListsAllOrNothing` is the strongest thing true of
`AllFiles` on a local disk: a directory removed during the walk empties the
whole answer (see below).

**What TaskApi says of staleness.**  The comments of `handlers.go` accept "a
cache entry that can stay stale until its ttl expires".  `StaleOnlySoLong` makes
that a number, counted from the write: the ttl, plus the time limits of a request
and of a fill (10 and 5 seconds), because a fill may land late and starts the ttl
anew.  `StaleOnlyByRace` names the causes: a read that was under way at the
write, and a lost invalidation.  `NoOrphans` does the same for attachments.  Both
are no vacuous excuses: without the invalidation in `deleteTask`, or the check in
`uploadAttachment`, they fail.

**The violated properties** are statements of the code's own comments that the
code does not keep:

  1. *A save of a deleted document succeeds.*  `update` does not look at what
     `UpdateOne` matched (`state.go:346`).  `Save` returns nil and `WasChanged`
     names fields that were never written.  Load, another program deletes,
     edit, save.
  2. *An edit in an after-hook is lost.*  `snapshot` marshals the model after
     `AfterUpdate` and the `Updated` observers (`state.go:360`), so what they
     assign counts as stored.  (After an insert the snapshot is taken before
     the hooks, and the same edit is kept: the `odm_save` run covers it.)
  3. *A failed after-hook lets a later save overwrite others.*  The write has
     happened but the snapshot is not refreshed (`state.go:352-357`).  The next
     `Save` takes the same fields for changed and writes them over whatever
     another writer has put there.
  4. *Null sort values cut pages short.*  See OdmPagination above; after a page
     that ends on a null, no document with a number is found
     (`cursor.go:167-171`).

**Other divergences** between the code and what its docs or its sister driver
say, met while modelling.  The models have the code's behaviour, and where a
property would fail because of it the property names the case.

  - *A hook that sets a new `_id` each time stores a model twice.*  With the
    `BeforeCreate` of `hooks.go:17-24` the insert that is tried again, because the
    answer of the first was lost or a hook after it failed, is under another `_id`,
    and no duplicate key stops it.  A callback or a batch that is run again does
    the same (`bulk.go:52`, `transaction.go:46`).
  - *A failed `Create` may turn a model into another's.*  The hook's `_id` stays on
    a model that exists already; the next `Save` updates the document that has
    this `_id`, if there is one, and else none (`state.go:346`).
  - *`DeleteDirectory` on S3 does not look at the error of a listing page*
    (`s3.go:377-386`), as `list` does (`s3.go:501`): it may return nil with objects
    of the directory left.
  - *Copying a directory on a local disk empties the target*, and then fails
    (`local.go:160-177`).
  - *A listing of a local disk may be empty without an error.*  `AllFiles` and
    `AllDirectories` take `ErrNotExist` of a subdirectory removed during the walk
    for that of the directory listed (`local.go:371`).
  - *`Directories(d)` on S3 lists `d` itself* when it has a marker (`s3.go:432`);
    the contract and the local disk list what is in it (`storage.go:89`,
    `local.go:361`).  `ListingsAgree` leaves `d` out.
  - *Copying a file onto itself on a local disk empties it* (`local.go:169`).
  - *A signed URL of a path with a leading slash never verifies* on a local disk
    (`local.go:282-299`): it is signed before, and verified after, the slash goes.
  - *`Flush` of a Redis store with prefix `app` takes the names of one with prefix
    `app2`* (`redis.go:132`), which `cache.go:47` and `redis.go:17` deny.  The
    model assumes that no prefix leads into another store's names.
  - *Redis refuses `Decrement` of the least int64* where `cache/memory` computes
    the difference (`redis.go:113`).
  - *Retries*: a command whose answer was lost is executed again: an `Increment`
    counts twice, an `Add` that wrote returns false, a `Pull` loses the value.
  - *A related document may be attached twice* to a parent with one key, when its
    own array holds the key twice (`relation.go:182-189`).
  - *`WithTrashed().Delete` counts and stamps documents that are in the trash
    already* (`execute.go:298-300` says it does not), and their time of deletion
    is lost.
  - *`CreateMany` leaves `WasChanged` as it was*; `Create` resets it.
  - Neither a divergence nor obvious: `Count`, `Update` and `Delete` ignore
    `Limit` and `Skip`; `Limit(0)` is no limit; the local `Delete` takes an empty
    directory, and `DeleteDirectory` a file; a projection without the key field
    makes relations silently empty; `WhereRaw` keeps the caller's map.

In `odm_save`, hence, `AfterUpdateHooks = {"ok"}`; everything else may go wrong
at once there.

## 4 What is proved

For every value of the constants that satisfies the named assumptions:

| theorem | says | assumes besides |
|---|---|---|
| `OdmSaveProofs!TypeCorrect` | `Spec => []TypeOK` | |
| `OdmSaveProofs!OneDocumentPerModel` | `Spec => []OneDocument` | |
| `OdmSaveProofs!SnapshotAgrees` | `Spec => []OriginalAgrees` | after-update hooks only succeed |
| `OdmSaveProofs!SaveClobbersNothing` | `Spec => NoClobber` | after-update hooks only succeed |
| `OdmSaveProofs!HooksSeeTheWrite` | `Spec => []HooksSeeWrite` | after-update hooks only succeed |
| `OdmPaginationProofs!TypeCorrect` | `Spec => []TypeOK` | |
| `OdmPaginationProofs!PagesExactlyOnce` | `Spec => []ExactlyOnce` | sort values are numbers |
| `OdmPaginationProofs!PagesInOrder` | `Spec => []InOrder` | sort values are numbers |
| `OdmPaginationProofs!MoreIsMore` | `Spec => []HasMoreHonest` | sort values are numbers |
| `MemoryCacheProofs!TypeCorrect` | `Spec => []TypeOK` | |
| `MemoryCacheProofs!AddOverflowExact`, `SubOverflowExact` | the sign tests are exact at every width | |
| `MemoryCacheProofs!ImplementsContract` | `Spec => Contract` | |
| `TaskApiProofs!TypeCorrect` | `Spec => []TypeOK` | |
| `TaskApiProofs!StalenessBounded` | `Spec => []StaleOnlySoLong` | |
| `TaskApiProofs!StalenessExplained` | `Spec => []StaleOnlyByRace` | |
| `TaskApiProofs!OrphansExplained` | `Spec => []NoOrphans` | |
| `RedisCacheProofs!TypeCorrect` | `Spec => []TypeOK` | |
| `RedisCacheProofs!FlushesAreComplete` | `Spec => []FlushRemovesAll` | |
| `RedisCacheProofs!CommandsKeepTheContract` | `Spec => KeepsTheContract` | |
| `RedisCacheProofs!CallsGetNearer` | every step of a call decreases what it has before it | |
| `StorageProofs!S3TypeCorrect` | `S3Spec => []S3TypeOK` | |
| `StorageProofs!DeletionsComplete` | `S3Spec => []DeletionsAreComplete` | |
| `StorageProofs!ListingsComplete` | `S3Spec => []ListingsAreComplete` | |
| `StorageProofs!ListingsAgreeAlways` | `S3Spec => []ListingsAgree` | |
| `StorageProofs!MovesAreSafe` | `S3Spec => []MovesLoseNothing` | |
| `StorageProofs!LocalTypeCorrect` | `LocalSpec => []LocalTypeOK` | |
| `StorageProofs!SettledFilesAreAlwaysWhole` | `LocalSpec => []SettledFilesAreWhole` | |
| `StorageProofs!ReadsAreAlwaysWhole` | `LocalSpec => []ReadsAreWhole` | |
| `StorageProofs!WalksListAllOrNothing` | `LocalSpec => []ListsAllOrNothing` | |
| `StorageProofs!WritesStoreWhatTheyAreGiven` | `LocalSpec => WritesWhatItWasGiven` | |
| `StorageProofs!DisksKeepTheirPromises` | the safety invariants of both disks, of `Spec` | |
| `OdmQueryProofs!QueriesNeverChange` | `QuerySpec => DerivedQueriesStay` | |
| `OdmQueryProofs!QueriesMeanTheirChain` | `QuerySpec => []FiltersMeanTheirChain` | |
| `OdmQueryProofs!QueriesSendWhatIsLegal` | `QuerySpec => []WhatIsSentIsLegal` | |
| `OdmQueryProofs!TheTrashIsRespected` | `QuerySpec => TrashIsRespected` | |
| `OdmQueryProofs!QueriesAreTyped` | `QuerySpec => []QueryTypeOK` | |
| `OdmQueryProofs!EagerLoadsJoin` | `RelationsSpec => RelationsAreJoins` | |
| `OdmQueryProofs!QueriesAndLoadsAreRight` | the six properties of the run, of `Spec` | |
| `OdmBatchProofs!BatchTypeCorrect` | `Spec => []TypeOK` | |
| `OdmBatchProofs!OneDocumentForEveryModel` | `Spec => []OneDocumentPerModel` | |
| `OdmBatchProofs!KnownModelsAreAlwaysStored` | `Spec => []KnownModelsAreStored` | |
| `OdmBatchProofs!StoredModelsAreAlwaysKnown` | `Spec => []StoredModelsAreKnown` | |
| `OdmBatchProofs!CommittedModelsAreStored` | `Spec => CommittedIsStored` | |

The two extra assumptions are just the conditions whose failure the violating
runs show to matter.  The named assumptions of the modules say what the code
leaves to its callers: no Redis prefix leads into another store's names
(`StoresAssumption`); the paths of a disk are finitely many and form a tree, in
which nothing lies below the paths that are copied and moved (`PathsAssumption`,
which is a bound); callers do not stage `deleted_at` themselves
(`InputsAssumption`); related documents have `_id`s that are numbers, finitely
many, and every field holds a sequence of keys (`DocumentsAssumption`); a
relation has one key on either side (`RelationsAssumption`); in a callback, what
is written beside the transaction is written before what is written inside it,
because a write behind one of the transaction's own may wait for it for ever
(`CallsAssumption`).  One bounds the model: the one update that is run takes no
number past `MaxNumber`, so that every document stays among those that
conditions are sets of (`NumbersAssumption`).

**OdmSave.**  `OneDocument` is proved from `OwnDocument`: where a model was
stored but for the `_id`s hooks gave it later, it was stored under one `_id`, and
its present `_id` is that one or one a hook gave it.  So a retry reuses the `_id`
or is one of those the property names.  The others are not inductive either.
`UpdateExists` says that a handle in an update has a model that `exists`.
`Agreement` says that wherever an update can still be computed the snapshot is,
field by field, what was last exchanged with the database, and that from the
write until the snapshot is taken what was exchanged is what the model marshals
to.  So the snapshot about to be taken will agree too, which is
`OriginalAgrees`; and a field that differs from the snapshot differs from what
was exchanged, which is `NoClobber`.

**OdmPagination.**  The invariant is `Progress`: after a page, the stable
documents that have been returned are exactly those the cursor is not before,
each once, and the cursor's sort is the one the paging began with.  A page
preserves it because `Keyset` is the server's order when the values are numbers
(`KeysetIsOrder`), that order is transitive (`PrecedesTransitive`), the
documents of a page come before all others (`PageSplits`), and a page that is
not followed by more leaves nothing (`NothingLeft`).

**MemoryCache.**  The refinement is proved action by action: what a call does to
the map does the same to its live part, and the clock's step, which the map does
not notice, removes the entries the contract removes.  The counters need the
two exactness theorems, which is where the arithmetic is.

**TaskApi.**  A property of the cache is not inductive, because what is about to
be put there matters as much.  `FreshEnough` bounds all three places: what a read
has loaded, what a fill carries and what is cached is the row's version or
stopped being it at most `RequestTime`, then `FillTime` more, then `ttl` more
before the deadline it must be out by.  A write starts all three clocks at once
(`SetRowKeepsFresh`), and each hand-over, from read to fill to cache, adds its own
slack.  `Accounted` says in the same three places that a version which is not
the row's is known to be outdated, or its invalidation is still to come;
`NoSurprise` says the same of attachments and of the uploads under way.

**RedisCache.**  A `Flush` is complete because what is doomed and present is
always in what the call has still to go over: `ToGo`, the keyspace ahead of the
cursor, the page and the batch (the batch no longer counts once its deletion is
executed).  `PatternIsExact` says that the escaped prefix matches just the names
that begin with it, and the types that a page or a batch holds names of its own
store only; so names never leave `ToGo` but by deletion.  The contract is proved
command by command: each command's lemma shows that the entries of its store
change as the contract's operation says, `OthersStay` that no other store's
entries change, and the clock's step is the contract's `Expire`.  Of
`EveryCallReturns` the part that is not temporal is proved, `CallsGetNearer`: a
call has `Work` before it, which counts every name three times as long as it is
ahead of the cursor, twice on a page, once in a batch, and at equal work `Sends`,
the attempts its command has left; both are natural numbers, other clients do not
touch them, and each step of the call decreases the pair, or ends the call.  That
needs two facts: a scan moves the cursor on (the server's promise), and a batch
that was sent holds a name (`BatchesHoldNames`), because `BatchSize` is not 0.

**StorageS3.** For a deletion (`DeletesAll`): what is doomed and stored is in
`todo`, in the page about to be deleted, ahead of the cursor, or behind a
listing page that failed, unless an error has been noted.  For a listing
(`ListsAll`): what stayed is listed or ahead.  Both stand on `PageIsComplete`:
behind a page nothing the listing names is left out, whatever the order of keys,
which needs that the keys are finitely many and totally ordered by `Weight`.
For a `Move` (`MovesWell`): the step says which of the two names holds the
object.  `ListingsAgree` has no induction over steps but one over the tree: a
directory with anything below it is met on the way up.

**StorageLocal.**  `TreeOK`: what exists can be reached, through every MkdirAll,
Create, Rename and Remove.  `Shape`: which files a call has open at which step.
On these stands `FilesOK`: an inode nobody writes and nothing tore is whole
(`Settled`); an undisturbed call reads from an inode that is (`ReadsSettled`), and
an undisturbed writer is the only one of its file, which holds exactly the first
chunks of its source (`WritesAlone`); so does what an undisturbed `Get` has read
(`GetsWhole`).  None of the four is inductive without the others.  A walk (`Walk`)
has seen what was there throughout, or still has a directory above it to do; that
the path from there leads through directories that are themselves children is
what the assumption on the tree is for.

**OdmQuery.** Slices only ever point at arrays that no longer change:  `Within`
a slice's array and `Grown` memories give `DerivedQueriesStay`, and with it
`QueriesMean`, that the elements of each query's slices mean what its chain
says.  `WhatIsSentIsLegal` needs that a projection has the mode its entries say,
each key once.  For the types (`QueryInv`): a document's number is the one it
was seeded with until the one update is run, and still at most `MaxNumber`,
absent or null after.

**OdmRelations.**  The invariant is about the stack of loads (`StackOK`): each
level above another holds exactly what the query of the relation being loaded
found in the collection as it then was, in the order of the `_id`s, and has as
many of its own relations loaded as are no longer to do (`Answered`).  So when a
level is handed down, what is copied was found by the keys of the parents that
get it (`GivenIsJoin`).  The rest is about the index: the places of a document in
the flattened groups (`FlattenIsFlat`, by `Flat`), that the group of a key lists
the documents that hold it and no others (`GroupLists`), and that `matchesFor`
lists those of all keys, each once, but for a single key, whose group is taken as
it is (`MatchesList`).  `InOrder` is a choice, so that an order exists and is the
only one is proved as well.  These are facts about numbers of elements for every
number; each is proved by the least number for which it fails, which exists
because less-than on the naturals is well founded.

**OdmBatch.** `Own` and `Apart`: a model is stored under its own `_id`, but for
those hooks gave it, and alone there; `Ready` and `Finishing` carry that through
the steps of a batch; `Quiet` says when a transaction has nothing pending, so
that `SeenIsAll`: what a call sees is everything that is there or pending.  For
`CommittedIsStored` a second invariant (`More`) stands on the first: every call
of the callback that is done has its models stored as they are, or one of the
excuses holds (`DoneIsStored`), and so has every model that equals its snapshot
(`Snapshots`), because a `Save` of it writes nothing.  An insert writes over no
document; an update writes over one that can be another model's only where one
of the two is led astray, by `Apart`, and then the document is among those
`strayed` names.

**Only model-checked:** `EveryCallReturns`, because it is liveness: that a step of
the call is always possible and is taken in the end is a matter of `ENABLED` and
of weak fairness; what that then leads to is `CallsGetNearer`.  And the violations,
which are single behaviours.  Every other property of a passing run is a theorem.

**Out of the prover's reach**: liveness under fairness and `ENABLED`; the library's
induction theorems, which take a predicate as a parameter, so that every induction
over data here is an argument about a least counterexample; modules with
`RECURSIVE` operators, which no module here is.

## 5 What is not modelled

  - Stateless packages: `env`, `validator`, `respond`; connection setup
    (`db/postgres`, `odm.go`); `db`, where each call is one SQL statement, beyond
    what the task service uses of it.
  - In `odm`: `created_at`; models that embed neither `odm.Model` nor
    `odm.IdentityModel`, which have no snapshot; registering observers while
    others run; aggregation and indexes, which are one driver call each, and
    `Raw`, which hands out the driver.
  - Of the disks: presigned, signed and public URLs, content types, sizes and
    times, which change nothing.
  - Encodings: BSON, base64 and JSON appear only where they change what is
    stored (`omitempty`, zero values, decimal counters, escaped patterns).
  - Read-only handlers of the example service; `examples/odm`, a sequential tour.

## 6 The plan

  1. `OdmSave`, `OdmPagination`, `CacheStore`, `MemoryCache`, `TaskApi`: done.
  2. `RedisCache`, with the contract per command and the liveness of calls: done.
  3. `OdmBatch`: done.
  4. `StoragePaths`, `StorageLocal`, `StorageS3`: done.  There is no abstract disk
     both refine: what is atomic in one is not in the other, so what they share
     is stated as properties of each.
  5. `OdmQuery`, `OdmRelations`: done.
  6. Theorems: every property of a passing run but `EveryCallReturns`, and of that
     the decreasing measure: done.
