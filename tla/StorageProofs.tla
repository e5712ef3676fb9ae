---------------------------- MODULE StorageProofs ----------------------------
(***************************************************************************)
(* Proofs about both drivers of a storage.Disk, for any tree of paths and  *)
(* any number of callers.  The S3 disk, for every page size: the listings  *)
(* agree with the tree, listings and deletions that report success are     *)
(* complete, and a Move that nobody interferes with loses nothing.  The    *)
(* local disk, for any number of files and chunks: what was written        *)
(* undisturbed is whole, and so is what is read; a walk lists everything   *)
(* that was there throughout, or nothing.  Last, a Disk of either kind.    *)
(***************************************************************************)
EXTENDS Storage, FiniteSetTheorems, WellFoundedInduction, TLAPS

-----------------------------------------------------------------------------
(* Keys, and what the listings make of them.                               *)

LEMMA KeysAreFinite == IsFiniteSet(Keys)
<1> DEFINE f == [k \in Keys |-> <<k.path, k.slash>>]
<1>1. IsFiniteSet(BOOLEAN)
  <2>1. IsFiniteSet({TRUE} \cup {FALSE})
    BY FS_AddElement, FS_Singleton
  <2>2. BOOLEAN = {TRUE} \cup {FALSE}
    OBVIOUS
  <2> QED
    BY <2>1, <2>2
<1>2. IsFiniteSet(Paths \X BOOLEAN)
  BY <1>1, FS_Product, PathsAssumption
<1>3. f \in Injection(Keys, Paths \X BOOLEAN)
  <2>1. f \in [Keys -> Paths \X BOOLEAN]
    BY DEF Keys
  <2>2. ASSUME NEW k \in Keys, NEW l \in Keys, f[k] = f[l]
        PROVE  k = l
    BY <2>2 DEF Keys
  <2> QED
    BY <2>1, <2>2 DEF Injection, IsInjective
<1> QED
  BY <1>2, <1>3, FS_Injection

LEMMA KeysOfPaths ==
  ASSUME NEW p \in Paths
  PROVE  key(p) \in Keys /\ dirKey(p) \in Keys /\ key(p) # dirKey(p)
BY DEF key, dirKey, Keys

LEMMA PathsOfKeys ==
  ASSUME NEW ks \in SUBSET Keys, NEW p
  PROVE  /\ p \in FilesOf(ks) <=> p \in Paths /\ key(p) \in ks
         /\ p \in DirectoriesOf(ks) <=> p \in Paths /\ dirKey(p) \in ks
<1>1. \A k \in Keys : k.path \in Paths /\ k = IF k.slash THEN dirKey(k.path) ELSE key(k.path)
  BY DEF Keys, key, dirKey
<1>2. /\ p \in FilesOf(ks) <=> \E k \in ks : ~k.slash /\ k.path = p
      /\ p \in DirectoriesOf(ks) <=> \E k \in ks : k.slash /\ k.path = p
  BY DEF FilesOf, DirectoriesOf
<1>3. ~key(p).slash /\ key(p).path = p /\ dirKey(p).slash /\ dirKey(p).path = p
  BY DEF key, dirKey
<1> QED
  BY <1>1, <1>2, <1>3

LEMMA NamedAreKeys ==
  ASSUME NEW d \in Dirs, NEW deep
  PROVE  Named(d, deep) \subseteq Keys
BY KeysOfPaths DEF Named, Under, Stored, Children, Inside

\* The four listings describe one tree, whatever the bucket holds.
LEMMA EveryBucketAgrees == ListingsAgree
<1> SUFFICES ASSUME NEW d \in Dirs
    PROVE LET files == {p \in Paths : key(p) \in Stored}
              dirs == {p \in Paths : Under[p] \cap Stored # {}}
          IN  /\ FilesOf(Named(d, FALSE)) = ListedFiles(d, files)
              /\ FilesOf(Named(d, TRUE)) = ListedAllFiles(d, files)
              /\ DirectoriesOf(Named(d, FALSE)) \ {d} = ListedDirectories(d, dirs)
              /\ AllDirectoriesOf(d, Named(d, TRUE)) = ListedAllDirectories(d, dirs)
  BY DEF ListingsAgree
<1> DEFINE files == {p \in Paths : key(p) \in Stored}
           dirs == {p \in Paths : Under[p] \cap Stored # {}}
<1>1. Named(d, FALSE) \subseteq Keys /\ Named(d, TRUE) \subseteq Keys
  BY NamedAreKeys
<1>2. /\ d \notin Children[d] /\ Children[d] \subseteq Inside[d] /\ Inside[d] \subseteq Paths
      /\ \A p \in Paths : p \in Inside[d] <=> d \in Above[p]
  BY PathsAssumption DEF Children, Inside, Dirs
<1>3. \A p, q : key(p) # dirKey(q) /\ (key(p) = key(q) => p = q) /\ (dirKey(p) = dirKey(q) => p = q)
  BY DEF key, dirKey
<1>4. FilesOf(Named(d, FALSE)) = ListedFiles(d, files)
  <2>1. ASSUME NEW p \in Paths
        PROVE  key(p) \in Named(d, FALSE) <=> p \in Children[d] /\ key(p) \in Stored
    BY <1>3 DEF Named, key
  <2> QED
    BY <1>1, <1>2, <2>1, PathsOfKeys DEF ListedFiles
<1>5. FilesOf(Named(d, TRUE)) = ListedAllFiles(d, files)
  <2>1. ASSUME NEW p \in Paths
        PROVE  key(p) \in Named(d, TRUE) <=> p \in Inside[d] /\ key(p) \in Stored
    BY <1>2, <1>3, KeysOfPaths DEF Named, Under, key
  <2> QED
    BY <1>1, <1>2, <2>1, PathsOfKeys DEF ListedAllFiles
<1>6. DirectoriesOf(Named(d, FALSE)) \ {d} = ListedDirectories(d, dirs)
  <2>1. ASSUME NEW p \in Paths, p # d
        PROVE  dirKey(p) \in Named(d, FALSE) <=> p \in Children[d] /\ Under[p] \cap Stored # {}
    BY <1>2, <1>3, <2>1 DEF Named, dirKey
  <2> QED
    BY <1>1, <1>2, <2>1, PathsOfKeys DEF ListedDirectories
<1>7. AllDirectoriesOf(d, Named(d, TRUE)) = ListedAllDirectories(d, dirs)
  <2> DEFINE all == Named(d, TRUE)
             up == UNION {Above[k.path] : k \in all}
  <2>1. ASSUME NEW q \in Inside[d], NEW k \in Keys
        PROVE  (k \in all /\ (q \in Above[k.path] \/ k = dirKey(q)))
                 <=> k \in Under[q] \cap Stored
    <3>1. q \in Paths /\ k.path \in Paths /\ d \in Above[q] /\ (k = dirKey(q) => k.path = q)
      BY <1>2 DEF Keys, dirKey
    <3>2. (q \in Above[k.path] \/ k = dirKey(q)) => d \in Above[k.path]
      BY <3>1, PathsAssumption
    <3> QED
      BY <3>1, <3>2 DEF Named, Under, Dirs
  <2>2. all \subseteq Keys
    BY <1>1
  <2> HIDE DEF all
  <2>3. ASSUME NEW q \in Inside[d]
        PROVE  q \in up \cup DirectoriesOf(all) <=> Under[q] \cap Stored # {}
    <3>1. q \in DirectoriesOf(all) <=> \E k \in all : k = dirKey(q)
      BY <1>2, <2>2, PathsOfKeys
    <3>2. q \in up <=> \E k \in all : q \in Above[k.path]
      OBVIOUS
    <3>3. Under[q] \cap Stored # {} <=> \E k \in Keys : k \in Under[q] \cap Stored
      BY DEF Stored
    <3>4. (\E k \in all : q \in Above[k.path] \/ k = dirKey(q))
            <=> \E k \in Keys : k \in Under[q] \cap Stored
      BY <2>1, <2>2
    <3> HIDE DEF up
    <3> QED
      BY <3>1, <3>2, <3>3, <3>4
  <2>4. AllDirectoriesOf(d, all) = Inside[d] \cap (up \cup DirectoriesOf(all))
    BY DEF AllDirectoriesOf
  <2> HIDE DEF up
  <2>5. AllDirectoriesOf(d, all) = ListedAllDirectories(d, dirs)
    BY <1>2, <2>3, <2>4 DEF ListedAllDirectories
  <2> QED
    BY <2>5 DEF all
<1> QED
  BY <1>4, <1>5, <1>6, <1>7

-----------------------------------------------------------------------------
(* Pages.                                                                  *)

\* Keys before a key, in order.
Weight(k) == 2 * Rank[k.path] + (IF k.slash THEN 1 ELSE 0)

LEMMA OrderOfKeys ==
  /\ \A k \in Keys : Weight(k) \in Nat
  /\ \A k, l \in Keys : Before(k, l) => Weight(k) < Weight(l)
  /\ \A k, l, m \in Keys : Before(k, l) /\ Before(l, m) => Before(k, m)
<1>1. \A p \in Paths : Rank[p] \in Nat
  BY PathsAssumption
<1>2. ASSUME NEW k \in Keys, NEW l \in Keys, NEW m \in Keys, Before(k, l), Before(l, m)
      PROVE  Before(k, m)
  BY <1>1, <1>2 DEF Before, Keys
<1> QED
  BY <1>1, <1>2 DEF Weight, Before, Keys

LEMMA FirstKey ==
  ASSUME NEW S \in SUBSET Keys, S # {}
  PROVE  \E k \in S : \A l \in S : ~Before(l, k)
<1> DEFINE T == {Weight(k) : k \in S}
<1>1. T \subseteq Nat /\ T # {}
  BY OrderOfKeys
<1>2. PICK t \in T : \A u \in T : ~(<<u, t>> \in OpToRel(<, Nat))
  BY <1>1, NatLessThanWellFounded, WFMin
<1>3. \A u \in T : ~(u < t)
  BY <1>1, <1>2 DEF OpToRel
<1>4. PICK k \in S : t = Weight(k)
  OBVIOUS
<1> QED
  BY <1>3, <1>4, OrderOfKeys

\* What a page passes by without naming it is not there.
LEMMA PageIsComplete ==
  ASSUME NEW ahead \in SUBSET Keys, NEW S \in SUBSET ahead,
         NEW k \in S, k \in PassedBy(PageOf(S), ahead)
  PROVE  k \in PageOf(S)
<1> DEFINE page == PageOf(S)
           Earlier(l) == {m \in S : Before(m, l)}
<1>1. IsFiniteSet(S)
  BY KeysAreFinite, FS_Subset
<1>2. \A l \in S : IsFiniteSet(Earlier(l)) /\ Cardinality(Earlier(l)) \in Nat
  BY <1>1, FS_Subset, FS_CardinalityType
<1>3. page = {l \in S : Cardinality(Earlier(l)) < PageSize}
  BY DEF PageOf
<1>4. IsFiniteSet(page) /\ Cardinality(page) \in Nat
  BY <1>1, <1>3, FS_Subset, FS_CardinalityType
<1> HIDE DEF page, Earlier
<1>5. CASE Cardinality(page) < PageSize
  <2>1. SUFFICES ASSUME S \ page # {}
                 PROVE  FALSE
    BY DEF page
  <2>2. PICK l \in S \ page : \A m \in S \ page : ~Before(m, l)
    BY <2>1, FirstKey
  <2>3. Earlier(l) \subseteq page
    BY <2>2 DEF Earlier
  <2>4. Cardinality(Earlier(l)) <= Cardinality(page)
    BY <1>4, <2>3, FS_Subset
  <2> QED
    BY <1>2, <1>3, <1>4, <1>5, <2>2, <2>4, S3Assumption
<1>6. CASE ~(Cardinality(page) < PageSize)
  <2>1. PICK l \in page : k = l \/ Before(k, l)
    BY <1>6 DEF PassedBy, page
  <2>2. CASE k = l
    BY <2>1, <2>2 DEF page
  <2>3. CASE Before(k, l)
    <3>1. l \in S /\ Cardinality(Earlier(l)) < PageSize
      BY <1>3
    <3>2. Earlier(k) \subseteq Earlier(l)
      BY <2>3, <3>1, OrderOfKeys DEF Earlier
    <3>3. Cardinality(Earlier(k)) <= Cardinality(Earlier(l))
      BY <1>2, <3>1, <3>2, FS_Subset
    <3> QED
      BY <1>2, <1>3, <3>1, <3>3, S3Assumption DEF page
  <2> QED
    BY <2>1, <2>2, <2>3
<1> QED
  BY <1>5, <1>6

-----------------------------------------------------------------------------
(* Types.                                                                  *)

Objects == Values \cup {Nothing, Marker}
Ops == {"idle", "ensure", "put", "look", "copy", "move", "delete", "deletedir", "list"}
Steps == {"idle", "make", "send", "copy", "delete", "list", "done"}
Results == {"none", "ok", "error", "notfound", "noprefix"}
Calls == [op : Ops, step : Steps, path : Dirs, to : Dirs, value : Objects,
          todo : SUBSET Keys, ahead : SUBSET Keys, listed : SUBSET Keys, unseen : SUBSET Keys,
          deep : BOOLEAN, failed : BOOLEAN, result : Results]

\* What is known of the call a client is in.
CallOK(r) ==
  /\ r \in Calls
  /\ r.step = "send" => r.op = "put"
  /\ r.step = "make" => r.op = "ensure"
  /\ r.step = "copy" => r.op \in {"copy", "move"}
  /\ r.step = "delete" => r.op \in {"delete", "move"}
  /\ r.step = "list" => r.op \in {"list", "deletedir"}
  /\ r.step # "done" => r.result = "none"
  /\ r.op \in {"put", "copy", "move"} => r.path \in Paths
  /\ r.op \in {"copy", "move"} => r.to \in Paths
  /\ r.op = "idle" <=> r.step = "idle"
  /\ r.op = "move" => r.step \in {"copy", "delete", "done"}
  /\ r.op = "delete" => r.step \in {"delete", "done"}
  /\ r.op = "deletedir" /\ r.step = "list" => r.deep = TRUE

Typed ==
  /\ bucket \in [Keys -> Objects]
  /\ exists \in BOOLEAN /\ prefixed \in BOOLEAN /\ requests \in 0..MaxCalls
  /\ request \in [Clients -> Calls] /\ \A c \in Clients : CallOK(request[c])
  /\ doomed \in [Clients -> SUBSET Keys]
  /\ listable \in [Clients -> SUBSET Keys]
  /\ alone \in [Clients -> BOOLEAN]

LEMMA TypedIsTypeOK == Typed => S3TypeOK
BY DEF Typed, S3TypeOK, Calls, Objects

\* What one request, or the beginning or end of a call, leaves.
Becomes(c, r) ==
  /\ bucket' \in [Keys -> Objects] /\ exists' \in BOOLEAN
  /\ CallOK(r) /\ request' = [request EXCEPT ![c] = r]

LEMMA RestingOK == CallOK(Resting)
BY DEF CallOK, Resting, Calls, Ops, Steps, Results, Objects, Dirs

LEMMA RestingIsIdle == Resting.op = "idle" /\ Resting.step = "idle"
BY DEF Resting

LEMMA StartOK ==
  ASSUME Typed, NEW c \in Clients, NEW r, CallOK(r), Start(c, r),
         UNCHANGED <<bucket, exists>>
  PROVE  Becomes(c, r)
BY DEF Start, Becomes, Typed

\* The call is still the one that was made.
Same(r, old) ==
  /\ r.op = old.op /\ r.path = old.path /\ r.to = old.to /\ r.value = old.value
  /\ r.deep = old.deep /\ r.unseen = old.unseen
Returns(c, r, result) ==
  /\ Becomes(c, r) /\ Same(r, request[c])
  /\ r.step = "done" /\ r.result = result /\ r.listed = request[c].listed

LEMMA RespondOK ==
  ASSUME Typed, NEW c \in Clients, NEW result \in Results, Respond(c, result),
         request[c].step # "idle",
         bucket' \in [Keys -> Objects], exists' \in BOOLEAN
  PROVE  \E r : Returns(c, r, result)
<1> DEFINE r == [request[c] EXCEPT !.step = "done", !.result = result,
                                   !.todo = {}, !.ahead = {}]
<1>1. CallOK(request[c])
  BY DEF Typed
<1>2. CallOK(r) /\ Same(r, request[c]) /\ r.step = "done" /\ r.result = result
      /\ r.listed = request[c].listed
  BY <1>1 DEF CallOK, Calls, Steps, Same
<1>3. request' = [request EXCEPT ![c] = r]
  BY DEF Respond
<1> QED
  BY <1>2, <1>3 DEF Becomes, Returns

LEMMA ErrorOK == \A failed : Error(failed) \in Results /\ (Error(failed) = "ok" <=> ~failed)
BY DEF Error, Results

LEMMA StoreOK ==
  ASSUME Typed, NEW k \in Keys, NEW v \in Objects, Store(k, v)
  PROVE  bucket' \in [Keys -> Objects]
BY DEF Store, Typed

\* The calls no property is about.
LEMMA EnsureOK ==
  ASSUME Typed, NEW c \in Clients, EnsureBucket(c)
  PROVE  \E r : Becomes(c, r) /\ r.op = "ensure"
<1>1. CASE Start(c, [Resting EXCEPT !.op = "ensure", !.step = "make"]) /\ UNCHANGED <<bucket, exists>>
  <2> DEFINE r == [Resting EXCEPT !.op = "ensure", !.step = "make"]
  <2>1. CallOK(r) /\ r.op = "ensure"
    BY RestingOK DEF CallOK, Resting, Calls, Ops, Steps
  <2> QED
    BY <1>1, <2>1, StartOK
<1>2. CASE /\ In(c, "ensure", "make") /\ UNCHANGED bucket
           /\ \/ Respond(c, Error(exists)) /\ exists' = TRUE
              \/ Respond(c, "error") /\ UNCHANGED exists
  <2>1. request[c].step = "make" /\ request[c].op = "ensure" /\ exists' \in BOOLEAN
        /\ bucket' \in [Keys -> Objects]
    BY <1>2 DEF In, Typed
  <2>2. PICK result \in Results : Respond(c, result)
    BY <1>2, ErrorOK DEF Results
  <2> QED
    BY <2>1, <2>2, RespondOK DEF Returns, Same
<1> QED
  BY <1>1, <1>2 DEF EnsureBucket

LEMMA PutBeginsOK ==
  ASSUME Typed, NEW c \in Clients, NEW p \in Paths, NEW v \in Values, PutBegins(c, p, v)
  PROVE  \E r : Becomes(c, r) /\ r.op = "put"
<1> DEFINE r == [Resting EXCEPT !.op = "put", !.step = "send", !.path = p, !.value = v]
<1>1. CallOK(r) /\ r.op = "put"
  BY RestingOK DEF CallOK, Resting, Calls, Ops, Steps, Dirs, Objects
<1> QED
  BY <1>1, StartOK DEF PutBegins

LEMMA PutObjectOK ==
  ASSUME Typed, NEW c \in Clients, PutObject(c)
  PROVE  \E r : Becomes(c, r) /\ r.op = "put"
<1>1. /\ request[c].op = "put" /\ request[c].step = "send"
      /\ request[c].path \in Paths /\ request[c].value \in Objects
  BY DEF PutObject, In, Typed, CallOK, Calls
<1>2. bucket' \in [Keys -> Objects] /\ exists' \in BOOLEAN
  BY <1>1, KeysOfPaths, StoreOK DEF PutObject, Typed
<1>3. PICK result \in Results : Respond(c, result)
  BY DEF PutObject, Results
<1> QED
  BY <1>1, <1>2, <1>3, RespondOK DEF Returns, Same

LEMMA LookOK ==
  ASSUME Typed, NEW c \in Clients, NEW p \in FilePaths, Look(c, p)
  PROVE  \E r : Becomes(c, r) /\ r.op = "look"
<1> DEFINE r == [Resting EXCEPT !.op = "look", !.step = "done", !.path = p,
                    !.value = bucket[key(p)],
                    !.result = IF bucket[key(p)] = Nothing THEN "notfound" ELSE "ok"]
<1>1. bucket[key(p)] \in Objects /\ p \in Paths
  BY PathsAssumption, KeysOfPaths DEF Typed
<1>2. CallOK(r) /\ r.op = "look"
  BY <1>1, RestingOK DEF CallOK, Resting, Calls, Ops, Steps, Dirs, Results
<1> QED
  BY <1>2, StartOK DEF Look, Start, Becomes, Typed

LEMMA RespondedOK ==
  ASSUME Typed, NEW c \in Clients, Responded(c)
  PROVE  \E r : Becomes(c, r) /\ r.op = "idle"
<1>1. Resting.op = "idle"
  BY DEF Resting
<1> QED
  BY <1>1, RestingOK DEF Responded, Becomes, Typed

LEMMA MakesDirectoryOK ==
  ASSUME Typed, NEW c \in Clients, NEW p \in DirectoryPaths, MakesDirectory(c, p)
  PROVE  Becomes(c, request[c]) /\ request[c].op = "idle"
<1>1. p \in Paths
  BY DEF DirectoryPaths
<1>2. bucket' \in [Keys -> Objects]
  BY <1>1, KeysOfPaths, StoreOK DEF MakesDirectory, Objects
<1>3. request[c].op = "idle"
  BY DEF MakesDirectory, Resting
<1>4. request' = [request EXCEPT ![c] = request[c]]
  BY DEF MakesDirectory, Typed
<1> QED
  BY <1>2, <1>3, <1>4 DEF MakesDirectory, Becomes, Typed

\* Copy and Move.
LEMMA CopyBeginsOK ==
  ASSUME Typed, NEW c \in Clients, NEW op \in {"copy", "move"}, NEW p \in FilePaths,
         NEW q \in FilePaths, CopyBegins(c, op, p, q)
  PROVE  \E r : /\ Becomes(c, r) /\ r.op = op /\ r.step = "copy" /\ r.path = p /\ r.to = q
                /\ r.value = bucket[key(p)]
<1> DEFINE r == [Resting EXCEPT !.op = op, !.step = "copy", !.path = p, !.to = q,
                                !.value = bucket[key(p)]]
<1>1. bucket[key(p)] \in Objects /\ p \in Paths /\ q \in Paths
  BY PathsAssumption, KeysOfPaths DEF Typed
<1>2. CallOK(r) /\ r.op = op /\ r.step = "copy" /\ r.path = p /\ r.to = q
      /\ r.value = bucket[key(p)]
  BY <1>1, RestingOK DEF CallOK, Resting, Calls, Ops, Steps, Dirs
<1> HIDE DEF r
<1> QED
  BY <1>2, StartOK DEF CopyBegins, r

\* A Move that has copied goes on to delete its source.
GoesOn(c, r) ==
  /\ Becomes(c, r) /\ Same(r, request[c])
  /\ r.op = "move" /\ r.step = "delete" /\ r.todo = {key(request[c].path)}

LEMMA CopyObjectOK ==
  ASSUME Typed, NEW c \in Clients, CopyObject(c)
  PROVE  LET from == key(request[c].path)
             to == key(request[c].to)
         IN  /\ request[c].step = "copy" /\ from \in Keys /\ to \in Keys
             /\ \/ \E r : Returns(c, r, "notfound") /\ bucket[from] = Nothing /\ UNCHANGED bucket
                \/ \E r : Returns(c, r, "error") /\ UNCHANGED bucket
                \/ /\ from # to /\ Store(to, bucket[from])
                   /\ \E r : \/ Returns(c, r, "error")
                             \/ Returns(c, r, "ok") /\ request[c].op = "copy"
                             \/ GoesOn(c, r)
<1> DEFINE old == request[c]
           from == key(old.path)
           to == key(old.to)
<1>1. /\ CallOK(old) /\ old.step = "copy" /\ old.op \in {"copy", "move"}
      /\ old.path \in Paths /\ old.to \in Paths /\ exists' \in BOOLEAN
  BY DEF CopyObject, Typed, CallOK
<1>2. from \in Keys /\ to \in Keys
  BY <1>1, KeysOfPaths
<1>3. bucket' \in [Keys -> Objects]
  <2>1. bucket[from] \in Objects
    BY <1>2 DEF Typed
  <2> QED
    BY <1>2, <2>1, StoreOK DEF CopyObject, Typed
<1>4. ASSUME NEW result \in Results, Respond(c, result)
      PROVE  \E r : Returns(c, r, result)
  BY <1>1, <1>3, <1>4, RespondOK
<1>5. ASSUME old.op = "move",
             request' = [request EXCEPT ![c].step = "delete", ![c].todo = {key(old.path)}]
      PROVE  \E r : GoesOn(c, r)
  <2> DEFINE r == [old EXCEPT !.step = "delete", !.todo = {key(old.path)}]
  <2>1. CallOK(r) /\ Same(r, old) /\ r.op = "move" /\ r.step = "delete"
        /\ r.todo = {key(old.path)}
    BY <1>1, <1>2, <1>5 DEF CallOK, Calls, Steps, Same
  <2>2. request' = [request EXCEPT ![c] = r]
    BY <1>1, <1>5 DEF Typed, Calls
  <2> HIDE DEF r
  <2> QED
    BY <1>1, <1>3, <2>1, <2>2 DEF GoesOn, Becomes
<1>6. {"notfound", "error", "ok"} \subseteq Results
  BY DEF Results
<1> QED
  BY <1>1, <1>2, <1>4, <1>5, <1>6 DEF CopyObject, Copied

\* Delete, and the second half of Move.
LEMMA DeleteBeginsOK ==
  ASSUME Typed, NEW c \in Clients, NEW ps \in Batches, DeleteBegins(c, ps)
  PROVE  \E r : /\ Becomes(c, r) /\ r.op = "delete" /\ r.step = "delete"
                /\ UNCHANGED bucket
<1> DEFINE r == [Resting EXCEPT !.op = "delete", !.step = "delete",
                                !.todo = {key(p) : p \in ps}]
<1>1. {key(p) : p \in ps} \subseteq Keys
  BY PathsAssumption, KeysOfPaths DEF Batches
<1>2. CallOK(r) /\ r.op = "delete" /\ r.step = "delete"
  BY <1>1, RestingOK DEF CallOK, Resting, Calls, Ops, Steps
<1> HIDE DEF r
<1> QED
  BY <1>2, StartOK DEF DeleteBegins, r

\* One key less to delete.
Removes(c, r, k, failed) ==
  /\ Becomes(c, r) /\ Same(r, request[c])
  /\ r.step = "delete" /\ r.todo = request[c].todo \ {k}
  /\ r.ahead = request[c].ahead /\ r.listed = request[c].listed
  /\ r.failed = (request[c].failed \/ failed)
  /\ Store(k, Nothing) \/ (failed /\ UNCHANGED bucket)

LEMMA RemoveObjectOK ==
  ASSUME Typed, NEW c \in Clients, RemoveObject(c)
  PROVE  /\ request[c].step = "delete"
         /\ \/ \E r : \E k \in request[c].todo, failed \in BOOLEAN : Removes(c, r, k, failed)
            \/ /\ request[c].todo = {} /\ UNCHANGED bucket
               /\ \E r : Returns(c, r, Error(request[c].failed))
<1> DEFINE old == request[c]
<1>1. CallOK(old) /\ old.step = "delete" /\ exists' \in BOOLEAN
  BY DEF RemoveObject, Typed
<1>2. ASSUME NEW k \in old.todo, NEW failed \in BOOLEAN,
             Store(k, Nothing) \/ (failed /\ UNCHANGED bucket),
             request' = [request EXCEPT ![c].todo = @ \ {k}, ![c].failed = @ \/ failed]
      PROVE  \E r : Removes(c, r, k, failed)
  <2> DEFINE r == [old EXCEPT !.todo = @ \ {k}, !.failed = @ \/ failed]
  <2>1. old.failed \in BOOLEAN /\ (old.failed \/ failed) \in BOOLEAN
    BY <1>1 DEF CallOK, Calls
  <2>2. CallOK(r) /\ Same(r, old) /\ r.step = "delete" /\ r.todo = old.todo \ {k}
        /\ r.ahead = old.ahead /\ r.listed = old.listed /\ r.failed = (old.failed \/ failed)
    BY <1>1, <2>1 DEF CallOK, Calls, Same
  <2>3. request' = [request EXCEPT ![c] = r]
    BY <1>1, <1>2 DEF Typed, Calls
  <2>4. bucket' \in [Keys -> Objects]
    <3>1. k \in Keys /\ Nothing \in Objects
      BY <1>1 DEF CallOK, Calls, Objects
    <3> QED
      BY <1>2, <3>1, StoreOK DEF Typed
  <2> HIDE DEF r
  <2> QED
    BY <1>1, <1>2, <2>2, <2>3, <2>4 DEF Removes, Becomes
<1>3. ASSUME old.todo = {}, Respond(c, Error(old.failed)), UNCHANGED bucket
      PROVE  \E r : Returns(c, r, Error(old.failed))
  <2>1. bucket' \in [Keys -> Objects] /\ Error(old.failed) \in Results
    BY <1>3, ErrorOK DEF Typed
  <2> QED
    BY <1>1, <1>3, <2>1, RespondOK
<1> QED
  BY <1>1, <1>2, <1>3 DEF RemoveObject

\* Listings, and DeleteDirectory.
LEMMA ListBeginsOK ==
  ASSUME Typed, NEW c \in Clients, NEW d \in Dirs, NEW deep \in BOOLEAN,
         ListBegins(c, d, deep)
  PROVE  \E r : /\ Becomes(c, r) /\ r.op = "list" /\ r.step = "list" /\ UNCHANGED bucket
                /\ r.path = d /\ r.deep = deep
                /\ r.ahead = {k \in Keys : k.path \in Inside[d] \/ k.path = d}
<1> DEFINE ahead == {k \in Keys : k.path \in Inside[d] \/ k.path = d}
           r == [Resting EXCEPT !.op = "list", !.step = "list", !.path = d, !.deep = deep,
                                !.ahead = ahead]
<1>1. ahead \subseteq Keys
  OBVIOUS
<1> HIDE DEF ahead
<1>2. CallOK(r) /\ r.op = "list" /\ r.step = "list" /\ r.path = d /\ r.deep = deep
      /\ r.ahead = ahead
  BY <1>1, RestingOK DEF CallOK, Resting, Calls, Ops, Steps
<1>3. Start(c, r) /\ UNCHANGED <<bucket, exists>>
  BY DEF ListBegins, ahead
<1> HIDE DEF r
<1>4. Becomes(c, r)
  BY <1>2, <1>3, StartOK
<1> QED
  BY <1>2, <1>3, <1>4 DEF ahead

LEMMA DeleteDirectoryBeginsOK ==
  ASSUME Typed, NEW c \in Clients, NEW d \in Dirs, DeleteDirectoryBegins(c, d)
  PROVE  \E r : /\ Becomes(c, r) /\ r.op = "deletedir" /\ r.path = d /\ UNCHANGED bucket
                /\ \/ r.step = "list" /\ r.ahead = Under[d]
                   \/ r.step = "done" /\ r.result = "noprefix"
<1>1. Under[d] \subseteq Keys
  BY DEF Under
<1>2. CASE Start(c, [Resting EXCEPT !.op = "deletedir", !.step = "list", !.path = d,
                                    !.deep = TRUE, !.ahead = Under[d]])
  <2> DEFINE r == [Resting EXCEPT !.op = "deletedir", !.step = "list", !.path = d,
                                  !.deep = TRUE, !.ahead = Under[d]]
  <2>1. CallOK(r) /\ r.op = "deletedir" /\ r.step = "list" /\ r.path = d /\ r.ahead = Under[d]
    BY <1>1, RestingOK DEF CallOK, Resting, Calls, Ops, Steps
  <2>2. Start(c, r) /\ UNCHANGED <<bucket, exists>>
    BY <1>2 DEF DeleteDirectoryBegins
  <2> HIDE DEF r
  <2> QED
    BY <2>1, <2>2, StartOK
<1>3. CASE Start(c, [Resting EXCEPT !.op = "deletedir", !.step = "done", !.path = d,
                                    !.result = "noprefix"])
  <2> DEFINE r == [Resting EXCEPT !.op = "deletedir", !.step = "done", !.path = d,
                                  !.result = "noprefix"]
  <2>1. CallOK(r) /\ r.op = "deletedir" /\ r.step = "done" /\ r.path = d /\ r.result = "noprefix"
    BY RestingOK DEF CallOK, Resting, Calls, Ops, Steps, Results
  <2>2. Start(c, r) /\ UNCHANGED <<bucket, exists>>
    BY <1>3 DEF DeleteDirectoryBegins
  <2> HIDE DEF r
  <2> QED
    BY <2>1, <2>2, StartOK
<1> QED
  BY <1>2, <1>3 DEF DeleteDirectoryBegins

\* A page has come, or its request has failed.
Turns(c, r) ==
  LET old == request[c]
      page == PageOf(old.ahead \cap Named(old.path, old.deep))
  IN  /\ Becomes(c, r) /\ Same(r, old)
      /\ r.step = "list" /\ r.todo = old.todo /\ r.failed = old.failed
      /\ r.ahead = old.ahead \ PassedBy(page, old.ahead)
      /\ r.listed = old.listed \cup page
Breaks(c, r) ==
  /\ Becomes(c, r) /\ r.op = request[c].op /\ r.path = request[c].path
  /\ r.step = "list" /\ r.unseen = request[c].unseen \cup request[c].ahead
  /\ r.failed \in {request[c].failed, TRUE}

LEMMA ListPageOK ==
  ASSUME Typed, NEW c \in Clients, ListPage(c)
  PROVE  /\ request[c].step = "list" /\ UNCHANGED bucket
         /\ request[c].op \in {"list", "deletedir"}
         /\ \/ \E r : Turns(c, r)
            \/ request[c].op = "list" /\ \E r : Returns(c, r, "error")
            \/ request[c].op = "deletedir" /\ request[c].listed = {} /\ \E r : Breaks(c, r)
<1> DEFINE old == request[c]
           page == PageOf(old.ahead \cap Named(old.path, old.deep))
           passed == PassedBy(page, old.ahead)
<1>1. /\ CallOK(old) /\ old \in Calls /\ old.step = "list"
      /\ old.op \in {"list", "deletedir"} /\ UNCHANGED <<bucket, exists>>
      /\ bucket' \in [Keys -> Objects] /\ exists' \in BOOLEAN
  BY DEF ListPage, Typed, CallOK
<1>2. page \subseteq Keys
  BY <1>1, NamedAreKeys DEF PageOf, Calls
<1>3. \/ request' = [request EXCEPT ![c].ahead = old.ahead \ passed, ![c].listed = @ \cup page]
      \/ old.op = "list" /\ Respond(c, "error")
      \/ /\ old.op = "deletedir" /\ old.listed = {}
         /\ \E noticed \in BOOLEAN :
              request' = [request EXCEPT ![c].ahead = {}, ![c].unseen = @ \cup old.ahead,
                                         ![c].failed = @ \/ noticed]
  BY DEF ListPage
<1> HIDE DEF page, passed
<1>4. ASSUME request' = [request EXCEPT ![c].ahead = old.ahead \ passed, ![c].listed = @ \cup page]
      PROVE  \E r : Turns(c, r)
  <2> DEFINE r == [old EXCEPT !.ahead = old.ahead \ passed, !.listed = @ \cup page]
  <2>1. /\ CallOK(r) /\ Same(r, old) /\ r.step = "list" /\ r.todo = old.todo
        /\ r.failed = old.failed /\ r.ahead = old.ahead \ passed
        /\ r.listed = old.listed \cup page
    BY <1>1, <1>2 DEF CallOK, Calls, Same
  <2>2. request' = [request EXCEPT ![c] = r]
    BY <1>1, <1>4 DEF Typed, Calls
  <2> HIDE DEF r
  <2> QED
    BY <1>1, <2>1, <2>2 DEF Turns, Becomes, page, passed
<1>5. ASSUME NEW noticed \in BOOLEAN,
             request' = [request EXCEPT ![c].ahead = {}, ![c].unseen = @ \cup old.ahead,
                                        ![c].failed = @ \/ noticed]
      PROVE  \E r : Breaks(c, r)
  <2> DEFINE r == [old EXCEPT !.ahead = {}, !.unseen = @ \cup old.ahead, !.failed = @ \/ noticed]
  <2>1. old.failed \in BOOLEAN /\ (old.failed \/ noticed) \in {old.failed, TRUE}
    BY <1>1 DEF Calls
  <2>2. /\ CallOK(r) /\ r.op = old.op /\ r.path = old.path /\ r.step = "list"
        /\ r.unseen = old.unseen \cup old.ahead /\ r.failed \in {old.failed, TRUE}
    BY <1>1, <2>1 DEF CallOK, Calls
  <2>3. request' = [request EXCEPT ![c] = r]
    BY <1>1, <1>5 DEF Typed, Calls
  <2> HIDE DEF r
  <2> QED
    BY <1>1, <2>2, <2>3 DEF Breaks, Becomes
<1>6. ASSUME Respond(c, "error")
      PROVE  \E r : Returns(c, r, "error")
  BY <1>1, <1>6, RespondOK DEF Results
<1> QED
  BY <1>1, <1>3, <1>4, <1>5, <1>6

\* The page has been deleted as far as it could.
Clears(c, r, gone, failed) ==
  /\ Becomes(c, r) /\ Same(r, request[c])
  /\ r.step = "list" /\ r.todo = request[c].todo /\ r.ahead = request[c].ahead
  /\ r.listed = {} /\ r.failed = (request[c].failed \/ failed)
  /\ gone # request[c].listed => failed
  /\ bucket' = [k \in Keys |-> IF k \in gone THEN Nothing ELSE bucket[k]]

LEMMA RemoveObjectsOK ==
  ASSUME Typed, NEW c \in Clients, RemoveObjects(c)
  PROVE  /\ request[c].step = "list" /\ request[c].op = "deletedir"
         /\ \E r, gone : \E failed \in BOOLEAN : Clears(c, r, gone, failed)
<1> DEFINE old == request[c]
<1>1. CallOK(old) /\ old.step = "list" /\ old.op = "deletedir" /\ exists' \in BOOLEAN
  BY DEF RemoveObjects, Typed, In
<1>2. PICK gone \in SUBSET old.listed, failed \in BOOLEAN :
        /\ gone # old.listed => failed
        /\ bucket' = [k \in Keys |-> IF k \in gone THEN Nothing ELSE bucket[k]]
        /\ request' = [request EXCEPT ![c].listed = {}, ![c].failed = @ \/ failed]
  BY DEF RemoveObjects
<1> DEFINE r == [old EXCEPT !.listed = {}, !.failed = @ \/ failed]
<1>3. (old.failed \/ failed) \in BOOLEAN
  OBVIOUS
<1>4. CallOK(r) /\ Same(r, old) /\ r.step = "list" /\ r.todo = old.todo
      /\ r.ahead = old.ahead /\ r.listed = {} /\ r.failed = (old.failed \/ failed)
  BY <1>1, <1>3 DEF CallOK, Calls, Same
<1>5. request' = [request EXCEPT ![c] = r]
  BY <1>1, <1>2 DEF Typed, Calls
<1>6. bucket' \in [Keys -> Objects]
  BY <1>2 DEF Typed, Objects
<1> HIDE DEF r
<1>7. Clears(c, r, gone, failed)
  BY <1>1, <1>2, <1>4, <1>5, <1>6 DEF Clears, Becomes
<1> QED
  BY <1>1, <1>7

LEMMA ListEndsOK ==
  ASSUME Typed, NEW c \in Clients, ListEnds(c)
  PROVE  /\ request[c].step = "list" /\ request[c].ahead = {} /\ UNCHANGED bucket
         /\ request[c].op = "deletedir" => request[c].listed = {}
         /\ request[c].op \in {"list", "deletedir"}
         /\ \E r : Returns(c, r, Error(request[c].failed))
<1>1. /\ request[c].step = "list" /\ request[c].op \in {"list", "deletedir"}
      /\ bucket' \in [Keys -> Objects] /\ exists' \in BOOLEAN
  BY DEF ListEnds, Typed, CallOK
<1>2. \E r : Returns(c, r, Error(request[c].failed))
  BY <1>1, ErrorOK, RespondOK DEF ListEnds
<1> QED
  BY <1>1, <1>2 DEF ListEnds

-----------------------------------------------------------------------------
(* What the histories and the calls have to do with each other.            *)

\* What was there when a deletion began, and is there now, it has still to
\* delete or was not shown, unless it has failed.
DeletesAll(c) ==
  LET r == request[c]
  IN  Deleting(r.op) =>
        /\ r.op = "deletedir" => doomed[c] \subseteq Under[r.path]
        /\ r.step # "done" /\ ~r.failed =>
             doomed[c] \cap Stored \subseteq
               (IF r.op = "delete" THEN r.todo ELSE r.ahead \cup r.listed \cup r.unseen)
        /\ r.step = "done" /\ r.result = "ok" => doomed[c] \cap Stored \subseteq r.unseen

\* What was there all the time, a listing has named or has still ahead.
ListsAll(c) ==
  LET r == request[c]
  IN  r.op = "list" =>
        /\ listable[c] \subseteq Named(r.path, r.deep)
        /\ r.step # "done" => listable[c] \subseteq r.ahead \cup r.listed
        /\ r.step = "done" /\ r.result = "ok" => listable[c] \subseteq r.listed

\* A Move deletes its source only once the target holds what it moves.
MovesWell(c) ==
  LET r == request[c]
      from == key(r.path)
      to == key(r.to)
  IN  r.op = "move" /\ alone[c] /\ r.value # Nothing =>
        /\ r.step = "copy" => bucket[from] = r.value
        /\ r.step = "delete" =>
             /\ from # to /\ bucket[to] = r.value
             /\ \/ r.todo = {from}
                \/ r.todo = {} /\ (r.failed \/ bucket[from] = Nothing)
        /\ r.step = "done" =>
             /\ r.value \in {bucket[from], bucket[to]}
             /\ r.result = "ok" => bucket[to] = r.value /\ bucket[from] = Nothing

Sound(c) == DeletesAll(c) /\ ListsAll(c) /\ MovesWell(c)
AllSound == \A c \in Clients : Sound(c)

LEMMA SoundCallsDoAsTheySay ==
  ASSUME Typed, AllSound
  PROVE  DeletionsAreComplete /\ MovesLoseNothing /\ ListingsAreComplete
<1>1. ASSUME NEW c \in Clients
      PROVE  request[c].result = "ok" => request[c].step = "done"
  BY DEF Typed, CallOK
<1>2. DeletionsAreComplete
  BY <1>1 DEF AllSound, Sound, DeletesAll, DeletionsAreComplete, Deleting
<1>3. ListingsAreComplete
  BY <1>1 DEF AllSound, Sound, ListsAll, ListingsAreComplete
<1>4. MovesLoseNothing
  <2>1. SUFFICES ASSUME NEW c \in Clients, request[c].op = "move", alone[c],
                        request[c].value # Nothing
                 PROVE  LET r == request[c]
                        IN  /\ r.value \in {bucket[key(r.path)], bucket[key(r.to)]}
                            /\ r.result = "ok" => /\ bucket[key(r.to)] = r.value
                                                  /\ bucket[key(r.path)] = Nothing
    BY DEF MovesLoseNothing
  <2>2. request[c].step \in {"copy", "delete", "done"}
    BY <2>1 DEF Typed, CallOK
  <2> QED
    BY <1>1, <2>1, <2>2 DEF AllSound, Sound, MovesWell
<1> QED
  BY <1>2, <1>3, <1>4

\* The histories after a step of client m.
LEMMA RememberOK ==
  ASSUME Typed, NEW m \in Clients, Remember(m), NEW c \in Clients
  PROVE  /\ ~Deleting(request'[c].op) => doomed'[c] = {}
         /\ Deleting(request'[c].op) /\ request[c] = Resting =>
              doomed'[c] = Asked(request'[c]) \cap Stored
         /\ Deleting(request'[c].op) /\ request[c] # Resting =>
              doomed'[c] = {k \in doomed[c] : bucket[k] # Nothing \/ bucket'[k] = Nothing}
         /\ request'[c].op # "list" => listable'[c] = {}
         /\ request'[c].op = "list" /\ request[c] = Resting =>
              listable'[c] = Named(request'[c].path, request'[c].deep)
         /\ request'[c].op = "list" /\ request[c] # Resting =>
              listable'[c] = {k \in listable[c] : k \in Named(request[c].path, request[c].deep)'}
         /\ alone'[c] /\ request'[c].op = "move" /\ request[c] # Resting =>
              /\ alone[c]
              /\ c = m \/ (/\ ~Changed(key(request[c].path))
                           /\ ~Changed(key(request[c].to)))
BY DEF Remember

LEMMA HistoriesOK ==
  ASSUME Typed, NEW m \in Clients, Remember(m),
         \A d \in Clients : CallOK(request'[d])
  PROVE  /\ doomed' \in [Clients -> SUBSET Keys]
         /\ listable' \in [Clients -> SUBSET Keys]
         /\ alone' \in [Clients -> BOOLEAN]
<1>1. Stored \subseteq Keys
  BY DEF Stored
<1>2. doomed' \in [Clients -> SUBSET Keys]
  <2>1. doomed' = [c \in Clients |-> doomed'[c]]
    BY DEF Remember
  <2>2. ASSUME NEW c \in Clients
        PROVE  doomed'[c] \subseteq Keys
    BY <1>1, RememberOK DEF Typed
  <2> QED
    BY <2>1, <2>2
<1>3. listable' \in [Clients -> SUBSET Keys]
  <2>1. listable' = [c \in Clients |-> listable'[c]]
    BY DEF Remember
  <2>2. ASSUME NEW c \in Clients
        PROVE  listable'[c] \subseteq Keys
    <3>1. Named(request'[c].path, request'[c].deep) \subseteq Keys
      BY NamedAreKeys DEF CallOK, Calls
    <3>2. \/ listable'[c] = {}
          \/ listable'[c] = Named(request'[c].path, request'[c].deep)
          \/ listable'[c] \subseteq listable[c]
      BY RememberOK
    <3> QED
      BY <3>1, <3>2 DEF Typed
  <2> QED
    BY <2>1, <2>2
<1>4. alone' \in [Clients -> BOOLEAN]
  BY DEF Remember, Typed
<1> QED
  BY <1>2, <1>3, <1>4

\* What a deletion under way has to delete only gets less.
LEMMA DoomedShrinks ==
  ASSUME Typed, NEW m \in Clients, Remember(m), NEW c \in Clients,
         \A d \in Clients : CallOK(request'[d]), request[c] # Resting
  PROVE  /\ doomed'[c] \subseteq doomed[c]
         /\ doomed'[c] \cap Stored' \subseteq doomed[c] \cap Stored
<1>1. \/ doomed'[c] = {}
      \/ doomed'[c] = {k \in doomed[c] : bucket[k] # Nothing \/ bucket'[k] = Nothing}
  BY RememberOK
<1> QED
  BY <1>1 DEF Stored

LEMMA OthersStaySound ==
  ASSUME Typed, NEW m \in Clients, Remember(m), NEW c \in Clients, c # m,
         \A d \in Clients : CallOK(request'[d]), request'[c] = request[c], Sound(c)
  PROVE  Sound(c)'
<1>1. Resting.op = "idle"
  BY DEF Resting
<1>2. DeletesAll(c)'
  <2>1. CASE Deleting(request[c].op)
    <3>1. request[c] # Resting
      BY <1>1, <2>1 DEF Deleting
    <3> QED
      BY <3>1, DoomedShrinks DEF Sound, DeletesAll
  <2>2. CASE ~Deleting(request[c].op)
    BY <2>2 DEF DeletesAll
  <2> QED
    BY <2>1, <2>2
<1>3. ListsAll(c)'
  <2>1. CASE request[c].op = "list"
    <3>1. request[c] # Resting
      BY <1>1, <2>1
    <3>2. listable'[c] \subseteq listable[c]
          /\ listable'[c] \subseteq Named(request[c].path, request[c].deep)'
      BY <2>1, <3>1, RememberOK
    <3> QED
      BY <3>2 DEF Sound, ListsAll
  <2>2. CASE request[c].op # "list"
    BY <2>2 DEF ListsAll
  <2> QED
    BY <2>1, <2>2
<1>4. MovesWell(c)'
  <2>1. CASE request[c].op = "move" /\ alone'[c]
    <3>1. request[c] # Resting
      BY <1>1, <2>1
    <3>2. alone[c] /\ ~Changed(key(request[c].path)) /\ ~Changed(key(request[c].to))
      BY <2>1, <3>1, RememberOK
    <3> QED
      BY <3>2 DEF Sound, MovesWell, Changed
  <2>2. CASE ~(request[c].op = "move" /\ alone'[c])
    BY <2>2 DEF MovesWell
  <2> QED
    BY <2>1, <2>2
<1> QED
  BY <1>2, <1>3, <1>4 DEF Sound

-----------------------------------------------------------------------------
(* Each step leaves the call it is a step of sound.                        *)

LEMMA NowIs ==
  ASSUME Typed, NEW c \in Clients, NEW r, Becomes(c, r)
  PROVE  request'[c] = r
BY DEF Becomes, Typed

LEMMA UninvolvedSound ==
  ASSUME Typed, NEW c \in Clients, NEW r, Becomes(c, r),
         r.op \notin {"delete", "deletedir", "list", "move"}
  PROVE  Sound(c)'
BY NowIs DEF Sound, DeletesAll, ListsAll, MovesWell, Deleting

LEMMA CopyBeginsSound ==
  ASSUME Typed, NEW c \in Clients, NEW op \in {"copy", "move"}, NEW p \in FilePaths,
         NEW q \in FilePaths, CopyBegins(c, op, p, q)
  PROVE  Sound(c)'
<1>1. PICK r : /\ Becomes(c, r) /\ r.op = op /\ r.step = "copy" /\ r.path = p /\ r.to = q
               /\ r.value = bucket[key(p)]
  BY CopyBeginsOK
<1>2. request'[c] = r /\ bucket' = bucket
  BY <1>1, NowIs DEF CopyBegins
<1> QED
  BY <1>1, <1>2 DEF Sound, DeletesAll, ListsAll, MovesWell, Deleting

LEMMA CopyObjectSound ==
  ASSUME Typed, NEW c \in Clients, Remember(c), Sound(c), CopyObject(c)
  PROVE  Sound(c)'
<1> DEFINE old == request[c]
           from == key(old.path)
           to == key(old.to)
<1>1. /\ old.step = "copy" /\ old.op \in {"copy", "move"} /\ old # Resting
      /\ from \in Keys /\ to \in Keys
  <2>1. old.step = "copy" /\ from \in Keys /\ to \in Keys
    BY CopyObjectOK
  <2> QED
    BY <2>1, RestingIsIdle DEF Typed, CallOK
<1>2. ASSUME request'[c].op \in {"copy", "move"}, MovesWell(c)'
      PROVE  Sound(c)'
  BY <1>2 DEF Sound, DeletesAll, ListsAll, Deleting
<1>3. ASSUME request'[c].op = "move", old.op = "move", alone'[c], old.value # Nothing
      PROVE  bucket[from] = old.value
  BY <1>1, <1>3, RememberOK DEF Sound, MovesWell
<1>4. ASSUME NEW r, Returns(c, r, "notfound"), bucket[from] = Nothing
      PROVE  Sound(c)'
  <2>1. request'[c] = r /\ Same(r, old)
    BY <1>4, NowIs DEF Returns
  <2> QED
    BY <1>1, <1>2, <1>3, <1>4, <2>1 DEF Same, MovesWell
<1>5. ASSUME NEW r, Returns(c, r, "error"), UNCHANGED bucket
      PROVE  Sound(c)'
  <2>1. request'[c] = r /\ Same(r, old) /\ r.step = "done" /\ r.result = "error"
    BY <1>5, NowIs DEF Returns
  <2> QED
    BY <1>1, <1>2, <1>3, <1>5, <2>1 DEF Same, MovesWell
<1>6. ASSUME from # to, Store(to, bucket[from]), NEW r,
             \/ Returns(c, r, "error")
             \/ Returns(c, r, "ok") /\ old.op = "copy"
             \/ GoesOn(c, r)
      PROVE  Sound(c)'
  <2>1. /\ request'[c] = r /\ Same(r, old)
        /\ \/ r.step = "done" /\ r.result = "error"
           \/ old.op = "copy"
           \/ r.step = "delete" /\ r.todo = {from}
    BY <1>6, NowIs DEF Returns, GoesOn
  <2>2. bucket'[to] = bucket[from] /\ bucket'[from] = bucket[from]
    BY <1>1, <1>6 DEF Store, Typed
  <2> QED
    BY <1>1, <1>2, <1>3, <1>6, <2>1, <2>2 DEF Same, MovesWell
<1> QED
  BY <1>4, <1>5, <1>6, CopyObjectOK

LEMMA DeleteBeginsSound ==
  ASSUME Typed, NEW c \in Clients, Remember(c), NEW ps \in Batches, DeleteBegins(c, ps)
  PROVE  Sound(c)'
<1>1. PICK r : /\ Becomes(c, r) /\ r.op = "delete" /\ r.step = "delete"
               /\ UNCHANGED bucket
  BY DeleteBeginsOK
<1>2. request'[c] = r /\ request[c] = Resting /\ Stored' = Stored
  BY <1>1, NowIs DEF DeleteBegins, Start, Stored
<1>3. doomed'[c] = r.todo \cap Stored
  BY <1>1, <1>2, RememberOK DEF Asked, Deleting
<1> QED
  BY <1>1, <1>2, <1>3 DEF Sound, DeletesAll, ListsAll, MovesWell

LEMMA RemoveObjectSound ==
  ASSUME Typed, NEW c \in Clients, Remember(c), Sound(c), RemoveObject(c),
         \A d \in Clients : CallOK(request'[d])
  PROVE  Sound(c)'
<1> DEFINE old == request[c]
           from == key(old.path)
           to == key(old.to)
<1>1. /\ old.step = "delete" /\ old.op \in {"delete", "move"} /\ old # Resting
      /\ old.todo \subseteq Keys /\ old.failed \in BOOLEAN
      /\ old.op = "move" => from \in Keys /\ to \in Keys
  <2>1. old.step = "delete"
    BY RemoveObjectOK
  <2>2. CallOK(old)
    BY DEF Typed
  <2> QED
    BY <2>1, <2>2, RestingIsIdle, KeysOfPaths DEF CallOK, Calls
<1>2. doomed'[c] \cap Stored' \subseteq doomed[c] \cap Stored
  BY <1>1, DoomedShrinks
<1>3. ASSUME old.op = "move", request'[c].op = "move", alone'[c], old.value # Nothing
      PROVE  /\ from # to /\ bucket[to] = old.value
             /\ \/ old.todo = {from}
                \/ old.todo = {} /\ (old.failed \/ bucket[from] = Nothing)
  BY <1>1, <1>3, RememberOK DEF Sound, MovesWell
<1>4. ASSUME NEW r, NEW k \in old.todo, NEW failed \in BOOLEAN, Removes(c, r, k, failed)
      PROVE  Sound(c)'
  <2>1. /\ request'[c] = r /\ Same(r, old) /\ r.step = "delete"
        /\ r.todo = old.todo \ {k} /\ r.failed = (old.failed \/ failed)
        /\ Store(k, Nothing) \/ (failed /\ UNCHANGED bucket)
    BY <1>4, NowIs DEF Removes
  <2>2. Store(k, Nothing) => k \notin Stored' /\ bucket'[k] = Nothing
                             /\ \A l \in Keys : l # k => bucket'[l] = bucket[l]
    BY <1>1 DEF Store, Stored, Typed
  <2>3. DeletesAll(c)'
    BY <1>1, <1>2, <2>1, <2>2 DEF Same, Sound, DeletesAll, Deleting
  <2>4. MovesWell(c)'
    <3>1. SUFFICES ASSUME r.op = "move", alone'[c], r.value # Nothing
                   PROVE  /\ from # to /\ bucket'[to] = old.value
                          /\ r.todo = {} /\ (r.failed \/ bucket'[from] = Nothing)
      BY <2>1 DEF Same, MovesWell
    <3>2. old.op = "move" /\ old.value # Nothing
      BY <2>1, <3>1 DEF Same
    <3>3. from # to /\ bucket[to] = old.value /\ old.todo = {from} /\ k = from
      BY <1>3, <2>1, <3>1, <3>2
    <3> QED
      BY <1>1, <2>1, <2>2, <3>2, <3>3
  <2>5. ListsAll(c)'
    BY <1>1, <2>1 DEF Same, ListsAll
  <2> QED
    BY <2>3, <2>4, <2>5 DEF Sound
<1>5. ASSUME NEW r, old.todo = {}, UNCHANGED bucket, Returns(c, r, Error(old.failed))
      PROVE  Sound(c)'
  <2>1. /\ request'[c] = r /\ Same(r, old) /\ r.step = "done"
        /\ r.result = "ok" => ~old.failed
    BY <1>5, NowIs, ErrorOK DEF Returns
  <2>2. DeletesAll(c)'
    BY <1>1, <1>2, <1>5, <2>1 DEF Same, Sound, DeletesAll, Deleting
  <2>3. MovesWell(c)'
    BY <1>3, <1>5, <2>1 DEF Same, MovesWell
  <2>4. ListsAll(c)'
    BY <1>1, <2>1 DEF Same, ListsAll
  <2> QED
    BY <2>2, <2>3, <2>4 DEF Sound
<1> QED
  BY <1>4, <1>5, RemoveObjectOK

LEMMA ListBeginsSound ==
  ASSUME Typed, NEW c \in Clients, Remember(c), NEW d \in Dirs, NEW deep \in BOOLEAN,
         ListBegins(c, d, deep)
  PROVE  Sound(c)'
<1>1. PICK r : /\ Becomes(c, r) /\ r.op = "list" /\ r.step = "list" /\ UNCHANGED bucket
               /\ r.path = d /\ r.deep = deep
               /\ r.ahead = {k \in Keys : k.path \in Inside[d] \/ k.path = d}
  BY ListBeginsOK
<1>2. request'[c] = r /\ request[c] = Resting
  BY <1>1, NowIs DEF ListBegins, Start
<1>3. listable'[c] = Named(d, deep) /\ Named(d, deep)' = Named(d, deep)
  <2>1. Stored' = Stored
    BY <1>1 DEF Stored
  <2>2. Named(d, deep)' = Named(d, deep)
    BY <2>1 DEF Named
  <2> QED
    BY <1>1, <1>2, <2>2, RememberOK
<1>4. Named(d, deep) \subseteq r.ahead
  <2>1. \A p \in Paths : d \in Above[p] => p \in Inside[d]
    BY DEF Inside
  <2>2. \A q : dirKey(q).path = q
    BY DEF dirKey
  <2>3. Children[d] \subseteq Inside[d] /\ \A k \in Keys : k.path \in Paths
    BY DEF Children, Keys
  <2>4. ASSUME NEW k \in Named(d, deep)
        PROVE  k \in Keys /\ (k.path \in Inside[d] \/ k.path = d)
    <3>1. k \in Keys
      BY NamedAreKeys
    <3>2. CASE deep
      BY <2>1, <2>2, <2>3, <3>1, <3>2 DEF Named, Under
    <3>3. CASE ~deep
      BY <2>2, <2>3, <3>1, <3>3 DEF Named
    <3> QED
      BY <3>1, <3>2, <3>3
  <2> QED
    BY <1>1, <2>4
<1> QED
  BY <1>1, <1>2, <1>3, <1>4 DEF Sound, DeletesAll, ListsAll, MovesWell, Deleting

LEMMA DeleteDirectoryBeginsSound ==
  ASSUME Typed, NEW c \in Clients, Remember(c), NEW d \in Dirs, DeleteDirectoryBegins(c, d)
  PROVE  Sound(c)'
<1>1. PICK r : /\ Becomes(c, r) /\ r.op = "deletedir" /\ r.path = d /\ UNCHANGED bucket
               /\ \/ r.step = "list" /\ r.ahead = Under[d]
                  \/ r.step = "done" /\ r.result = "noprefix"
  BY DeleteDirectoryBeginsOK
<1>2. request'[c] = r /\ request[c] = Resting
  BY <1>1, NowIs DEF DeleteDirectoryBegins, Start
<1>3. doomed'[c] = Under[d] \cap Stored
  BY <1>1, <1>2, RememberOK DEF Asked, Deleting
<1> QED
  BY <1>1, <1>2, <1>3 DEF Sound, DeletesAll, ListsAll, MovesWell

LEMMA ListPageSound ==
  ASSUME Typed, NEW c \in Clients, Remember(c), Sound(c), ListPage(c),
         \A d \in Clients : CallOK(request'[d])
  PROVE  Sound(c)'
<1> DEFINE old == request[c]
           named == Named(old.path, old.deep)
           page == PageOf(old.ahead \cap named)
<1>1. /\ old.step = "list" /\ UNCHANGED bucket /\ old.op \in {"list", "deletedir"}
      /\ CallOK(old) /\ old # Resting /\ old.ahead \subseteq Keys
  BY ListPageOK, RestingIsIdle DEF Typed, CallOK, Calls
<1>2. doomed'[c] \cap Stored' \subseteq doomed[c] \cap Stored /\ doomed'[c] \subseteq doomed[c]
  BY <1>1, DoomedShrinks
<1>3. request'[c].op = "list" => /\ listable'[c] \subseteq listable[c]
                                 /\ listable'[c] \subseteq named'
  BY <1>1, RememberOK
<1>5. ASSUME NEW r, Turns(c, r)
      PROVE  Sound(c)'
  <2>1. /\ request'[c] = r /\ Same(r, old) /\ r.step = "list" /\ r.failed = old.failed
        /\ r.ahead = old.ahead \ PassedBy(page, old.ahead)
        /\ r.listed = old.listed \cup page
    BY <1>5, NowIs DEF Turns
  <2>2. ASSUME NEW k \in old.ahead \cap named
        PROVE  k \in r.ahead \cup r.listed
    BY <1>1, <2>1, PageIsComplete
  <2>3. DeletesAll(c)'
    <3>1. SUFFICES ASSUME old.op = "deletedir"
                   PROVE  /\ doomed'[c] \subseteq Under[old.path]
                          /\ ~old.failed =>
                               doomed'[c] \cap Stored' \subseteq r.ahead \cup r.listed \cup old.unseen
      BY <1>1, <2>1 DEF DeletesAll, Same, Deleting
    <3>2. doomed[c] \subseteq Under[old.path]
          /\ (~old.failed =>
                doomed[c] \cap Stored \subseteq old.ahead \cup old.listed \cup old.unseen)
      BY <1>1, <3>1 DEF Sound, DeletesAll, Deleting
    <3>3. Under[old.path] \cap Stored \subseteq named
      BY <1>1, <3>1 DEF CallOK, Named
    <3> QED
      BY <1>2, <2>1, <2>2, <3>2, <3>3
  <2>4. ListsAll(c)'
    <3>1. SUFFICES ASSUME old.op = "list"
                   PROVE  listable'[c] \subseteq named' /\ listable'[c] \subseteq r.ahead \cup r.listed
      BY <2>1 DEF ListsAll, Same
    <3>2. listable[c] \subseteq named /\ listable[c] \subseteq old.ahead \cup old.listed
      BY <1>1, <3>1 DEF Sound, ListsAll
    <3> QED
      BY <1>3, <2>1, <2>2, <3>1, <3>2 DEF Same
  <2>5. MovesWell(c)'
    BY <1>1, <2>1 DEF Same, MovesWell
  <2> QED
    BY <2>3, <2>4, <2>5 DEF Sound
<1>6. ASSUME NEW r, Breaks(c, r), old.op = "deletedir", old.listed = {}
      PROVE  Sound(c)'
  <2>1. /\ request'[c] = r /\ r.op = old.op /\ r.path = old.path /\ r.step = "list"
        /\ r.unseen = old.unseen \cup old.ahead /\ r.failed \in {old.failed, TRUE}
    BY <1>6, NowIs DEF Breaks
  <2>2. /\ doomed[c] \subseteq Under[old.path]
        /\ ~old.failed => doomed[c] \cap Stored \subseteq old.ahead \cup old.unseen
    BY <1>1, <1>6 DEF Sound, DeletesAll, Deleting
  <2> QED
    BY <1>2, <1>6, <2>1, <2>2 DEF Sound, DeletesAll, ListsAll, MovesWell
<1>7. ASSUME NEW r, Returns(c, r, "error"), old.op = "list"
      PROVE  Sound(c)'
  <2>1. request'[c] = r /\ Same(r, old) /\ r.step = "done" /\ r.result = "error"
    BY <1>7, NowIs DEF Returns
  <2> QED
    BY <1>3, <1>7, <2>1 DEF Same, Sound, DeletesAll, ListsAll, MovesWell, Deleting
<1> QED
  BY <1>5, <1>6, <1>7, ListPageOK

LEMMA RemoveObjectsSound ==
  ASSUME Typed, NEW c \in Clients, Remember(c), Sound(c), RemoveObjects(c),
         \A d \in Clients : CallOK(request'[d])
  PROVE  Sound(c)'
<1> DEFINE old == request[c]
<1>1. old.step = "list" /\ old.op = "deletedir" /\ old # Resting /\ old.failed \in BOOLEAN
  BY RemoveObjectsOK, RestingIsIdle DEF Typed, Calls
<1>2. doomed'[c] \cap Stored' \subseteq doomed[c] \cap Stored /\ doomed'[c] \subseteq doomed[c]
  BY <1>1, DoomedShrinks
<1>3. PICK r, gone : \E failed \in BOOLEAN : Clears(c, r, gone, failed)
  BY RemoveObjectsOK
<1>4. PICK failed \in BOOLEAN : Clears(c, r, gone, failed)
  BY <1>3
<1>5. /\ request'[c] = r /\ Same(r, old) /\ r.step = "list" /\ r.ahead = old.ahead
      /\ r.failed = (old.failed \/ failed)
      /\ gone # old.listed => failed
  BY <1>4, NowIs DEF Clears
<1>6. gone \cap Stored' = {}
  BY <1>4 DEF Clears, Stored
<1>7. /\ doomed[c] \subseteq Under[old.path]
      /\ ~old.failed => doomed[c] \cap Stored \subseteq old.ahead \cup old.listed \cup old.unseen
  BY <1>1 DEF Sound, DeletesAll, Deleting
<1>8. ~r.failed => doomed'[c] \cap Stored' \subseteq r.ahead \cup r.listed \cup r.unseen
  BY <1>1, <1>2, <1>5, <1>6, <1>7 DEF Same
<1>9. DeletesAll(c)'
  BY <1>1, <1>2, <1>5, <1>7, <1>8 DEF Same, DeletesAll
<1> QED
  BY <1>1, <1>5, <1>9 DEF Same, Sound, ListsAll, MovesWell

LEMMA ListEndsSound ==
  ASSUME Typed, NEW c \in Clients, Remember(c), Sound(c), ListEnds(c),
         \A d \in Clients : CallOK(request'[d])
  PROVE  Sound(c)'
<1> DEFINE old == request[c]
<1>1. /\ old.step = "list" /\ old.ahead = {} /\ old # Resting
      /\ old.op \in {"list", "deletedir"}
      /\ old.op = "deletedir" => old.listed = {}
  BY ListEndsOK, RestingIsIdle
<1>2. doomed'[c] \cap Stored' \subseteq doomed[c] \cap Stored /\ doomed'[c] \subseteq doomed[c]
  BY <1>1, DoomedShrinks
<1>3. request'[c].op = "list" => /\ listable'[c] \subseteq listable[c]
                                 /\ listable'[c] \subseteq Named(old.path, old.deep)'
  BY <1>1, RememberOK
<1>4. PICK r : Returns(c, r, Error(old.failed))
  BY ListEndsOK
<1>5. /\ request'[c] = r /\ Same(r, old) /\ r.step = "done" /\ r.listed = old.listed
      /\ r.result = "ok" => ~old.failed
  BY <1>4, NowIs, ErrorOK DEF Returns
<1>6. DeletesAll(c)'
  BY <1>1, <1>2, <1>5 DEF Same, Sound, DeletesAll, Deleting
<1>7. ListsAll(c)'
  BY <1>1, <1>3, <1>5 DEF Same, Sound, ListsAll
<1> QED
  BY <1>1, <1>5, <1>6, <1>7 DEF Same, Sound, MovesWell

-----------------------------------------------------------------------------
(* The invariant.                                                          *)

LEMMA CallSound ==
  ASSUME Typed, AllSound, NEW c \in Clients, Remember(c), CallS3(c) \/ StepS3(c),
         requests' \in 0..MaxCalls, UNCHANGED prefixed
  PROVE  Typed' /\ AllSound'
<1> DEFINE Here == /\ \E r : Becomes(c, r)
                   /\ (\A d \in Clients : CallOK(request'[d])) => Sound(c)'
<1>1. FilePaths \subseteq Paths /\ DirectoryPaths \subseteq Paths
  BY PathsAssumption DEF DirectoryPaths
<1>2. ASSUME EnsureBucket(c)
      PROVE  Here
  BY <1>2, EnsureOK, UninvolvedSound
<1>3. ASSUME CallS3(c)
      PROVE  Here
  <2>1. ASSUME NEW p \in Paths, NEW v \in Values, PutBegins(c, p, v)
        PROVE  Here
    BY <2>1, PutBeginsOK, UninvolvedSound
  <2>2. ASSUME NEW p \in FilePaths, Look(c, p)
        PROVE  Here
    BY <2>2, LookOK, UninvolvedSound
  <2>3. ASSUME NEW op \in {"copy", "move"}, NEW p \in FilePaths, NEW q \in FilePaths,
               CopyBegins(c, op, p, q)
        PROVE  Here
    BY <2>3, CopyBeginsOK, CopyBeginsSound
  <2>4. ASSUME NEW ps \in Batches, DeleteBegins(c, ps)
        PROVE  Here
    BY <2>4, DeleteBeginsOK, DeleteBeginsSound
  <2>5. ASSUME NEW p \in DirectoryPaths, MakesDirectory(c, p)
        PROVE  Here
    BY <2>5, MakesDirectoryOK, UninvolvedSound
  <2>6. ASSUME NEW d \in {Root} \cup DirectoryPaths, DeleteDirectoryBegins(c, d)
        PROVE  Here
    <3>1. d \in Dirs
      BY <1>1 DEF Dirs
    <3> QED
      BY <2>6, <3>1, DeleteDirectoryBeginsOK, DeleteDirectoryBeginsSound
  <2>7. ASSUME NEW d \in {Root} \cup DirectoryPaths, NEW deep \in BOOLEAN, ListBegins(c, d, deep)
        PROVE  Here
    <3>1. d \in Dirs
      BY <1>1 DEF Dirs
    <3> QED
      BY <2>7, <3>1, ListBeginsOK, ListBeginsSound
  <2> HIDE DEF Here
  <2> QED
    BY <1>2, <1>3, <2>1, <2>2, <2>3, <2>4, <2>5, <2>6, <2>7 DEF CallS3
<1>4. ASSUME StepS3(c)
      PROVE  Here
  <2>1. ASSUME PutObject(c)
        PROVE  Here
    BY <2>1, PutObjectOK, UninvolvedSound
  <2>2. ASSUME CopyObject(c)
        PROVE  Here
    BY <2>2, CopyObjectOK, CopyObjectSound DEF AllSound, Returns, GoesOn
  <2>3. ASSUME RemoveObject(c)
        PROVE  Here
    BY <2>3, RemoveObjectOK, RemoveObjectSound DEF AllSound, Returns, Removes
  <2>4. ASSUME ListPage(c)
        PROVE  Here
    BY <2>4, ListPageOK, ListPageSound DEF AllSound, Returns, Turns, Breaks
  <2>5. ASSUME RemoveObjects(c)
        PROVE  Here
    BY <2>5, RemoveObjectsOK, RemoveObjectsSound DEF AllSound, Clears
  <2>6. ASSUME ListEnds(c)
        PROVE  Here
    BY <2>6, ListEndsOK, ListEndsSound DEF AllSound, Returns
  <2>7. ASSUME Responded(c)
        PROVE  Here
    BY <2>7, RespondedOK, UninvolvedSound
  <2> HIDE DEF Here
  <2> QED
    BY <1>2, <1>4, <2>1, <2>2, <2>3, <2>4, <2>5, <2>6, <2>7 DEF StepS3
<1>5. PICK r : Becomes(c, r)
  BY <1>3, <1>4
<1>6. /\ request' \in [Clients -> Calls]
      /\ \A d \in Clients : CallOK(request'[d])
      /\ \A d \in Clients \ {c} : request'[d] = request[d]
  BY <1>5 DEF Becomes, Typed, CallOK
<1>7. Typed'
  BY <1>5, <1>6, HistoriesOK DEF Becomes, Typed
<1>8. Sound(c)'
  BY <1>3, <1>4, <1>6
<1>9. ASSUME NEW d \in Clients \ {c}
      PROVE  Sound(d)'
  BY <1>6, OthersStaySound DEF AllSound
<1> QED
  BY <1>7, <1>8, <1>9 DEF AllSound

LEMMA S3Invariant ==
  /\ S3Init => Typed /\ AllSound
  /\ Typed /\ AllSound /\ [S3Next]_s3Vars => Typed' /\ AllSound'
<1>1. ASSUME S3Init
      PROVE  Typed /\ AllSound
  <2>1. MaxCalls \in Nat /\ request = [c \in Clients |-> Resting]
    BY <1>1, PathsAssumption DEF S3Init, AtRest
  <2>2. Typed
    <3>1. Resting \in Calls
      BY RestingOK DEF CallOK
    <3> QED
      BY <1>1, <2>1, <3>1, RestingOK DEF S3Init, AtRest, Typed, Objects
  <2>3. AllSound
    BY <2>1, RestingIsIdle DEF AllSound, Sound, DeletesAll, ListsAll, MovesWell, Deleting
  <2> QED
    BY <2>2, <2>3
<1>2. ASSUME Typed, AllSound, S3Next
      PROVE  Typed' /\ AllSound'
  <2>1. PICK c \in Clients :
          /\ \/ requests < MaxCalls /\ requests' = requests + 1 /\ CallS3(c)
             \/ UNCHANGED requests /\ StepS3(c)
          /\ Remember(c)
    BY <1>2 DEF S3Next
  <2>2. requests' \in 0..MaxCalls /\ UNCHANGED prefixed
    BY <1>2, <2>1, PathsAssumption DEF S3Next, Typed
  <2> QED
    BY <1>2, <2>1, <2>2, CallSound
<1>3. ASSUME Typed, AllSound, UNCHANGED s3Vars
      PROVE  Typed' /\ AllSound'
  BY <1>3 DEF s3Vars, Typed, AllSound, Sound, DeletesAll, ListsAll, MovesWell, Stored, Named
<1> QED
  BY <1>1, <1>2, <1>3

\* Objects and markers stay what callers and the driver stored, and no call
\* works on keys that are not there to be worked on (s3.go).
THEOREM S3TypeCorrect == S3Spec => []S3TypeOK
BY S3Invariant, TypedIsTypeOK, PTL DEF S3Spec

\* A Delete or DeleteDirectory that reports no error has deleted everything
\* there was when it began and nobody put since, although it works page by
\* page beside other callers and each of its requests may fail (s3.go:262-284,
\* 371-394).
THEOREM DeletionsComplete == S3Spec => []DeletionsAreComplete
BY S3Invariant, SoundCallsDoAsTheySay, PTL DEF S3Spec

\* A listing that reports no error has named everything that was there from
\* beginning to end, whatever its pages are (s3.go:493-510).
THEOREM ListingsComplete == S3Spec => []ListingsAreComplete
BY S3Invariant, SoundCallsDoAsTheySay, PTL DEF S3Spec

\* The four listings describe one tree, for every bucket (s3.go:396-487).
THEOREM ListingsAgreeAlways == S3Spec => []ListingsAgree
BY EveryBucketAgrees, PTL

\* A Move that nobody interferes with loses nothing, wherever it fails
\* (s3.go:292-301).
THEOREM MovesAreSafe == S3Spec => []MovesLoseNothing
BY S3Invariant, SoundCallsDoAsTheySay, PTL DEF S3Spec

-----------------------------------------------------------------------------
(* The tree of a local disk: what is there can be reached.                 *)

TreeOK ==
  /\ node \in [Dirs -> Inodes \cup {Absent, Directory}]
  /\ node[Root] = Directory
  /\ \A p \in Paths : Exists(p) => Reachable(p)

LEMMA PathsAbove ==
  /\ Root \in Dirs /\ Above[Root] = {}
  /\ \A p \in Dirs : Above[p] \subseteq Dirs /\ p \notin Above[p]
  /\ \A p \in Dirs : \A q \in Above[p] : Above[q] \subseteq Above[p]
BY PathsAssumption DEF Dirs

LEMMA BelowAFile ==
  ASSUME TreeOK, NEW p \in Dirs, ~IsDir(p), NEW q \in Paths, p \in Above[q]
  PROVE  ~Exists(q)
BY DEF TreeOK, Reachable

LEMMA CreateInTree ==
  ASSUME TreeOK, NEW p \in Dirs, NEW i \in Inodes, Reachable(p), ~IsDir(p),
         node' = [node EXCEPT ![p] = i]
  PROVE  TreeOK'
<1>1. \A q \in Dirs : node'[q] = IF q = p THEN i ELSE node[q]
  BY DEF TreeOK
<1>2. p # Root
  BY DEF TreeOK, IsDir
<1>3. ASSUME NEW q \in Paths, Exists(q)', NEW d \in Above[q]
      PROVE  IsDir(d)'
  <2>1. d \in Dirs /\ q \in Dirs
    BY PathsAbove DEF Dirs
  <2>2. p \notin Above[q]
    BY <1>1, <1>3, <2>1, PathsAbove, BelowAFile DEF Exists
  <2>3. IsDir(d)
    BY <1>1, <1>3, <2>1 DEF TreeOK, Exists, Reachable
  <2> QED
    BY <1>1, <2>1, <2>2, <2>3 DEF IsDir
<1> QED
  BY <1>1, <1>2, <1>3 DEF TreeOK, Reachable

LEMMA RemoveFromTree ==
  ASSUME TreeOK, NEW p \in Paths, Removable(p), node' = [node EXCEPT ![p] = Absent]
  PROVE  TreeOK'
<1>1. \A q \in Dirs : node'[q] = IF q = p THEN Absent ELSE node[q]
  BY DEF TreeOK
<1>2. \A q \in Paths : p \in Above[q] => ~Exists(q)
  <2>1. CASE IsFile(p)
    BY <2>1, LocalAssumption, BelowAFile DEF IsFile, IsDir, Dirs
  <2>2. CASE IsEmpty(p)
    BY <2>2 DEF IsEmpty, Inside, Dirs
  <2> QED
    BY <2>1, <2>2 DEF Removable
<1>3. ASSUME NEW q \in Paths, Exists(q)', NEW d \in Above[q]
      PROVE  IsDir(d)'
  <2>1. d \in Dirs /\ q \in Dirs /\ Exists(q)
    BY <1>1, <1>3, PathsAbove DEF Dirs, Exists
  <2> QED
    BY <1>1, <1>2, <2>1 DEF TreeOK, Reachable, IsDir
<1>4. p # Root /\ node' \in [Dirs -> Inodes \cup {Absent, Directory}]
  BY PathsAssumption DEF TreeOK, Dirs
<1> QED
  BY <1>1, <1>3, <1>4, PathsAbove DEF TreeOK, Reachable

LEMMA RenameInTree ==
  ASSUME TreeOK, NEW p \in FilePaths, NEW q \in FilePaths, CanRename(p, q),
         node' = IF p = q THEN node ELSE [node EXCEPT ![p] = Absent, ![q] = node[p]]
  PROVE  TreeOK'
<1>1. /\ p \in Dirs /\ q \in Dirs /\ p # Root /\ q # Root
      /\ \A r \in Paths : p \notin Above[r] /\ q \notin Above[r]
  BY PathsAssumption DEF Dirs
<1>2. /\ node[p] \in Inodes \cup {Directory}
      /\ p # q => \A r \in Dirs :
                  node'[r] = IF r = q THEN node[p] ELSE IF r = p THEN Absent ELSE node[r]
  BY <1>1 DEF CanRename, IsFile, IsDir, TreeOK
<1>3. ASSUME p # q, NEW r \in Paths, Exists(r)', NEW d \in Above[r]
      PROVE  IsDir(d)'
  <2>1. d \in Dirs /\ r \in Dirs /\ d # p /\ d # q
    BY <1>1, PathsAbove DEF Dirs
  <2>2. Reachable(r)
    BY <1>2, <1>3, <2>1 DEF CanRename, TreeOK, Exists
  <2> QED
    BY <1>2, <1>3, <2>1, <2>2 DEF Reachable, IsDir
<1>4. CASE p = q
  BY <1>4 DEF TreeOK, Reachable, Exists, IsDir
<1>5. CASE p # q
  <2>1. node' \in [Dirs -> Inodes \cup {Absent, Directory}]
    BY <1>1, <1>2, <1>5 DEF TreeOK
  <2> QED
    BY <1>1, <1>2, <1>3, <1>5, <2>1, PathsAbove DEF TreeOK, Reachable
<1> QED
  BY <1>4, <1>5

LEMMA MkdirInTree ==
  ASSUME TreeOK, NEW ds \in SUBSET Dirs, \A d \in ds : Above[d] \subseteq ds,
         CanMkdir(ds), node' = Mkdir(ds)
  PROVE  TreeOK'
<1>1. \A q \in Dirs : node'[q] = IF q \in ds THEN Directory ELSE node[q]
  BY DEF Mkdir
<1>2. ASSUME NEW q \in Paths, Exists(q)', NEW d \in Above[q]
      PROVE  IsDir(d)'
  <2>1. d \in Dirs /\ q \in Dirs
    BY PathsAbove DEF Dirs
  <2>2. CASE q \in ds
    BY <1>1, <2>1, <2>2 DEF IsDir
  <2>3. CASE q \notin ds
    BY <1>1, <1>2, <2>1, <2>3 DEF TreeOK, Reachable, Exists, IsDir
  <2> QED
    BY <2>2, <2>3
<1>3. node' \in [Dirs -> Inodes \cup {Absent, Directory}]
  BY DEF Mkdir, TreeOK
<1> QED
  BY <1>1, <1>2, <1>3, PathsAbove DEF TreeOK, Reachable

LEMMA SameTree ==
  ASSUME TreeOK, UNCHANGED node
  PROVE  TreeOK'
BY DEF TreeOK, Exists, Reachable, IsDir

-----------------------------------------------------------------------------
(* The calls of a local disk.                                              *)

LocalOps == {"idle", "put", "get", "copy", "move", "delete", "deletedir", "list"}
LocalSteps == {"idle", "parent", "create", "write", "open", "read", "rename", "remove",
               "walk", "done"}
LocalCalls == [op : LocalOps, step : LocalSteps, path : Dirs, to : Dirs,
               value : Values \cup {None}, want : {"files", "dirs"},
               in : Inodes \cup {None}, out : Inodes \cup {None}, at : 0..Chunks,
               got : Contents, todo : SUBSET Dirs, seen : SUBSET Paths,
               result : {"none", "ok", "error", "notfound"}]

\* Which files a call has open, and what it has got to.
Shape(r) ==
  /\ r.out \in Inodes <=> r.step = "write"
  /\ r.step = "write" => r.op \in {"put", "copy"}
  /\ r.in \in Inodes => \/ r.op = "get" /\ r.step = "read"
                        \/ r.op = "copy" /\ r.step \in {"parent", "create", "write"}
  /\ r.op = "get" /\ r.step = "read" => r.in \in Inodes
  /\ r.op = "put" /\ r.step \in {"parent", "create", "write"} => r.value \in Values
  /\ r.step \in {"parent", "create", "open"} => r.at = 0 /\ r.got = Empty
  /\ r.result = "ok" => r.step = "done"
  /\ r.op = "move" /\ r.step \in {"parent", "rename"} => r.path \in FilePaths /\ r.to \in FilePaths
  /\ r.op = "delete" => r.todo \subseteq Paths
  /\ r.op = "deletedir" /\ r.step = "remove" => r.path \in Paths

CallsTyped == call \in [Clients -> LocalCalls] /\ \A c \in Clients : Shape(call[c])
FilesTyped ==
  /\ data \in [Inodes -> Contents]
  /\ disturbed \in [Clients -> BOOLEAN]
  /\ torn \in [Inodes -> BOOLEAN]

\* The inductive invariant of the types.
LocalTyped ==
  /\ TreeOK /\ FilesTyped /\ CallsTyped
  /\ steady \in [Clients -> SUBSET Paths]
  /\ calls \in 0..MaxCalls

LEMMA TypedIsLocalTypeOK == LocalTyped => LocalTypeOK
BY DEF LocalTyped, LocalTypeOK, TreeOK, FilesTyped, CallsTyped, LocalCalls

LEMMA EmptyOK == Empty \in Contents
BY DEF Empty, Contents

LEMMA IdleOK == Idle \in LocalCalls /\ Shape(Idle)
<1>1. Empty \in Contents /\ Root \in Dirs /\ 0 \in 0..Chunks
  BY EmptyOK, LocalAssumption DEF Dirs
<1> QED
  BY <1>1, LocalAssumption DEF Idle, LocalCalls, Shape, LocalOps, LocalSteps

LEMMA BytesOK == \A v \in Values : Bytes(v) \in Contents
BY DEF Bytes, Contents

\* One call changes, into one that is as it should be.
LEMMA OneLocalCall ==
  ASSUME CallsTyped, NEW c \in Clients, NEW r \in LocalCalls, Shape(r),
         call' = [call EXCEPT ![c] = r]
  PROVE  CallsTyped'
BY DEF CallsTyped

LEMMA SteadyOK ==
  ASSUME steady \in [Clients -> SUBSET Paths], CallsTyped', KeepSteady
  PROVE  steady' \in [Clients -> SUBSET Paths]
<1>1. \A c \in Clients : call'[c].path \in Dirs
  BY DEF CallsTyped, LocalCalls
<1> QED
  BY <1>1 DEF KeepSteady, Inside

Finished(r, result) == [Idle EXCEPT !.op = r.op, !.path = r.path, !.got = r.got,
                                   !.seen = r.seen, !.step = "done", !.result = result]

LEMMA FinishOK ==
  ASSUME CallsTyped, NEW c \in Clients, NEW result \in {"ok", "error", "notfound"},
         Finish(c, result)
  PROVE  CallsTyped' /\ call' = [call EXCEPT ![c] = Finished(call[c], result)]
<1> DEFINE r == Finished(call[c], result)
<1>1. call[c] \in LocalCalls
  BY DEF CallsTyped
<1>2. r \in LocalCalls
  BY ZenonT(30), <1>1, IdleOK DEF Finished, Idle, LocalCalls, LocalSteps
<1>3. r.in = None /\ r.out = None /\ r.step = "done" /\ r.todo = {} /\ r.result = result
  BY DEF Finished, Idle
<1>4. Shape(r)
  BY <1>3, LocalAssumption DEF Shape
<1>5. call' = [call EXCEPT ![c] = r]
  BY DEF Finish, Finished
<1> QED
  BY <1>2, <1>4, <1>5, OneLocalCall

\* A call moves to another step, with nothing else changed.
Moved(r, step) == [r EXCEPT !.step = step]

LEMMA GotoOK ==
  ASSUME CallsTyped, NEW c \in Clients, NEW step \in LocalSteps, Goto(c, step),
         Shape(Moved(call[c], step))
  PROVE  CallsTyped' /\ call' = [call EXCEPT ![c] = Moved(call[c], step)]
<1> DEFINE r == Moved(call[c], step)
<1>1. r \in LocalCalls
  BY DEF CallsTyped, LocalCalls, Moved
<1>2. call' = [call EXCEPT ![c] = r]
  BY DEF Goto, CallsTyped, LocalCalls, Moved
<1> QED
  BY <1>1, <1>2, OneLocalCall

\* A call begins.
LEMMA BeginLocalOK ==
  ASSUME CallsTyped, NEW c \in Clients, NEW r \in LocalCalls, Shape(r), Begin(c, r)
  PROVE  CallsTyped' /\ call' = [call EXCEPT ![c] = r]
BY OneLocalCall DEF Begin

\* What each step of a call leaves.
LEMMA EnsureParentOK ==
  ASSUME LocalTyped, NEW c \in Clients, NEW p \in Dirs, NEW next,
         call[c].step = "parent",
         \/ call[c].op \in {"put", "copy"} /\ next = "create"
         \/ call[c].op = "move" /\ next = "rename",
         ensureParentDir(c, p, next)
  PROVE  /\ TreeOK' /\ CallsTyped'
         /\ \/ call' = [call EXCEPT ![c] = Moved(call[c], next)]
            \/ call' = [call EXCEPT ![c] = Finished(call[c], "error")]
<1>1. CASE CanMkdir(Above[p]) /\ node' = Mkdir(Above[p]) /\ Goto(c, next)
  <2>1. TreeOK'
    BY <1>1, MkdirInTree, PathsAbove DEF LocalTyped
  <2>2. call[c] \in LocalCalls /\ Shape(call[c])
    BY DEF LocalTyped, CallsTyped
  <2>3. /\ Moved(call[c], next).step = next /\ Moved(call[c], next).op = call[c].op
        /\ Moved(call[c], next).in = call[c].in /\ Moved(call[c], next).out = call[c].out
        /\ Moved(call[c], next).at = call[c].at /\ Moved(call[c], next).got = call[c].got
        /\ Moved(call[c], next).value = call[c].value
        /\ Moved(call[c], next).result = call[c].result
        /\ Moved(call[c], next).path = call[c].path /\ Moved(call[c], next).to = call[c].to
    BY <2>2 DEF Moved, LocalCalls
  <2>4. Shape(Moved(call[c], next))
    BY <2>2, <2>3 DEF Shape
  <2>5. next \in LocalSteps
    BY DEF LocalSteps
  <2> QED
    BY <1>1, <2>1, <2>4, <2>5, GotoOK DEF LocalTyped
<1>2. CASE UNCHANGED node /\ Finish(c, "error")
  BY <1>2, SameTree, FinishOK DEF LocalTyped
<1> QED
  BY <1>1, <1>2 DEF ensureParentDir

\* The write of a Put or a Copy, whose file is open.
Created(r, i) == [r EXCEPT !.step = "write", !.out = i]

LEMMA CreateOK ==
  ASSUME LocalTyped, NEW c \in Clients, NEW p \in Dirs, call[c].step = "create",
         call[c].op \in {"put", "copy"}, Create(c, p)
  PROVE  /\ TreeOK' /\ FilesTyped' /\ CallsTyped'
         /\ \/ /\ UNCHANGED <<data, disturbed, torn>>
               /\ call' = [call EXCEPT ![c] = Finished(call[c], "error")]
            \/ \E i \in Inodes :
                 /\ data' = [data EXCEPT ![i] = Empty] /\ Disturb(c, i) /\ UNCHANGED torn
                 /\ call' = [call EXCEPT ![c] = Created(call[c], i)]
<1>1. call[c] \in LocalCalls /\ Shape(call[c])
  BY DEF LocalTyped, CallsTyped
<1>2. ASSUME Reachable(p), ~IsDir(p), UNCHANGED torn,
             NEW i \in IF IsFile(p) THEN {node[p]} ELSE FreeInodes,
             node' = [node EXCEPT ![p] = i], data' = Truncated(i), Disturb(c, i),
             call' = [call EXCEPT ![c].step = "write", ![c].out = i]
      PROVE  /\ TreeOK' /\ FilesTyped' /\ CallsTyped' /\ i \in Inodes
             /\ data' = [data EXCEPT ![i] = Empty] /\ Disturb(c, i) /\ UNCHANGED torn
             /\ call' = [call EXCEPT ![c] = Created(call[c], i)]
  <2>1. i \in Inodes
    BY <1>2 DEF IsFile, FreeInodes
  <2>2. TreeOK'
    BY <1>2, <2>1, CreateInTree DEF LocalTyped
  <2>3. data' = [data EXCEPT ![i] = Empty]
    BY <1>2 DEF Truncated
  <2>4. FilesTyped'
    BY <1>2, <2>1, <2>3, EmptyOK DEF LocalTyped, FilesTyped, Disturb
  <2>5. call' = [call EXCEPT ![c] = Created(call[c], i)]
    BY <1>2 DEF LocalTyped, CallsTyped, LocalCalls, Created
  <2>6. Created(call[c], i) \in LocalCalls /\ Shape(Created(call[c], i))
    BY <1>1, <2>1 DEF LocalCalls, LocalSteps, Created, Shape
  <2> QED
    BY <1>2, <2>1, <2>2, <2>3, <2>4, <2>5, <2>6, OneLocalCall DEF LocalTyped
<1>3. CASE Finish(c, "error") /\ UNCHANGED <<node, data, disturbed, torn>>
  BY <1>3, SameTree, FinishOK DEF LocalTyped, FilesTyped
<1> QED
  BY <1>2, <1>3 DEF Create

\* What is read and written.
Chunk == Values \cup {End, Hole}

LEMMA ChunkOK ==
  ASSUME NEW f \in Contents, NEW n \in 0..Chunks
  PROVE  /\ ChunkAt(f, n) \in Chunk
         /\ ChunkAt(f, n) # End => n < Chunks /\ ChunkAt(f, n) = f[n + 1]
         /\ ChunkAt(f, n) = End => n = Chunks \/ f[n + 1] = End
BY LocalAssumption DEF ChunkAt, Contents, Chunk

LEMMA WriteAtOK ==
  ASSUME NEW f \in Contents, NEW n \in 0..Chunks, n < Chunks, NEW b \in Chunk
  PROVE  WriteAt(f, n + 1, b) \in Contents
BY DEF WriteAt, Contents, Chunk

LEMMA WriteChunkOK ==
  ASSUME LocalTyped, NEW c \in Clients, call[c].step = "write",
         NEW chunk \in Chunk, chunk # End => call[c].at < Chunks,
         WriteChunk(c, chunk) \/ WriteFails(c), UNCHANGED <<node, disturbed>>
  PROVE  TreeOK' /\ FilesTyped' /\ CallsTyped'
<1>1. call[c] \in LocalCalls /\ Shape(call[c]) /\ call[c].out \in Inodes
  BY DEF LocalTyped, CallsTyped, Shape
<1>2. TreeOK'
  BY SameTree DEF LocalTyped
<1>3. CASE /\ chunk # End
           /\ data' = [data EXCEPT ![call[c].out] = WriteAt(@, call[c].at + 1, chunk)]
           /\ call' = [call EXCEPT ![c].at = @ + 1]
           /\ UNCHANGED torn
  <2>1. call[c].at \in 0..Chunks /\ data[call[c].out] \in Contents
    BY <1>1 DEF LocalCalls, LocalTyped, FilesTyped
  <2>2. FilesTyped'
    BY <1>1, <1>3, <2>1, WriteAtOK DEF LocalTyped, FilesTyped
  <2> DEFINE r == [call[c] EXCEPT !.at = @ + 1]
  <2>3. call[c].at + 1 \in 0..Chunks
    BY <1>3, <2>1, LocalAssumption
  <2>4. r \in LocalCalls
    BY <1>1, <2>3 DEF LocalCalls
  <2>5. Shape(r)
    BY <1>1 DEF Shape, LocalCalls
  <2>6. call' = [call EXCEPT ![c] = r]
    BY <1>3 DEF LocalTyped, CallsTyped, LocalCalls
  <2> QED
    BY <1>2, <2>2, <2>4, <2>5, <2>6, OneLocalCall DEF LocalTyped
<1>4. CASE /\ \E result \in {"ok", "error"} : Finish(c, result)
           /\ \E t \in BOOLEAN : torn' = [torn EXCEPT ![call[c].out] = t]
           /\ UNCHANGED data
  BY <1>1, <1>2, <1>4, FinishOK DEF LocalTyped, FilesTyped
<1>5. disturbed[c] \in BOOLEAN
  BY DEF LocalTyped, FilesTyped
<1> QED
  BY <1>3, <1>4, <1>5 DEF WriteChunk, WriteFails

\* A file that a call has opened to read.
Opened(r, next, i) == [r EXCEPT !.step = next, !.in = i]

LEMMA OpenToReadOK ==
  ASSUME LocalTyped, NEW c \in Clients, NEW p \in Dirs, NEW next,
         call[c].step = "open",
         \/ call[c].op = "get" /\ next = "read"
         \/ call[c].op = "copy" /\ next = "parent",
         OpenToRead(c, p, next)
  PROVE  /\ TreeOK' /\ FilesTyped' /\ CallsTyped'
         /\ \/ /\ UNCHANGED <<data, disturbed, torn>>
               /\ \E result \in {"notfound", "error"} :
                    call' = [call EXCEPT ![c] = Finished(call[c], result)]
            \/ \E i \in Inodes :
                 /\ disturbed' = [disturbed EXCEPT ![c] = torn[i] \/ Writing(i)]
                 /\ UNCHANGED <<data, torn>>
                 /\ call' = [call EXCEPT ![c] = Opened(call[c], next, i)]
<1>1. call[c] \in LocalCalls /\ Shape(call[c])
  BY DEF LocalTyped, CallsTyped
<1>2. TreeOK'
  BY SameTree DEF LocalTyped, OpenToRead
<1>3. ASSUME IsFile(p), call' = [call EXCEPT ![c].step = next, ![c].in = node[p]],
             disturbed' = [disturbed EXCEPT ![c] = torn[node[p]] \/ Writing(node[p])]
      PROVE  /\ FilesTyped' /\ CallsTyped'
             /\ call' = [call EXCEPT ![c] = Opened(call[c], next, node[p])]
  <2>1. node[p] \in Inodes
    BY <1>3 DEF IsFile
  <2>2. (torn[node[p]] \/ Writing(node[p])) \in BOOLEAN
    BY <2>1 DEF LocalTyped, FilesTyped, Writing
  <2>3. FilesTyped'
    BY <1>3, <2>2 DEF LocalTyped, FilesTyped, OpenToRead
  <2>4. call' = [call EXCEPT ![c] = Opened(call[c], next, node[p])]
    BY <1>3 DEF LocalTyped, CallsTyped, LocalCalls, Opened
  <2>5. Opened(call[c], next, node[p]) \in LocalCalls
    BY <1>1, <2>1 DEF LocalCalls, LocalSteps, Opened
  <2>6. Shape(Opened(call[c], next, node[p]))
    BY <1>1, <2>1 DEF LocalCalls, Opened, Shape
  <2> QED
    BY <2>3, <2>4, <2>5, <2>6, OneLocalCall DEF LocalTyped
<1>4. ASSUME UNCHANGED disturbed, NEW result \in {"notfound", "error"}, Finish(c, result)
      PROVE  /\ FilesTyped' /\ CallsTyped'
             /\ call' = [call EXCEPT ![c] = Finished(call[c], result)]
  BY <1>4, FinishOK DEF LocalTyped, FilesTyped, OpenToRead
<1> QED
  BY <1>2, <1>3, <1>4 DEF OpenToRead, IsFile

\* A chunk that a Get has read.
Taken(r, chunk) ==
  [r EXCEPT !.got = [r.got EXCEPT ![r.at + 1] = chunk], !.at = r.at + 1]

LEMMA ReadOK ==
  ASSUME LocalTyped, NEW c \in Clients, call[c].op = "get", call[c].step = "read",
         Get(c)
  PROVE  /\ TreeOK' /\ FilesTyped' /\ CallsTyped' /\ UNCHANGED <<data, disturbed, torn>>
         /\ LET chunk == ChunkAt(data[call[c].in], call[c].at) IN
            \/ chunk # End /\ call' = [call EXCEPT ![c] = Taken(call[c], chunk)]
            \/ chunk = End /\ call' = [call EXCEPT ![c] = Finished(call[c], "ok")]
<1> DEFINE chunk == ChunkAt(data[call[c].in], call[c].at)
<1>1. call[c] \in LocalCalls /\ Shape(call[c]) /\ call[c].in \in Inodes
  BY DEF LocalTyped, CallsTyped, Shape
<1>2. UNCHANGED <<node, data, disturbed, torn>>
  BY DEF Get, At
<1>3. TreeOK' /\ FilesTyped'
  BY <1>2, SameTree DEF LocalTyped, FilesTyped
<1>4. CASE chunk = End /\ Finish(c, "ok")
  BY <1>2, <1>3, <1>4, FinishOK DEF LocalTyped
<1>5. CASE chunk # End /\ call' = [call EXCEPT ![c].got[call[c].at + 1] = chunk, ![c].at = @ + 1]
  <2>1. data[call[c].in] \in Contents /\ call[c].at \in 0..Chunks /\ call[c].got \in Contents
    BY <1>1 DEF LocalTyped, FilesTyped, LocalCalls
  <2>2. chunk \in Values \cup {Hole} /\ call[c].at + 1 \in 1..Chunks
    BY <1>5, <2>1, ChunkOK, LocalAssumption DEF Chunk
  <2> HIDE DEF chunk
  <2>3. [call[c].got EXCEPT ![call[c].at + 1] = chunk] \in Contents
    BY <2>1, <2>2 DEF Contents
  <2>4. Taken(call[c], chunk) \in LocalCalls
    <3>1. \A g \in Contents, n \in 0..Chunks :
            [call[c] EXCEPT !.got = g, !.at = n] \in LocalCalls
      BY <1>1 DEF LocalCalls
    <3>2. call[c].at + 1 \in 0..Chunks
      BY <2>2
    <3> QED
      BY <2>3, <3>1, <3>2 DEF Taken
  <2>5. Shape(Taken(call[c], chunk))
    BY <1>1 DEF LocalCalls, Taken, Shape
  <2>6. call' = [call EXCEPT ![c] = Taken(call[c], chunk)]
    BY <1>5 DEF LocalTyped, CallsTyped, LocalCalls, Taken
  <2> QED
    BY <1>2, <1>3, <1>5, <2>4, <2>5, <2>6, OneLocalCall DEF LocalTyped, chunk
<1> QED
  BY <1>4, <1>5 DEF Get, At

LEMMA BeginsOK ==
  ASSUME LocalTyped, NEW c \in Clients,
         \/ \E p \in Paths, v \in Values : PutBegin(c, p, v)
         \/ \E p \in FilePaths : GetBegin(c, p)
         \/ \E p, q \in FilePaths : CopyBegin(c, p, q) \/ MoveBegin(c, p, q)
         \/ \E ps \in Batches : DeleteBegin(c, ps)
         \/ \E p \in Paths : DeleteDirectoryBegin(c, p)
         \/ \E d \in {Root} \cup DirectoryPaths, want \in {"files", "dirs"} :
              listDeepBegin(c, d, want)
  PROVE  /\ TreeOK' /\ FilesTyped' /\ CallsTyped'
         /\ UNCHANGED <<node, data, disturbed, torn>>
         /\ \E r \in LocalCalls : /\ call[c] = Idle /\ call' = [call EXCEPT ![c] = r]
                                  /\ r.in = None /\ r.out = None /\ r.result = "none"
                                  /\ r.op = "list" => r.todo = {r.path} /\ r.step = "walk"
<1> DEFINE Begun(r) == /\ r \in LocalCalls /\ Shape(r) /\ Begin(c, r)
                       /\ r.in = None /\ r.out = None /\ r.result = "none"
                       /\ r.op = "list" => r.todo = {r.path} /\ r.step = "walk"
<1>1. UNCHANGED <<node, data, disturbed, torn>>
  BY DEF PutBegin, GetBegin, CopyBegin, MoveBegin, DeleteBegin, DeleteDirectoryBegin,
         listDeepBegin
<1>2. /\ FilePaths \subseteq Paths /\ Paths \subseteq Dirs /\ Root \in Dirs
      /\ \A ps \in Batches : ps \subseteq Paths
      /\ DirectoryPaths \subseteq Dirs
  BY PathsAssumption DEF Dirs, Batches, DirectoryPaths
<1>3. Empty \in Contents /\ 0 \in 0..Chunks
  BY EmptyOK, LocalAssumption
<1>4. ASSUME NEW p \in Paths, NEW v \in Values, PutBegin(c, p, v)
      PROVE  \E r : Begun(r)
  <2> DEFINE r == [Idle EXCEPT !.op = "put", !.step = "parent", !.path = p, !.value = v]
  <2>1. Begun(r)
    BY <1>2, <1>3, <1>4, LocalAssumption
       DEF PutBegin, Idle, LocalCalls, LocalOps, LocalSteps, Shape
  <2> QED
    BY <2>1
<1>5. ASSUME NEW p \in FilePaths, GetBegin(c, p)
      PROVE  \E r : Begun(r)
  <2> DEFINE r == [Idle EXCEPT !.op = "get", !.step = "open", !.path = p]
  <2>1. Begun(r)
    BY <1>2, <1>3, <1>5, LocalAssumption
       DEF GetBegin, Idle, LocalCalls, LocalOps, LocalSteps, Shape
  <2> QED
    BY <2>1
<1>6. ASSUME NEW p \in FilePaths, NEW q \in FilePaths, CopyBegin(c, p, q)
      PROVE  \E r : Begun(r)
  <2> DEFINE r == [Idle EXCEPT !.op = "copy", !.step = "open", !.path = p, !.to = q]
  <2>1. Begun(r)
    BY <1>2, <1>3, <1>6, LocalAssumption
       DEF CopyBegin, Idle, LocalCalls, LocalOps, LocalSteps, Shape
  <2> QED
    BY <2>1
<1>7. ASSUME NEW p \in FilePaths, NEW q \in FilePaths, MoveBegin(c, p, q)
      PROVE  \E r : Begun(r)
  <2> DEFINE r == [Idle EXCEPT !.op = "move", !.step = "parent", !.path = p, !.to = q]
  <2>1. Begun(r)
    BY <1>2, <1>3, <1>7, LocalAssumption
       DEF MoveBegin, Idle, LocalCalls, LocalOps, LocalSteps, Shape
  <2> QED
    BY <2>1
<1>8. ASSUME NEW ps \in Batches, DeleteBegin(c, ps)
      PROVE  \E r : Begun(r)
  <2> DEFINE r == [Idle EXCEPT !.op = "delete", !.step = "remove", !.todo = ps]
  <2>1. ps \in SUBSET Dirs /\ ps \subseteq Paths
    BY <1>2
  <2>2. Begun(r)
    BY <1>2, <1>3, <1>8, <2>1, LocalAssumption
       DEF DeleteBegin, Idle, LocalCalls, LocalOps, LocalSteps, Shape
  <2> QED
    BY <2>2
<1>9. ASSUME NEW p \in Paths, DeleteDirectoryBegin(c, p)
      PROVE  \E r : Begun(r)
  <2> DEFINE r == [Idle EXCEPT !.op = "deletedir", !.step = "remove", !.path = p]
  <2>1. Begun(r)
    BY <1>2, <1>3, <1>9, LocalAssumption
       DEF DeleteDirectoryBegin, Idle, LocalCalls, LocalOps, LocalSteps, Shape
  <2> QED
    BY <2>1
<1>10. ASSUME NEW d \in {Root} \cup DirectoryPaths, NEW want \in {"files", "dirs"},
              listDeepBegin(c, d, want)
       PROVE  \E r : Begun(r)
  <2> DEFINE r == [Idle EXCEPT !.op = "list", !.step = "walk", !.path = d,
                               !.want = want, !.todo = {d}]
  <2>1. d \in Dirs /\ {d} \in SUBSET Dirs
    BY <1>2
  <2>2. Begun(r)
    BY <1>2, <1>3, <1>10, <2>1, LocalAssumption
       DEF listDeepBegin, Idle, LocalCalls, LocalOps, LocalSteps, Shape
  <2> QED
    BY <2>2
<1>11. \E r : Begun(r)
  BY <1>4, <1>5, <1>6, <1>7, <1>8, <1>9, <1>10
<1>12. TreeOK' /\ FilesTyped'
  BY <1>1, SameTree DEF LocalTyped, FilesTyped
<1> QED
  BY <1>1, <1>11, <1>12, BeginLocalOK DEF LocalTyped, Begin

\* The calls that change names only, and those that list them, have no file
\* open, before and after.
NamesOnly(c) ==
  /\ UNCHANGED <<data, disturbed, torn>>
  /\ call[c].in = None /\ call[c].out = None
  /\ \E r \in LocalCalls : /\ call' = [call EXCEPT ![c] = r]
                          /\ r.in = None /\ r.out = None /\ r.op = call[c].op

LEMMA NothingOpen ==
  ASSUME LocalTyped, NEW c \in Clients, call[c].op \in {"move", "delete", "deletedir", "list"}
  PROVE  call[c] \in LocalCalls /\ Shape(call[c]) /\ call[c].in = None /\ call[c].out = None
BY DEF LocalTyped, CallsTyped, LocalCalls, Shape

LEMMA FinishNamesOnly ==
  ASSUME LocalTyped, NEW c \in Clients, call[c].op \in {"move", "delete", "deletedir", "list"},
         NEW result \in {"ok", "error", "notfound"}, Finish(c, result),
         UNCHANGED <<data, disturbed, torn>>
  PROVE  CallsTyped' /\ NamesOnly(c)
<1>1. CallsTyped' /\ call' = [call EXCEPT ![c] = Finished(call[c], result)]
  BY FinishOK DEF LocalTyped
<1>2. Finished(call[c], result) \in LocalCalls
  BY <1>1 DEF CallsTyped, LocalTyped
<1>3. /\ Finished(call[c], result).in = None /\ Finished(call[c], result).out = None
      /\ Finished(call[c], result).op = call[c].op
  BY DEF Finished, Idle
<1> QED
  BY <1>1, <1>2, <1>3, NothingOpen DEF NamesOnly

LEMMA MoveOK ==
  ASSUME LocalTyped, NEW c \in Clients, Move(c)
  PROVE  TreeOK' /\ FilesTyped' /\ CallsTyped' /\ NamesOnly(c)
<1>1. /\ call[c].op = "move" /\ UNCHANGED <<data, disturbed, torn>> /\ FilesTyped'
      /\ call[c].path \in Dirs /\ call[c].to \in Dirs
  BY DEF Move, At, LocalTyped, FilesTyped, CallsTyped, LocalCalls
<1>2. CASE At(c, "move", "parent") /\ ensureParentDir(c, call[c].to, "rename")
  <2>1. /\ TreeOK' /\ CallsTyped'
        /\ \/ call' = [call EXCEPT ![c] = Moved(call[c], "rename")]
           \/ call' = [call EXCEPT ![c] = Finished(call[c], "error")]
    BY <1>1, <1>2, EnsureParentOK DEF At
  <2>2. call'[c] \in LocalCalls /\ call' = [call EXCEPT ![c] = call'[c]]
    BY <2>1 DEF CallsTyped, LocalTyped
  <2>3. call'[c].in = None /\ call'[c].out = None /\ call'[c].op = call[c].op
    <3>1. call[c].in = None /\ call[c].out = None /\ call[c] \in LocalCalls
      BY <1>1, NothingOpen
    <3>2. \A r \in LocalCalls : /\ Moved(r, "rename").in = r.in
                               /\ Moved(r, "rename").out = r.out
                               /\ Moved(r, "rename").op = r.op
      BY DEF Moved, LocalCalls
    <3>3. \A r : /\ Finished(r, "error").in = None /\ Finished(r, "error").out = None
                 /\ Finished(r, "error").op = r.op
      BY DEF Finished, Idle
    <3>4. call'[c] \in {Moved(call[c], "rename"), Finished(call[c], "error")}
      BY <2>1 DEF LocalTyped, CallsTyped
    <3> QED
      BY <3>1, <3>2, <3>3, <3>4
  <2> QED
    BY <1>1, <2>1, <2>2, <2>3, NothingOpen DEF NamesOnly
<1>3. CASE /\ At(c, "move", "rename") /\ CanRename(call[c].path, call[c].to)
           /\ node' = IF call[c].path = call[c].to THEN node
                      ELSE [node EXCEPT ![call[c].path] = Absent, ![call[c].to] = node[call[c].path]]
           /\ Finish(c, "ok")
  <2>1. call[c].path \in FilePaths /\ call[c].to \in FilePaths
    BY <1>1, <1>3, NothingOpen DEF Shape, At
  <2>2. TreeOK'
    BY <1>3, <2>1, RenameInTree DEF LocalTyped
  <2> QED
    BY <1>1, <1>3, <2>2, FinishNamesOnly
<1>4. CASE UNCHANGED node /\ \E result \in {"notfound", "error"} : Finish(c, result)
  BY <1>1, <1>4, SameTree, FinishNamesOnly DEF LocalTyped
<1> QED
  BY <1>2, <1>3, <1>4 DEF Move

LEMMA DeleteOK ==
  ASSUME LocalTyped, NEW c \in Clients, Delete(c)
  PROVE  TreeOK' /\ FilesTyped' /\ CallsTyped' /\ NamesOnly(c)
<1>1. /\ call[c].op = "delete" /\ UNCHANGED <<data, disturbed, torn>> /\ FilesTyped'
      /\ call[c] \in LocalCalls /\ Shape(call[c]) /\ call[c].step = "remove"
      /\ call[c].in = None /\ call[c].out = None
  BY NothingOpen DEF Delete, At, LocalTyped, FilesTyped
<1>2. ASSUME NEW p \in call[c].todo,
             node' = IF Removable(p) THEN [node EXCEPT ![p] = Absent] ELSE node,
             call' = [call EXCEPT ![c].todo = @ \ {p},
                        ![c].result = IF Removable(p) \/ Missing(p) THEN @ ELSE "error"]
      PROVE  TreeOK' /\ CallsTyped' /\ NamesOnly(c)
  <2>1. p \in Paths
    BY <1>1 DEF Shape
  <2>2. TreeOK'
    BY <1>2, <2>1, RemoveFromTree, SameTree DEF LocalTyped
  <2>3. PICK result : result = IF Removable(p) \/ Missing(p) THEN call[c].result ELSE "error"
    OBVIOUS
  <2> DEFINE r == [call[c] EXCEPT !.todo = @ \ {p}, !.result = result]
  <2>4. result \in {call[c].result, "error"}
    BY <2>3
  <2>5. r \in LocalCalls /\ r.in = None /\ r.out = None /\ r.op = call[c].op
    BY <1>1, <2>4 DEF LocalCalls
  <2>6. Shape(r)
    BY <1>1, <2>4 DEF Shape, LocalCalls
  <2>7. call' = [call EXCEPT ![c] = r]
    BY <1>2, <2>3 DEF LocalTyped, CallsTyped, LocalCalls
  <2> HIDE DEF r
  <2> QED
    BY <1>1, <2>2, <2>5, <2>6, <2>7, OneLocalCall DEF LocalTyped, NamesOnly
<1>3. CASE UNCHANGED node /\ \E result \in {"ok", "error"} : Finish(c, result)
  BY <1>1, <1>3, SameTree, FinishNamesOnly DEF LocalTyped
<1> QED
  BY <1>1, <1>2, <1>3 DEF Delete

LEMMA DeleteDirectoryOK ==
  ASSUME LocalTyped, NEW c \in Clients, DeleteDirectory(c)
  PROVE  TreeOK' /\ FilesTyped' /\ CallsTyped' /\ (UNCHANGED call \/ NamesOnly(c))
         /\ UNCHANGED <<data, disturbed, torn>>
<1>1. /\ call[c].op = "deletedir" /\ UNCHANGED <<data, disturbed, torn>> /\ FilesTyped'
      /\ call[c].path \in Paths
  BY NothingOpen DEF DeleteDirectory, At, LocalTyped, FilesTyped, Shape
<1>2. ASSUME NEW q \in Inside[call[c].path] \cup {call[c].path}, Removable(q),
             node' = [node EXCEPT ![q] = Absent], UNCHANGED call
      PROVE  TreeOK' /\ CallsTyped'
  <2>1. q \in Paths
    BY <1>1, <1>2 DEF Inside, Dirs
  <2> QED
    BY <1>2, <2>1, RemoveFromTree DEF LocalTyped, CallsTyped
<1>3. CASE UNCHANGED node /\ \E result \in {"ok", "error"} : Finish(c, result)
  BY <1>1, <1>3, SameTree, FinishNamesOnly DEF LocalTyped
<1> QED
  BY <1>1, <1>2, <1>3 DEF DeleteDirectory

LEMMA MakeDirectoryOK ==
  ASSUME LocalTyped, NEW c \in Clients, NEW p \in DirectoryPaths, MakeDirectory(c, p)
  PROVE  TreeOK' /\ FilesTyped' /\ CallsTyped' /\ UNCHANGED <<data, call, disturbed, torn>>
<1>1. Above[p] \cup {p} \in SUBSET Dirs /\ \A d \in Above[p] \cup {p} : Above[d] \subseteq Above[p] \cup {p}
  BY PathsAbove DEF DirectoryPaths, Dirs
<1>2. TreeOK'
  BY <1>1, MkdirInTree DEF MakeDirectory, LocalTyped
<1> QED
  BY <1>2 DEF MakeDirectory, LocalTyped, FilesTyped, CallsTyped

\* What a walk has become after it has read directory d.
WalkedOn(r, d) == [r EXCEPT !.todo = (@ \ {d}) \cup (Children[d] \cap Directories),
                            !.seen = @ \cup listShallow(d, r.want)]
Answering(r, seen, result) ==
  [Idle EXCEPT !.op = "list", !.step = "done", !.path = r.path, !.want = r.want,
               !.seen = seen, !.result = result]

LEMMA ListDeepOK ==
  ASSUME LocalTyped, NEW c \in Clients, listDeep(c)
  PROVE  /\ TreeOK' /\ FilesTyped' /\ CallsTyped' /\ NamesOnly(c) /\ UNCHANGED node
         /\ call[c].op = "list" /\ call[c].step = "walk"
         /\ \/ \E d \in call[c].todo :
                 IsDir(d) /\ call' = [call EXCEPT ![c] = WalkedOn(call[c], d)]
            \/ \E result : call' = [call EXCEPT ![c] = Answering(call[c], {}, result)]
            \/ call[c].todo = {} /\ call' = [call EXCEPT ![c] = Answering(call[c], call[c].seen, "ok")]
<1>1. /\ call[c].op = "list" /\ call[c].step = "walk"
      /\ UNCHANGED <<node, data, disturbed, torn>> /\ FilesTyped' /\ TreeOK'
      /\ call[c] \in LocalCalls /\ Shape(call[c])
      /\ call[c].in = None /\ call[c].out = None
  BY NothingOpen, SameTree DEF listDeep, At, LocalTyped, FilesTyped
<1>2. ASSUME NEW d \in call[c].todo, IsDir(d),
             call' = [call EXCEPT
                  ![c].todo = (@ \ {d}) \cup (Children[d] \cap Directories),
                  ![c].seen = @ \cup listShallow(d, call[c].want)]
      PROVE  CallsTyped' /\ NamesOnly(c) /\ call' = [call EXCEPT ![c] = WalkedOn(call[c], d)]
  <2>1. d \in Dirs
    BY <1>1 DEF LocalCalls
  <2>2. Children[d] \subseteq Paths
    BY <2>1 DEF Children, Inside
  <2>3. listShallow(d, call[c].want) \subseteq Paths
    BY <2>2 DEF listShallow
  <2>4. call' = [call EXCEPT ![c] = WalkedOn(call[c], d)]
    BY <1>2 DEF LocalTyped, CallsTyped, LocalCalls, WalkedOn
  <2>5. WalkedOn(call[c], d) \in LocalCalls
    BY <1>1, <2>2, <2>3 DEF LocalCalls, WalkedOn, Dirs
  <2>6. /\ WalkedOn(call[c], d).in = None /\ WalkedOn(call[c], d).out = None
        /\ WalkedOn(call[c], d).op = call[c].op
    BY <1>1 DEF LocalCalls, WalkedOn
  <2>7. Shape(WalkedOn(call[c], d))
    BY <1>1 DEF LocalCalls, WalkedOn, Shape
  <2> QED
    BY <1>1, <2>4, <2>5, <2>6, <2>7, OneLocalCall DEF LocalTyped, NamesOnly
<1>3. ASSUME NEW seen \in SUBSET Paths, NEW result \in {"ok", "error"}, Answer(c, seen, result)
      PROVE  /\ CallsTyped' /\ NamesOnly(c)
             /\ call' = [call EXCEPT ![c] = Answering(call[c], seen, result)]
  <2> DEFINE r == Answering(call[c], seen, result)
  <2>1. r \in LocalCalls
    BY <1>1, IdleOK DEF Answering, Idle, LocalCalls, LocalOps, LocalSteps
  <2>2. /\ r.in = None /\ r.out = None /\ r.op = "list" /\ r.step = "done"
    BY DEF Answering, Idle
  <2>3. Shape(r)
    BY <2>2, LocalAssumption DEF Shape
  <2>4. call' = [call EXCEPT ![c] = r]
    BY <1>3 DEF Answer, Answering
  <2> QED
    BY <1>1, <2>1, <2>2, <2>3, <2>4, OneLocalCall DEF LocalTyped, NamesOnly
<1>4. call[c].seen \in SUBSET Paths
  BY <1>1 DEF LocalCalls
<1>5. CASE \E result \in {"ok", "error"} : Answer(c, {}, result)
  BY <1>1, <1>3, <1>5
<1>6. CASE call[c].todo = {} /\ Answer(c, call[c].seen, "ok")
  BY <1>1, <1>3, <1>4, <1>6
<1> QED
  BY <1>1, <1>2, <1>5, <1>6 DEF listDeep

LEMMA ReturnOK ==
  ASSUME LocalTyped, NEW c \in Clients, Return(c)
  PROVE  /\ TreeOK' /\ FilesTyped' /\ CallsTyped' /\ UNCHANGED <<node, data, torn>>
         /\ call' = [call EXCEPT ![c] = Idle] /\ disturbed' = [disturbed EXCEPT ![c] = FALSE]
         /\ call[c].in = None /\ call[c].out = None
<1>1. call[c].in = None /\ call[c].out = None
  BY DEF Return, LocalTyped, CallsTyped, LocalCalls, Shape
<1>2. CallsTyped'
  BY IdleOK, OneLocalCall DEF Return, LocalTyped
<1> QED
  BY <1>1, <1>2, SameTree DEF Return, LocalTyped, FilesTyped

-----------------------------------------------------------------------------
(* What the files of a local disk hold.                                    *)

Whole(f) == \E v \in Values : f = Bytes(v)
\* The first n chunks of a content.
FirstChunks(f, n) == [i \in 1..Chunks |-> IF i <= n THEN f[i] ELSE End]

LEMMA WholeIsContent == \A f : Whole(f) => f \in Contents
BY BytesOK DEF Whole

LEMMA NoChunks == \A f : FirstChunks(f, 0) = Empty
BY DEF FirstChunks, Empty

\* A chunk read and written, or added to what was read, is one more of them.
LEMMA OneMoreChunk ==
  ASSUME NEW f, Whole(f), NEW n \in 0..Chunks, ChunkAt(f, n) # End
  PROVE  /\ WriteAt(FirstChunks(f, n), n + 1, ChunkAt(f, n)) = FirstChunks(f, n + 1)
         /\ [FirstChunks(f, n) EXCEPT ![n + 1] = ChunkAt(f, n)] = FirstChunks(f, n + 1)
<1>1. PICK v \in Values : f = Bytes(v)
  BY DEF Whole
<1>2. n < Chunks /\ ChunkAt(f, n) = f[n + 1] /\ f \in Contents
  BY WholeIsContent, ChunkOK
<1>3. Length[v] \in Nat /\ n + 1 \in 1..Chunks /\ v # End
  BY <1>2, LocalAssumption
<1>4. \A i \in 1..Chunks : f[i] = IF i <= Length[v] THEN v ELSE End
  BY <1>1 DEF Bytes
<1>5. n + 1 <= Length[v]
  BY <1>2, <1>3, <1>4
<1>6. \A i \in 1..Chunks : i <= n => f[i] # End
  BY <1>3, <1>4, <1>5
<1>7. WriteAt(FirstChunks(f, n), n + 1, ChunkAt(f, n)) = FirstChunks(f, n + 1)
  BY <1>2, <1>6 DEF WriteAt, FirstChunks
<1>8. [FirstChunks(f, n) EXCEPT ![n + 1] = ChunkAt(f, n)] = FirstChunks(f, n + 1)
  <2>1. \A i \in 1..Chunks :
          (IF i = n + 1 THEN ChunkAt(f, n) ELSE IF i <= n THEN f[i] ELSE End)
            = IF i <= n + 1 THEN f[i] ELSE End
    BY <1>2
  <2> QED
    BY <2>1 DEF FirstChunks
<1> QED
  BY <1>7, <1>8

LEMMA AllChunks ==
  ASSUME NEW f, Whole(f), NEW n \in 0..Chunks, ChunkAt(f, n) = End
  PROVE  FirstChunks(f, n) = f
<1>1. PICK v \in Values : f = Bytes(v)
  BY DEF Whole
<1>2. f \in Contents /\ (n = Chunks \/ f[n + 1] = End)
  BY WholeIsContent, ChunkOK
<1>3. Length[v] \in Nat /\ v # End /\ Chunks \in Nat
  BY LocalAssumption
<1>4. \A i \in 1..Chunks : f[i] = IF i <= Length[v] THEN v ELSE End
  BY <1>1 DEF Bytes
<1>5. n = Chunks \/ n + 1 > Length[v]
  BY <1>2, <1>3, <1>4
<1>6. \A i \in 1..Chunks : (IF i <= n THEN f[i] ELSE End) = f[i]
  BY <1>3, <1>4, <1>5
<1> QED
  BY <1>2, <1>6 DEF FirstChunks, Contents

\* What a Put or Copy writes: nothing when its source is a directory.
Source(r) ==
  IF r.op = "put" THEN Bytes(r.value) ELSE IF r.in = None THEN Empty ELSE data[r.in]
HasSource(r) == r.op = "copy" => r.in # None

\* A file that nobody is writing and whose last write went well is whole.
Settled == \A i \in Inodes : ~torn[i] /\ ~Writing(i) => Whole(data[i])
\* An undisturbed call reads a settled file, ...
ReadsSettled(c) == call[c].in \in Inodes => ~torn[call[c].in] /\ ~Writing(call[c].in)
\* ... is alone in writing its file, which holds what has been written, ...
WritesAlone(c) ==
  call[c].out \in Inodes =>
    /\ \A k \in Clients \ {c} : call[k].out # call[c].out
    /\ data[call[c].out] = FirstChunks(Source(call[c]), call[c].at)
\* ... and has got what it has read, which is a whole file at the end.
GetsWhole(c) ==
  call[c].op = "get" =>
    /\ call[c].step = "read" => call[c].got = FirstChunks(data[call[c].in], call[c].at)
    /\ call[c].result = "ok" => Whole(call[c].got)

Undisturbed(c) == ReadsSettled(c) /\ WritesAlone(c) /\ GetsWhole(c)
FilesOK == Settled /\ \A c \in Clients : ~disturbed[c] => Undisturbed(c)

LEMMA FilesAreWhole == LocalTyped /\ FilesOK => SettledFilesAreWhole /\ ReadsAreWhole
BY DEF LocalTyped, TreeOK, FilesOK, Settled, Whole, SettledFilesAreWhole, ReadsAreWhole, Files,
       IsFile, Undisturbed, GetsWhole

LEMMA SourceIsWhole ==
  ASSUME LocalTyped, FilesOK, NEW c \in Clients, ~disturbed[c], call[c].step = "write",
         HasSource(call[c])
  PROVE  Whole(Source(call[c])) /\ (call[c].op = "copy" => call[c].in # call[c].out)
<1>1. /\ Shape(call[c]) /\ call[c].op \in {"put", "copy"} /\ Undisturbed(c)
      /\ call[c].out \in Inodes /\ call[c].in \in Inodes \cup {None} /\ None \notin Inodes
  BY LocalAssumption DEF LocalTyped, CallsTyped, LocalCalls, Shape, FilesOK
<1>2. CASE call[c].op = "put"
  BY <1>1, <1>2 DEF Shape, Source, Whole
<1>3. CASE call[c].op = "copy"
  <2>1. call[c].in \in Inodes
    BY <1>1, <1>3 DEF HasSource
  <2>2. ~torn[call[c].in] /\ ~Writing(call[c].in)
    BY <1>1, <2>1 DEF Undisturbed, ReadsSettled
  <2> QED
    BY <1>1, <1>3, <2>1, <2>2 DEF FilesOK, Settled, Source, Writing
<1> QED
  BY <1>1, <1>2, <1>3

\* A step that opens, writes and reads nothing.
LEMMA QuietFiles ==
  ASSUME LocalTyped, FilesOK, NEW c \in Clients, NEW r, call' = [call EXCEPT ![c] = r],
         UNCHANGED <<data, torn>>, call[c].out = None, r.out = None,
         \A k \in Clients \ {c} : disturbed'[k] = disturbed[k],
         r.in \in Inodes => r.in = call[c].in /\ disturbed'[c] = disturbed[c],
         r.op = "get" => r.step # "read" /\ r.result # "ok"
  PROVE  FilesOK'
<1>1. \A k \in Clients : call'[k] = IF k = c THEN r ELSE call[k]
  BY DEF LocalTyped, CallsTyped
<1>2. None \notin Inodes
  BY LocalAssumption
<1>3. \A i \in Inodes : Writing(i)' <=> Writing(i)
  BY <1>1, <1>2 DEF Writing
<1>4. Settled'
  BY <1>3 DEF FilesOK, Settled, Whole
<1>5. ASSUME NEW k \in Clients, k # c, ~disturbed'[k]
      PROVE  Undisturbed(k)'
  <2>1. Undisturbed(k) /\ call'[k] = call[k]
    BY <1>1, <1>5 DEF FilesOK
  <2>2. ReadsSettled(k)'
    BY <1>3, <2>1 DEF Undisturbed, ReadsSettled
  <2>3. WritesAlone(k)'
    BY <1>1, <1>2, <2>1 DEF Undisturbed, WritesAlone, Source
  <2>4. GetsWhole(k)'
    BY <2>1 DEF Undisturbed, GetsWhole, Whole
  <2> QED
    BY <2>2, <2>3, <2>4 DEF Undisturbed
<1>6. ASSUME ~disturbed'[c]
      PROVE  Undisturbed(c)'
  <2>1. ReadsSettled(c)'
    BY <1>1, <1>3, <1>6 DEF FilesOK, Undisturbed, ReadsSettled
  <2>2. WritesAlone(c)' /\ GetsWhole(c)'
    BY <1>1, <1>2 DEF WritesAlone, GetsWhole
  <2> QED
    BY <2>1, <2>2 DEF Undisturbed
<1> QED
  BY <1>4, <1>5, <1>6 DEF FilesOK

LEMMA CreateFiles ==
  ASSUME LocalTyped, FilesOK, NEW c \in Clients, call[c].step = "create",
         call[c].op \in {"put", "copy"}, NEW i \in Inodes,
         data' = [data EXCEPT ![i] = Empty], Disturb(c, i), UNCHANGED torn,
         call' = [call EXCEPT ![c] = Created(call[c], i)]
  PROVE  FilesOK'
<1> DEFINE r == Created(call[c], i)
<1>1. call[c] \in LocalCalls /\ Shape(call[c])
  BY DEF LocalTyped, CallsTyped
<1>2. /\ r.out = i /\ r.in = call[c].in /\ r.at = 0 /\ r.op = call[c].op
      /\ r.value = call[c].value
  BY <1>1 DEF Created, LocalCalls, Shape
<1> HIDE DEF r
<1>3. \A k \in Clients : call'[k] = IF k = c THEN r ELSE call[k]
  BY DEF LocalTyped, CallsTyped, r
<1>4. call[c].out = None /\ None \notin Inodes
  BY <1>1, LocalAssumption DEF LocalCalls, Shape
<1>5. \A j \in Inodes : Writing(j)' <=> Writing(j) \/ j = i
  BY <1>2, <1>3, <1>4 DEF Writing
<1>6. \A j \in Inodes : data'[j] = IF j = i THEN Empty ELSE data[j]
  BY DEF LocalTyped, FilesTyped
<1>7. Settled'
  BY <1>5, <1>6 DEF FilesOK, Settled, Whole
<1>8. ASSUME NEW k \in Clients, k # c, ~disturbed'[k]
      PROVE  Undisturbed(k)'
  <2>1. Undisturbed(k) /\ call'[k] = call[k] /\ call[k].in # i /\ call[k].out # i
    BY <1>3, <1>8 DEF FilesOK, Disturb
  <2>2. ReadsSettled(k)'
    BY <1>5, <2>1 DEF Undisturbed, ReadsSettled
  <2>3. Shape(call[k])
    BY DEF LocalTyped, CallsTyped
  <2>4. call[k].out \in Inodes => Source(call[k])' = Source(call[k])
    BY <1>6, <2>1, <2>3 DEF Source, Shape
  <2>5. WritesAlone(k)'
    BY <1>2, <1>3, <1>6, <2>1, <2>4 DEF Undisturbed, WritesAlone, Source
  <2>6. GetsWhole(k)'
    BY <1>6, <2>1, <2>3 DEF Undisturbed, GetsWhole, Whole, Shape
  <2> QED
    BY <2>2, <2>5, <2>6 DEF Undisturbed
<1>9. ASSUME ~disturbed'[c]
      PROVE  Undisturbed(c)'
  <2>1. ~disturbed[c] /\ call[c].in # i /\ ~Writing(i)
    BY <1>9 DEF Disturb
  <2>2. ReadsSettled(c)'
    BY <1>2, <1>3, <1>5, <2>1 DEF FilesOK, Undisturbed, ReadsSettled
  <2>3. WritesAlone(c)'
    <3>1. \A k \in Clients \ {c} : call'[k].out # i
      BY <1>3, <2>1 DEF Writing
    <3>2. data'[i] = FirstChunks(Source(call[c])', 0)
      BY <1>6, NoChunks
    <3> QED
      BY <1>2, <1>3, <1>6, <3>1, NoChunks DEF WritesAlone
  <2>4. GetsWhole(c)'
    BY <1>2, <1>3 DEF GetsWhole
  <2> QED
    BY <2>2, <2>3, <2>4 DEF Undisturbed
<1> QED
  BY <1>7, <1>8, <1>9 DEF FilesOK

\* The end of a write, whether it went well or not.
LEMMA WriteEndFiles ==
  ASSUME LocalTyped, FilesOK, NEW c \in Clients, call[c].step = "write",
         NEW failed \in BOOLEAN, torn' = [torn EXCEPT ![call[c].out] = failed],
         disturbed[c] => failed,
         ~failed => HasSource(call[c]) /\ data[call[c].out] = Source(call[c]),
         NEW result, call' = [call EXCEPT ![c] = Finished(call[c], result)],
         UNCHANGED <<data, disturbed>>
  PROVE  FilesOK'
<1> DEFINE i == call[c].out
           r == Finished(call[c], result)
<1>1. Shape(call[c]) /\ i \in Inodes /\ call[c].op \in {"put", "copy"}
  BY DEF LocalTyped, CallsTyped, Shape
<1>2. r.out = None /\ r.in = None /\ r.op = call[c].op
  BY DEF Finished, Idle
<1> HIDE DEF r
<1>3. \A k \in Clients : call'[k] = IF k = c THEN r ELSE call[k]
  BY DEF LocalTyped, CallsTyped, r
<1>4. None \notin Inodes
  BY LocalAssumption
<1>5. \A j \in Inodes : /\ Writing(j)' => Writing(j)
                        /\ j # i => (Writing(j)' <=> Writing(j))
  BY <1>2, <1>3, <1>4 DEF Writing
<1>6. \A j \in Inodes : torn'[j] = IF j = i THEN failed ELSE torn[j]
  BY DEF LocalTyped, FilesTyped
<1>7. ~failed => Whole(data[i])
  BY <1>1, SourceIsWhole
<1>8. Settled'
  <2> SUFFICES ASSUME NEW j \in Inodes, ~torn'[j], ~Writing(j)'
               PROVE  Whole(data[j])
    BY DEF Settled, Whole
  <2>1. CASE j = i
    BY <1>6, <1>7, <2>1
  <2>2. CASE j # i
    BY <1>5, <1>6, <2>2 DEF FilesOK, Settled
  <2> QED
    BY <2>1, <2>2
<1>9. ASSUME NEW k \in Clients, k # c, ~disturbed'[k]
      PROVE  Undisturbed(k)'
  <2>1. Undisturbed(k) /\ call'[k] = call[k]
    BY <1>3, <1>9 DEF FilesOK
  <2>2. call[k].in \in Inodes => call[k].in # i
    BY <1>1, <2>1 DEF Undisturbed, ReadsSettled, Writing
  <2>3. ReadsSettled(k)'
    BY <1>5, <1>6, <2>1, <2>2 DEF Undisturbed, ReadsSettled
  <2>4. WritesAlone(k)'
    BY <1>2, <1>3, <1>4, <2>1 DEF Undisturbed, WritesAlone, Source
  <2>5. GetsWhole(k)'
    BY <2>1 DEF Undisturbed, GetsWhole, Whole
  <2> QED
    BY <2>3, <2>4, <2>5 DEF Undisturbed
<1>10. Undisturbed(c)'
  BY <1>1, <1>2, <1>3, <1>4 DEF Undisturbed, ReadsSettled, WritesAlone, GetsWhole
<1> QED
  BY <1>8, <1>9, <1>10 DEF FilesOK

LEMMA WriteChunkFiles ==
  ASSUME LocalTyped, FilesOK, NEW c \in Clients, call[c].step = "write", HasSource(call[c]),
         NEW chunk, chunk = ChunkAt(Source(call[c]), call[c].at), chunk # End,
         data' = [data EXCEPT ![call[c].out] = WriteAt(@, call[c].at + 1, chunk)],
         call' = [call EXCEPT ![c].at = @ + 1],
         UNCHANGED <<torn, disturbed>>
  PROVE  FilesOK'
<1> DEFINE i == call[c].out
           r == [call[c] EXCEPT !.at = @ + 1]
<1>1. Shape(call[c]) /\ i \in Inodes /\ call[c].op \in {"put", "copy"} /\ call[c] \in LocalCalls
  BY DEF LocalTyped, CallsTyped, Shape
<1>2. /\ r.out = i /\ r.in = call[c].in /\ r.op = call[c].op /\ r.at = call[c].at + 1
      /\ r.value = call[c].value
  BY <1>1 DEF LocalCalls
<1>3. \A k \in Clients : call'[k] = IF k = c THEN r ELSE call[k]
  BY DEF LocalTyped, CallsTyped, LocalCalls
<1> HIDE DEF r
<1>4. \A j \in Inodes : Writing(j)' <=> Writing(j)
  BY <1>2, <1>3 DEF Writing
<1>5. /\ \A j \in Inodes : j # i => data'[j] = data[j]
      /\ data'[i] = WriteAt(data[i], call[c].at + 1, chunk)
  BY <1>1 DEF LocalTyped, FilesTyped
<1>6. Writing(i)
  BY DEF Writing
<1>7. Settled'
  BY <1>4, <1>5, <1>6 DEF FilesOK, Settled, Whole
<1>8. ASSUME NEW k \in Clients, k # c, ~disturbed'[k]
      PROVE  Undisturbed(k)'
  <2>1. /\ Undisturbed(k) /\ call'[k] = call[k] /\ Shape(call[k])
        /\ call[k].in \in Inodes \cup {None}
    BY <1>3, <1>8 DEF FilesOK, LocalTyped, CallsTyped, LocalCalls
  <2>2. /\ call[k].in \in Inodes => call[k].in # i
        /\ call[k].out \in Inodes => call[k].out # i
    BY <1>6, <1>8, <2>1 DEF Undisturbed, ReadsSettled, WritesAlone
  <2>3. ReadsSettled(k)'
    BY <1>4, <2>1 DEF Undisturbed, ReadsSettled
  <2>4. call[k].out \in Inodes => Source(call[k])' = Source(call[k])
    BY <1>5, <2>1, <2>2 DEF Source
  <2>5. WritesAlone(k)'
    BY <1>2, <1>3, <1>5, <2>1, <2>2, <2>4 DEF Undisturbed, WritesAlone, Source
  <2>6. GetsWhole(k)'
    BY <1>5, <2>1, <2>2 DEF Undisturbed, GetsWhole, Whole, Shape
  <2> QED
    BY <2>3, <2>5, <2>6 DEF Undisturbed
<1>9. ASSUME ~disturbed'[c]
      PROVE  Undisturbed(c)'
  <2>1. Undisturbed(c) /\ ~disturbed[c]
    BY <1>9 DEF FilesOK
  <2>2. Whole(Source(call[c])) /\ (call[c].op = "copy" => call[c].in # i)
    BY <2>1, SourceIsWhole
  <2>3. ReadsSettled(c)'
    BY <1>2, <1>3, <1>4, <2>1 DEF Undisturbed, ReadsSettled
  <2>4. data'[i] = FirstChunks(Source(call[c]), call[c].at + 1)
    <3>1. data[i] = FirstChunks(Source(call[c]), call[c].at)
      BY <1>1, <2>1 DEF Undisturbed, WritesAlone
    <3>2. PICK n \in 0..Chunks : n = call[c].at
      BY <1>1 DEF LocalCalls
    <3>3. PICK f : f = Source(call[c])
      OBVIOUS
    <3>4. WriteAt(FirstChunks(f, n), n + 1, ChunkAt(f, n)) = FirstChunks(f, n + 1)
      BY <2>2, <3>2, <3>3, OneMoreChunk
    <3> QED
      BY <1>5, <3>1, <3>2, <3>3, <3>4
  <2>5. Source(call[c])' = Source(call[c])
    <3>1. CASE call[c].op = "put"
      BY <1>2, <1>3, <3>1 DEF Source
    <3>2. CASE call[c].op = "copy"
      BY <1>1, <1>2, <1>3, <1>5, <2>2, <3>2 DEF Source, Shape
    <3> QED
      BY <1>1, <3>1, <3>2
  <2>6. WritesAlone(c)'
    <3>1. \A k \in Clients \ {c} : call'[k].out # i
      BY <1>1, <1>3, <2>1 DEF Undisturbed, WritesAlone
    <3> QED
      BY <1>2, <1>3, <2>4, <2>5, <3>1 DEF WritesAlone
  <2>7. GetsWhole(c)'
    BY <1>1, <1>2, <1>3 DEF GetsWhole
  <2> QED
    BY <2>3, <2>6, <2>7 DEF Undisturbed
<1> QED
  BY <1>7, <1>8, <1>9 DEF FilesOK

LEMMA OpenFiles ==
  ASSUME LocalTyped, FilesOK, NEW c \in Clients, call[c].step = "open",
         NEW i \in Inodes, NEW next,
         \/ call[c].op = "get" /\ next = "read"
         \/ call[c].op = "copy" /\ next = "parent",
         disturbed' = [disturbed EXCEPT ![c] = torn[i] \/ Writing(i)],
         UNCHANGED <<data, torn>>,
         call' = [call EXCEPT ![c] = Opened(call[c], next, i)]
  PROVE  FilesOK'
<1> DEFINE r == Opened(call[c], next, i)
<1>1. call[c] \in LocalCalls /\ Shape(call[c]) /\ call[c].out = None /\ None \notin Inodes
  BY LocalAssumption DEF LocalTyped, CallsTyped, LocalCalls, Shape
<1>2. /\ r.in = i /\ r.out = None /\ r.at = 0 /\ r.got = Empty /\ r.op = call[c].op
      /\ r.result # "ok"
  BY <1>1 DEF Opened, LocalCalls, Shape
<1> HIDE DEF r
<1>3. \A k \in Clients : call'[k] = IF k = c THEN r ELSE call[k]
  BY DEF LocalTyped, CallsTyped, r
<1>4. \A j \in Inodes : Writing(j)' <=> Writing(j)
  BY <1>1, <1>2, <1>3 DEF Writing
<1>5. Settled'
  BY <1>4 DEF FilesOK, Settled, Whole
<1>6. ASSUME NEW k \in Clients, k # c, ~disturbed'[k]
      PROVE  Undisturbed(k)'
  <2>1. Undisturbed(k) /\ call'[k] = call[k]
    BY <1>3, <1>6 DEF FilesOK
  <2>2. ReadsSettled(k)'
    BY <1>4, <2>1 DEF Undisturbed, ReadsSettled
  <2>3. WritesAlone(k)'
    BY <1>1, <1>2, <1>3, <2>1 DEF Undisturbed, WritesAlone, Source
  <2>4. GetsWhole(k)'
    BY <2>1 DEF Undisturbed, GetsWhole, Whole
  <2> QED
    BY <2>2, <2>3, <2>4 DEF Undisturbed
<1>7. ASSUME ~disturbed'[c]
      PROVE  Undisturbed(c)'
  <2>1. ~torn[i] /\ ~Writing(i)
    BY <1>7 DEF LocalTyped, FilesTyped
  <2>2. ReadsSettled(c)'
    BY <1>2, <1>3, <1>4, <2>1 DEF ReadsSettled
  <2>3. WritesAlone(c)' /\ GetsWhole(c)'
    BY <1>1, <1>2, <1>3, NoChunks DEF WritesAlone, GetsWhole
  <2> QED
    BY <2>2, <2>3 DEF Undisturbed
<1> QED
  BY <1>5, <1>6, <1>7 DEF FilesOK

LEMMA ReadFiles ==
  ASSUME LocalTyped, FilesOK, NEW c \in Clients, call[c].op = "get", call[c].step = "read",
         UNCHANGED <<data, disturbed, torn>>, NEW chunk,
         chunk = ChunkAt(data[call[c].in], call[c].at),
         \/ chunk # End /\ call' = [call EXCEPT ![c] = Taken(call[c], chunk)]
         \/ chunk = End /\ call' = [call EXCEPT ![c] = Finished(call[c], "ok")]
  PROVE  FilesOK'
<1> DEFINE i == call[c].in
<1>1. /\ call[c] \in LocalCalls /\ Shape(call[c]) /\ call[c].out = None
      /\ None \notin Inodes /\ i \in Inodes
  BY LocalAssumption DEF LocalTyped, CallsTyped, LocalCalls, Shape
<1>2. PICK r : /\ r \in {Taken(call[c], chunk), Finished(call[c], "ok")}
               /\ call' = [call EXCEPT ![c] = r]
               /\ chunk # End => r = Taken(call[c], chunk)
               /\ chunk = End => r = Finished(call[c], "ok")
  OBVIOUS
<1>3. r.out = None /\ r.op = "get" /\ r.in \in {i, None}
  BY ZenonT(30), <1>1, <1>2 DEF Taken, Finished, Idle, LocalCalls
<1>4. \A k \in Clients : call'[k] = IF k = c THEN r ELSE call[k]
  BY <1>2 DEF LocalTyped, CallsTyped
<1>5. \A j \in Inodes : Writing(j)' <=> Writing(j)
  BY <1>1, <1>3, <1>4 DEF Writing
<1>6. Settled'
  BY <1>5 DEF FilesOK, Settled, Whole
<1>7. ASSUME NEW k \in Clients, k # c, ~disturbed'[k]
      PROVE  Undisturbed(k)'
  <2>1. Undisturbed(k) /\ call'[k] = call[k]
    BY <1>4, <1>7 DEF FilesOK
  <2>2. ReadsSettled(k)'
    BY <1>5, <2>1 DEF Undisturbed, ReadsSettled
  <2>3. WritesAlone(k)'
    BY <1>1, <1>3, <1>4, <2>1 DEF Undisturbed, WritesAlone, Source
  <2>4. GetsWhole(k)'
    BY <2>1 DEF Undisturbed, GetsWhole, Whole
  <2> QED
    BY <2>2, <2>3, <2>4 DEF Undisturbed
<1>8. ASSUME ~disturbed'[c]
      PROVE  Undisturbed(c)'
  <2>1. Undisturbed(c)
    BY <1>8 DEF FilesOK
  <2>2. PICK f : f = data[i]
    OBVIOUS
  <2>3. PICK n \in 0..Chunks : n = call[c].at
    BY <1>1 DEF LocalCalls
  <2>4. Whole(f) /\ call[c].got = FirstChunks(f, n) /\ chunk = ChunkAt(f, n)
    BY <1>1, <2>1, <2>2, <2>3 DEF FilesOK, Settled, Undisturbed, ReadsSettled, GetsWhole
  <2>5. ReadsSettled(c)' /\ WritesAlone(c)'
    BY <1>1, <1>3, <1>4, <1>5, <2>1 DEF Undisturbed, ReadsSettled, WritesAlone
  <2>6. CASE chunk # End
    <3>1. [FirstChunks(f, n) EXCEPT ![n + 1] = chunk] = FirstChunks(f, n + 1)
      BY <2>4, <2>6, OneMoreChunk
    <3>2. /\ r.got = [call[c].got EXCEPT ![call[c].at + 1] = chunk]
          /\ r.at = call[c].at + 1 /\ r.in = i /\ r.result = call[c].result
      BY <1>1, <1>2, <2>6 DEF Taken, LocalCalls
    <3>3. r.got = FirstChunks(f, n + 1)
      BY <2>3, <2>4, <3>1, <3>2
    <3>4. r.result # "ok"
      BY <1>1, <3>2 DEF Shape
    <3> QED
      BY <1>4, <2>2, <2>3, <2>5, <3>2, <3>3, <3>4 DEF Undisturbed, GetsWhole
  <2>7. CASE chunk = End
    <3>1. call[c].got = f
      BY <2>4, <2>7, AllChunks
    <3>2. r.got = call[c].got /\ r.step = "done"
      BY <1>2, <2>7 DEF Finished, Idle
    <3> QED
      BY <1>4, <2>4, <2>5, <3>1, <3>2 DEF Undisturbed, GetsWhole, Whole
  <2> QED
    BY <2>6, <2>7
<1> QED
  BY <1>6, <1>7, <1>8 DEF FilesOK

\* The steps that have no file open, and those that end a call.
LEMMA NamesOnlyFiles ==
  ASSUME LocalTyped, FilesOK, NEW c \in Clients, NamesOnly(c), call[c].op # "get"
  PROVE  FilesOK'
BY LocalAssumption, QuietFiles DEF NamesOnly

LEMMA FinishedFiles ==
  ASSUME LocalTyped, FilesOK, NEW c \in Clients, UNCHANGED <<data, disturbed, torn>>,
         call[c].out = None, NEW result, result # "ok",
         call' = [call EXCEPT ![c] = Finished(call[c], result)]
  PROVE  FilesOK'
<1>1. /\ Finished(call[c], result).in = None /\ Finished(call[c], result).out = None
      /\ Finished(call[c], result).step = "done" /\ Finished(call[c], result).result = result
  BY DEF Finished, Idle
<1> QED
  BY <1>1, LocalAssumption, QuietFiles

LEMMA EnsureParentFiles ==
  ASSUME LocalTyped, FilesOK, NEW c \in Clients, UNCHANGED <<data, disturbed, torn>>,
         call[c].step = "parent", call[c].op \in {"put", "copy"},
         \/ call' = [call EXCEPT ![c] = Moved(call[c], "create")]
         \/ call' = [call EXCEPT ![c] = Finished(call[c], "error")]
  PROVE  FilesOK'
<1>1. call[c] \in LocalCalls /\ call[c].out = None
  BY DEF LocalTyped, CallsTyped, LocalCalls, Shape
<1>2. /\ Moved(call[c], "create").in = call[c].in /\ Moved(call[c], "create").out = None
      /\ Moved(call[c], "create").op # "get"
  BY <1>1 DEF Moved, LocalCalls
<1> QED
  BY <1>1, <1>2, FinishedFiles, QuietFiles

-----------------------------------------------------------------------------
(* Walks.                                                                  *)

\* Whatever has been there since a walk began is listed, or lies in a
\* directory that is still to be read.
Walk(c) ==
  call[c].op = "list" =>
    /\ steady[c] \subseteq Wanted(call[c].want)
    /\ call[c].step = "walk" =>
         \A p \in steady[c] : p \in call[c].seen \/ \E d \in call[c].todo : d \in Above[p]
    /\ call[c].step = "done" => call[c].seen = {} \/ steady[c] \subseteq call[c].seen
WalksOK == \A c \in Clients : Walk(c)

LEMMA WalksList == WalksOK => ListsAllOrNothing
BY DEF WalksOK, Walk, ListsAllOrNothing

LEMMA StillWanted ==
  ASSUME TreeOK, NEW p \in Paths, NEW want, p \in Wanted(want), node'[p] = node[p]
  PROVE  p \in Wanted(want)'
BY DEF Wanted, Files, Directories, IsFile

LEMMA StillWalks ==
  ASSUME LocalTyped, NEW k \in Clients, Walk(k), call'[k] = call[k], KeepSteady
  PROVE  Walk(k)'
<1> SUFFICES ASSUME call[k].op = "list"
             PROVE  Walk(k)'
  BY DEF Walk
<1>1. steady'[k] = {p \in steady[k] : node'[p] = node[p]} /\ steady[k] \subseteq Paths
  BY DEF KeepSteady, LocalTyped
<1>2. steady'[k] \subseteq Wanted(call[k].want)'
  BY <1>1, StillWanted DEF Walk, LocalTyped
<1> QED
  BY <1>1, <1>2 DEF Walk

LEMMA BeginsToWalk ==
  ASSUME LocalTyped, NEW c \in Clients, NEW r \in LocalCalls, call[c] = Idle, UNCHANGED node,
         call'[c] = r, r.op = "list", r.todo = {r.path}, r.step = "walk", KeepSteady
  PROVE  Walk(c)'
<1>1. call[c].op # "list"
  BY DEF Idle
<1>2. steady'[c] = Inside[r.path] \cap Wanted(r.want)
  BY <1>1 DEF KeepSteady
<1>3. Wanted(r.want)' = Wanted(r.want)
  BY DEF Wanted, Files, Directories, IsFile
<1>4. r.path \in Dirs
  BY DEF LocalCalls
<1>5. \A p \in steady'[c] : r.path \in Above[p]
  BY <1>2, <1>4 DEF Inside
<1> QED
  BY <1>2, <1>3, <1>5 DEF Walk

LEMMA WalksOn ==
  ASSUME LocalTyped, NEW c \in Clients, Walk(c), listDeep(c), KeepSteady
  PROVE  Walk(c)'
<1>1. /\ UNCHANGED node /\ call[c].op = "list" /\ call[c].step = "walk"
      /\ \/ \E d \in call[c].todo :
              IsDir(d) /\ call' = [call EXCEPT ![c] = WalkedOn(call[c], d)]
         \/ \E result : call' = [call EXCEPT ![c] = Answering(call[c], {}, result)]
         \/ call[c].todo = {} /\ call' = [call EXCEPT ![c] = Answering(call[c], call[c].seen, "ok")]
  BY ListDeepOK
<1>2. call[c] \in LocalCalls /\ call \in [Clients -> LocalCalls] /\ steady[c] \subseteq Paths
  BY DEF LocalTyped, CallsTyped
<1>3. \A p \in steady[c] : p \in Wanted(call[c].want)
  BY <1>1 DEF Walk
<1>4. ASSUME NEW r, call' = [call EXCEPT ![c] = r], r.op = "list", r.want = call[c].want
      PROVE  /\ call'[c] = r /\ steady'[c] = steady[c]
             /\ steady'[c] \subseteq Wanted(r.want)'
  <2>1. call'[c] = r
    BY <1>2, <1>4
  <2>2. steady'[c] = steady[c]
    BY <1>1, <1>2, <1>4, <2>1 DEF KeepSteady
  <2>3. Wanted(r.want)' = Wanted(r.want)
    BY <1>1 DEF Wanted, Files, Directories, IsFile
  <2> QED
    BY <1>3, <1>4, <2>1, <2>2, <2>3
<1>5. ASSUME NEW d \in call[c].todo, IsDir(d), call' = [call EXCEPT ![c] = WalkedOn(call[c], d)]
      PROVE  Walk(c)'
  <2> PICK r : r = WalkedOn(call[c], d)
    OBVIOUS
  <2>1. /\ r.op = "list" /\ r.want = call[c].want /\ r.step = "walk"
        /\ r.todo = (call[c].todo \ {d}) \cup (Children[d] \cap Directories)
        /\ r.seen = call[c].seen \cup (Children[d] \cap Wanted(call[c].want))
    BY <1>1, <1>2, <1>5 DEF WalkedOn, LocalCalls, listShallow
  <2>2. d \in Dirs
    BY <1>2 DEF LocalCalls
  <2>3. ASSUME NEW p \in steady[c]
        PROVE  p \in r.seen \/ \E e \in r.todo : e \in Above[p]
    <3>1. CASE p \in call[c].seen
      BY <2>1, <3>1
    <3>2. CASE \E e \in call[c].todo \ {d} : e \in Above[p]
      BY <2>1, <3>2
    <3>3. CASE d \in Above[p]
      <4>1. p \in Paths /\ p \in Inside[d]
        BY <1>2, <2>2, <3>3 DEF Inside
      <4>2. PICK e \in Above[p] \cup {p} : Above[e] = Above[d] \cup {d}
        BY <3>3, <4>1, PathsAssumption
      <4>3. CASE e = p
        <5>1. p \in Children[d]
          BY <2>2, <4>1, <4>2, <4>3 DEF Children
        <5> QED
          BY <1>3, <2>1, <5>1
      <4>4. CASE e \in Above[p]
        <5>1. e \in Dirs /\ e # Root
          BY <4>1, <4>2, <4>4, PathsAbove, PathsAssumption DEF Dirs
        <5>2. e \in Children[d]
          BY <2>2, <4>2, <5>1 DEF Children, Inside, Dirs
        <5>3. Exists(p)
          BY <1>3, LocalAssumption DEF Wanted, Files, Directories, IsFile, Exists
        <5>4. node[e] = Directory
          BY <4>1, <4>4, <5>3 DEF LocalTyped, TreeOK, Reachable, IsDir
        <5>5. e \in r.todo
          BY <2>1, <5>1, <5>2, <5>4 DEF Directories, Dirs
        <5> QED
          BY <4>4, <5>5
      <4> QED
        BY <4>2, <4>3, <4>4
    <3> QED
      BY <1>1, <3>1, <3>2, <3>3 DEF Walk
  <2>4. call'[c] = r /\ steady'[c] = steady[c] /\ steady'[c] \subseteq Wanted(r.want)'
    BY <1>4, <1>5, <2>1
  <2> QED
    BY <2>1, <2>3, <2>4 DEF Walk
<1>6. ASSUME NEW seen, NEW result, call' = [call EXCEPT ![c] = Answering(call[c], seen, result)],
             seen = {} \/ (call[c].todo = {} /\ seen = call[c].seen)
      PROVE  Walk(c)'
  <2> PICK r : r = Answering(call[c], seen, result)
    OBVIOUS
  <2>1. r.op = "list" /\ r.want = call[c].want /\ r.step = "done" /\ r.seen = seen
    BY DEF Answering, Idle
  <2>2. seen = {} \/ steady[c] \subseteq seen
    BY <1>1, <1>6 DEF Walk
  <2>3. call'[c] = r /\ steady'[c] = steady[c] /\ steady'[c] \subseteq Wanted(r.want)'
    BY <1>4, <1>6, <2>1
  <2> QED
    BY <2>1, <2>2, <2>3 DEF Walk
<1> QED
  BY <1>1, <1>5, <1>6

-----------------------------------------------------------------------------
(* The steps of a call, together.                                          *)

\* A write that ends well has written what it was given.
WritesIt(c) ==
  call[c].step = "write" /\ call'[c].result = "ok" /\ ~disturbed[c]
    => HasSource(call[c]) /\ data'[call[c].out] = Source(call[c])

\* What a step of client c keeps.
KeepsFiles(c) ==
  /\ TreeOK' /\ FilesTyped' /\ CallsTyped' /\ FilesOK' /\ WritesIt(c)
  /\ \A k \in Clients \ {c} : call'[k] = call[k]

LEMMA WriteKeepsFiles ==
  ASSUME LocalTyped, FilesOK, NEW c \in Clients, call[c].step = "write",
         \/ HasSource(call[c]) /\ WriteChunk(c, ChunkAt(Source(call[c]), call[c].at))
         \/ WriteFails(c),
         UNCHANGED <<node, disturbed>>
  PROVE  KeepsFiles(c)
<1>1. /\ call[c] \in LocalCalls /\ Shape(call[c]) /\ call[c].op \in {"put", "copy"}
      /\ call[c].out \in Inodes /\ call \in [Clients -> LocalCalls]
      /\ disturbed[c] \in BOOLEAN
  BY DEF LocalTyped, CallsTyped, FilesTyped, Shape
<1>2. PICK f : f = Source(call[c])
  OBVIOUS
<1>3. f \in Contents
  <2>1. CASE call[c].op = "put"
    BY <1>1, <1>2, <2>1, BytesOK DEF Source, Shape
  <2>2. CASE call[c].op = "copy"
    BY <1>1, <1>2, <2>2, EmptyOK DEF Source, LocalCalls, LocalTyped, FilesTyped
  <2> QED
    BY <1>1, <2>1, <2>2
<1>4. PICK n \in 0..Chunks : n = call[c].at
  BY <1>1 DEF LocalCalls
<1>5. PICK chunk : chunk = ChunkAt(f, n)
  OBVIOUS
<1>6. chunk \in Chunk /\ (chunk # End => n < Chunks)
  BY <1>3, <1>5, ChunkOK
<1>7. (HasSource(call[c]) /\ WriteChunk(c, chunk)) \/ WriteFails(c)
  BY <1>2, <1>4, <1>5
<1>8. TreeOK' /\ FilesTyped' /\ CallsTyped'
  BY <1>4, <1>6, <1>7, WriteChunkOK
<1>9. ASSUME chunk # End, HasSource(call[c]),
             data' = [data EXCEPT ![call[c].out] = WriteAt(@, call[c].at + 1, chunk)],
             call' = [call EXCEPT ![c].at = @ + 1], UNCHANGED torn
      PROVE  KeepsFiles(c)
  <2>1. FilesOK'
    BY <1>2, <1>4, <1>5, <1>9, WriteChunkFiles
  <2>2. call'[c].result = call[c].result /\ \A k \in Clients \ {c} : call'[k] = call[k]
    BY <1>1, <1>9 DEF LocalCalls
  <2>3. WritesIt(c)
    BY <1>1, <2>2 DEF WritesIt, Shape
  <2> QED
    BY <1>8, <2>1, <2>2, <2>3 DEF KeepsFiles
<1>10. ASSUME chunk = End, HasSource(call[c]), torn' = [torn EXCEPT ![call[c].out] = disturbed[c]],
              Finish(c, "ok"), UNCHANGED data
       PROVE  KeepsFiles(c)
  <2>1. call' = [call EXCEPT ![c] = Finished(call[c], "ok")]
    BY <1>10, FinishOK DEF LocalTyped
  <2>2. ~disturbed[c] => data[call[c].out] = Source(call[c])
    <3> SUFFICES ASSUME ~disturbed[c]
                 PROVE  data[call[c].out] = f
      BY <1>2
    <3>1. Whole(f) /\ data[call[c].out] = FirstChunks(f, n)
      BY <1>1, <1>2, <1>4, <1>10, SourceIsWhole DEF FilesOK, Undisturbed, WritesAlone
    <3> QED
      BY <1>5, <1>10, <3>1, AllChunks
  <2>3. FilesOK'
    BY <1>1, <1>10, <2>1, <2>2, WriteEndFiles
  <2>4. \A k \in Clients \ {c} : call'[k] = call[k]
    BY <1>1, <2>1
  <2> QED
    BY <1>8, <1>10, <2>2, <2>3, <2>4 DEF KeepsFiles, WritesIt
<1>11. ASSUME WriteFails(c)
       PROVE  KeepsFiles(c)
  <2>1. call' = [call EXCEPT ![c] = Finished(call[c], "error")]
    BY <1>11, FinishOK DEF WriteFails, LocalTyped
  <2>2. FilesOK'
    BY <1>11, <2>1, WriteEndFiles DEF WriteFails
  <2>3. \A k \in Clients \ {c} : call'[k] = call[k]
    BY <1>1, <2>1
  <2>4. call'[c].result = "error"
    BY <1>1, <2>1 DEF Finished, Idle
  <2> QED
    BY <1>8, <2>2, <2>3, <2>4 DEF KeepsFiles, WritesIt
<1> QED
  BY <1>7, <1>9, <1>10, <1>11 DEF WriteChunk

\* The first steps of Put and Copy.
LEMMA PreparesToWrite ==
  ASSUME LocalTyped, FilesOK, NEW c \in Clients, call[c].op \in {"put", "copy"},
         NEW p \in Dirs,
         \/ /\ call[c].step = "parent" /\ ensureParentDir(c, p, "create")
            /\ UNCHANGED <<data, disturbed, torn>>
         \/ call[c].step = "create" /\ Create(c, p)
  PROVE  KeepsFiles(c)
<1>1. call \in [Clients -> LocalCalls] /\ call[c].out = None /\ WritesIt(c)
  BY DEF LocalTyped, CallsTyped, LocalCalls, Shape, WritesIt
<1>2. CASE call[c].step = "parent" /\ ensureParentDir(c, p, "create") /\ UNCHANGED <<data, disturbed, torn>>
  <2>1. /\ TreeOK' /\ CallsTyped'
        /\ \/ call' = [call EXCEPT ![c] = Moved(call[c], "create")]
           \/ call' = [call EXCEPT ![c] = Finished(call[c], "error")]
    BY <1>2, EnsureParentOK
  <2>2. FilesOK'
    BY <1>2, <2>1, EnsureParentFiles
  <2> QED
    BY <1>1, <1>2, <2>1, <2>2 DEF KeepsFiles, LocalTyped, FilesTyped
<1>3. CASE call[c].step = "create" /\ Create(c, p)
  <2>1. /\ TreeOK' /\ FilesTyped' /\ CallsTyped'
        /\ \/ /\ UNCHANGED <<data, disturbed, torn>>
              /\ call' = [call EXCEPT ![c] = Finished(call[c], "error")]
           \/ \E i \in Inodes :
                /\ data' = [data EXCEPT ![i] = Empty] /\ Disturb(c, i) /\ UNCHANGED torn
                /\ call' = [call EXCEPT ![c] = Created(call[c], i)]
    BY <1>3, CreateOK
  <2>2. FilesOK'
    BY <1>1, <1>3, <2>1, FinishedFiles, CreateFiles
  <2> QED
    BY <1>1, <2>1, <2>2 DEF KeepsFiles
<1> QED
  BY <1>2, <1>3

LEMMA PutKeepsFiles ==
  ASSUME LocalTyped, FilesOK, NEW c \in Clients, Put(c)
  PROVE  KeepsFiles(c)
<1>1. call[c].path \in Dirs /\ call[c].op = "put"
  BY DEF LocalTyped, CallsTyped, LocalCalls, Put, At
<1>2. CASE At(c, "put", "parent") /\ ensureParentDir(c, call[c].path, "create") /\ UNCHANGED <<data, disturbed, torn>>
  BY <1>1, <1>2, PreparesToWrite DEF At
<1>3. CASE At(c, "put", "create") /\ Create(c, call[c].path)
  BY <1>1, <1>3, PreparesToWrite DEF At
<1>4. CASE /\ At(c, "put", "write")
           /\ WriteChunk(c, ChunkAt(Bytes(call[c].value), call[c].at)) \/ WriteFails(c)
           /\ UNCHANGED <<node, disturbed>>
  <2>1. Source(call[c]) = Bytes(call[c].value) /\ HasSource(call[c])
    BY <1>1 DEF Source, HasSource
  <2> QED
    BY <1>4, <2>1, WriteKeepsFiles DEF At
<1> QED
  BY <1>2, <1>3, <1>4 DEF Put

LEMMA OpenKeepsFiles ==
  ASSUME LocalTyped, FilesOK, NEW c \in Clients, call[c].step = "open", NEW p \in Dirs, NEW next,
         \/ call[c].op = "get" /\ next = "read"
         \/ call[c].op = "copy" /\ next = "parent",
         OpenToRead(c, p, next)
  PROVE  KeepsFiles(c)
<1>1. call \in [Clients -> LocalCalls] /\ call[c].out = None /\ WritesIt(c)
  BY DEF LocalTyped, CallsTyped, LocalCalls, Shape, WritesIt
<1>2. /\ TreeOK' /\ FilesTyped' /\ CallsTyped'
      /\ \/ /\ UNCHANGED <<data, disturbed, torn>>
            /\ \E result \in {"notfound", "error"} :
                 call' = [call EXCEPT ![c] = Finished(call[c], result)]
         \/ \E i \in Inodes :
              /\ disturbed' = [disturbed EXCEPT ![c] = torn[i] \/ Writing(i)]
              /\ UNCHANGED <<data, torn>>
              /\ call' = [call EXCEPT ![c] = Opened(call[c], next, i)]
  BY OpenToReadOK
<1>3. FilesOK'
  BY <1>1, <1>2, FinishedFiles, OpenFiles
<1> QED
  BY <1>1, <1>2, <1>3 DEF KeepsFiles

LEMMA GetKeepsFiles ==
  ASSUME LocalTyped, FilesOK, NEW c \in Clients, Get(c)
  PROVE  KeepsFiles(c)
<1>1. call \in [Clients -> LocalCalls] /\ call[c].path \in Dirs /\ call[c].op = "get"
  BY DEF LocalTyped, CallsTyped, LocalCalls, Get, At
<1>2. CASE At(c, "get", "open") /\ OpenToRead(c, call[c].path, "read")
  BY <1>1, <1>2, OpenKeepsFiles DEF At
<1>3. CASE At(c, "get", "read")
  <2>1. PICK chunk : chunk = ChunkAt(data[call[c].in], call[c].at)
    OBVIOUS
  <2>2. /\ TreeOK' /\ FilesTyped' /\ CallsTyped' /\ UNCHANGED <<data, disturbed, torn>>
        /\ \/ chunk # End /\ call' = [call EXCEPT ![c] = Taken(call[c], chunk)]
           \/ chunk = End /\ call' = [call EXCEPT ![c] = Finished(call[c], "ok")]
    BY <1>3, <2>1, ReadOK DEF At
  <2>3. FilesOK'
    BY <1>3, <2>1, <2>2, ReadFiles DEF At
  <2> QED
    BY <1>1, <1>3, <2>2, <2>3 DEF KeepsFiles, WritesIt, At
<1> QED
  BY <1>2, <1>3 DEF Get

LEMMA CopyKeepsFiles ==
  ASSUME LocalTyped, FilesOK, NEW c \in Clients, Copy(c)
  PROVE  KeepsFiles(c)
<1>1. call[c].path \in Dirs /\ call[c].to \in Dirs /\ call[c].op = "copy"
  BY DEF LocalTyped, CallsTyped, LocalCalls, Copy, At
<1>2. CASE At(c, "copy", "open") /\ OpenToRead(c, call[c].path, "parent")
  BY <1>1, <1>2, OpenKeepsFiles DEF At
<1>3. CASE At(c, "copy", "open") /\ Goto(c, "parent") /\ UNCHANGED <<node, data, disturbed, torn>>
  <2>1. /\ call[c] \in LocalCalls /\ Shape(call[c]) /\ call \in [Clients -> LocalCalls]
        /\ call[c].step = "open" /\ call[c].in \notin Inodes /\ call[c].out = None
    BY <1>1, <1>3 DEF LocalTyped, CallsTyped, LocalCalls, Shape, At
  <2> DEFINE r == Moved(call[c], "parent")
  <2>2. /\ r.step = "parent" /\ r.op = "copy" /\ r.in = call[c].in /\ r.out = call[c].out
        /\ r.at = call[c].at /\ r.got = call[c].got /\ r.result = call[c].result
    BY <1>1, <2>1 DEF Moved, LocalCalls
  <2>3. Shape(r)
    BY <1>1, <2>1, <2>2 DEF Shape
  <2>4. CallsTyped' /\ call' = [call EXCEPT ![c] = r]
    BY <1>3, <2>3, GotoOK DEF LocalTyped, LocalSteps
  <2> HIDE DEF r
  <2>5. FilesOK'
    BY <1>3, <2>1, <2>2, <2>4, QuietFiles
  <2>6. TreeOK' /\ FilesTyped'
    BY <1>3, SameTree DEF LocalTyped, FilesTyped
  <2> QED
    BY <2>1, <2>4, <2>5, <2>6 DEF KeepsFiles, WritesIt
<1>4. CASE At(c, "copy", "parent") /\ ensureParentDir(c, call[c].to, "create") /\ UNCHANGED <<data, disturbed, torn>>
  BY <1>1, <1>4, PreparesToWrite DEF At
<1>5. CASE At(c, "copy", "create") /\ Create(c, call[c].to)
  BY <1>1, <1>5, PreparesToWrite DEF At
<1>6. CASE /\ At(c, "copy", "write")
           /\ \/ call[c].in # None /\ WriteChunk(c, ChunkAt(data[call[c].in], call[c].at))
              \/ WriteFails(c)
           /\ UNCHANGED <<node, disturbed>>
  <2>1. call[c].in # None => Source(call[c]) = data[call[c].in] /\ HasSource(call[c])
    BY <1>1 DEF Source, HasSource
  <2> QED
    BY <1>6, <2>1, WriteKeepsFiles DEF At
<1> QED
  BY <1>2, <1>3, <1>4, <1>5, <1>6 DEF Copy

LEMMA NamesKeepFiles ==
  ASSUME LocalTyped, FilesOK, NEW c \in Clients,
         Move(c) \/ Delete(c) \/ DeleteDirectory(c) \/ listDeep(c)
  PROVE  KeepsFiles(c)
<1>1. /\ call[c].op \in {"move", "delete", "deletedir", "list"} /\ WritesIt(c)
      /\ call \in [Clients -> LocalCalls]
  BY DEF Move, Delete, DeleteDirectory, listDeep, At, WritesIt, LocalTyped, CallsTyped
<1>2. TreeOK' /\ FilesTyped' /\ CallsTyped'
  BY MoveOK, DeleteOK, DeleteDirectoryOK, ListDeepOK
<1>3. NamesOnly(c) \/ UNCHANGED <<data, call, disturbed, torn>>
  BY MoveOK, DeleteOK, DeleteDirectoryOK, ListDeepOK
<1>4. CASE NamesOnly(c)
  <2>1. FilesOK'
    BY <1>1, <1>4, NamesOnlyFiles
  <2> QED
    BY <1>1, <1>2, <1>4, <2>1 DEF KeepsFiles, NamesOnly
<1>5. CASE UNCHANGED <<data, call, disturbed, torn>>
  <2>1. FilesOK'
    BY <1>5 DEF FilesOK, Settled, Whole, Writing, Undisturbed, ReadsSettled, WritesAlone,
                GetsWhole, Source
  <2> QED
    BY <1>1, <1>2, <1>5, <2>1 DEF KeepsFiles
<1> QED
  BY <1>3, <1>4, <1>5

LEMMA OthersKeepFiles ==
  ASSUME LocalTyped, FilesOK, NEW c \in Clients,
         CallLocal(c) \/ Return(c)
  PROVE  KeepsFiles(c)
<1>1. call \in [Clients -> LocalCalls] /\ None \notin Inodes
  BY LocalAssumption DEF LocalTyped, CallsTyped
<1>2. CASE Return(c)
  <2>1. FilesOK'
    BY <1>1, <1>2, ReturnOK, QuietFiles DEF Idle, LocalTyped, FilesTyped
  <2> QED
    BY <1>1, <1>2, <2>1, ReturnOK DEF KeepsFiles, WritesIt, Return
<1>3. ASSUME NEW p \in DirectoryPaths, MakeDirectory(c, p)
      PROVE  KeepsFiles(c)
  <2>1. /\ TreeOK' /\ FilesTyped' /\ CallsTyped' /\ UNCHANGED <<data, call, disturbed, torn>>
    BY <1>3, MakeDirectoryOK
  <2>2. FilesOK'
    BY <2>1 DEF FilesOK, Settled, Whole, Writing, Undisturbed, ReadsSettled, WritesAlone,
                GetsWhole, Source
  <2> QED
    BY <1>3, <2>1, <2>2 DEF KeepsFiles, WritesIt, MakeDirectory, Idle
<1>4. ASSUME \/ \E p \in Paths, v \in Values : PutBegin(c, p, v)
             \/ \E p \in FilePaths : GetBegin(c, p)
             \/ \E p, q \in FilePaths : CopyBegin(c, p, q) \/ MoveBegin(c, p, q)
             \/ \E ps \in Batches : DeleteBegin(c, ps)
             \/ \E p \in Paths : DeleteDirectoryBegin(c, p)
             \/ \E d \in {Root} \cup DirectoryPaths, want \in {"files", "dirs"} :
                  listDeepBegin(c, d, want)
      PROVE  KeepsFiles(c)
  <2>1. /\ TreeOK' /\ FilesTyped' /\ CallsTyped'
        /\ UNCHANGED <<node, data, disturbed, torn>>
        /\ \E r \in LocalCalls : /\ call[c] = Idle /\ call' = [call EXCEPT ![c] = r]
                                 /\ r.in = None /\ r.out = None /\ r.result = "none"
                                 /\ r.op = "list" => r.todo = {r.path} /\ r.step = "walk"
    BY <1>4, BeginsOK
  <2>2. PICK r \in LocalCalls : /\ call[c] = Idle /\ call' = [call EXCEPT ![c] = r]
                                /\ r.in = None /\ r.out = None /\ r.result = "none"
                                /\ r.op = "list" => r.todo = {r.path} /\ r.step = "walk"
    BY <2>1
  <2>3. call[c].out = None /\ call[c].step = "idle"
    BY <2>2 DEF Idle
  <2>4. Shape(r)
    BY <1>1, <2>1, <2>2 DEF CallsTyped
  <2>5. r.op = "get" => r.step # "read"
    BY <1>1, <2>2, <2>4 DEF Shape
  <2>6. FilesOK'
    BY <1>1, <2>1, <2>2, <2>3, <2>5, QuietFiles
  <2> QED
    BY <1>1, <2>1, <2>2, <2>3, <2>6 DEF KeepsFiles, WritesIt
<1> QED
  BY <1>2, <1>3, <1>4 DEF CallLocal

LEMMA FilesAreKept ==
  ASSUME LocalTyped, FilesOK, NEW c \in Clients, CallLocal(c) \/ StepLocal(c)
  PROVE  KeepsFiles(c)
BY PutKeepsFiles, GetKeepsFiles, CopyKeepsFiles, NamesKeepFiles, OthersKeepFiles DEF StepLocal

\* Every operation but a listing leaves call[c] an operation that is none, or
\* the one it was.
LEMMA OtherCallsDoNotList ==
  ASSUME LocalTyped, NEW c \in Clients, CallLocal(c) \/ StepLocal(c), ~listDeep(c)
  PROVE  \/ call'[c] = call[c]
         \/ call'[c].op # "list"
         \/ /\ call[c] = Idle /\ UNCHANGED node
            /\ call'[c].todo = {call'[c].path} /\ call'[c].step = "walk"
<1>1. call \in [Clients -> LocalCalls] /\ Idle.op = "idle"
  BY DEF LocalTyped, CallsTyped, Idle
<1>2. CASE Return(c)
  BY <1>1, <1>2 DEF Return
<1>3. CASE \E p \in DirectoryPaths : MakeDirectory(c, p)
  BY <1>3 DEF MakeDirectory
<1>4. ASSUME \/ \E p \in Paths, v \in Values : PutBegin(c, p, v)
             \/ \E p \in FilePaths : GetBegin(c, p)
             \/ \E p, q \in FilePaths : CopyBegin(c, p, q) \/ MoveBegin(c, p, q)
             \/ \E ps \in Batches : DeleteBegin(c, ps)
             \/ \E p \in Paths : DeleteDirectoryBegin(c, p)
             \/ \E d \in {Root} \cup DirectoryPaths, want \in {"files", "dirs"} :
                  listDeepBegin(c, d, want)
      PROVE  \/ call'[c].op # "list"
             \/ /\ call[c] = Idle /\ UNCHANGED node
                /\ call'[c].todo = {call'[c].path} /\ call'[c].step = "walk"
  <2>1. /\ UNCHANGED node
        /\ \E r \in LocalCalls : /\ call[c] = Idle /\ call' = [call EXCEPT ![c] = r]
                                 /\ r.in = None /\ r.out = None /\ r.result = "none"
                                 /\ r.op = "list" => r.todo = {r.path} /\ r.step = "walk"
    BY <1>4, BeginsOK
  <2>2. PICK r \in LocalCalls : /\ call[c] = Idle /\ call' = [call EXCEPT ![c] = r]
                                /\ r.in = None /\ r.out = None /\ r.result = "none"
                                /\ r.op = "list" => r.todo = {r.path} /\ r.step = "walk"
    BY <2>1
  <2>3. call'[c] = r
    BY <1>1, <2>2
  <2> QED
    BY <2>1, <2>2, <2>3
<1>5. ASSUME Put(c) \/ Get(c) \/ Copy(c) \/ Move(c) \/ Delete(c) \/ DeleteDirectory(c)
      PROVE  call'[c] = call[c] \/ call'[c].op # "list"
  <2>1. call[c] \in LocalCalls /\ call[c].op # "list"
    BY <1>1, <1>5 DEF Put, Get, Copy, Move, Delete, DeleteDirectory, At
  <2>2. ASSUME NEW result, Finish(c, result)
        PROVE  call'[c].op # "list"
    BY <1>1, <2>1, <2>2 DEF Finish, Idle
  <2>3. ASSUME NEW r, call' = [call EXCEPT ![c] = r], r.op # "list"
        PROVE  call'[c].op # "list"
    BY <1>1, <2>3
  <2>4. ASSUME NEW p, NEW next, ensureParentDir(c, p, next)
        PROVE  call'[c].op # "list"
    BY <1>1, <2>1, <2>2, <2>4 DEF ensureParentDir, Goto, LocalCalls
  <2>5. ASSUME NEW p, Create(c, p)
        PROVE  call'[c].op # "list"
    <3>1. ASSUME NEW i, call' = [call EXCEPT ![c].step = "write", ![c].out = i]
          PROVE  call'[c].op # "list"
      <4>1. call'[c] = [call[c] EXCEPT !.step = "write", !.out = i]
        BY <1>1, <3>1
      <4> QED
        BY <2>1, <4>1 DEF LocalCalls
    <3> QED
      BY <2>2, <2>5, <3>1 DEF Create
  <2>6. ASSUME NEW p, NEW next, OpenToRead(c, p, next)
        PROVE  call'[c].op # "list"
    <3>1. ASSUME NEW i, call' = [call EXCEPT ![c].step = next, ![c].in = i]
          PROVE  call'[c].op # "list"
      <4>1. call'[c] = [call[c] EXCEPT !.step = next, !.in = i]
        BY <1>1, <3>1
      <4> QED
        BY <2>1, <4>1 DEF LocalCalls
    <3> QED
      BY <2>2, <2>6, <3>1 DEF OpenToRead
  <2>7. ASSUME NEW chunk, WriteChunk(c, chunk) \/ WriteFails(c)
        PROVE  call'[c].op # "list"
    <3>1. ASSUME call' = [call EXCEPT ![c].at = @ + 1]
          PROVE  call'[c].op # "list"
      BY <1>1, <2>1, <3>1 DEF LocalCalls
    <3> QED
      BY <2>2, <2>7, <3>1 DEF WriteChunk, WriteFails
  <2>8. CASE Put(c)
    BY <2>4, <2>5, <2>7, <2>8 DEF Put
  <2>9. CASE Get(c)
    <3>1. ASSUME NEW chunk, call' = [call EXCEPT ![c].got[call[c].at + 1] = chunk, ![c].at = @ + 1]
          PROVE  call'[c].op # "list"
      <4>1. call'[c] = [call[c] EXCEPT !.got[call[c].at + 1] = chunk, !.at = @ + 1]
        BY <1>1, <3>1
      <4> QED
        BY <2>1, <4>1 DEF LocalCalls
    <3> QED
      BY <2>2, <2>6, <2>9, <3>1 DEF Get
  <2>10. CASE Copy(c)
    <3>1. ASSUME Goto(c, "parent")
          PROVE  call'[c].op # "list"
      BY <1>1, <2>1, <3>1 DEF Goto, LocalCalls
    <3> QED
      BY <2>4, <2>5, <2>6, <2>7, <2>10, <3>1 DEF Copy
  <2>11. CASE Move(c)
    BY <2>2, <2>4, <2>11 DEF Move
  <2>12. CASE Delete(c)
    <3>1. ASSUME NEW p, NEW result,
                 call' = [call EXCEPT ![c].todo = @ \ {p}, ![c].result = result]
          PROVE  call'[c].op # "list"
      <4>1. call'[c] = [call[c] EXCEPT !.todo = @ \ {p}, !.result = result]
        BY <1>1, <3>1
      <4> QED
        BY <2>1, <4>1 DEF LocalCalls
    <3> QED
      BY <2>2, <2>12, <3>1 DEF Delete
  <2>13. CASE DeleteDirectory(c)
    BY <2>1, <2>2, <2>13 DEF DeleteDirectory
  <2> QED
    BY <1>5, <2>8, <2>9, <2>10, <2>11, <2>12, <2>13
<1> QED
  BY <1>2, <1>3, <1>4, <1>5 DEF CallLocal, StepLocal

LEMMA WalksAreKept ==
  ASSUME LocalTyped, FilesOK, WalksOK, KeepSteady, NEW c \in Clients, CallLocal(c) \/ StepLocal(c)
  PROVE  WalksOK'
<1>1. KeepsFiles(c) /\ call' \in [Clients -> LocalCalls]
  BY FilesAreKept DEF KeepsFiles, CallsTyped
<1>2. ASSUME NEW k \in Clients, call'[k] = call[k]
      PROVE  Walk(k)'
  BY <1>2, StillWalks DEF WalksOK
<1>3. Walk(c)'
  <2>1. CASE listDeep(c)
    BY <2>1, WalksOn DEF WalksOK
  <2>2. CASE call'[c].op # "list"
    BY <2>2 DEF Walk
  <2>3. ASSUME call'[c].op = "list", call[c] = Idle, UNCHANGED node,
               call'[c].todo = {call'[c].path}, call'[c].step = "walk"
        PROVE  Walk(c)'
    <3>1. PICK r \in LocalCalls : r = call'[c]
      BY <1>1
    <3> QED
      BY <2>3, <3>1, BeginsToWalk
  <2> QED
    BY <1>2, <2>1, <2>2, <2>3, OtherCallsDoNotList
<1> QED
  BY <1>1, <1>2, <1>3 DEF KeepsFiles, WalksOK

-----------------------------------------------------------------------------
(* The theorems.                                                           *)

LocalInv == LocalTyped /\ FilesOK /\ WalksOK

LEMMA LocalStarts == LocalInit => LocalInv
<1> SUFFICES ASSUME LocalInit
             PROVE  LocalInv
  OBVIOUS
<1>1. /\ call = [c \in Clients |-> Idle] /\ Idle.step = "idle" /\ Idle.op = "idle"
      /\ Idle.in = None /\ Idle.out = None /\ None \notin Inodes
  BY LocalAssumption DEF LocalInit, Untouched, Idle
<1>2. LocalTyped
  <2>1. TreeOK
    BY DEF LocalInit, TreeOK
  <2>2. CallsTyped
    BY <1>1, IdleOK DEF CallsTyped
  <2>3. FilesTyped
    BY BytesOK DEF FilesTyped, LocalInit, Untouched
  <2>4. steady \in [Clients -> SUBSET Paths] /\ calls \in 0..MaxCalls
    BY PathsAssumption DEF LocalInit, Untouched
  <2> QED
    BY <2>1, <2>2, <2>3, <2>4 DEF LocalTyped
<1>3. FilesOK
  BY <1>1 DEF LocalInit, FilesOK, Settled, Whole, Undisturbed, ReadsSettled, WritesAlone, GetsWhole
<1>4. WalksOK
  BY <1>1 DEF WalksOK, Walk
<1> QED
  BY <1>2, <1>3, <1>4 DEF LocalInv

LEMMA LocalKeeps == LocalInv /\ [LocalNext]_localVars => LocalInv'
<1> SUFFICES ASSUME LocalInv, [LocalNext]_localVars
             PROVE  LocalInv'
  OBVIOUS
<1>1. ASSUME NEW c \in Clients, CallLocal(c) \/ StepLocal(c), KeepSteady
      PROVE  LocalInv'
  <2>1. KeepsFiles(c) /\ WalksOK'
    BY <1>1, FilesAreKept, WalksAreKept DEF LocalInv
  <2>2. calls' \in 0..MaxCalls
    BY <1>1, PathsAssumption DEF CallLocal, StepLocal, LocalInv, LocalTyped
  <2>3. steady' \in [Clients -> SUBSET Paths]
    BY <1>1, <2>1, SteadyOK DEF KeepsFiles, LocalInv, LocalTyped
  <2> QED
    BY <2>1, <2>2, <2>3 DEF KeepsFiles, LocalInv, LocalTyped
<1>2. CASE UNCHANGED localVars
  <2>1. LocalTyped'
    BY <1>2 DEF LocalInv, LocalTyped, TreeOK, FilesTyped, CallsTyped, localVars, Exists, Reachable, IsDir
  <2>2. FilesOK'
    BY <1>2 DEF LocalInv, localVars, FilesOK, Settled, Whole, Writing, Undisturbed, ReadsSettled,
                WritesAlone, GetsWhole, Source
  <2>3. WalksOK'
    BY <1>2 DEF LocalInv, localVars, WalksOK, Walk, Wanted, Files, Directories, IsFile
  <2> QED
    BY <2>1, <2>2, <2>3 DEF LocalInv
<1> QED
  BY <1>1, <1>2 DEF LocalNext

LEMMA LocalAlways == LocalSpec => []LocalInv
BY LocalStarts, LocalKeeps, PTL DEF LocalSpec

\* The local disk keeps its shape: the disk's tree, what its files can hold
\* and what each call of local.go has open at each of its steps.
THEOREM LocalTypeCorrect == LocalSpec => []LocalTypeOK
<1>1. LocalInv => LocalTypeOK
  BY TypedIsLocalTypeOK DEF LocalInv
<1> QED
  BY <1>1, LocalAlways, PTL

\* A file that nobody is writing and whose last Put or Copy was neither cut
\* short nor cut into holds one value whole, for any number of clients, files
\* and chunks (local.go:98, 157).
THEOREM SettledFilesAreAlwaysWhole == LocalSpec => []SettledFilesAreWhole
<1>1. LocalInv => SettledFilesAreWhole
  BY FilesAreWhole DEF LocalInv
<1> QED
  BY <1>1, LocalAlways, PTL

\* A Get that nobody wrote beside returns one whole value (local.go:118).
THEOREM ReadsAreAlwaysWhole == LocalSpec => []ReadsAreWhole
<1>1. LocalInv => ReadsAreWhole
  BY FilesAreWhole DEF LocalInv
<1> QED
  BY <1>1, LocalAlways, PTL

\* AllFiles and AllDirectories list all that was there throughout the walk, or
\* nothing (local.go:371).
THEOREM WalksListAllOrNothing == LocalSpec => []ListsAllOrNothing
<1>1. LocalInv => ListsAllOrNothing
  BY WalksList DEF LocalInv
<1> QED
  BY <1>1, LocalAlways, PTL

\* A Put or Copy that returns nil, its file its own all the while, has stored
\* the value it was given or the file it copied (local.go:98, 157).
THEOREM WritesStoreWhatTheyAreGiven == LocalSpec => WritesWhatItWasGiven
<1> DEFINE WellWritten == \A c \in Clients :
      call[c].step = "write" /\ call'[c].result = "ok" /\ ~disturbed[c]
        => data'[call[c].out] = IF call[c].op = "put" THEN Bytes(call[c].value)
                                ELSE data[call[c].in]
<1>1. LocalInv /\ [LocalNext]_localVars => WellWritten
  <2> SUFFICES ASSUME LocalInv, [LocalNext]_localVars, NEW k \in Clients,
                      call[k].step = "write", call'[k].result = "ok", ~disturbed[k]
               PROVE  HasSource(call[k]) /\ data'[call[k].out] = Source(call[k])
    BY DEF Source, HasSource, LocalInv, LocalTyped, CallsTyped, Shape
  <2>1. call[k].result # "ok"
    BY DEF LocalInv, LocalTyped, CallsTyped, Shape
  <2>2. CASE UNCHANGED localVars
    BY <2>1, <2>2 DEF localVars
  <2>3. ASSUME NEW c \in Clients, KeepsFiles(c)
        PROVE  HasSource(call[k]) /\ data'[call[k].out] = Source(call[k])
    BY <2>1, <2>3 DEF KeepsFiles, WritesIt
  <2> QED
    BY <2>2, <2>3, FilesAreKept DEF LocalNext, LocalInv
<1> QED
  BY <1>1, LocalAlways, PTL DEF LocalSpec, WritesWhatItWasGiven

-----------------------------------------------------------------------------
(* A Disk: one of the two drivers, the other never opened.                 *)

DiskInv ==
  \/ driver = "local" /\ LocalInv /\ S3Unused
  \/ driver = "s3" /\ Typed /\ AllSound /\ LocalUnused

LEMMA DiskAlways == Spec => []DiskInv
<1>1. Init => DiskInv
  BY LocalStarts, S3Invariant DEF Init, DiskInv
<1>2. DiskInv /\ [Next]_vars => DiskInv'
  <2> SUFFICES ASSUME DiskInv, [Next]_vars
               PROVE  DiskInv'
    OBVIOUS
  <2>1. UNCHANGED s3Vars => (S3Unused => S3Unused')
    BY DEF S3Unused, AtRest, s3Vars
  <2>2. UNCHANGED localVars => (LocalUnused => LocalUnused')
    BY DEF LocalUnused, Untouched, localVars
  <2>3. CASE driver = "local" /\ LocalInv /\ S3Unused
    <3>1. [LocalNext]_localVars /\ UNCHANGED s3Vars /\ UNCHANGED driver
      BY <2>3 DEF Next, vars
    <3>2. LocalInv'
      BY <2>3, <3>1, LocalKeeps
    <3> QED
      BY <2>1, <2>3, <3>1, <3>2 DEF DiskInv
  <2>4. CASE driver = "s3" /\ Typed /\ AllSound /\ LocalUnused
    <3>1. [S3Next]_s3Vars /\ UNCHANGED localVars /\ UNCHANGED driver
      BY <2>4 DEF Next, vars
    <3>2. Typed' /\ AllSound'
      BY <2>4, <3>1, S3Invariant
    <3> QED
      BY <2>2, <2>4, <3>1, <3>2 DEF DiskInv
  <2> QED
    BY <2>3, <2>4 DEF DiskInv
<1> QED
  BY <1>1, <1>2, PTL DEF Spec

\* Whatever Disk the program has opened: files and reads nobody disturbed are
\* whole, walks list all or nothing, listings and deletions that report success
\* are complete, the listings describe one tree and moves lose nothing
\* (local.go, s3.go).
THEOREM DisksKeepTheirPromises ==
  Spec => [](/\ SettledFilesAreWhole /\ ReadsAreWhole /\ ListsAllOrNothing
             /\ DeletionsAreComplete /\ ListingsAreComplete /\ ListingsAgree
             /\ MovesLoseNothing)
<1>1. LocalUnused => SettledFilesAreWhole /\ ReadsAreWhole /\ ListsAllOrNothing
  <2> SUFFICES ASSUME LocalUnused
               PROVE  SettledFilesAreWhole /\ ReadsAreWhole /\ ListsAllOrNothing
    OBVIOUS
  <2>1. Files = {}
    BY LocalAssumption, PathsAssumption DEF LocalUnused, Files, IsFile, Dirs
  <2>2. \A c \in Clients : call[c].op = "idle"
    BY DEF LocalUnused, Untouched, Idle
  <2> QED
    BY <2>1, <2>2 DEF SettledFilesAreWhole, ReadsAreWhole, ListsAllOrNothing
<1>2. S3Unused => DeletionsAreComplete /\ ListingsAreComplete /\ MovesLoseNothing
  <2> SUFFICES ASSUME S3Unused
               PROVE  DeletionsAreComplete /\ ListingsAreComplete /\ MovesLoseNothing
    OBVIOUS
  <2>1. \A c \in Clients : request[c].op = "idle"
    BY RestingIsIdle DEF S3Unused, AtRest
  <2> QED
    BY <2>1 DEF DeletionsAreComplete, ListingsAreComplete, MovesLoseNothing, Deleting
<1>3. LocalInv => SettledFilesAreWhole /\ ReadsAreWhole /\ ListsAllOrNothing
  BY FilesAreWhole, WalksList DEF LocalInv
<1>4. Typed /\ AllSound => DeletionsAreComplete /\ ListingsAreComplete /\ MovesLoseNothing
  BY SoundCallsDoAsTheySay
<1>5. DiskInv => /\ SettledFilesAreWhole /\ ReadsAreWhole /\ ListsAllOrNothing
                 /\ DeletionsAreComplete /\ ListingsAreComplete /\ ListingsAgree
                 /\ MovesLoseNothing
  BY <1>1, <1>2, <1>3, <1>4, EveryBucketAgrees DEF DiskInv
<1> QED
  BY <1>5, DiskAlways, PTL
=============================================================================
