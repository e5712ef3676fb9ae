------------------------------ MODULE StorageS3 ------------------------------
(***************************************************************************)
(* The S3 disk (src/storage/s3/s3.go).  A bucket is a flat map of keys; a  *)
(* directory is a key with a trailing slash, or what the keys of other     *)
(* objects suggest.  One request is one step at the server; Move, Delete   *)
(* of several paths, the listings and DeleteDirectory are several, and     *)
(* other callers' requests come between them.  A request may fail, at the  *)
(* server or with its answer lost on the way back.                         *)
(***************************************************************************)
EXTENDS StoragePaths

CONSTANTS
  Nothing,    \* no object under a key
  Marker,     \* the zero bytes of a directory marker
  PageSize    \* bound: keys of one page of a listing

ASSUME S3Assumption ==
  /\ Nothing \notin Values /\ Marker \notin Values /\ Nothing # Marker
  /\ PageSize \in Nat \ {0}

VARIABLES
  bucket,     \* key -> object
  exists,     \* the bucket has been made
  prefixed,   \* Disk.prefix # ""
  request,    \* client -> the call it is in
  doomed,     \* history: client -> keys there when its deletion began, not
              \* put again since
  listable,   \* history: client -> keys there since its listing began
  alone,      \* history: client -> nobody else changed what it moves
  requests    \* calls made

s3Vars == <<bucket, exists, prefixed, request, doomed, listable, alone, requests>>

Keys == [path : Paths, slash : BOOLEAN]
key(p) == [path |-> p, slash |-> FALSE]
dirKey(p) == [path |-> p, slash |-> TRUE]
\* The order of keys: an object comes just before the directory of its name.
Before(k, l) == \/ Rank[k.path] < Rank[l.path]
                \/ k.path = l.path /\ ~k.slash /\ l.slash
Stored == {k \in Keys : bucket[k] # Nothing}

\* The keys that begin with "dir/": the directory's own marker is one.
Under == [d \in Dirs |-> {k \in Keys : d \in Above[k.path] \/ k = dirKey(d)}]

Resting == [op |-> "idle", step |-> "idle", path |-> Root, to |-> Root, value |-> Nothing,
            todo |-> {}, ahead |-> {}, listed |-> {}, unseen |-> {}, deep |-> FALSE,
            failed |-> FALSE, result |-> "none"]

-----------------------------------------------------------------------------
(* Calls.                                                                  *)

Start(c, r) == request[c] = Resting /\ request' = [request EXCEPT ![c] = r]
In(c, op, step) == request[c].op = op /\ request[c].step = step

\* The call returns; what a property looks at stays until then.
Respond(c, result) == request' = [request EXCEPT ![c] =
  [@ EXCEPT !.step = "done", !.result = result, !.todo = {}, !.ahead = {}]]
\* Mutation of Error: what failed on the way is not reported.
Unreported(failed) == "ok"
Error(failed) == IF failed THEN "error" ELSE "ok"

\* The keys a single request may have written, or not, when it fails.
Store(k, v) == bucket' = [bucket EXCEPT ![k] = v]

\* EnsureBucket asks whether the bucket is there and then makes it; who loses
\* the race to make it gets an error.
EnsureBucket(c) ==
  \/ /\ ~exists
     /\ Start(c, [Resting EXCEPT !.op = "ensure", !.step = "make"])
     /\ UNCHANGED <<bucket, exists>>
  \/ /\ In(c, "ensure", "make")
     /\ \/ Respond(c, Error(exists)) /\ exists' = TRUE
        \/ Respond(c, "error") /\ UNCHANGED exists
     /\ UNCHANGED bucket

PutBegins(c, p, v) ==
  /\ Start(c, [Resting EXCEPT !.op = "put", !.step = "send", !.path = p, !.value = v])
  /\ UNCHANGED <<bucket, exists>>

\* The upload becomes the object at once, when it is complete.
PutObject(c) ==
  /\ In(c, "put", "send")
  /\ \/ exists /\ Store(key(request[c].path), request[c].value) /\ Respond(c, "ok")
     \/ exists /\ Store(key(request[c].path), request[c].value) /\ Respond(c, "error")
     \/ UNCHANGED bucket /\ Respond(c, "error")
  /\ UNCHANGED exists

\* Get, Exists, Missing, Size, LastModified and ContentType: one request.
Look(c, p) ==
  /\ request[c] = Resting
  /\ request' = [request EXCEPT ![c] =
       [Resting EXCEPT !.op = "look", !.step = "done", !.path = p, !.value = bucket[key(p)],
          !.result = IF bucket[key(p)] = Nothing THEN "notfound" ELSE "ok"]]
  /\ UNCHANGED <<bucket, exists>>

-----------------------------------------------------------------------------
(* Copy, Move, Delete.                                                     *)

CopyBegins(c, op, p, q) ==
  /\ Start(c, [Resting EXCEPT !.op = op, !.step = "copy", !.path = p, !.to = q,
                             !.value = bucket[key(p)]])
  /\ UNCHANGED <<bucket, exists>>

\* Mutation of Copied: the path is deleted as it was given, not as a key.
DeletesPath(c) ==
  \/ request[c].op = "copy" /\ Respond(c, "ok")
  \/ /\ request[c].op = "move"
     /\ request' = [request EXCEPT ![c].step = "delete", ![c].todo = {request[c].path}]
\* Mutation of Copied: the target is deleted.
DeletesTarget(c) ==
  \/ request[c].op = "copy" /\ Respond(c, "ok")
  \/ /\ request[c].op = "move"
     /\ request' = [request EXCEPT ![c].step = "delete", ![c].todo = {key(request[c].to)}]
\* Move goes on with the deletion of what it has copied.
Copied(c) ==
  \/ request[c].op = "copy" /\ Respond(c, "ok")
  \/ /\ request[c].op = "move"
     /\ request' = [request EXCEPT ![c].step = "delete", ![c].todo = {key(request[c].path)}]

\* The server copies one object; it refuses to copy an object onto itself.
CopyObject(c) ==
  LET from == key(request[c].path)  to == key(request[c].to)
  IN  /\ request[c].step = "copy"
      /\ \/ exists /\ bucket[from] = Nothing /\ Respond(c, "notfound") /\ UNCHANGED bucket
         \/ /\ exists /\ bucket[from] # Nothing /\ from # to
            /\ Store(to, bucket[from])
            /\ Copied(c) \/ Respond(c, "error")
         \/ Respond(c, "error") /\ UNCHANGED bucket
      /\ UNCHANGED exists

DeleteBegins(c, ps) ==
  /\ Start(c, [Resting EXCEPT !.op = "delete", !.step = "delete",
                             !.todo = {key(p) : p \in ps}])
  /\ UNCHANGED <<bucket, exists>>

\* RemoveObject of one path after another, whatever became of the ones before.
RemoveObject(c) ==
  /\ request[c].step = "delete"
  /\ \/ \E k \in request[c].todo, failed \in BOOLEAN :
          /\ \/ exists /\ Store(k, Nothing)
             \/ failed /\ UNCHANGED bucket
          /\ request' = [request EXCEPT ![c].todo = @ \ {k}, ![c].failed = @ \/ failed]
     \/ /\ request[c].todo = {}
        /\ Respond(c, Error(request[c].failed))
        /\ UNCHANGED bucket
  /\ UNCHANGED exists

-----------------------------------------------------------------------------
(* Directories.                                                            *)

MakesDirectory(c, p) ==
  /\ request[c] = Resting
  /\ exists
  /\ Store(dirKey(p), Marker)
  /\ UNCHANGED <<exists, request>>

\* What a listing under d names: every key, or with the delimiter the keys
\* directly in d and one common prefix for each directory in it.  The marker of
\* d itself begins with the prefix too.
Named(d, deep) ==
  IF deep THEN Under[d] \cap Stored
  ELSE {k \in Stored : k = dirKey(d) \/ (k.path \in Children[d] /\ ~k.slash)}
       \cup {dirKey(q) : q \in {q \in Children[d] : Under[q] \cap Stored # {}}}

\* Files and AllFiles skip what ends in a slash; Directories takes just that.
FilesOf(ks) == {k.path : k \in {k \in ks : ~k.slash}}
DirectoriesOf(ks) == {k.path : k \in {k \in ks : k.slash}}
\* Mutation of AllDirectoriesOf: only markers are directories.
MarkersOnly(d, ks) == Inside[d] \cap DirectoriesOf(ks)
\* AllDirectories rebuilds the directories from the keys.
AllDirectoriesOf(d, ks) ==
  Inside[d] \cap ((UNION {Above[k.path] : k \in ks}) \cup DirectoriesOf(ks))

ListBegins(c, d, deep) ==
  /\ Start(c, [Resting EXCEPT !.op = "list", !.step = "list", !.path = d, !.deep = deep,
                             !.ahead = {k \in Keys : k.path \in Inside[d] \/ k.path = d}])
  /\ UNCHANGED <<bucket, exists>>

\* An unprefixed disk refuses to delete a directory.
DeleteDirectoryBegins(c, d) ==
  /\ \/ /\ prefixed
        /\ Start(c, [Resting EXCEPT !.op = "deletedir", !.step = "list", !.path = d,
                                   !.deep = TRUE, !.ahead = Under[d]])
     \/ /\ ~prefixed
        /\ Start(c, [Resting EXCEPT !.op = "deletedir", !.step = "done", !.path = d,
                                   !.result = "noprefix"])
  /\ UNCHANGED <<bucket, exists>>

\* The keys of a listing's next page: as many as are there, up to PageSize, in
\* order; and those the cursor has passed then.
PageOf(keys) == {k \in keys : Cardinality({l \in keys : Before(l, k)}) < PageSize}
\* Mutation of PassedBy: the first page is taken for the whole listing.
OnePage(page, ahead) == ahead
PassedBy(page, ahead) ==
  IF Cardinality(page) < PageSize THEN ahead
  ELSE {k \in ahead : \E l \in page : k = l \/ Before(k, l)}

\* One page of a listing.  DeleteDirectory deletes a page before it asks for
\* the next, and does not look whether a page failed, which ends the listing:
\* it reports that only if the client library fails to delete the nameless
\* object that stands for the error (s3.go:377-386).
ListPage(c) ==
  LET ahead == request[c].ahead
      page == PageOf(ahead \cap Named(request[c].path, request[c].deep))
  IN  /\ request[c].step = "list"
      /\ ahead # {}
      /\ request[c].op = "deletedir" => request[c].listed = {}
      /\ \/ /\ exists
            /\ request' = [request EXCEPT ![c].ahead = ahead \ PassedBy(page, ahead),
                                          ![c].listed = @ \cup page]
         \/ /\ request[c].op = "list"
            /\ Respond(c, "error")
         \/ /\ request[c].op = "deletedir"
            /\ \E noticed \in BOOLEAN :
                 request' = [request EXCEPT ![c].ahead = {}, ![c].unseen = @ \cup ahead,
                                            ![c].failed = @ \/ noticed]
      /\ UNCHANGED <<bucket, exists>>

\* The bulk delete of a page reports the objects it could not delete.
RemoveObjects(c) ==
  /\ In(c, "deletedir", "list")
  /\ request[c].listed # {}
  /\ \E gone \in SUBSET request[c].listed, failed \in BOOLEAN :
       /\ gone # request[c].listed => failed
       /\ bucket' = [k \in Keys |-> IF k \in gone THEN Nothing ELSE bucket[k]]
       /\ request' = [request EXCEPT ![c].listed = {}, ![c].failed = @ \/ failed]
  /\ UNCHANGED exists

ListEnds(c) ==
  /\ request[c].step = "list"
  /\ request[c].ahead = {}
  /\ request[c].op = "deletedir" => request[c].listed = {}
  /\ Respond(c, Error(request[c].failed))
  /\ UNCHANGED <<bucket, exists>>

-----------------------------------------------------------------------------
Responded(c) ==
  /\ request[c].step = "done"
  /\ request' = [request EXCEPT ![c] = Resting]
  /\ UNCHANGED <<bucket, exists>>

\* The histories.  A key is doomed from the moment a deletion of it is asked
\* for, and no longer once it appears anew.
Deleting(op) == op \in {"delete", "deletedir"}
Changed(k) == bucket'[k] # bucket[k]
Asked(r) == IF r.op = "delete" THEN r.todo ELSE Under[r.path]

Remember(mover) ==
  /\ doomed' = [c \in Clients |->
       IF ~Deleting(request'[c].op) THEN {}
       ELSE IF request[c] = Resting THEN Asked(request'[c]) \cap Stored
       ELSE {k \in doomed[c] : bucket[k] # Nothing \/ bucket'[k] = Nothing}]
  /\ listable' = [c \in Clients |->
       IF request'[c].op # "list" THEN {}
       ELSE IF request[c] = Resting THEN Named(request'[c].path, request'[c].deep)
       ELSE {k \in listable[c] : k \in Named(request[c].path, request[c].deep)'}]
  /\ alone' = [c \in Clients |->
       \/ request'[c].op # "move"
       \/ request[c] = Resting
       \/ /\ alone[c]
          /\ c = mover \/ ~(Changed(key(request[c].path)) \/ Changed(key(request[c].to)))]

AtRest ==
  /\ request = [c \in Clients |-> Resting]
  /\ doomed = [c \in Clients |-> {}]
  /\ listable = [c \in Clients |-> {}]
  /\ alone = [c \in Clients |-> TRUE]
  /\ requests = 0

\* A disk opened on a bucket that may not exist yet or hold objects already.
\* (Bound: the bucket of an unprefixed disk is empty.)
S3Init ==
  /\ exists \in BOOLEAN
  /\ prefixed \in BOOLEAN
  /\ bucket \in [Keys -> Values \cup {Nothing, Marker}]
  /\ \A k \in Keys : bucket[k] = Marker => k.slash /\ k.path \in DirectoryPaths
  /\ \A k \in Keys : bucket[k] \in Values => ~k.slash /\ k.path \in FilePaths
  /\ (exists /\ prefixed) \/ Stored = {}
  /\ AtRest

\* No S3 disk has been opened.
S3Unused ==
  /\ exists = FALSE /\ prefixed = FALSE
  /\ bucket = [k \in Keys |-> Nothing]
  /\ AtRest

CallS3(c) ==
  \/ EnsureBucket(c)
  \/ \E p \in Paths, v \in Values : PutBegins(c, p, v)
  \/ \E p \in FilePaths : Look(c, p)
  \/ \E op \in {"copy", "move"}, p, q \in FilePaths : CopyBegins(c, op, p, q)
  \/ \E ps \in Batches : DeleteBegins(c, ps)
  \/ \E p \in DirectoryPaths : MakesDirectory(c, p)
  \/ \E d \in {Root} \cup DirectoryPaths :
       \/ DeleteDirectoryBegins(c, d)
       \/ \E deep \in BOOLEAN : ListBegins(c, d, deep)

StepS3(c) ==
  \/ EnsureBucket(c) \/ PutObject(c) \/ CopyObject(c) \/ RemoveObject(c)
  \/ ListPage(c) \/ RemoveObjects(c) \/ ListEnds(c) \/ Responded(c)

S3Next ==
  /\ \E c \in Clients :
       /\ \/ requests < MaxCalls /\ requests' = requests + 1 /\ CallS3(c)
          \/ UNCHANGED requests /\ StepS3(c)
       /\ Remember(c)
  /\ UNCHANGED prefixed

S3Spec == S3Init /\ [][S3Next]_s3Vars

-----------------------------------------------------------------------------
(* Properties.                                                             *)

S3TypeOK ==
  /\ bucket \in [Keys -> Values \cup {Nothing, Marker}]
  /\ exists \in BOOLEAN /\ prefixed \in BOOLEAN
  /\ requests \in 0..MaxCalls
  /\ \A c \in Clients :
       /\ UNION {request[c].todo, request[c].ahead, request[c].listed, request[c].unseen}
            \subseteq Keys
       /\ doomed[c] \cup listable[c] \subseteq Keys
       /\ alone[c] \in BOOLEAN

\* Delete and DeleteDirectory return nil only when everything there was to
\* delete is gone: what is left was put while they ran (s3.go:262, 371), or is
\* what DeleteDirectory never saw because a page of its listing failed, which
\* it need not report (s3.go:377-386, where list looks at obj.Err, s3.go:501).
DeletionsAreComplete ==
  \A c \in Clients :
    Deleting(request[c].op) /\ request[c].result = "ok" =>
      doomed[c] \cap Stored \subseteq request[c].unseen

\* A Move that nobody interferes with never loses what it moves: at each moment
\* the source or the target holds it, and on success the target alone
\* (s3.go:292 copies and then deletes, and either request may fail).
MovesLoseNothing ==
  \A c \in Clients :
    LET r == request[c]
    IN  r.op = "move" /\ alone[c] /\ r.value # Nothing
          => /\ r.value \in {bucket[key(r.path)], bucket[key(r.to)]}
             /\ r.result = "ok" => /\ bucket[key(r.to)] = r.value
                                   /\ bucket[key(r.path)] = Nothing

\* A listing that returns without an error names all that was there from
\* beginning to end, however many pages it took (s3.go:493).
ListingsAreComplete ==
  \A c \in Clients :
    request[c].op = "list" /\ request[c].result = "ok" => listable[c] \subseteq request[c].listed

\* The four listings describe one tree, the one storage.Disk promises: what
\* Files and Directories derive from a delimited listing and AllDirectories
\* from bare keys fits together (s3.go:396-487).  Only the directory listed is
\* among its own Directories when it has a marker.
ListingsAgree ==
  LET files == {p \in Paths : key(p) \in Stored}
      dirs == {p \in Paths : Under[p] \cap Stored # {}}
  IN  \A d \in Dirs :
        /\ FilesOf(Named(d, FALSE)) = ListedFiles(d, files)
        /\ FilesOf(Named(d, TRUE)) = ListedAllFiles(d, files)
        /\ DirectoriesOf(Named(d, FALSE)) \ {d} = ListedDirectories(d, dirs)
        /\ AllDirectoriesOf(d, Named(d, TRUE)) = ListedAllDirectories(d, dirs)
=============================================================================
