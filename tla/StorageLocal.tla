----------------------------- MODULE StorageLocal -----------------------------
(***************************************************************************)
(* The local disk (src/storage/local/local.go): every call is a few        *)
(* operations of the file system under an os.Root, and calls interleave    *)
(* between them.  A file is an inode with a content of at most Chunks      *)
(* chunks; io.Copy and ReadFile move one chunk at a time.  Create          *)
(* truncates the file that is there, Rename and Remove change names only,  *)
(* so whoever has a file open goes on with the same inode.                 *)
(***************************************************************************)
EXTENDS StoragePaths

CONSTANTS
  Inodes,     \* bound: files on the disk or open
  Chunks,     \* bound: chunks of a file
  Length,     \* value -> its number of chunks
  Absent, Directory,  \* what a path may name instead of an inode
  End, Hole,  \* a chunk past the end of a file; one nobody has written
  None        \* no inode

ASSUME LocalAssumption ==
  /\ Chunks \in Nat \ {0}
  /\ Length \in [Values -> 0..Chunks]
  /\ Absent \notin Inodes /\ Directory \notin Inodes /\ None \notin Inodes
  /\ Absent # Directory
  /\ End \notin Values /\ Hole \notin Values /\ End # Hole

VARIABLES
  node,       \* path -> what the file system has there
  data,       \* inode -> its chunks
  call,       \* client -> the call it is in
  disturbed,  \* history: client -> its file was truncated under it
  torn,       \* history: inode -> its last write failed or was disturbed
  steady,     \* history: client -> entries there since its walk began
  calls       \* calls made

localVars == <<node, data, call, disturbed, torn, steady, calls>>

Contents == [1..Chunks -> Values \cup {End, Hole}]
Empty == [i \in 1..Chunks |-> End]
Bytes(v) == [i \in 1..Chunks |-> IF i <= Length[v] THEN v ELSE End]

Idle == [op |-> "idle", step |-> "idle", path |-> Root, to |-> Root, value |-> None,
         want |-> "files", in |-> None, out |-> None, at |-> 0, got |-> Empty,
         todo |-> {}, seen |-> {}, result |-> "none"]

-----------------------------------------------------------------------------
(* The file system.                                                        *)

IsDir(d) == node[d] = Directory
IsFile(p) == node[p] \in Inodes
Exists(p) == node[p] # Absent
Reachable(p) == \A d \in Above[p] : IsDir(d)
\* ErrNotExist; a path that leads through a file is another error.
Missing(p) == ~Exists(p) /\ \A d \in Above[p] : ~IsFile(d)
Files == {p \in Paths : IsFile(p)}
Directories == {p \in Paths : node[p] = Directory}
IsEmpty(d) == \A p \in Inside[d] : ~Exists(p)

Open(i) == \E c \in Clients : i \in {call[c].in, call[c].out}
Writing(i) == \E c \in Clients : call[c].out = i
FreeInodes == {i \in Inodes : ~Open(i) /\ \A p \in Paths : node[p] # i}

\* MkdirAll: the directories ds, which lie above one another, are made where
\* they are missing; a file in the way is an error.
CanMkdir(ds) == \A d \in ds : ~IsFile(d)
Mkdir(ds) == [p \in Dirs |-> IF p \in ds THEN Directory ELSE node[p]]

\* A write at position i; what lies between the end and i becomes a hole.
WriteAt(f, i, b) == [j \in 1..Chunks |->
  IF j = i THEN b ELSE IF j < i /\ f[j] = End THEN Hole ELSE f[j]]

-----------------------------------------------------------------------------
(* Calls.                                                                  *)

Begin(c, r) == call[c] = Idle /\ call' = [call EXCEPT ![c] = r]
At(c, op, step) == call[c].op = op /\ call[c].step = step
Goto(c, step) == call' = [call EXCEPT ![c].step = step]
\* The call closes its files and returns.
Finish(c, result) == call' = [call EXCEPT ![c] =
  [Idle EXCEPT !.op = call[c].op, !.path = call[c].path,
               !.got = call[c].got, !.seen = call[c].seen,
               !.step = "done", !.result = result]]

\* ensureParentDir, the first step of Put and Move and the second of Copy.
ensureParentDir(c, p, next) ==
  \/ /\ CanMkdir(Above[p])
     /\ node' = Mkdir(Above[p])
     /\ Goto(c, next)
  \/ /\ ~CanMkdir(Above[p])
     /\ UNCHANGED node
     /\ Finish(c, "error")

\* What a Create of inode i by c does to the calls that have it open.
Disturb(c, i) == disturbed' = [k \in Clients |->
  \/ disturbed[k]
  \/ IF k = c THEN call[c].in = i \/ Writing(i) ELSE i \in {call[k].in, call[k].out}]

\* Mutation of Truncated: the file is opened without O_TRUNC.
NotTruncated(i) == data
Truncated(i) == [data EXCEPT ![i] = Empty]

\* os.Root.Create: a new file, or the one there, emptied.
Create(c, p) ==
  \/ /\ Reachable(p) /\ ~IsDir(p)
     /\ \E i \in IF IsFile(p) THEN {node[p]} ELSE FreeInodes :
          /\ node' = [node EXCEPT ![p] = i]
          /\ data' = Truncated(i)
          /\ Disturb(c, i)
          /\ call' = [call EXCEPT ![c].step = "write", ![c].out = i]
     /\ UNCHANGED torn
  \/ /\ ~Reachable(p) \/ IsDir(p)
     /\ Finish(c, "error")
     /\ UNCHANGED <<node, data, disturbed, torn>>

\* io.Copy writes the chunk it has just read, or ends with the source.
WriteChunk(c, chunk) ==
  LET i == call[c].out
  IN  \/ /\ chunk # End
         /\ data' = [data EXCEPT ![i] = WriteAt(@, call[c].at + 1, chunk)]
         /\ call' = [call EXCEPT ![c].at = @ + 1]
         /\ UNCHANGED torn
      \/ /\ chunk = End
         /\ torn' = [torn EXCEPT ![i] = disturbed[c]]
         /\ Finish(c, "ok")
         /\ UNCHANGED data

\* The reader or the disk fails: what has been written stays.
WriteFails(c) ==
  /\ torn' = [torn EXCEPT ![call[c].out] = TRUE]
  /\ Finish(c, "error")
  /\ UNCHANGED data

\* Mutation of ChunkAt: the end of the file is not noticed.
PastTheEnd(f, n) == IF n < Chunks THEN f[n + 1] ELSE f[Chunks]
\* Mutation of ChunkAt: the last chunk is left out.
LastChunkLost(f, n) == IF n + 1 < Chunks THEN f[n + 1] ELSE End
\* What is read at offset n.
ChunkAt(f, n) == IF n < Chunks THEN f[n + 1] ELSE End

-----------------------------------------------------------------------------
(* Put (PutString is Put of a string's reader), Get and the calls that     *)
(* look at one file, Copy.                                                 *)

PutBegin(c, p, v) ==
  /\ Begin(c, [Idle EXCEPT !.op = "put", !.step = "parent", !.path = p, !.value = v])
  /\ UNCHANGED <<node, data, disturbed, torn>>

Put(c) ==
  \/ /\ At(c, "put", "parent") /\ ensureParentDir(c, call[c].path, "create")
     /\ UNCHANGED <<data, disturbed, torn>>
  \/ At(c, "put", "create") /\ Create(c, call[c].path)
  \/ /\ At(c, "put", "write")
     /\ \/ WriteChunk(c, ChunkAt(Bytes(call[c].value), call[c].at))
        \/ WriteFails(c)
     /\ UNCHANGED <<node, disturbed>>

\* Open a file to read it, or report that it is not there.
OpenToRead(c, p, next) ==
  /\ \/ /\ IsFile(p)
        /\ call' = [call EXCEPT ![c].step = next, ![c].in = node[p]]
        /\ disturbed' = [disturbed EXCEPT ![c] = torn[node[p]] \/ Writing(node[p])]
     \/ /\ ~IsFile(p)
        /\ Finish(c, IF Missing(p) THEN "notfound" ELSE "error")
        /\ UNCHANGED disturbed
  /\ UNCHANGED <<node, data, torn>>

GetBegin(c, p) ==
  /\ Begin(c, [Idle EXCEPT !.op = "get", !.step = "open", !.path = p])
  /\ UNCHANGED <<node, data, disturbed, torn>>

\* Mutation of Get: a single Read is taken for the whole file.
ReadOnce(c) ==
  \/ At(c, "get", "open") /\ OpenToRead(c, call[c].path, "read")
  \/ /\ At(c, "get", "read")
     /\ \/ /\ call[c].at = 0
           /\ call' = [call EXCEPT ![c].got[1] = ChunkAt(data[call[c].in], 0), ![c].at = 1]
        \/ call[c].at = 1 /\ Finish(c, "ok")
     /\ UNCHANGED <<node, data, disturbed, torn>>

\* ReadFile reads until the end of the file.
Get(c) ==
  \/ At(c, "get", "open") /\ OpenToRead(c, call[c].path, "read")
  \/ /\ At(c, "get", "read")
     /\ LET chunk == ChunkAt(data[call[c].in], call[c].at)
        IN \/ /\ chunk # End
              /\ call' = [call EXCEPT ![c].got[call[c].at + 1] = chunk, ![c].at = @ + 1]
           \/ (chunk = End /\ Finish(c, "ok"))
     /\ UNCHANGED <<node, data, disturbed, torn>>

CopyBegin(c, p, q) ==
  /\ Begin(c, [Idle EXCEPT !.op = "copy", !.step = "open", !.path = p, !.to = q])
  /\ UNCHANGED <<node, data, disturbed, torn>>

\* The source is opened before the target is truncated: when both are one
\* file, nothing is left to copy.  A directory opens too; only reading it
\* fails, and by then the target is truncated.
Copy(c) ==
  \/ /\ At(c, "copy", "open") /\ ~IsDir(call[c].path)
     /\ OpenToRead(c, call[c].path, "parent")
  \/ /\ At(c, "copy", "open") /\ IsDir(call[c].path)
     /\ Goto(c, "parent")
     /\ UNCHANGED <<node, data, disturbed, torn>>
  \/ /\ At(c, "copy", "parent") /\ ensureParentDir(c, call[c].to, "create")
     /\ UNCHANGED <<data, disturbed, torn>>
  \/ At(c, "copy", "create") /\ Create(c, call[c].to)
  \/ /\ At(c, "copy", "write")
     /\ \/ call[c].in # None /\ WriteChunk(c, ChunkAt(data[call[c].in], call[c].at))
        \/ WriteFails(c)
     /\ UNCHANGED <<node, disturbed>>

-----------------------------------------------------------------------------
(* Names: Move, Delete, directories.                                       *)

MoveBegin(c, p, q) ==
  /\ Begin(c, [Idle EXCEPT !.op = "move", !.step = "parent", !.path = p, !.to = q])
  /\ UNCHANGED <<node, data, disturbed, torn>>

\* os.Root.Rename: a file takes the name of a file, a directory that of an
\* empty directory, either a name that was free.
CanRename(p, q) ==
  /\ Reachable(q)
  /\ \/ IsFile(p) /\ ~IsDir(q)
     \/ IsDir(p) /\ ~IsFile(q) /\ (IsDir(q) => IsEmpty(q))
CannotFind(p, q) == Missing(p) \/ \E d \in Above[q] : Missing(d)

Move(c) ==
  /\ \/ At(c, "move", "parent") /\ ensureParentDir(c, call[c].to, "rename")
     \/ /\ At(c, "move", "rename")
        /\ LET p == call[c].path  q == call[c].to
           IN \/ /\ CanRename(p, q)
                 /\ node' = IF p = q THEN node ELSE [node EXCEPT ![p] = Absent, ![q] = node[p]]
                 /\ Finish(c, "ok")
              \/ /\ ~CanRename(p, q)
                 /\ Finish(c, IF CannotFind(p, q) THEN "notfound" ELSE "error")
                 /\ UNCHANGED node
  /\ UNCHANGED <<data, disturbed, torn>>

DeleteBegin(c, ps) ==
  /\ Begin(c, [Idle EXCEPT !.op = "delete", !.step = "remove", !.todo = ps])
  /\ UNCHANGED <<node, data, disturbed, torn>>

\* os.Root.Remove takes a file or an empty directory.
Removable(p) == IsFile(p) \/ (IsDir(p) /\ IsEmpty(p))

\* Every path is tried, whatever became of the ones before it.
Delete(c) ==
  /\ At(c, "delete", "remove")
  /\ \/ \E p \in call[c].todo :
          /\ node' = IF Removable(p) THEN [node EXCEPT ![p] = Absent] ELSE node
          /\ call' = [call EXCEPT ![c].todo = @ \ {p},
                                 ![c].result = IF Removable(p) \/ Missing(p) THEN @ ELSE "error"]
     \/ /\ call[c].todo = {}
        /\ Finish(c, IF call[c].result = "error" THEN "error" ELSE "ok")
        /\ UNCHANGED node
  /\ UNCHANGED <<data, disturbed, torn>>

MakeDirectory(c, p) ==
  /\ call[c] = Idle
  /\ CanMkdir(Above[p] \cup {p})
  /\ node' = Mkdir(Above[p] \cup {p})
  /\ UNCHANGED <<data, call, disturbed, torn>>

DeleteDirectoryBegin(c, p) ==
  /\ Begin(c, [Idle EXCEPT !.op = "deletedir", !.step = "remove", !.path = p])
  /\ UNCHANGED <<node, data, disturbed, torn>>

\* RemoveAll takes what is inside and then the path itself, file or
\* directory; it gives up when the directory has filled up again meanwhile.
DeleteDirectory(c) ==
  /\ At(c, "deletedir", "remove")
  /\ LET p == call[c].path
     IN \/ \E q \in Inside[p] \cup {p} :
              /\ Removable(q)
              /\ node' = [node EXCEPT ![q] = Absent]
              /\ UNCHANGED call
        \/ Missing(p) /\ Finish(c, "ok") /\ UNCHANGED node
        \/ ~Missing(p) /\ ~Removable(p) /\ Finish(c, "error") /\ UNCHANGED node
  /\ UNCHANGED <<data, disturbed, torn>>

-----------------------------------------------------------------------------
(* Listings.                                                               *)

Wanted(want) == IF want = "files" THEN Files ELSE Directories

\* Mutation of listShallow: the kind asked for is ignored.
FilesWhateverAsked(d, want) == IF IsDir(d) THEN Children[d] \cap Files ELSE {}
\* Files and Directories read one directory at once.
listShallow(d, want) == IF IsDir(d) THEN Children[d] \cap Wanted(want) ELSE {}

\* AllFiles and AllDirectories.
listDeepBegin(c, d, want) ==
  /\ Begin(c, [Idle EXCEPT !.op = "list", !.step = "walk", !.path = d,
                          !.want = want, !.todo = {d}])
  /\ UNCHANGED <<node, data, disturbed, torn>>

\* The walk answers: a directory that is not there any more, be it the one
\* listed or one met on the way, is no error and no result.
Answer(c, seen, result) ==
  call' = [call EXCEPT ![c] = [Idle EXCEPT !.op = "list", !.step = "done",
    !.path = call[c].path, !.want = call[c].want, !.seen = seen, !.result = result]]

\* WalkDir reads one directory after the other.
listDeep(c) ==
  /\ At(c, "list", "walk")
  /\ \/ \E d \in call[c].todo :
          \/ /\ IsDir(d)
             /\ call' = [call EXCEPT
                  ![c].todo = (@ \ {d}) \cup (Children[d] \cap Directories),
                  ![c].seen = @ \cup listShallow(d, call[c].want)]
          \/ /\ ~IsDir(d)
             /\ Answer(c, {}, IF Missing(d) \/ d = call[c].path THEN "ok" ELSE "error")
     \/ call[c].todo = {} /\ Answer(c, call[c].seen, "ok")
  /\ UNCHANGED <<node, data, disturbed, torn>>

-----------------------------------------------------------------------------
Return(c) ==
  /\ call[c].step = "done"
  /\ call' = [call EXCEPT ![c] = Idle]
  /\ disturbed' = [disturbed EXCEPT ![c] = FALSE]
  /\ UNCHANGED <<node, data, torn>>

\* What a walk was asked for and has been there all along: what there was when
\* it began and no step has taken away or replaced since.
KeepSteady == steady' = [c \in Clients |->
  IF call'[c].op # "list" THEN {}
  ELSE IF call[c].op # "list" THEN Inside[call'[c].path] \cap Wanted(call'[c].want)
  ELSE {p \in steady[c] : node'[p] = node[p]}]

\* A disk opened on a directory that may hold files already.
Untouched ==
  /\ call = [c \in Clients |-> Idle]
  /\ disturbed = [c \in Clients |-> FALSE]
  /\ torn = [i \in Inodes |-> FALSE]
  /\ steady = [c \in Clients |-> {}]
  /\ calls = 0

LocalInit ==
  /\ node \in [Dirs -> Inodes \cup {Absent, Directory}]
  /\ node[Root] = Directory
  /\ \A p \in Paths : Exists(p) => Reachable(p)
  /\ \A p, q \in Paths : IsFile(p) /\ node[p] = node[q] => p = q
  /\ data \in [Inodes -> {Bytes(v) : v \in Values}]
  /\ Untouched

\* No local disk has been opened.
LocalUnused ==
  /\ node = [p \in Dirs |-> IF p = Root THEN Directory ELSE Absent]
  /\ data = [i \in Inodes |-> Empty]
  /\ Untouched

CallLocal(c) ==
  /\ calls < MaxCalls
  /\ calls' = calls + 1
  /\ \/ \E p \in Paths, v \in Values : PutBegin(c, p, v)
     \/ \E p \in FilePaths : GetBegin(c, p)
     \/ \E p, q \in FilePaths : CopyBegin(c, p, q) \/ MoveBegin(c, p, q)
     \/ \E ps \in Batches : DeleteBegin(c, ps)
     \/ \E p \in DirectoryPaths : MakeDirectory(c, p)
     \/ \E p \in Paths : DeleteDirectoryBegin(c, p)
     \/ \E d \in {Root} \cup DirectoryPaths, want \in {"files", "dirs"} :
          listDeepBegin(c, d, want)

StepLocal(c) ==
  /\ \/ Put(c) \/ Get(c) \/ Copy(c) \/ Move(c) \/ Delete(c) \/ DeleteDirectory(c)
     \/ listDeep(c) \/ Return(c)
  /\ UNCHANGED calls

LocalNext == (\E c \in Clients : CallLocal(c) \/ StepLocal(c)) /\ KeepSteady

LocalSpec == LocalInit /\ [][LocalNext]_localVars

-----------------------------------------------------------------------------
(* Properties.                                                             *)

LocalTypeOK ==
  /\ node \in [Dirs -> Inodes \cup {Absent, Directory}]
  /\ node[Root] = Directory
  /\ data \in [Inodes -> Contents]
  /\ disturbed \in [Clients -> BOOLEAN]
  /\ torn \in [Inodes -> BOOLEAN]
  /\ steady \in [Clients -> SUBSET Paths]
  /\ calls \in 0..MaxCalls
  /\ \A c \in Clients :
       /\ call[c].in \in Inodes \cup {None}
       /\ call[c].out \in Inodes \cup {None}
       /\ call[c].at \in 0..Chunks
       /\ call[c].todo \subseteq Dirs
       /\ call[c].seen \subseteq Paths

\* A file nobody is writing, and whose last write neither failed nor was cut
\* into by another, holds one value whole: no tail of what it held before, no
\* mixture, no hole (Put and Copy truncate and then write, local.go:98, 157).
SettledFilesAreWhole ==
  \A p \in Files :
    ~torn[node[p]] /\ ~Writing(node[p]) => \E v \in Values : data[node[p]] = Bytes(v)

\* A Put or Copy that returns nil undisturbed has stored what it was given:
\* the value, or all the source holds (local.go:98, 157).
WritesWhatItWasGiven ==
  [][\A c \in Clients :
       call[c].step = "write" /\ call'[c].result = "ok" /\ ~disturbed[c]
         => data'[call[c].out] = IF call[c].op = "put" THEN Bytes(call[c].value)
                                 ELSE data[call[c].in]]_localVars

\* A Get of a file nobody wrote meanwhile returns a whole value (local.go:118).
ReadsAreWhole ==
  \A c \in Clients :
    call[c].op = "get" /\ call[c].result = "ok" /\ ~disturbed[c]
      => \E v \in Values : call[c].got = Bytes(v)

\* AllFiles and AllDirectories answer all or nothing: whatever comes and goes
\* beside them, they list everything that was there all along or else nothing
\* (a directory removed under the walk empties the answer, local.go:371).
ListsAllOrNothing ==
  \A c \in Clients :
    call[c].op = "list" /\ call[c].step = "done"
      => call[c].seen = {} \/ steady[c] \subseteq call[c].seen
=============================================================================
