----------------------------- MODULE StoragePaths -----------------------------
(***************************************************************************)
(* Paths of a storage.Disk (src/storage/storage.go) and what listing a     *)
(* directory means.  A path is a value; Above gives the directories it     *)
(* lies in, up to the root.  A leading slash is spelling both drivers drop *)
(* (normalize, key), so it has no place here.                              *)
(***************************************************************************)
EXTENDS Naturals, FiniteSets

CONSTANTS
  Paths,      \* the paths callers use
  FilePaths,  \* those of them they read, copy and move; bound: nothing
              \* lies in one, so a directory that is moved is an empty one
  Root,       \* the empty path, the top directory of the disk
  Above,      \* path -> the directories it lies in
  Rank,       \* path -> its place in alphabetical order
  Clients,    \* goroutines that call the disk
  Values,     \* what callers store
  MaxCalls    \* bound: calls made

ASSUME PathsAssumption ==
  /\ IsFiniteSet(Paths) /\ FilePaths \subseteq Paths /\ Root \notin Paths
  /\ MaxCalls \in Nat
  /\ Rank \in [Paths \cup {Root} -> Nat]
  /\ Above \in [Paths \cup {Root} -> SUBSET (Paths \cup {Root})]
  /\ Above[Root] = {}
  /\ \A p \in Paths : Root \in Above[p] /\ p \notin Above[p]
  /\ \A p \in Paths : Above[p] \cap FilePaths = {}
  /\ \A p \in Paths : \A q \in Above[p] :
       /\ Above[q] \subseteq Above[p]
       /\ \E r \in Above[p] \cup {p} : Above[r] = Above[q] \cup {q}

Dirs == Paths \cup {Root}

Inside == [d \in Dirs |-> {p \in Paths : d \in Above[p]}]
\* Callers never make a directory of a path they use for files.
DirectoryPaths == Paths \ FilePaths
\* The argument lists of Delete.
Batches == {{p} : p \in Paths} \cup {FilePaths}

Children == [d \in Dirs |-> {p \in Inside[d] : Above[p] = Above[d] \cup {d}}]

\* What the contract says of the four listings of directory d, on a disk that
\* holds these files and these directories.
ListedFiles(d, files) == Children[d] \cap files
ListedAllFiles(d, files) == Inside[d] \cap files
ListedDirectories(d, dirs) == Children[d] \cap dirs
ListedAllDirectories(d, dirs) == Inside[d] \cap dirs
=============================================================================
