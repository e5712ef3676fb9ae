\* Two callers, two calls between them, files of one and of two chunks,
\* listings by pages of two keys.
CONSTANTS
  d = d  e = e  x = x  z = z  v1 = v1  v2 = v2  c1 = c1  c2 = c2
  i1 = i1  i2 = i2  i3 = i3
  Paths = {d, e, x, z}
  FilePaths = {x, z}
  Root = Root
  Above <- PathsIn
  Rank <- Alphabetical
  Clients = {c1, c2}
  Values = {v1, v2}
  MaxCalls = 2
  Inodes = {i1, i2, i3}
  Chunks = 2
  Length <- LongAndShort
  Absent = Absent  Directory = Directory  End = End  Hole = Hole  None = None
  Nothing = Nothing  Marker = Marker
  PageSize = 2
SPECIFICATION Spec
SYMMETRY Symmetry
VIEW View
CHECK_DEADLOCK FALSE
INVARIANTS LocalTypeOK SettledFilesAreWhole ReadsAreWhole ListsAllOrNothing
  S3TypeOK DeletionsAreComplete MovesLoseNothing ListingsAreComplete ListingsAgree
PROPERTIES WritesWhatItWasGiven
