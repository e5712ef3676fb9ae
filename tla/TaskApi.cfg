\* One task, two requests at a time, with and without caching.
CONSTANTS
  t1 = t1  r1 = r1  r2 = r2
  Tasks = {t1}
  Requests = {r1, r2}
  TTLs = {0, 1}
  RequestTime = 1
  FillTime = 1
  MaxVersion = 2
  MaxTime = 4
  NoTask = NoTask  NoRow = NoRow  Absent = Absent  Never = Never
SPECIFICATION Spec
SYMMETRY Symmetry
INVARIANTS TypeOK StaleOnlySoLong StaleOnlyByRace NoOrphans
