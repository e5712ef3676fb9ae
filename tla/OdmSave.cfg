\* Two goroutines, one field, hooks before the write free to edit and fail.
CONSTANTS
  h1 = h1  h2 = h2  d1 = d1  d2 = d2
  name = name  note = note  legacy = legacy  updatedAt = updatedAt
  zero = zero  val = val
  Handles = {h1, h2}
  Ids = {d1, d2}
  Fields = {name, note}
  Undeclared = {legacy}
  OmitEmpty = {note}
  UpdatedAt = updatedAt
  Values = {zero, val}
  Zero = zero
  Absent = Absent
  NoDoc = NoDoc
  NoId = NoId
  Timestamped = TRUE
  Seeds <- MCSeeds
  Projections <- MCProjections
  BeforeCreateHooks = {"ok", "edit", "identify", "fail"}
  BeforeUpdateHooks = {"ok", "edit", "fail"}
  AfterCreateHooks = {"ok", "edit", "fail"}
  AfterUpdateHooks = {"ok"}
  Outcomes = {"ok", "refused", "unacknowledged"}
  MaxTime = 2
  MaxCalls = 5
SPECIFICATION Spec
SYMMETRY Symmetry
INVARIANTS TypeOK OriginalAgrees OneDocument HooksSeeWrite
PROPERTIES NoClobber
CHECK_DEADLOCK FALSE
