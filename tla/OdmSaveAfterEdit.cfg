\* AfterUpdate or an Updated observer may change the model.
CONSTANTS
  h1 = h1  h2 = h2  d1 = d1  d2 = d2
  name = name  note = note  legacy = legacy  updatedAt = updatedAt
  zero = zero  val = val
  Handles = {h1, h2}
  Ids = {d1, d2}
  Fields = {name, note}
  Undeclared = {legacy}
  OmitEmpty = {note}
  UpdatedAt = updatedAt
  Values = {zero, val}
  Zero = zero
  Absent = Absent
  NoDoc = NoDoc
  NoId = NoId
  Timestamped = TRUE
  Seeds <- MCSeeds
  Projections <- MCProjections
  BeforeCreateHooks = {"ok"}
  BeforeUpdateHooks = {"ok"}
  AfterCreateHooks = {"ok"}
  AfterUpdateHooks = {"ok", "edit"}
  Outcomes = {"ok"}
  MaxTime = 2
  MaxCalls = 5
SPECIFICATION Spec
SYMMETRY Symmetry
INVARIANT OriginalAgrees
CHECK_DEADLOCK FALSE
