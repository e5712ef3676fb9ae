\* Four calls, transactions or edits; transactions of two attempts at most.
CONSTANTS
  m1 = m1
  m2 = m2
  m3 = m3
  Models = {m1, m2, m3}
  Hooked = {m1}
  Nil = Nil
  MaxId = 3
  Given = 1
  NoId = NoId
  NoDoc = NoDoc
  MaxValue = 2
  Calls <- TheCalls
  Callbacks <- TheCallbacks
  MaxCalls = 4
  MaxAttempts = 2
SPECIFICATION Spec
INVARIANTS TypeOK OneDocumentPerModel KnownModelsAreStored StoredModelsAreKnown
PROPERTIES CommittedIsStored
CHECK_DEADLOCK FALSE
