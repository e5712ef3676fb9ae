\* Two calls beside each other, one retry each, batches of two names.
CONSTANTS
  Stores = {"app", "wild", "bare"}
  NoStore = NoStore
  Prefix <- PrefixOf
  Owned <- OwnedBy
  Keys = {"k", "l", "m"}
  Asked <- TheNames
  Clients = {"c1", "c2"}
  Half = 2
  Text = {text}
  Puts = {1}
  Left = {text}
  Amounts <- TheAmounts
  TTLs <- TheTTLs
  Absent = Absent
  Never = Never
  NotAnInteger = NotAnInteger
  WouldOverflow = WouldOverflow
  BatchSize = 2
  MaxRetries = 1
  MaxTime = 2
  MaxCalls = 2
SPECIFICATION Spec
INVARIANTS TypeOK FlushRemovesAll
PROPERTIES KeepsTheContract EveryCallReturns
CHECK_DEADLOCK FALSE
