\* Documents whose sort field may be null or missing; nobody writes.
CONSTANTS
  createdAt = createdAt  rank = rank  idKey = idKey
  Ids = {1, 2, 3}
  SortFields = {createdAt, rank}
  IdKey = idKey
  SortValues <- NullableValues
  Null = Null  Missing = Missing
  NoDoc = NoDoc  NoCursor = NoCursor
  Queries <- MCOneQuery
  MaxLimit = 2
  MaxWrites = 0
SPECIFICATION Spec
INVARIANT ExactlyOnce
CHECK_DEADLOCK FALSE
