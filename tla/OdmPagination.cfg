\* Documents that repeat sort values, others writing while a caller pages.
CONSTANTS
  createdAt = createdAt  rank = rank  idKey = idKey
  Ids = {1, 2, 3}
  SortFields = {createdAt, rank}
  IdKey = idKey
  SortValues <- MCSortValues
  Null = Null  Missing = Missing
  NoDoc = NoDoc  NoCursor = NoCursor
  Queries <- MCQueries
  MaxLimit = 2
  MaxWrites = 3
SPECIFICATION Spec
INVARIANTS TypeOK ExactlyOnce InOrder HasMoreHonest
CHECK_DEADLOCK FALSE
