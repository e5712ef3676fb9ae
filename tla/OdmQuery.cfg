\* The query builder (a query runs once; at most four queries are built), and
\* eager loading beside one write.
CONSTANTS
  Ids = {1, 2, 3, 4, 5, 6}
  Absent = Absent
  Null = Null
  MaxNumber = 3
  NoDoc = NoDoc
  Unused = Unused
  Seed <- TheDocs
  Conditions <- TheConditions
  Staged <- TheStaged
  Orders <- TheOrders
  Counts <- TheCounts
  MaxQueries = 4
  Collections = {"related"}
  RelatedIds = {1, 2}
  NullKey = NullKey
  Missing = Missing
  NoDocument = NoDocument
  ParentPages <- ThePages
  Keys <- TheKeys
  Relations <- TheRelations
  RelatedDocs <- TheRelated
  Rewritten <- TheRewritten
  Withs <- TheWiths
  MaxWrites = 1
SPECIFICATION Spec
INVARIANTS QueryTypeOK FiltersMeanTheirChain WhatIsSentIsLegal
PROPERTIES DerivedQueriesStay TrashIsRespected RelationsAreJoins
CHECK_DEADLOCK FALSE
