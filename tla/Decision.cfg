SPECIFICATION FairSpec
CONSTANTS
  none = none
  Tokens <- MCTokens
  Requests <- MCRequests
  Empty = none
  Context = 6
  KVLimit = 9
  MaxRows = 3
INVARIANTS
  TypeOK
  CacheComplete
  PassFits
PROPERTIES
  CallEnds
  ImplementsAnswers
CHECK_DEADLOCK FALSE
