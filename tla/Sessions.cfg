SPECIFICATION Spec
CONSTANTS
  t1 = t1
  t2 = t2
  s1 = s1
  s2 = s2
  Threads <- MCThreads
  Ids <- MCOneId
  Caller = Caller
  None = None
  Accelerators = {FALSE}
  MaxNesting = 2
  MaxCalls = 3
  MaxRows = 2
  MaxPasses = 1
SYMMETRY Symmetry
INVARIANTS
  OneCallAtATime
  IdleIsQuiescent
  ModelOutlivesUse
  PoisonFollowsPhase
  ErrorIsLatest
PROPERTY
  PoisonIsFinal
CHECK_DEADLOCK FALSE
