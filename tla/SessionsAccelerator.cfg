SPECIFICATION FairSpec
CONSTANTS
  t1 = t1
  t2 = t2
  s1 = s1
  s2 = s2
  Threads <- MCThreads
  Ids <- MCTwoIds
  Caller = Caller
  None = None
  Accelerators = {TRUE}
  MaxNesting = 2
  MaxCalls = 2
  MaxRows = 1
  MaxPasses = 1
INVARIANTS
  LockFollowsCall
PROPERTY
  EveryCallReturns
CHECK_DEADLOCK FALSE
