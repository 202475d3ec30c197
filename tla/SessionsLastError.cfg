SPECIFICATION Spec
CONSTANTS
  t1 = t1
  t2 = t2
  s1 = s1
  s2 = s2
  Threads <- MCOneThread
  Ids <- MCTwoIds
  Caller = Caller
  None = None
  Accelerators = {FALSE}
  MaxNesting = 2
  MaxCalls = 2
  MaxRows = 1
  MaxPasses = 1
PROPERTY
  LastErrorDescribesFailure
CHECK_DEADLOCK FALSE
