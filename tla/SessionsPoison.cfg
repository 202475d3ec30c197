SPECIFICATION Spec
CONSTANTS
  t1 = t1
  t2 = t2
  s1 = s1
  s2 = s2
  Threads <- MCOneThread
  Ids <- MCOneId
  Caller = Caller
  None = None
  Accelerators = {FALSE}
  MaxNesting = 2
  MaxCalls = 1
  MaxRows = 2
  MaxPasses = 1
INVARIANTS
  PoisonedAfterExecution
CHECK_DEADLOCK FALSE
