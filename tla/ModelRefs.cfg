SPECIFICATION FairSpec
CONSTANTS
  t1 = t1
  t2 = t2
  t3 = t3
  h1 = h1
  h2 = h2
  h3 = h3
  h4 = h4
  h5 = h5
  Owners <- MCThreads
  References <- MCHandles
  Saturated = 5
INVARIANTS
  CountExact
  AliveWhileHeld
PROPERTY
  ImplementsSharedModel
CHECK_DEADLOCK FALSE
