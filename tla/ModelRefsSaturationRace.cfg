SPECIFICATION Spec
CONSTANTS
  t1 = t1
  t2 = t2
  t3 = t3
  h1 = h1
  h2 = h2
  h3 = h3
  h4 = h4
  h5 = h5
  Owners <- MCTwoThreads
  References <- MCHandles
  Saturated = 3
INVARIANTS
  AliveWhileHeld
CHECK_DEADLOCK FALSE
