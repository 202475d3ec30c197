SPECIFICATION Spec
CONSTANTS
  t1 = t1
  t2 = t2
  t3 = t3
  h1 = h1
  h2 = h2
  h3 = h3
  h4 = h4
  h5 = h5
  Owners <- MCOneThread
  References <- MCManyHandles
  Saturated = 3
INVARIANTS
  TypeOK
  AliveWhileHeld
CHECK_DEADLOCK FALSE
