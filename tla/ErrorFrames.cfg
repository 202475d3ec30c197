SPECIFICATION Spec
CONSTANTS
  b1 = b1
  b2 = b2
  c1 = c1
  c2 = c2
  Blocks <- MCBlocks
  Cleanups <- MCCleanups
  Defaults <- MCDefaults
  Raised <- MCRaised
  Ok = "ok"
  Invalid = "invalid argument"
  OutOfMemory = "out of memory"
  Internal = "internal"
  CleanupMax = 2
  CleanupStackMax = 3
  MaxDepth = 2
  MaxSequence = 3
SYMMETRY Symmetry
INVARIANTS
  TypeOK
  ListMatchesFlags
  TrackedInsideCalls
  MarksOrdered
PROPERTY
  ImplementsOwnership
