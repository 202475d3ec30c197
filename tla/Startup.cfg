SPECIFICATION StartupSpec
CONSTANTS
  Threads = {t1, t2}
  Shards = {1, 2}
  Matrices = {1, 2}
  Fp4 = TRUE
  Exact = TRUE
INVARIANTS
  LoadGivesBack
  AcceleratorIsWhole
  LocaleIsComplete
PROPERTY
  EveryCallReturns
CHECK_DEADLOCK FALSE
