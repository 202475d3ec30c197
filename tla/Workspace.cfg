SPECIFICATION Spec
CONSTANTS
  none = none
  None = none
  Models <- MCModels
  H = 2816
  Dense = 2112
  Moe = 704
  TopK = 8
  Experts = 128
  Heads = 16
  FullDim = 512
  LocalDim = 256
  FullHeads = 2
  LocalHeads = 8
  Vocab = 262144
  Layers = 6
  FullEvery = 6
  DeviceMatrix = 24
  DeviceTile = 12
  Calls <- MCCalls
INVARIANTS
  PlansAreExact
  BlocksAreOwned
  DeviceMemoryHolds
  FreedWithSession
CHECK_DEADLOCK FALSE
