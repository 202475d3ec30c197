SPECIFICATION Spec
CONSTANTS
  Files <- MCFiles
  Texts <- MCTexts
  None = None
  Prompts <- MCPrompts
  Canvases <- MCCanvases
  Accels = {TRUE, FALSE}
  L = 3
  FullEvery = 2
  Window = 2
  Common = 2
  MaxSegments = 3
  Logits <- MCLogits
  MaxTokens = 3
  TopK = 2
  TileTokens = 2
  GridY = 3
  Shapes <- MCShapes
  NeonRows = 4
  NeonKeys = 8
  ExactRows = 4
  TokenBlock = 2
  ScaleCols = 4
  Launches <- MCLaunches
  BlockRows = 2
  BlockTokens = 4
  Slices = 2
  ChunkUnits = 2
  BlockGridY = 2
  SlotLogits <- MCSlotLogits
  LabelLists <- MCLabelLists
  MaxSlots = 2
  MostLabels = 2
  TopN = 2
INVARIANTS
  TokensSpell
  KVIsThePrompts
  CanvasesReadAlone
  MixtureIsTheTokensOwn
  TilesCoverRows
  EverySumInOrder
  DeviceSumsInOrder
  EachCountedOnce
PROPERTY
  ImplementsScan
CHECK_DEADLOCK FALSE
