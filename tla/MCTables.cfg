CONSTANTS
  Assoc = 3
  HalfRange = 8
  UpdateBound = 8
  PageSize = 4
  NbStreams = 2
  Degree = 2
  AddressBound = 9
  AccessBound = 5
  InstBlocks = {3}
  DataBlocks = {1, 2, 3}
  NbSets = 1
  SRAMWays = 1
  NVMWays = 2
  TagWays = 3
  Predictors <- MCPredictors
  PCs = {0, 1}
  CostThreshold = 0
  TimeBound = 4
  CostBound = 0
  CountBound = 2
  Width = 7
  MaxBlockBits = 3
  MaxSetBits = 3
SPECIFICATION TablesSpec
INVARIANTS TablesTypeOK MissingTagsAreMissing MissingTagsAreUnique ShadowIsRecent SetIsThatOfBlock
PROPERTIES StampsImplementLRU SuccessorIsPrefetched
CHECK_DEADLOCK FALSE
