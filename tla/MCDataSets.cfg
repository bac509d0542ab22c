CONSTANTS
  InstBlocks = {3}
  DataBlocks = {1, 2}
  NbSets = 1
  SRAMWays = 1
  NVMWays = 2
  PCs = {0, 1, 2}
  Uses <- MCUses
  TableSets = 1
  TableWays = 1
  OptTarget = "energy"
  WindowSize = 1
  DeadSaturation = 1
  LearningTH = 2
  EnableBP = TRUE
  EnableMigration = TRUE
  L1Lines = 1
  HistoryBound = 2
SPECIFICATION DataSetsLiveSpec
INVARIANTS DataSetsTypeOK DecisionFollowsStatus DataSetsKeepIndex
PROPERTIES BypassEndsByReuse CachedUnlessBypassed BypassedIsSampled
