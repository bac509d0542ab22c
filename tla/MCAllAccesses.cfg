CONSTANTS
  NbCores = 2
  InstBlocks = {3}
  DataBlocks = {1, 2, 3}
  L1Sets = 1
  L1Ways = 1
  LLCSets = 2
  SRAMWays = 0
  NVMWays = 1
  Policy = "LRU"
  EnablePrefetch = TRUE
  MaxStride = 1
  StatRange = 1
SPECIFICATION Spec
INVARIANTS TypeOK IndexesAgree DirectoryMirrorsLLC TrackersMatchState
PROPERTY InclusionIsKept
CHECK_DEADLOCK FALSE
