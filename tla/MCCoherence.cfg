CONSTANTS
  NbCores = 2
  InstBlocks = {3}
  DataBlocks = {1, 2}
  L1Sets = 1
  L1Ways = 1
  LLCSets = 1
  SRAMWays = 1
  NVMWays = 3
  Policy = "LRU"
  EnablePrefetch = FALSE
  MaxStride = 0
  StatRange = 1
SPECIFICATION Spec
INVARIANTS NoAssertFails TrackersAreHolders ModifiedIsDirty
PROPERTY ImplementsCoherence
