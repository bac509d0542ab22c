CONSTANTS
  NbCores = 1
  InstBlocks = {4}
  DataBlocks = {1, 2, 3}
  L1Sets = 1
  L1Ways = 2
  LLCSets = 1
  SRAMWays = 0
  NVMWays = 3
  Policy = "LRU"
  EnablePrefetch = FALSE
  MaxStride = 0
  StatRange = 1
SPECIFICATION Spec
INVARIANTS NoAssertFails Inclusion
