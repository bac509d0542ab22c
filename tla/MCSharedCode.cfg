CONSTANTS
  NbCores = 1
  InstBlocks = {1, 2}
  DataBlocks = {1, 3}
  L1Sets = 1
  L1Ways = 1
  LLCSets = 1
  SRAMWays = 0
  NVMWays = 2
  Policy = "LRU"
  EnablePrefetch = FALSE
  MaxStride = 0
  StatRange = 1
SPECIFICATION Spec
INVARIANT NoAssertFails
