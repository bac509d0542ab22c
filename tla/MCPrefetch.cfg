CONSTANTS
  NbCores = 1
  InstBlocks = {4}
  DataBlocks = {1, 2, 3}
  L1Sets = 1
  L1Ways = 1
  LLCSets = 1
  SRAMWays = 1
  NVMWays = 1
  Policy = "preemptive"
  EnablePrefetch = TRUE
  MaxStride = 1
  StatRange = 2
SPECIFICATION Spec
INVARIANTS NoAssertFails Inclusion DirectoryMirrorsLLC FetchesBalance PrefetchedIsUnused
