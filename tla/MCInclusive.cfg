CONSTANTS
  InstBlocks = {3}
  DataBlocks = {1, 2}
  NbSets = 1
  SRAMWays = 1
  NVMWays = 1
  Policies = {"Saturation"}
  SaturationThreshold = 2
  DynamicThreshold = 3
  LastThreshold = 20
  CounterBound = 3
SPECIFICATION MigrationSpec
INVARIANT LLCIncludesL1
