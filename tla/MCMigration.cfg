CONSTANTS
  InstBlocks = {3}
  DataBlocks = {1, 2}
  NbSets = 1
  SRAMWays = 1
  NVMWays = 2
  Policies = {"Saturation", "DynamicSaturation"}
  SaturationThreshold = 2
  DynamicThreshold = 2
  LastThreshold = 3
  CounterBound = 3
SPECIFICATION MigrationSpec
INVARIANTS MigrationTypeOK MigrationKeepsIndex CachedIsTracked CountersBelowThreshold
PROPERTY AccessedIsCached
