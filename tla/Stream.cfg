SPECIFICATION StreamFairSpec
CONSTANTS
  Capacity = 2
  ProgressCapacity = 1
  Detached = {t1}
  MaxPorts = 2
  MaxProduced = 7
INVARIANTS
  LossesCounted
PROPERTIES
  NeverBlocksRunner
