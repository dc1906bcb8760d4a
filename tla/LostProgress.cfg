SPECIFICATION StreamSpec
CONSTANTS
  Capacity = 1
  ProgressCapacity = 1
  Detached = {t1}
  MaxPorts = 1
  MaxProduced = 3
INVARIANTS
  EveryLossCounted
