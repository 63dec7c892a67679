SPECIFICATION Spec
CONSTANTS
  Configs <- UsableConfigs
  Lanes = {"data"}
  Capacity = 2
  MaxArrivals = 2
INVARIANT QueuedBeforeError
