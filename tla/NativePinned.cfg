SPECIFICATION Spec
CONSTANTS
  Configs <- AllConfigs
  Lanes = {"data"}
  Capacity = 1
  MaxArrivals = 1
INVARIANT PinnedProceeds
