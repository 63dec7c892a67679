SPECIFICATION FairSpec
CONSTANTS
  Configs <- UsableConfigs
  Lanes = {"media", "input", "data"}
  Capacity = 2
  MaxArrivals = 4
INVARIANTS Gated LaneAccounts
PROPERTIES StopIsFinal StopReturns NothingMissed
