SPECIFICATION FairSpec
CONSTANTS
  Configs <- UsableConfigs
  Lanes = {"data"}
  Capacity = 1
  MaxArrivals = 1
PROPERTY StopAlwaysReturns
