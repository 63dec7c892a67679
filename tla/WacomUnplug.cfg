SPECIFICATION Spec
CONSTANTS
  PathCounts = {1}
  MaxInterfaces = 2
  MaxTraffic = 1
PROPERTY
  UnplugDetaches
CHECK_DEADLOCK FALSE
