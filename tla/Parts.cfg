SPECIFICATION Spec
CONSTANTS
  KmsBuffers = {1, 2, 3, 4}
  KmsStreamFrames = 5
  KmsExpectedFrames = {0, 1, 4}
  PathCounts = {1, 2, 3}
  MaxInterfaces = 2
  MaxTraffic = 2
  RingBlocks = 5
  InputHeld = 2
INVARIANTS
  PassIsEarned
  InvalidateAfterLoss
  ResourcesHeld
  BridgeFaithful
  RingDelivers
  HeldIsReleased
  CodecsAgree
  ComputesItsReport
PROPERTIES
  ComesToRest
  OtherDesktopUntouched
CHECK_DEADLOCK FALSE
