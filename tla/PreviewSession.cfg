SPECIFICATION FairSpec
CONSTANTS
  Bitrates = {1, 2}
  FirstBitrate = 1
  MaxInFlight = 2
  MaxRestarts = 1
INVARIANTS
  NothingAfterDrain
  OneBitrate
  RecoverySound
PROPERTIES
  TapsDoNotOverlap
  ImplementsStreamLife
  BitrateTaken
CHECK_DEADLOCK FALSE
