SPECIFICATION Spec
CONSTANTS
  Widths = {3}
  Heights = {1, 2}
  Pads = {0, 2}
  ThreadsPerBlock = 4
  SampleCounts = {1}
  RowCounts = {1}
  ThreadCounts = {1}
  Areas = {}
  Rates = {}
INVARIANT EncoderSeesPicture
CHECK_DEADLOCK FALSE
