SPECIFICATION Spec
CONSTANTS
  HeaderLen = 2
  FixedSize = 4
  MinPayload = 2
  ReadMax = 6
  InCap = 6
  OutCap = 1
  Streams <- MCZero
  MaxLosses = 0
PROPERTY DiscardedIsIncomplete
CHECK_DEADLOCK FALSE
