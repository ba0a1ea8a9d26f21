SPECIFICATION FairSpec
CONSTANTS
  HeaderLen = 2
  FixedSize = 4
  MinPayload = 2
  ReadMax = 6
  InCap = 6
  OutCap = 1
  Streams <- MCStreams
  MaxLosses = 1
INVARIANTS
  TypeOK
  FramesAsSent
  AnswersInOrder
  NoFrameWaits
  BufferBounded
PROPERTIES
  InOrderService
  Answered
  ConnectionEnds
CHECK_DEADLOCK FALSE
