SPECIFICATION FairSpec
CONSTANTS
  NoId = NoId
  Ids = {i1}
  Http = {h1, h2}
  Tcp = {t1}
  FaultSets <- MCFaultSets
  MaxExpiries = 1
INVARIANTS
  TypeOK
  OneCarrier
  AcceptedIsQueued
  ConflictIsCovered
  TcpAnswerIsCovered
PROPERTIES
  ClaimedOnce
  RequestEnds
  ReceivedIsQueued
