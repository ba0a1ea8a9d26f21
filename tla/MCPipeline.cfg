SPECIFICATION FairSpec
CONSTANTS
  m1 = m1
  Msgs = {m1}
  Key <- MCKey
  Dated = {m1}
  MaxEdits = 2
  MaxStops = 2
INVARIANTS
  TypeOK
  OwedIsKept
PROPERTIES
  SinksSafe
  ConsumersAttach
  EventsSettle
CHECK_DEADLOCK FALSE
