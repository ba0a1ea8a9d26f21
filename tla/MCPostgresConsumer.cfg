SPECIFICATION FairSpec
CONSTANTS
  m1 = m1
  m2 = m2
  m3 = m3
  p = p
  g = g
  u = u
  k1 = k1
  k2 = k2
  Msgs = {m1, m2, m3, p, g, u}
  Garbage = {g}
  Unusable = {u}
  Rows = {k1, k2}
  RowOf <- MCRowOf
  Cancelled = {m3}
  Sale = {m1, m2, m3}
  Poison = {p}
  BatchSize = 2
  MinPrefetch = 3
  Word = 65536
  Faults = {"db", "db_reply", "telegram", "channel", "crash"}
  MaxLosses = 1
INVARIANTS
  TypeOK
  NoneForgotten
  AckedIsCounted
  TotalsPerLoss
PROPERTIES
  SinkSafe
  Settles
CHECK_DEADLOCK FALSE
