SPECIFICATION FairSpec
CONSTANTS
  m1 = m1
  m2 = m2
  m3 = m3
  p = p
  g = g
  u = u
  t1 = t1
  t2 = t2
  Msgs = {m1, m2, m3, p, g, u}
  Garbage = {g}
  Unroutable = {u}
  Tables = {t1, t2}
  TableOf <- MCTableOf
  Poison = {p}
  BatchSize = 2
  MinPrefetch = 3
  Word = 65536
  Faults = {"db", "db_reply", "telegram", "channel", "crash"}
  MaxLosses = 1
INVARIANTS
  TypeOK
  NoneForgotten
  StagesDisjoint
  AckedIsStored
  RowsPerLoss
PROPERTIES
  SinkSafe
  Settles
CHECK_DEADLOCK FALSE
