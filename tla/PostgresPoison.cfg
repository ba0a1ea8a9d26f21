SPECIFICATION FairSpec
CONSTANTS
  m1 = m1
  m2 = m2
  m3 = m3
  p = p
  g = g
  u = u
  k1 = k1
  k2 = k2
  Msgs = {m1, p}
  Garbage = {}
  Unusable = {}
  Rows = {k1, k2}
  RowOf <- MCRowOf
  Cancelled = {}
  Sale = {m1, p}
  Poison = {p}
  BatchSize = 2
  MinPrefetch = 3
  Word = 65536
  Faults = {}
  MaxLosses = 0
PROPERTY EveryMessageSettles
CHECK_DEADLOCK FALSE
