SPECIFICATION Spec
CONSTANTS
  m1 = m1
  m2 = m2
  m3 = m3
  p = p
  g = g
  u = u
  t1 = t1
  t2 = t2
  Msgs = {m1, m2}
  Garbage = {}
  Unroutable = {}
  Tables = {t1, t2}
  TableOf <- MCTableOf
  Poison = {}
  BatchSize = 2
  MinPrefetch = 3
  Word = 65536
  Faults = {"crash"}
  MaxLosses = 1
INVARIANT StoredOnce
