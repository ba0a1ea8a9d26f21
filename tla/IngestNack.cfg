SPECIFICATION Spec
CONSTANTS
  NoId = NoId
  Ids = {i1}
  Http = {h1, h2}
  Tcp = {t1}
  FaultSets = {{"nack"}}
  MaxExpiries = 0
INVARIANT EveryAcceptIsQueued
