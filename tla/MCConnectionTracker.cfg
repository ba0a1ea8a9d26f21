SPECIFICATION FairSpec
CONSTANTS
  Ips = {a, b}
  Conns = {c1, c2, c3}
  Trackers = {r1, r2}
  MaxTotal = 2
  MaxPerIp = 2
INVARIANTS
  TypeOK
  TotalIsExact
  TotalBound
  NeverOvercounted
PROPERTIES
  RefusedWhenFull
  GuardsReturn
