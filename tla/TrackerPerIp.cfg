SPECIFICATION Spec
CONSTANTS
  Ips = {a}
  Conns = {c1, c2}
  Trackers = {r1}
  MaxTotal = 2
  MaxPerIp = 1
INVARIANT PerIpBound
