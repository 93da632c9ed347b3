\* A logout between a login's reply and its entry.
SPECIFICATION FairSpec
CONSTANTS
  c1 = c1  c2 = c2  p1 = p1
  Users = {"u"}
  Proxies = {p1}
  Conns = {c1, c2}
  Home <- OneProxy
  MaxFaults = 0
PROPERTY ClosedGoesOffline
