\* A group of a user who moves between two proxies and one who takes over a
\* connection he has left; one look-up, send or INSERT may fail, or a stale
\* cache entry mislead, and one proxy may be interrupted.
SPECIFICATION DeliverySpec
CONSTANTS
  c1 = c1  c2 = c2  p1 = p1  p2 = p2
  Users = {"u", "v"}
  Proxies = {p1, p2}
  Conns = {c1, c2}
  Home <- TwoProxies
  MaxFaults = 1
  Messages = {"m"}
  Receivers <- ToAll
  Groups = {"m"}
INVARIANTS NobodyElseReads RefusalExplained MailWaitsOnlyIfOvertaken
PROPERTY KeepsPostPromise
CONSTRAINTS NoneUpset VTakesOver OtherUp NoneLate
