\* One receiver, one proxy, one fault anywhere.
SPECIFICATION FairDeliverySpec
CONSTANTS
  c1 = c1  c2 = c2  p1 = p1  p2 = p2
  Users = {"u"}
  Proxies = {p1}
  Conns = {c1}
  Home <- OneProxy
  MaxFaults = 1
  Messages = {"m"}
  Receivers <- ToAll
  Groups = {}
INVARIANTS DeliveryTypeOK RefusalExplained AcceptedIsOnItsWay
PROPERTIES SendersAreTold CopiesArrive ClosedGoesOfflineUnlessUpset
