\* Two logins of one account at the same time.
SPECIFICATION Spec
CONSTANTS
  Users = {u1}
  Workers = {w1, w2}
  Hosts = {p1}
  StoresMayFail = FALSE
PROPERTIES LoginRefusedWhenOnline
