\* Two accounts, two connections to one proxy: everything that can overlap in
\* its table, and accounts that share a connection after a failed look-up.
SPECIFICATION Spec
CONSTANTS
  c1 = c1  c2 = c2  p1 = p1
  Users = {"u", "v"}
  Proxies = {p1}
  Conns = {c1, c2}
  Home <- OneProxy
  MaxFaults = 1
SYMMETRY SameHome
INVARIANTS OnlineHasSession EntryHasOwner EntryIsOnline
PROPERTIES SessionsEndThemselves KeepsAccountsPromise
