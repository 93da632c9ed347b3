\* One account, two proxies and three requests of any kind at once, any of
\* whose accesses may fail: what row, cache entry and host entry may disagree
\* on, and whether a login or a logout takes effect at once.
SPECIFICATION Spec
CONSTANTS
  Users = {u1}
  Workers = {w1, w2, w3}
  Hosts = {p1, p2}
  StoresMayFail = TRUE
SYMMETRY Interchangeable
INVARIANTS TypeOK StaleEntryExplained CacheNamesRealUsers HostFollowsRow
PROPERTIES StatusChangesAreEarned KeepsAccountsPromise
