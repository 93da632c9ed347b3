\* Two threads that may both start the pool and need up to two connections
\* each, with their producers and scanners.
SPECIFICATION FairSpec
CONSTANTS
  Threads = {t1, t2}
  Conns = {c1, c2, c3, c4}
  InitSize = 1
  MaxSize = 2
  MaxNeed = 2
  Closes = TRUE
INVARIANTS TypeOK NoSharing CountBounded ProducerSleepExplained
PROPERTIES ScannerLetsGo KeepsPoolPromise
CHECK_DEADLOCK FALSE
