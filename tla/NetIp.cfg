CONSTANTS
  Acceptors = {a1}
  Connectors = {c1}
  Udps = {u1}
  Threads = {t1}
  RunThread = run
  MaxMade = 2
SPECIFICATION FairSpec
CHECK_DEADLOCK FALSE
INVARIANTS StopAllInv
PROPERTIES WaitsEnd ResetReturns Reclaimed
