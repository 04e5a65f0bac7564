CONSTANTS
  Handler = {1, 2}
  Threads = {t1, t2}
  RunThread = run
  Resolve = TRUE
  MaxStarts = 2
  ReconnTime = 1
SPECIFICATION FairSpec
CHECK_DEADLOCK FALSE
INVARIANTS NeverStalled ConnectorInv
PROPERTIES RetryContinues StopEndsAttempts LostIsReported
