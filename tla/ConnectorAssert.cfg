CONSTANTS
  Handler = {1}
  Threads = {t1}
  RunThread = run
  Resolve = FALSE
  ReconnTime = 1
  MaxStarts = 1
SPECIFICATION Spec
CHECK_DEADLOCK FALSE
INVARIANT AssertionHolds
