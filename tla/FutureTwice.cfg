CONSTANTS
  Modes = {"future_pair"}
  Handler = {1}
  MaxStarts = 1
  Threads = {t1}
  RunThread = run
SPECIFICATION Spec
CHECK_DEADLOCK FALSE
INVARIANT NoFutureError
