CONSTANTS
  Io = {h1, h2}
  Buf = {b1, b2}
  Threads = {t1, t2}
  RunThread = run
SPECIFICATION FairSpec
CHECK_DEADLOCK FALSE
INVARIANTS CollectionInv ThrowsOnlyIfStale
PROPERTIES AllOrThrow LeavesByItself CallbackReturns
