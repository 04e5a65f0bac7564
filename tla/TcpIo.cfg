CONSTANTS
  b1 = b1
  b2 = b2
  b3 = b3
  Buf = {b1, b2, b3}
  Size <- MCSize
  WordMod = 4
  Threads = {t1, t2}
  RunThread = run
  MaxStarts = 2
SPECIFICATION FairSpec
CHECK_DEADLOCK FALSE
INVARIANTS QueueInv StatsAccurate ReadPosted
PROPERTIES ChannelSpec BrokenCloses Drains Released
