CONSTANTS
  Handler = {1, 2}
  Threads = {t1, t2}
  RunThread = run
  MaxStarts = 1
  MaxErrors = 1
SPECIFICATION FairSpec
CHECK_DEADLOCK FALSE
INVARIANTS AcceptorInv StopClosesStarted NeverDeaf
PROPERTIES LostIsReported StopReleases
