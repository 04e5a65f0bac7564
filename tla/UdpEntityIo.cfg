CONSTANTS
  b1 = b1
  b2 = b2
  b3 = b3
  Buf = {b1, b2, b3}
  Size <- MCSize
  WordMod = 2
  Addressed = {b1}
  Handler = {1}
  Threads = {t1, t2}
  RunThread = run
  MaxStarts = 2
  MaxErrors = 1
SPECIFICATION Spec
SYMMETRY ThreadSymmetry
CHECK_DEADLOCK FALSE
INVARIANTS UdpInv ClosedOncePerOpen NoLostWakeup FailureStops
PROPERTY ChannelSpec
