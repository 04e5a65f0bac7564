CONSTANTS
  Modes = {"wait_queue", "future", "future_pair"}
  Handler = {1, 2}
  MaxStarts = 2
  Threads = {t1, t2}
  RunThread = run
SPECIFICATION FairSpec
CHECK_DEADLOCK FALSE
INVARIANTS DeliveryInv HandlerIntact ErrorOnlyBySecondEnd
PROPERTY EndIsDelivered
