CONSTANTS
  Base = 2
  FixedSize = 1
  Delimiter <- MCDelimiter
  MaxBody = 3
  MaxMsgs = 3
  EmptyEnds = TRUE
SPECIFICATION FairFrameSpec
CHECK_DEADLOCK FALSE
INVARIANTS FrameInv
PROPERTIES MessageChannel AllDelivered
