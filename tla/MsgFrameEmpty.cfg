CONSTANTS
  Base = 2
  FixedSize = 1
  Delimiter <- MCDelimiter
  MaxBody = 2
  MaxMsgs = 3
  EmptyEnds = FALSE
SPECIFICATION FrameSpec
CHECK_DEADLOCK FALSE
INVARIANT FullMessages
