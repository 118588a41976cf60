SPECIFICATION FairSpec
CONSTANTS
  None = None
  Size = 14
  Held = 1
  Spans <- Grows
  DrainMax = 1
  Queue = 2
  FrameMax = 3
  Headers <- Asks
CHECK_DEADLOCK FALSE
INVARIANTS ServedExactly CountedOnce ReadsAhead
PROPERTY Ends
