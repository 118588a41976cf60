SPECIFICATION MCSpec
CONSTANTS
  None = None
  MaxSamples = 4
  MaxKeyframes = 3
  Lookahead = 3
  MaxBoxes = 3
  MaxFollowed = 2
  MaxFaults = 2
INVARIANTS IndexExact ClosedSeen DolbyVisionSeen NeededReadsOnly
CHECK_DEADLOCK FALSE
