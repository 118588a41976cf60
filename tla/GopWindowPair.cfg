SPECIFICATION Spec
CONSTANTS
  r1 = r1
  r2 = r2
  None = None
  Req <- Two
  Cut <- Three
  TooClose <- SecondTooClose
  Ahead = 1
  RestartGap = 1
  MaxFailures = 2
  MaxJobs = 2
  Asked <- AnySegment
  MayFail = TRUE
CHECK_DEADLOCK FALSE
SYMMETRY Symmetry
INVARIANTS BytesExact CurrentRunWhole
