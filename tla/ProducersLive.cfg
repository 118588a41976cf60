SPECIFICATION FairSpec
CONSTANTS
  c1 = c1
  t1 = t1
  t2 = t2
  None = None
  Session <- Transcodes
  Transcoded <- Transcodes
  MaxActive = 1
  MaxTranscodes = 1
  IdleAfter = 2
  WaitMax = 1
CHECK_DEADLOCK FALSE
PROPERTIES ExitedSlotReturns StartSettles
