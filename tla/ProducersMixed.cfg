SPECIFICATION Spec
CONSTANTS
  c1 = c1
  t1 = t1
  t2 = t2
  None = None
  Session <- MixedThree
  Transcoded <- Transcodes
  MaxActive = 2
  MaxTranscodes = 1
  IdleAfter = 2
  WaitMax = 1
CHECK_DEADLOCK FALSE
SYMMETRY Symmetry
INVARIANTS PermitsConserved QueuesExact EndedRunsNothing
PROPERTY WatchedKeepsProducer
