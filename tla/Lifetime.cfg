SPECIFICATION MCSpec
CONSTANTS
  browser = browser
  None = None
  Owner <- Browser
  Sid <- Three
  OwnerOf <- OfBrowser
  Share <- ShareOfOne
  MaxSessions = 2
  Grants <- Nobody
  UnattendedIdle = 1
  SessionIdle = 2
  Lives <- Length
  TombstonesMax = 1
CHECK_DEADLOCK FALSE
INVARIANT InTime
PROPERTIES EvictedEnds ReplacementSettles GoneIsSaid
