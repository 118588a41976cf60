SPECIFICATION Spec
CONSTANTS
  k1 = k1
  k2 = k2
  k3 = k3
  None = None
  Key <- Releases
  Room = 2
  Ttl = 2
  MaxNow = 2
  MaxChanges = 4
  MaxFaults = 2
CHECK_DEADLOCK FALSE
INVARIANT CaughtUp
PROPERTY Implements
