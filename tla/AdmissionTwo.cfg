SPECIFICATION Spec
CONSTANTS
  browser = browser
  install = install
  b1 = b1
  i1 = i1
  i2 = i2
  i3 = i3
  None = None
  Owner <- TwoOwners
  Sid <- TwoSids
  OwnerOf <- TwoOwnerOf
  Share <- TwoShares
  MaxSessions = 3
  Grants <- InstallOwner
SYMMETRY Symmetry
CHECK_DEADLOCK FALSE
INVARIANTS Capacity ShareHeld ReplacementBacked
PROPERTIES KeptAtStart OneGivesWay
