SPECIFICATION Spec
CONSTANTS
  Users = {u1}
  Keys = {k1, k2}
  Requests = {r1, r2}
  None = None
  KeyTTL = 2
  MinLeft = 0
  Expiry = 3
  MaxTime = 3
  MaxFaults = 1
SYMMETRY Symmetry
INVARIANTS
  IdentitiesExist
  OneUnrecordedKeyPerFault
PROPERTIES
  JoinsInTime
CHECK_DEADLOCK FALSE
