SPECIFICATION Spec
CONSTANTS
  Users = {u1}
  Tokens = {j1, j2}
  Requests = {r1, r2}
  None = None
  Second = 2
  Lifetime = 3
  MaxTime = 4
  MaxFaults = 2
SYMMETRY Symmetry
INVARIANTS
  OneMissingRowPerFault
PROPERTIES
  LoggedOutStaysOut
CHECK_DEADLOCK FALSE
