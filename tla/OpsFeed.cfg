SPECIFICATION Spec
CONSTANTS
  Keys = {granted, removed, rejected}
  Late = {granted, removed}
  Recurring = {removed, rejected}
  Requests = {r1, r2}
  None = None
  MaxActions = 2
  MaxFaults = 1
SYMMETRY Symmetry
INVARIANTS
  OneMissingEventPerFault
  RepairedStaysConsistent
PROPERTIES
  ReadStaysRead
CHECK_DEADLOCK FALSE
