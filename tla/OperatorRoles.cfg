SPECIFICATION Spec
CONSTANTS
  Users = {u1, u2}
  Courses = {c1}
  Workshops = {w1, w2}
  Requests = {r1, r2}
  None = None
SYMMETRY Symmetry
INVARIANTS
  AdminRemains
PROPERTIES
  OfficeLostByHandOrStale
  OperatorsShutOutByHandOrStale
  RemovalLeavesNoIdleOperator
CHECK_DEADLOCK FALSE
