SPECIFICATION Spec
CONSTANTS
  Learners = {l1, l2, l3, l4}
  Invites = {i1}
  Requests = {r1, r2}
  None = None
  MaxCap = 2
  MaxResends = 1
SYMMETRY Symmetry
INVARIANTS
  OvershootBounded
  UsedNeverOverstates
  AcceptedHasSeat
PROPERTIES
  RefinesRegister
CHECK_DEADLOCK FALSE
