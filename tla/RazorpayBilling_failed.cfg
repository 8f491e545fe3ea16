SPECIFICATION Spec
CONSTANTS
  o1 = o1
  o2 = o2
  u1 = u1
  w1 = w1
  Orders = {o1, o2}
  Users = {u1}
  Workshops = {w1}
  Requests = {r1, r2}
  NoOrder = NoOrder
  Retail = Retail
  Payer <- OneCustomer
  Package <- BothRetail
  Outcomes <- AllOutcomes
  MaxQuote = 1
  MaxEdits = 1
  MaxFaults = 0
SYMMETRY Symmetry
INVARIANTS
  FulfilledIsCaptured
CHECK_DEADLOCK FALSE
