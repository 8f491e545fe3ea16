SPECIFICATION FairSpec
CONSTANTS
  o1 = o1
  o2 = o2
  u1 = u1
  w1 = w1
  Orders = {o1, o2}
  Users = {u1}
  Workshops = {w1}
  Requests = {r1, r2}
  NoOrder = NoOrder
  Retail = Retail
  Payer <- OneCustomer
  Package <- RetailAndPackage
  Outcomes <- HazardsShared
  MaxQuote = 1
  MaxEdits = 1
  MaxFaults = 1
INVARIANTS
  CapturedMeansGranted
  SeenIsProcessed
PROPERTIES
  RefinesLedger
  CaptureSettles
CHECK_DEADLOCK FALSE
