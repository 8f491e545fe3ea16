SPECIFICATION FairSpec
CONSTANTS
  Deployments = {d1, d2}
  ProvWorkers = {p1, p2}
  CleanWorkers = {c1, c2}
  NoJob = NoJob
  Horizon = 3
  MaxFaults = 2
INVARIANTS
  ClaimedOnce
  OneStuckRowPerFault
PROPERTIES
  RefinesLifecycle
  RequestsSettle
CHECK_DEADLOCK FALSE
