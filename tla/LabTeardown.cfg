SPECIFICATION TeardownSpec
CONSTANTS
  d1 = d1
  d2 = d2
  d3 = d3
  Deployments = {d1, d2, d3}
  ProvWorkers = {p1}
  CleanWorkers = {c1}
  NoJob = NoJob
  Nobody = Nobody
  Default = Default
  LabType <- Mixed
  Horizon = 2
  MaxFaults = 1
SYMMETRY Symmetry
INVARIANTS
  RunningHasWorkspace
  ExpiredHasLeftVPN
  DestroyedUnlessCrossed
  OwnLabUnlessCrossed
CHECK_DEADLOCK FALSE
