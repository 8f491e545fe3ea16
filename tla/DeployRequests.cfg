SPECIFICATION Spec
CONSTANTS
  Deployments = {d1, d2, d3}
  Requests = {r1, r2}
  Learners = {l1}
  MaxLimit = 2
SYMMETRY Symmetry
INVARIANTS
  CourseRunsSerialize
  InFlightBounded
  RowsHaveTheirCourse
PROPERTIES
  WithinGuardrail
CHECK_DEADLOCK FALSE
