SPECIFICATION Spec
CONSTANTS
  Sections = {s1, s2}
  Positions = {p1, p2}
  Texts = {t1, t2}
  Revisions = {v1, v2}
  Requests = {r1, r2}
  None = None
  MaxEdits = 3
SYMMETRY Symmetry
PROPERTIES
  RollbackRestores
  RollbackLeavesDraft
  PublishedIsRecorded
CHECK_DEADLOCK FALSE
