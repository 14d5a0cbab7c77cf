CONSTANTS
  None = None
  Plans = {p1, p2}
  Keys = {k1, k2, k3}
  Requests = {r1, r2, r3, r4}
  MaxFailures = 2
SPECIFICATION Spec
SYMMETRY Interchangeable
INVARIANTS RowsHaveBlobs OrphansHaveACause
CHECK_DEADLOCK FALSE
