SPECIFICATION Spec
CONSTANTS
  Rides = {r1}
  Detailers = {d1, d2}
  Requests = {c1, c2}
  Processes = {p1, p2}
  MAX_CANDIDATES = 2
  MaxFailures = 1
  None = None
SYMMETRY Interchangeable
INVARIANT CapturedWasAuthorized
CHECK_DEADLOCK FALSE
