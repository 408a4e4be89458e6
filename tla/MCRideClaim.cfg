SPECIFICATION Spec
CONSTANTS
  Rides = {r1}
  Detailers = {d1, d2}
  Requests = {c1, c2}
  Processes = {p1}
  MAX_CANDIDATES = 2
  MaxFailures = 0
  None = None
PROPERTY AcceptsOpenOffer
CHECK_DEADLOCK FALSE
