SPECIFICATION FairSpec
CONSTANTS
  Rides = {r1, r2}
  Detailers = {d1, d2}
  Requests = {c1}
  Processes = {p1}
  MAX_CANDIDATES = 2
  MaxFailures = 1
  None = None
INVARIANT OneOpenOffer
PROPERTIES RideDecided OffersClose
CHECK_DEADLOCK FALSE
