SPECIFICATION Spec
CONSTANTS
  Bookings = {b1, b2}
  Rides = {}
  Updates = {u1, u2}
  Detailers = {d1, d2}
  LockKeys = {d1, d2}
  LockKey <- OwnKey
  Starts = {0, 1, 2}
  RideTimes = {}
  Durations = {1}
  TRAVEL_BUFFER = 1
  AdminUpdates = FALSE
  NoRow = NoRow
  NoDetailer = NoDetailer
  NoBuffer = NoBuffer
  NoRequest = NoRequest
  Free = Free
  Keep = Keep
  DAY = 3
  Days = {0, 1}
  Opens <- MCOpens
  Closes <- MCCloses
  Accepting = {d1, d2}
  GRANULARITY = 1
  ADVANCE = 0
INVARIANT NoDoubleBooking
CHECK_DEADLOCK FALSE
