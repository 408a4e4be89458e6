SPECIFICATION FairSpec
CONSTANTS
  Bookings = {b1, b2}
  Rides = {r1}
  Updates = {u1, u2}
  Detailers = {d1, d2}
  LockKeys = {k1, k2}
  LockKey <- SharedKey
  Starts = {1, 3, 4}
  RideTimes = {4}
  Durations = {1}
  TRAVEL_BUFFER = 1
  AdminUpdates = TRUE
  NoRow = NoRow
  NoDetailer = NoDetailer
  NoBuffer = NoBuffer
  NoRequest = NoRequest
  Free = Free
  Keep = Keep
  DAY = 3
  Days = {0, 1}
  Opens <- MCOpens
  Closes <- MCCloses
  Accepting = {d1, d2}
  GRANULARITY = 1
  ADVANCE = 0
INVARIANTS BookingInv NoBookedOverlap SlotsMatchBooking
PROPERTIES ImplementsCalendar BookingAnswered
CHECK_DEADLOCK FALSE
