------------------------------- MODULE Slots -------------------------------
(***************************************************************************)
(* The slot search, get_available_slots: what a client is shown before it  *)
(* books.  It reads the calendar of one UTC day and repeats the overlap    *)
(* test of the booking path in Python, against the detailer's working      *)
(* hours, which are kept in local time and may leave that day.  A row      *)
(* without a buffer end is not compared with a slot: Python raises, and    *)
(* the request ends in an error.                                           *)
(***************************************************************************)
EXTENDS FiniteSets, Booking

CONSTANTS DAY,                 \* length of a day, in the unit of Starts
          Days,                \* the dates clients ask for
          Opens, Closes,       \* working hours of each detailer, as offsets from
                               \* the UTC midnight of the requested date
          Accepting,           \* detailers with no profile, or one that accepts bookings
          GRANULARITY,         \* SLOT_GRANULARITY_MINUTES
          ADVANCE              \* MIN_ADVANCE_BOOKING_MINUTES

ASSUME SlotsAssumption ==
  /\ DAY \in Nat \ {0} /\ GRANULARITY \in Nat \ {0} /\ ADVANCE \in Nat
  /\ Days \subseteq Nat
  /\ Opens \in [Detailers -> Nat] /\ Closes \in [Detailers -> Nat]
  /\ Accepting \subseteq Detailers

WorkStart(d, day) == day * DAY + Opens[d]
WorkEnd(d, day)   == day * DAY + Closes[d]

\* The cursor's values: from the start of work in steps of the granularity.
SlotStarts(d, day) ==
  { t \in WorkStart(d, day) .. (WorkEnd(d, day) - 1) :
      (t - WorkStart(d, day)) % GRANULARITY = 0 }

\* Variant: the query forgets the terminal statuses.
OfDayInAnyStatus(d, day) ==
  { id \in Appointments : /\ rows[id] # NoRow
                          /\ rows[id].detailer = d
                          /\ rows[id].start \div DAY = day }

\* get_active_for_detailer_on_date selects the rows that start within the UTC day.
OfDay(d, day) == { id \in Calendar!Occupying(d) : rows[id].start \div DAY = day }

\* The lists it may return: by start, rows of one start in any order.
Existing(d, day) ==
  LET ids == OfDay(d, day)
      n   == Cardinality(ids)
  IN { list \in [1 .. n -> ids] :
         /\ \A id \in ids : \E i \in 1 .. n : list[i] = id
         /\ \A i, j \in 1 .. n : i < j => rows[list[i]].start <= rows[list[j]].start }

\* The two early exits of the loop: too soon, or not over by the end of work.
Bookable(d, day, t, length, now) ==
  /\ t > now + ADVANCE
  /\ t + length <= WorkEnd(d, day)

Meets(t, length, row) == Calendar!Overlaps(t, t + length, row.start, row.bufferEnd)

\* any(cursor < occ_end and ...) stops at the first row that overlaps, and
\* raises if it gets to one without a buffer end.
Raises(list, t, length) ==
  \E i \in DOMAIN list : /\ rows[list[i]].bufferEnd = NoBuffer
                         /\ \A j \in 1 .. (i - 1) : ~ Meets(t, length, rows[list[j]])

\* One cursor that raises is an error for the whole day.
Fails(d, day, length, now, list) ==
  /\ d \in Accepting
  /\ \E t \in SlotStarts(d, day) : Bookable(d, day, t, length, now) /\ Raises(list, t, length)

\* Otherwise, the slots returned as available.  length is the job with its travel buffer,
\* or one slot when the client has not named the job yet.
Offered(d, day, length, now, list) ==
  { t \in SlotStarts(d, day) :
      /\ d \in Accepting
      /\ Bookable(d, day, t, length, now)
      /\ \A i \in DOMAIN list : ~ Meets(t, length, rows[list[i]]) }

-----------------------------------------------------------------------------
(* Properties *)

\* The detailer works within one UTC day, and so do its appointments.
KeepsHours(d) ==
  /\ Closes[d] <= DAY
  /\ \A id \in Calendar!Occupying(d) :
       LET day == rows[id].start \div DAY
       IN rows[id].bufferEnd # NoBuffer =>
            rows[id].start >= WorkStart(d, day) /\ rows[id].bufferEnd <= WorkEnd(d, day)

\* A ride is in the detailer's hands on that day.
HasRide(d, day) == \E id \in OfDay(d, day) : rows[id].bufferEnd = NoBuffer

\* The two overlap tests, get_available_slots in Python and
\* get_overlapping_count in SQL, for every detailer whose working hours and
\* appointments stay within a UTC day.  The search fails only on a day with a
\* ride of the detailer, which the booking path does not see at all; whenever it
\* answers, a slot that can be booked is offered exactly if the booking path
\* would find no conflict.
SlotsMatchBooking ==
  \A d \in Accepting : KeepsHours(d) =>
    \A day \in Days : \A list \in Existing(d, day), now \in Starts, duration \in Durations :
      LET length == duration + TRAVEL_BUFFER
      IN   IF Fails(d, day, length, now, list) THEN HasRide(d, day)
           ELSE \A t \in SlotStarts(d, day) :
                  Bookable(d, day, t, length, now) =>
                    (t \in Offered(d, day, length, now, list)
                       <=> Calendar!Conflicts(d, t, t + length) = {})

=============================================================================
