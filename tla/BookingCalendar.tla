-------------------------- MODULE BookingCalendar --------------------------
(***************************************************************************)
(* What the booking path promises about the detailers' calendars: a        *)
(* booking enters the calendar in one step, and only if its window, travel *)
(* buffer included, is free of every window that entered the same way and  *)
(* was never moved since.  Booking implements this.                        *)
(*                                                                         *)
(* A row is moved when an update gives it a detailer or takes it out of a  *)
(* terminal status: neither update looks at the calendar, so nothing is    *)
(* promised between a moved row and its new neighbours.  An on-demand ride *)
(* enters without a detailer and without a buffer end, and gets its        *)
(* detailer by a move: no window of it is ever compared with another.      *)
(***************************************************************************)
EXTENDS Naturals, AppointmentFSM

CONSTANTS Bookings,    \* appointment ids, one per booking request
          Rides,       \* appointment ids, one per on-demand ride
          Detailers,   \* active accounts with the detailer role
          Instants,    \* the instants a window may start or end at
          NoDetailer, NoBuffer,  \* NULL in detailer_id, travel_buffer_end_time
          NoRow        \* the id has no committed row

VARIABLES rows,        \* the appointments table: id -> row or NoRow
          moved        \* ids of the rows an update has moved

calendarVars == <<rows, moved>>

Appointments == Bookings \union Rides

Row == [detailer : Detailers \union {NoDetailer}, start : Instants,
        bufferEnd : Instants \union {NoBuffer}, status : Statuses]

\* get_overlapping_count's interval test: two half-open intervals share a point.
\* SQL's comparison with NULL is not true.
Overlaps(start1, end1, start2, end2) ==
  /\ end1 # NoBuffer /\ end2 # NoBuffer
  /\ start1 < end2 /\ end1 > start2

\* The rows the test runs over: committed and not in a terminal status.
Occupying(d) ==
  { id \in Appointments : /\ rows[id] # NoRow
                          /\ rows[id].detailer = d
                          /\ rows[id].status \notin TerminalStatuses }

Conflicts(d, start, bufferEnd) ==
  { id \in Occupying(d) :
      Overlaps(start, bufferEnd, rows[id].start, rows[id].bufferEnd) }

-----------------------------------------------------------------------------

Init == /\ rows = [id \in Appointments |-> NoRow]
        /\ moved = {}

Book(id) ==
  /\ rows[id] = NoRow
  /\ UNCHANGED moved
  /\ \E d \in Detailers, start, bufferEnd \in Instants :
       /\ start < bufferEnd
       /\ rows' = [rows EXCEPT ![id] = [detailer |-> d, start |-> start,
                                        bufferEnd |-> bufferEnd, status |-> "pending"]]
       /\ Conflicts(d, start, bufferEnd) \subseteq moved

RequestRide(id) ==
  /\ rows[id] = NoRow
  /\ \E start \in Instants :
       rows' = [rows EXCEPT ![id] = [detailer |-> NoDetailer, start |-> start,
                                     bufferEnd |-> NoBuffer, status |-> "searching"]]
  /\ UNCHANGED moved

\* An update of the status column that leaves the row where it is.
Restate(id) ==
  /\ rows[id] # NoRow
  /\ \E s \in Statuses :
       /\ rows[id].status \in TerminalStatuses => s \in TerminalStatuses
       /\ rows' = [rows EXCEPT ![id] = [rows[id] EXCEPT !.status = s]]
  /\ UNCHANGED moved

Move(id) ==
  /\ rows[id] # NoRow
  /\ \E d \in Detailers \union {rows[id].detailer}, s \in Statuses :
       rows' = [rows EXCEPT ![id] = [rows[id] EXCEPT !.detailer = d, !.status = s]]
  /\ moved' = moved \union {id}

Next == \/ \E id \in Bookings : Book(id)
        \/ \E id \in Rides : RequestRide(id)
        \/ \E id \in Appointments : Restate(id) \/ Move(id)

Spec == Init /\ [][Next]_calendarVars

-----------------------------------------------------------------------------

\* No two appointments that still stand where they were booked share a minute
\* of the same detailer's time.
NoBookedOverlap ==
  \A d \in Detailers : \A a, b \in Occupying(d) \ moved :
    a # b => ~ Overlaps(rows[a].start, rows[a].bufferEnd,
                        rows[b].start, rows[b].bufferEnd)

=============================================================================
