------------------------------ MODULE Booking ------------------------------
(***************************************************************************)
(* Concurrent bookings and updates of appointments, one PostgreSQL         *)
(* transaction per request (get_db: commit on return, rollback on an       *)
(* exception), at READ COMMITTED.                                          *)
(*                                                                         *)
(*  - POST /appointments, create_appointment: an advisory lock on the      *)
(*    detailer, then the overlap count, then the insert; the lock is held  *)
(*    until the transaction ends.                                          *)
(*  - PATCH /appointments/{id}/status and POST /appointments/{id}/cancel,  *)
(*    transition_status: a plain read, a decision on what was read, then   *)
(*    an UPDATE of the dirty columns by primary key.  No lock is taken and *)
(*    the UPDATE does not repeat the condition.                            *)
(*  - the administrator's reassignment (read, then update) and forced      *)
(*    status (a single update).                                            *)
(*  - the rows of on-demand rides: inserted without a detailer and without *)
(*    a buffer end, given a detailer by the acceptance (read, then update) *)
(*    or given up by the assignment engine (a single update).  To whom a   *)
(*    ride is offered is RideDispatch's part.                              *)
(***************************************************************************)
EXTENDS Naturals, AppointmentFSM

CONSTANTS Bookings,       \* booking requests; a request's id is its row's id
          Rides,          \* on-demand rides; a ride's id is its row's id
          Updates,        \* requests, and runs of the assignment engine, that
                          \* update an existing appointment
          Detailers,
          LockKeys,       \* 64-bit advisory lock keys
          LockKey,        \* LockKey[d]: the first 8 bytes of the detailer's id
          Starts,         \* the scheduled times clients ask for
          RideTimes,      \* the moments rides are asked for
          Durations,      \* the total service durations, in the unit of Starts
          TRAVEL_BUFFER,
          AdminUpdates,   \* FALSE leaves the administrator's updates out
          NoDetailer, NoBuffer,  \* NULL in detailer_id, travel_buffer_end_time
          NoRow, NoRequest, Free, Keep

ASSUME BookingAssumption ==
  /\ LockKey \in [Detailers -> LockKeys]
  /\ Starts \subseteq Nat /\ RideTimes \subseteq Nat
  /\ Durations \subseteq Nat \ {0}
  /\ TRAVEL_BUFFER \in Nat
  /\ AdminUpdates \in BOOLEAN
  /\ Bookings \intersect Updates = {} /\ Bookings \intersect Rides = {}
  /\ Free \notin Bookings
  /\ NoDetailer \notin Detailers /\ NoBuffer \notin Nat
  /\ Keep \notin Detailers
  /\ Keep \notin Statuses

\* Where the windows of the requests can start and end.
Instants ==
  Starts \union RideTimes \union { s + d + TRAVEL_BUFFER : s \in Starts, d \in Durations }

VARIABLES rows,          \* committed rows of the appointments table
          moved,         \* ids an update gave a detailer, or reopened
          pc,            \* progress of each request
          request,       \* what a booking request asks for
          lock,          \* holder of each advisory lock
          dirty,         \* columns an update's session is about to write
          cancellations  \* ids with a row in appointment_cancellations

vars == <<rows, moved, pc, request, lock, dirty, cancellations>>

Calendar == INSTANCE BookingCalendar
              WITH rows <- rows, moved <- moved, Instants <- Instants

Appointments == Calendar!Appointments

ASSUME NoRowAssumption == NoRow \notin Calendar!Row

Request == [detailer : Detailers, start : Starts, duration : Durations]
Change  == [id : Appointments, status : Statuses \union {Keep},
            detailer : Detailers \union {Keep}]

BookingPc == {"idle", "requested", "locked", "clear", "booked", "conflict", "failed"}
UpdatePc  == {"idle", "read", "written", "failed"}

\* The instant the detailer is free again: end of the service plus travel.
BufferEnd(r) == r.start + r.duration + TRAVEL_BUFFER

\* The advisory lock is transaction scoped: commit and rollback both free it.
ReleaseLock(b) == [k \in LockKeys |-> IF lock[k] = b THEN Free ELSE lock[k]]

Init ==
  /\ rows = [id \in Appointments |-> NoRow]
  /\ moved = {}
  /\ pc = [r \in Bookings \union Updates |-> "idle"]
  /\ request = [b \in Bookings |-> NoRequest]
  /\ lock = [k \in LockKeys |-> Free]
  /\ dirty = [u \in Updates |-> NoRequest]
  /\ cancellations = {}

-----------------------------------------------------------------------------
(* Booking requests *)

\* Validation, pricing and the length of the job, up to the call for the lock.
RequestBooking(b) ==
  /\ pc[b] = "idle"
  /\ \E r \in Request : request' = [request EXCEPT ![b] = r]
  /\ pc' = [pc EXCEPT ![b] = "requested"]
  /\ UNCHANGED <<rows, moved, lock, dirty, cancellations>>

\* Variant (a bug to be caught): pg_try_advisory_xact_lock, its answer ignored.
AcquireLockWithoutWaiting(b) ==
  /\ pc[b] = "requested"
  /\ lock' = [lock EXCEPT ![LockKey[request[b].detailer]] = b]
  /\ pc' = [pc EXCEPT ![b] = "locked"]
  /\ UNCHANGED <<rows, moved, request, dirty, cancellations>>

\* pg_advisory_xact_lock returns.  It blocks while another transaction holds
\* the key, whichever detailer that one is for.
AcquireLock(b) ==
  LET k == LockKey[request[b].detailer]
  IN /\ pc[b] = "requested"
     /\ lock[k] = Free
     /\ lock' = [lock EXCEPT ![k] = b]
     /\ pc' = [pc EXCEPT ![b] = "locked"]
     /\ UNCHANGED <<rows, moved, request, dirty, cancellations>>

\* Variant: the count is taken for the service alone, without the buffer.
CheckOverlapOfService(b) ==
  LET r == request[b]
      conflicts == Calendar!Conflicts(r.detailer, r.start, r.start + r.duration)
  IN /\ pc[b] = "locked"
     /\ pc' = [pc EXCEPT ![b] = IF conflicts = {} THEN "clear" ELSE "conflict"]
     /\ lock' = IF conflicts = {} THEN lock ELSE ReleaseLock(b)
     /\ UNCHANGED <<rows, moved, request, dirty, cancellations>>

\* Variant: the lock lasts for the statement, not for the transaction.
CheckOverlapThenUnlock(b) ==
  LET r == request[b]
      conflicts == Calendar!Conflicts(r.detailer, r.start, BufferEnd(r))
  IN /\ pc[b] = "locked"
     /\ pc' = [pc EXCEPT ![b] = IF conflicts = {} THEN "clear" ELSE "conflict"]
     /\ lock' = ReleaseLock(b)
     /\ UNCHANGED <<rows, moved, request, dirty, cancellations>>

\* The overlap count, on the rows committed when the statement starts.
CheckOverlap(b) ==
  LET r == request[b]
      conflicts == Calendar!Conflicts(r.detailer, r.start, BufferEnd(r))
  IN /\ pc[b] = "locked"
     /\ \/ /\ conflicts = {}
           /\ pc' = [pc EXCEPT ![b] = "clear"]
           /\ UNCHANGED <<lock, request>>
        \/ /\ conflicts # {}
           /\ pc' = [pc EXCEPT ![b] = "conflict"]
           /\ lock' = ReleaseLock(b)
           /\ request' = [request EXCEPT ![b] = NoRequest]
     /\ UNCHANGED <<rows, moved, dirty, cancellations>>

\* The insert of the appointment with its vehicles, add-ons, audit and history
\* rows becomes visible when get_db commits, and only then is the lock freed.
CommitBooking(b) ==
  LET r == request[b]
  IN /\ pc[b] = "clear"
     /\ rows' = [rows EXCEPT ![b] = [detailer |-> r.detailer, start |-> r.start,
                                     bufferEnd |-> BufferEnd(r), status |-> "pending"]]
     /\ lock' = ReleaseLock(b)
     /\ pc' = [pc EXCEPT ![b] = "booked"]
     /\ request' = [request EXCEPT ![b] = NoRequest]
     /\ UNCHANGED <<moved, dirty, cancellations>>

\* Variant: a session level lock, which a rollback keeps.
AbortKeepingLock(b) ==
  /\ pc[b] \in {"requested", "locked", "clear"}
  /\ pc' = [pc EXCEPT ![b] = "failed"]
  /\ UNCHANGED <<rows, moved, request, lock, dirty, cancellations>>

\* An exception anywhere in the handler, or the end of the process: rollback.
AbortBooking(b) ==
  /\ pc[b] \in {"requested", "locked", "clear"}
  /\ lock' = ReleaseLock(b)
  /\ pc' = [pc EXCEPT ![b] = "failed"]
  /\ request' = [request EXCEPT ![b] = NoRequest]
  /\ UNCHANGED <<rows, moved, dirty, cancellations>>

-----------------------------------------------------------------------------
(* Updates *)

Written(row, c) ==
  [row EXCEPT !.status   = IF c.status = Keep THEN row.status ELSE c.status,
              !.detailer = IF c.detailer = Keep THEN row.detailer ELSE c.detailer]

\* UPDATE ... WHERE id = c.id of the dirty columns, with the note of a move.
WriteRow(c) ==
  LET old == rows[c.id]
      new == Written(old, c)
      reopened == old.status \in TerminalStatuses /\ new.status \notin TerminalStatuses
  IN /\ rows' = [rows EXCEPT ![c.id] = new]
     /\ moved' = IF reopened \/ c.detailer # Keep THEN moved \union {c.id} ELSE moved

\* transition_status up to the assignment of the new status.
ReadForTransition(u) ==
  /\ pc[u] = "idle"
  /\ \E id \in Appointments, s \in Statuses :
       /\ rows[id] # NoRow
       /\ \E actor \in Actors : MayTransition(actor, rows[id].status, s)
       /\ dirty' = [dirty EXCEPT ![u] = [id |-> id, status |-> s, detailer |-> Keep]]
  /\ pc' = [pc EXCEPT ![u] = "read"]
  /\ UNCHANGED <<rows, moved, request, lock, cancellations>>

\* The flush and the commit.  A cancellation also inserts its snapshot row, one
\* per appointment: a second one breaks the unique constraint and rolls back.
CommitTransition(u) ==
  LET c == dirty[u]
  IN /\ pc[u] = "read"
     /\ c.detailer = Keep
     /\ \/ /\ c.status \in CancelStatuses /\ c.id \in cancellations
           /\ pc' = [pc EXCEPT ![u] = "failed"]
           /\ UNCHANGED <<rows, moved, cancellations>>
        \/ /\ ~ (c.status \in CancelStatuses /\ c.id \in cancellations)
           /\ WriteRow(c)
           /\ cancellations' = IF c.status \in CancelStatuses
                               THEN cancellations \union {c.id} ELSE cancellations
           /\ pc' = [pc EXCEPT ![u] = "written"]
     /\ dirty' = [dirty EXCEPT ![u] = NoRequest]
     /\ UNCHANGED <<request, lock>>

\* reassign_appointment up to the flush: an orphaned row goes back to pending.
ReadForReassign(u) ==
  /\ AdminUpdates
  /\ pc[u] = "idle"
  /\ \E id \in Appointments, d \in Detailers :
       /\ rows[id] # NoRow
       /\ rows[id].status \in ReassignableStatuses
       /\ rows[id].detailer # d
       /\ dirty' = [dirty EXCEPT ![u] =
            [id |-> id, detailer |-> d,
             status |-> IF rows[id].status \in {"no_detailer_found", "searching"}
                        THEN "pending" ELSE Keep]]
  /\ pc' = [pc EXCEPT ![u] = "read"]
  /\ UNCHANGED <<rows, moved, request, lock, cancellations>>

CommitReassign(u) ==
  /\ pc[u] = "read"
  /\ dirty[u].detailer # Keep /\ dirty[u].status # "confirmed"
  /\ WriteRow(dirty[u])
  /\ pc' = [pc EXCEPT ![u] = "written"]
  /\ dirty' = [dirty EXCEPT ![u] = NoRequest]
  /\ UNCHANGED <<request, lock, cancellations>>

\* force_appointment_status: one UPDATE, any status, no cancellation row.
ForceStatus(u) ==
  /\ AdminUpdates
  /\ pc[u] = "idle"
  /\ \E id \in Appointments, s \in Statuses :
       /\ rows[id] # NoRow
       /\ WriteRow([id |-> id, status |-> s, detailer |-> Keep])
  /\ pc' = [pc EXCEPT ![u] = "written"]
  /\ UNCHANGED <<request, lock, dirty, cancellations>>

\* A Stripe refund that raises, or the end of the process, after the read.
AbortUpdate(u) ==
  /\ pc[u] = "read"
  /\ pc' = [pc EXCEPT ![u] = "failed"]
  /\ dirty' = [dirty EXCEPT ![u] = NoRequest]
  /\ UNCHANGED <<rows, moved, request, lock, cancellations>>

-----------------------------------------------------------------------------
(* Rides *)

\* request_ride: the row is committed at once, for this very moment.
RequestRide(r) ==
  /\ rows[r] = NoRow
  /\ \E now \in RideTimes :
       rows' = [rows EXCEPT ![r] = [detailer |-> NoDetailer, start |-> now,
                                    bufferEnd |-> NoBuffer, status |-> "searching"]]
  /\ UNCHANGED <<moved, pc, request, lock, dirty, cancellations>>

\* accept_ride by a detailer with an open offer, up to the UPDATE.
ReadForAccept(u) ==
  /\ pc[u] = "idle"
  /\ \E id \in Rides, d \in Detailers :
       /\ rows[id] # NoRow
       /\ rows[id].status = "searching"
       /\ dirty' = [dirty EXCEPT ![u] = [id |-> id, status |-> "confirmed", detailer |-> d]]
  /\ pc' = [pc EXCEPT ![u] = "read"]
  /\ UNCHANGED <<rows, moved, request, lock, cancellations>>

CommitAccept(u) ==
  /\ pc[u] = "read"
  /\ dirty[u].detailer # Keep /\ dirty[u].status = "confirmed"
  /\ WriteRow(dirty[u])
  /\ pc' = [pc EXCEPT ![u] = "written"]
  /\ dirty' = [dirty EXCEPT ![u] = NoRequest]
  /\ UNCHANGED <<request, lock, cancellations>>

\* _mark_no_detailer: one UPDATE that does not look at the status.
MarkNoDetailer(u) ==
  /\ pc[u] = "idle"
  /\ \E id \in Rides :
       /\ rows[id] # NoRow
       /\ WriteRow([id |-> id, status |-> "no_detailer_found", detailer |-> Keep])
  /\ pc' = [pc EXCEPT ![u] = "written"]
  /\ UNCHANGED <<request, lock, dirty, cancellations>>

-----------------------------------------------------------------------------

Next ==
  \/ \E b \in Bookings : \/ RequestBooking(b) \/ AcquireLock(b) \/ CheckOverlap(b)
                         \/ CommitBooking(b) \/ AbortBooking(b)
  \/ \E u \in Updates : \/ ReadForTransition(u) \/ CommitTransition(u)
                        \/ ReadForReassign(u) \/ CommitReassign(u)
                        \/ ReadForAccept(u) \/ CommitAccept(u) \/ MarkNoDetailer(u)
                        \/ ForceStatus(u) \/ AbortUpdate(u)
  \/ \E r \in Rides : RequestRide(r)

Spec == Init /\ [][Next]_vars

\* The event loop and the database run every request that can run; that a
\* request is made at all, or fails, is never owed.
FairSpec ==
  /\ Spec
  /\ \A b \in Bookings : /\ WF_vars(AcquireLock(b))
                         /\ WF_vars(CheckOverlap(b))
                         /\ WF_vars(CommitBooking(b))

-----------------------------------------------------------------------------
(* Properties *)

\* Every variable holds a value of the kind the code keeps there: a row may
\* lack its detailer and its travel buffer, a lock is free or held by a booking.
TypeOK ==
  /\ rows \in [Appointments -> Calendar!Row \union {NoRow}]
  /\ moved \subseteq Appointments
  /\ pc \in [Bookings \union Updates -> BookingPc \union UpdatePc]
  /\ request \in [Bookings -> Request \union {NoRequest}]
  /\ lock \in [LockKeys -> Bookings \union {Free}]
  /\ dirty \in [Updates -> Change \union {NoRequest}]
  /\ cancellations \subseteq Appointments

\* The check-then-insert of create_appointment is safe against every other
\* booking: two appointments that stand where they were booked never share
\* time of one detailer, whatever the keys, the updates and the failures.  (A
\* ride has no window; once a detailer has it, it counts as moved.)
NoBookedOverlap == Calendar!NoBookedOverlap

\* The strengthening that makes NoBookedOverlap inductive.  A request between
\* lock and commit holds the lock of its detailer; one past the check knows that
\* whatever it conflicts with by now was moved there; an update writes to a row
\* that exists; only a booked request has a row.
BookingInv ==
  /\ TypeOK
  /\ NoBookedOverlap
  /\ \A b \in Bookings :
       /\ pc[b] \in BookingPc
       /\ pc[b] # "booked" => rows[b] = NoRow
       /\ pc[b] \in {"requested", "locked", "clear"} => request[b] \in Request
       /\ pc[b] \in {"locked", "clear"} => lock[LockKey[request[b].detailer]] = b
       /\ pc[b] = "clear" =>
            Calendar!Conflicts(request[b].detailer, request[b].start,
                               BufferEnd(request[b])) \subseteq moved
  /\ \A u \in Updates : pc[u] = "read" => /\ dirty[u] \in Change
                                          /\ rows[dirty[u].id] # NoRow

\* The claim without the proviso: no two live appointments of one detailer
\* overlap, travel buffer included.
NoDoubleBooking ==
  \A d \in Detailers : \A a, b \in Calendar!Occupying(d) :
    a # b => ~ Calendar!Overlaps(rows[a].start, rows[a].bufferEnd,
                                 rows[b].start, rows[b].bufferEnd)

\* A booking is refused or accepted against a calendar no other booking of the
\* detailer is changing: the section between lock and commit is exclusive.
ExclusiveSection ==
  \A a, b \in Bookings :
    /\ a # b
    /\ pc[a] \in {"locked", "clear"}
    /\ pc[b] \in {"locked", "clear"}
    => request[a].detailer # request[b].detailer

\* Seen from outside, a booking is one atomic step of the calendar.
ImplementsCalendar == Calendar!Spec

\* Every booking request is answered: no client waits for a lock that is
\* never given back, on any of the paths out of the handler.
BookingAnswered ==
  \A b \in Bookings : pc[b] = "requested" ~> pc[b] \in {"booked", "conflict", "failed"}

=============================================================================
