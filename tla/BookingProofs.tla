--------------------------- MODULE BookingProofs ---------------------------
(***************************************************************************)
(* Proofs about Booking, for any number of bookings, updates and           *)
(* detailers, any windows and any lock keys, colliding ones included.      *)
(* BookingInv is the inductive invariant; everything else follows from it, *)
(* the agreement of the slot search with the booking path included.        *)
(***************************************************************************)
EXTENDS Slots, TLAPS

\* A row that occupies its detailer's calendar where it was booked.
Standing(id) == /\ id \in Appointments \ moved
                /\ rows[id] # NoRow
                /\ rows[id].detailer \in Detailers
                /\ rows[id].status \notin TerminalStatuses

SameWindow(id) == /\ rows'[id].detailer = rows[id].detailer
                  /\ rows'[id].start = rows[id].start
                  /\ rows'[id].bufferEnd = rows[id].bufferEnd

\* The ids of the table; Calendar reads the same status tables as Booking.
LEMMA AllIds == /\ Appointments = Bookings \union Rides
                /\ Calendar!Appointments = Appointments
  BY DEF Appointments, Calendar!Appointments

LEMMA SameTables == /\ Calendar!Statuses = Statuses
                    /\ Calendar!TerminalStatuses = TerminalStatuses
  BY DEF Statuses, TerminalStatuses, Calendar!Statuses, Calendar!TerminalStatuses

\* The end of a requested window is an instant after its start.
LEMMA BufferEndAfterStart ==
  ASSUME NEW r \in Request
  PROVE  /\ r.start \in Instants
         /\ BufferEnd(r) \in Instants
         /\ r.start \in Nat
         /\ BufferEnd(r) \in Nat
         /\ r.start < BufferEnd(r)
  <1>1. r.start \in Starts /\ r.duration \in Durations
    BY DEF Request
  <1>2. r.start \in Nat /\ r.duration \in Nat \ {0} /\ TRAVEL_BUFFER \in Nat
    BY <1>1, BookingAssumption
  <1>3. QED
    BY <1>1, <1>2 DEF BufferEnd, Instants

\* Every instant is a natural number.
LEMMA InstantsAreNat == Instants \subseteq Nat
  <1> SUFFICES ASSUME NEW i \in Instants PROVE i \in Nat
    OBVIOUS
  <1>1. CASE i \in Starts
    BY <1>1, BookingAssumption
  <1>5. CASE i \in RideTimes
    BY <1>5, BookingAssumption
  <1>2. CASE \E s \in Starts, d \in Durations : i = s + d + TRAVEL_BUFFER
    <2>1. PICK s \in Starts, d \in Durations : i = s + d + TRAVEL_BUFFER
      BY <1>2
    <2>2. s \in Nat /\ d \in Nat /\ TRAVEL_BUFFER \in Nat
      BY BookingAssumption
    <2>3. QED
      BY <2>1, <2>2
  <1>3. QED
    BY <1>1, <1>2, <1>5 DEF Instants

\* What any update of a committed row does (WriteRow): it keeps the row's
\* window, and a row that still stands afterwards stood there before.
LEMMA WriteRowEffect ==
  ASSUME TypeOK, NEW c \in Change, rows[c.id] # NoRow, WriteRow(c)
  PROVE  /\ rows' \in [Appointments -> Calendar!Row \union {NoRow}]
         /\ moved' \subseteq Appointments
         /\ moved \subseteq moved'
         /\ \A id \in Appointments : rows'[id] = NoRow <=> rows[id] = NoRow
         /\ \A id \in Appointments : Standing(id)' => Standing(id) /\ SameWindow(id)
  <1> DEFINE new == Written(rows[c.id], c)
  <1>1. c.id \in Appointments /\ c.status \in Statuses \union {Keep}
                          /\ c.detailer \in Detailers \union {Keep}
    BY DEF Change
  <1>2. rows[c.id] \in Calendar!Row
    BY <1>1 DEF TypeOK
  <1>3. /\ new \in Calendar!Row
        /\ new.start = rows[c.id].start
        /\ new.bufferEnd = rows[c.id].bufferEnd
        /\ new.status = IF c.status = Keep THEN rows[c.id].status ELSE c.status
        /\ new.detailer = IF c.detailer = Keep THEN rows[c.id].detailer ELSE c.detailer
    BY <1>1, <1>2, SameTables DEF Written, Calendar!Row
  <1>4. new # NoRow
    BY <1>3, NoRowAssumption
  <1>5. rows' = [rows EXCEPT ![c.id] = new]
    BY DEF WriteRow
  <1>6. rows' \in [Appointments -> Calendar!Row \union {NoRow}]
    BY <1>1, <1>3, <1>5 DEF TypeOK
  <1>7. moved' \subseteq Appointments /\ moved \subseteq moved'
    BY <1>1 DEF WriteRow, TypeOK
  <1>8. \A id \in Appointments : rows'[id] = IF id = c.id THEN new ELSE rows[id]
    BY <1>1, <1>5 DEF TypeOK
  <1>9. ASSUME NEW id \in Appointments, Standing(id)'
        PROVE  Standing(id) /\ SameWindow(id)
    <2>1. id \notin moved
      BY <1>7, <1>9 DEF Standing
    <2>2. CASE id # c.id
      BY <1>8, <1>9, <2>1, <2>2 DEF Standing, SameWindow
    <2>3. CASE id = c.id
      <3>1. rows'[c.id] = new
        BY <1>1, <1>8
      <3>2. new.status \notin TerminalStatuses /\ c.id \notin moved'
        BY <1>9, <2>3, <3>1 DEF Standing
      <3>3. c.detailer = Keep /\ rows[c.id].status \notin TerminalStatuses
        BY <3>2 DEF WriteRow
      <3>4. QED
        BY <1>1, <1>3, <1>9, <2>1, <2>3, <3>1, <3>3 DEF Standing, SameWindow
    <2>4. QED
      BY <2>2, <2>3
  <1>10. QED
    BY <1>4, <1>6, <1>7, <1>8, <1>9

\* NoBookedOverlap and the check behind a clear request, row by row.
DisjointRows ==
  \A a, b \in Appointments :
    /\ a # b /\ Standing(a) /\ Standing(b)
    /\ rows[a].detailer = rows[b].detailer
    => ~ Calendar!Overlaps(rows[a].start, rows[a].bufferEnd,
                           rows[b].start, rows[b].bufferEnd)

ClearOfRows(b) ==
  \A id \in Appointments :
    Standing(id) /\ rows[id].detailer = request[b].detailer
    => ~ Calendar!Overlaps(request[b].start, BufferEnd(request[b]),
                           rows[id].start, rows[id].bufferEnd)

LEMMA RowByRow ==
  /\ TypeOK /\ NoBookedOverlap => DisjointRows
  /\ DisjointRows => NoBookedOverlap
  /\ \A b : request[b].detailer \in Detailers =>
         (ClearOfRows(b) <=>
            Calendar!Conflicts(request[b].detailer, request[b].start,
                               BufferEnd(request[b])) \subseteq moved)
  BY AllIds, SameTables
  DEF NoBookedOverlap, Calendar!NoBookedOverlap, Calendar!Occupying, Standing,
      DisjointRows, ClearOfRows, Calendar!Conflicts

\* A step that leaves every standing row where it was, and no new one, keeps
\* the rows disjoint and every checked request clear.
LEMMA StandingKept ==
  ASSUME \A id \in Appointments : Standing(id)' => Standing(id) /\ SameWindow(id)
  PROVE  /\ DisjointRows => DisjointRows'
         /\ \A b \in Bookings : request'[b] = request[b] /\ ClearOfRows(b)
                                => ClearOfRows(b)'
  BY DEF DisjointRows, ClearOfRows, SameWindow, BufferEnd

\* The part of the invariant that speaks of one request.
RequestInv(b) ==
  /\ pc[b] \in BookingPc
  /\ pc[b] # "booked" => rows[b] = NoRow
  /\ pc[b] \in {"requested", "locked", "clear"} => request[b] \in Request
  /\ pc[b] \in {"locked", "clear"} => lock[LockKey[request[b].detailer]] = b
  /\ pc[b] = "clear" => ClearOfRows(b)

UpdateInv(u) == pc[u] = "read" => dirty[u] \in Change /\ rows[dirty[u].id] # NoRow

IInv == /\ TypeOK
        /\ DisjointRows
        /\ \A b \in Bookings : RequestInv(b)
        /\ \A u \in Updates : UpdateInv(u)

LEMMA IInvIsBookingInv == /\ BookingInv => IInv
                          /\ IInv => BookingInv
  BY RowByRow DEF IInv, BookingInv, RequestInv, UpdateInv, Request

LEMMA InitIInv == Init => IInv
  <1> SUFFICES ASSUME Init PROVE IInv
    OBVIOUS
  <1>1. TypeOK
    BY DEF Init, TypeOK, BookingPc, UpdatePc
  <1>2. \A id \in Appointments : ~ Standing(id)
    BY DEF Init, Standing
  <1>3. QED
    BY <1>1, <1>2, AllIds DEF Init, IInv, DisjointRows, RequestInv, UpdateInv, BookingPc

-----------------------------------------------------------------------------
(* One lemma per group of actions. *)

\* Steps of a booking request that do not touch the table.
LEMMA RequestStep ==
  ASSUME IInv, NEW b \in Bookings,
         RequestBooking(b) \/ AcquireLock(b) \/ CheckOverlap(b) \/ AbortBooking(b)
  PROVE  IInv'
  <1>1. UNCHANGED <<rows, moved, dirty, cancellations>>
    BY DEF RequestBooking, AcquireLock, CheckOverlap, AbortBooking
  <1>2. b \notin Updates
    BY BookingAssumption
  <1>3. \A c \in Bookings \union Updates : c # b => pc'[c] = pc[c]
    BY DEF RequestBooking, AcquireLock, CheckOverlap, AbortBooking, IInv, TypeOK
  <1>4. \A c \in Bookings : c # b => request'[c] = request[c]
    BY DEF RequestBooking, AcquireLock, CheckOverlap, AbortBooking, IInv, TypeOK
  <1>5. \A id \in Appointments : Standing(id)' => Standing(id) /\ SameWindow(id)
    BY <1>1 DEF Standing, SameWindow
  <1>6. DisjointRows'
    BY <1>5, StandingKept DEF IInv
  <1>7. \A u \in Updates : UpdateInv(u)'
    BY <1>1, <1>2, <1>3 DEF UpdateInv, IInv
  <1>8. ASSUME NEW c \in Bookings, c # b, pc[c] \in {"locked", "clear"}
        PROVE  lock'[LockKey[request[c].detailer]] = c
    <2> DEFINE k == LockKey[request[c].detailer]
    <2>1. k \in LockKeys /\ lock[k] = c
      BY <1>8, BookingAssumption DEF IInv, RequestInv, Request
    <2>2. CASE UNCHANGED lock
      BY <2>1, <2>2
    <2>3. CASE lock' = ReleaseLock(b)
      BY <1>8, <2>1, <2>3 DEF ReleaseLock
    <2>4. CASE AcquireLock(b)
      BY <2>1, <2>4, BookingAssumption DEF AcquireLock, IInv, TypeOK
    <2>5. QED
      BY <2>2, <2>3, <2>4 DEF RequestBooking, CheckOverlap, AbortBooking
  <1>9. ASSUME NEW c \in Bookings, c # b
        PROVE  RequestInv(c)'
    <2>1. RequestInv(c) /\ pc'[c] = pc[c] /\ request'[c] = request[c]
      BY <1>3, <1>4, <1>9 DEF IInv
    <2>2. ClearOfRows(c) => ClearOfRows(c)'
      BY <1>5, <2>1, StandingKept
    <2>3. QED
      BY <1>1, <1>8, <1>9, <2>1, <2>2 DEF RequestInv
  <1>10. RequestInv(b)' /\ TypeOK'
    <2>1. RequestInv(b) /\ TypeOK
      BY DEF IInv
    <2>2. CASE RequestBooking(b)
      <3>1. PICK r \in Request : request' = [request EXCEPT ![b] = r]
        BY <2>2 DEF RequestBooking
      <3>2. QED
        BY <1>1, <2>1, <2>2, <3>1
        DEF RequestBooking, RequestInv, TypeOK, BookingPc
    <2>3. CASE AcquireLock(b)
      <3>1. LockKey[request[b].detailer] \in LockKeys
        BY <2>1, <2>3, BookingAssumption DEF AcquireLock, RequestInv, Request
      <3>2. QED
        BY <1>1, <2>1, <2>3, <3>1 DEF AcquireLock, RequestInv, TypeOK, BookingPc
    <2>4. ReleaseLock(b) \in [LockKeys -> Bookings \union {Free}]
      BY <2>1 DEF ReleaseLock, TypeOK
    <2>5. CASE CheckOverlap(b)
      <3>1. pc'[b] = "clear" => ClearOfRows(b)'
        <4> SUFFICES ASSUME pc'[b] = "clear" PROVE ClearOfRows(b)'
          OBVIOUS
        <4>1. Calendar!Conflicts(request[b].detailer, request[b].start,
                                 BufferEnd(request[b])) \subseteq moved
          BY <2>1, <2>5 DEF CheckOverlap, TypeOK
        <4>2. ClearOfRows(b) /\ request'[b] = request[b]
          BY <2>1, <2>5, <4>1, RowByRow DEF CheckOverlap, RequestInv, Request, TypeOK
        <4>3. QED
          BY <1>5, <4>2, StandingKept
      <3>2. QED
        BY <1>1, <2>1, <2>4, <2>5, <3>1
        DEF CheckOverlap, RequestInv, TypeOK, BookingPc
    <2>6. CASE AbortBooking(b)
      BY <1>1, <2>1, <2>4, <2>6 DEF AbortBooking, RequestInv, TypeOK, BookingPc
    <2>7. QED
      BY <2>2, <2>3, <2>5, <2>6
  <1>11. QED
    BY <1>6, <1>7, <1>9, <1>10 DEF IInv

\* The insert becomes visible.  The new row was checked under the lock, and the
\* lock keeps every other checked request of the detailer away.
LEMMA CommitStep ==
  ASSUME IInv, NEW b \in Bookings, CommitBooking(b)
  PROVE  IInv'
  <1> DEFINE r == request[b]
             new == [detailer |-> r.detailer, start |-> r.start,
                     bufferEnd |-> BufferEnd(r), status |-> "pending"]
  <1>1. /\ TypeOK /\ DisjointRows
        /\ RequestInv(b) /\ pc[b] = "clear"
        /\ r \in Request /\ ClearOfRows(b) /\ rows[b] = NoRow
    BY DEF IInv, CommitBooking, RequestInv
  <1>2. new \in Calendar!Row
    BY <1>1, BufferEndAfterStart, SameTables DEF Calendar!Row, Request, Statuses
  <1>3. \A id \in Appointments : rows'[id] = IF id = b THEN new ELSE rows[id]
    BY <1>1 DEF CommitBooking, TypeOK
  <1>4. /\ moved' = moved /\ dirty' = dirty
        /\ request' = [request EXCEPT ![b] = NoRequest]
        /\ pc' = [pc EXCEPT ![b] = "booked"]
        /\ lock' = ReleaseLock(b)
    BY DEF CommitBooking
  <1>5. b \notin Updates
    BY BookingAssumption
  <1>6. TypeOK'
    <2>1. rows' \in [Appointments -> Calendar!Row \union {NoRow}]
      BY <1>1, <1>2 DEF CommitBooking, TypeOK
    <2>2. ReleaseLock(b) \in [LockKeys -> Bookings \union {Free}]
      BY <1>1 DEF ReleaseLock, TypeOK
    <2>3. QED
      BY <1>1, <1>4, <2>1, <2>2 DEF CommitBooking, TypeOK, BookingPc
  <1>7. \A id \in Appointments : id # b /\ Standing(id)' => Standing(id) /\ SameWindow(id)
    BY <1>3, <1>4 DEF Standing, SameWindow
  <1>8. ASSUME NEW id \in Appointments, id # b, Standing(id)',
               rows'[id].detailer = r.detailer
        PROVE  /\ ~ Calendar!Overlaps(r.start, BufferEnd(r),
                                      rows'[id].start, rows'[id].bufferEnd)
               /\ ~ Calendar!Overlaps(rows'[id].start, rows'[id].bufferEnd,
                                      r.start, BufferEnd(r))
    <2>1. Standing(id) /\ SameWindow(id)
      BY <1>7, <1>8
    <2>2. ~ Calendar!Overlaps(r.start, BufferEnd(r), rows'[id].start, rows'[id].bufferEnd)
      BY <1>1, <1>8, <2>1 DEF ClearOfRows, SameWindow
    <2>3. rows[id].start \in Nat /\ rows[id].bufferEnd \in Nat \union {NoBuffer}
      BY <1>1, <2>1, InstantsAreNat DEF TypeOK, Standing, Calendar!Row
    <2>4. r.start \in Nat /\ BufferEnd(r) \in Nat
      BY <1>1, BufferEndAfterStart
    <2>5. QED
      BY <2>1, <2>2, <2>3, <2>4 DEF Calendar!Overlaps, SameWindow
  <1>9. DisjointRows'
    <2> SUFFICES ASSUME NEW x \in Appointments, NEW y \in Appointments, x # y,
                        Standing(x)', Standing(y)',
                        rows'[x].detailer = rows'[y].detailer
                 PROVE  ~ Calendar!Overlaps(rows'[x].start, rows'[x].bufferEnd,
                                            rows'[y].start, rows'[y].bufferEnd)
      BY DEF DisjointRows
    <2>1. rows'[b].detailer = r.detailer /\ rows'[b].start = r.start
          /\ rows'[b].bufferEnd = BufferEnd(r)
      BY <1>3, AllIds
    <2>2. CASE x = b
      BY <1>8, <2>1, <2>2
    <2>3. CASE y = b
      BY <1>8, <2>1, <2>3
    <2>4. CASE x # b /\ y # b
      <3>1. Standing(x) /\ SameWindow(x) /\ Standing(y) /\ SameWindow(y)
        BY <1>7, <2>4
      <3>2. QED
        BY <1>1, <3>1 DEF DisjointRows, SameWindow
    <2>5. QED
      BY <2>2, <2>3, <2>4
  <1>10. ASSUME NEW c \in Bookings, c # b
         PROVE  RequestInv(c)'
    <2>1. /\ RequestInv(c) /\ pc'[c] = pc[c]
          /\ rows'[c] = rows[c] /\ request'[c] = request[c]
      BY <1>1, <1>3, <1>4, <1>10, AllIds DEF IInv, TypeOK
    <2>2. CASE pc[c] \notin {"locked", "clear"}
      BY <1>4, <2>1, <2>2 DEF RequestInv
    <2>3. CASE pc[c] \in {"locked", "clear"}
      <3> DEFINE k == LockKey[request[c].detailer]
      <3>1. k \in LockKeys /\ lock[k] = c
        BY <2>1, <2>3, BookingAssumption DEF RequestInv, Request
      <3>2. lock'[k] = c
        BY <1>4, <1>10, <3>1 DEF ReleaseLock
      <3>3. request[c].detailer # r.detailer
        BY <1>1, <1>10, <3>1 DEF RequestInv
      <3>4. ClearOfRows(c) => ClearOfRows(c)'
        BY <1>3, <1>4, <1>7, <2>1, <3>3 DEF ClearOfRows, SameWindow, BufferEnd
      <3>5. QED
        BY <1>4, <2>1, <3>2, <3>4 DEF RequestInv
    <2>4. QED
      BY <2>2, <2>3
  <1>11. RequestInv(b)'
    BY <1>1, <1>4 DEF RequestInv, TypeOK, BookingPc
  <1>12. ASSUME NEW u \in Updates
         PROVE  UpdateInv(u)'
    <2>1. UpdateInv(u) /\ pc'[u] = pc[u]
      BY <1>1, <1>4, <1>5 DEF IInv, TypeOK
    <2>2. new # NoRow
      BY <1>2, NoRowAssumption
    <2>3. QED
      BY <1>3, <1>4, <2>1, <2>2 DEF UpdateInv, Change
  <1>13. QED
    BY <1>6, <1>9, <1>10, <1>11, <1>12 DEF IInv

\* The step of an update writes nothing, or one committed row.
LEMMA UpdateWrites ==
  ASSUME NEW u \in Updates, UpdateInv(u),
         \/ ReadForTransition(u) \/ CommitTransition(u) \/ ReadForReassign(u)
         \/ CommitReassign(u) \/ ReadForAccept(u) \/ CommitAccept(u)
         \/ MarkNoDetailer(u) \/ ForceStatus(u) \/ AbortUpdate(u)
  PROVE  \/ UNCHANGED <<rows, moved>>
         \/ \E c \in Change : rows[c.id] # NoRow /\ WriteRow(c)
  <1>1. CASE CommitTransition(u) \/ CommitReassign(u) \/ CommitAccept(u)
    BY <1>1 DEF UpdateInv, CommitTransition, CommitReassign, CommitAccept
  <1>2. CASE ForceStatus(u)
    <2>1. PICK id \in Appointments, st \in Statuses :
            /\ rows[id] # NoRow
            /\ WriteRow([id |-> id, status |-> st, detailer |-> Keep])
      BY <1>2 DEF ForceStatus
    <2>2. [id |-> id, status |-> st, detailer |-> Keep] \in Change
      BY DEF Change
    <2>3. QED
      BY <2>1, <2>2
  <1>3. CASE MarkNoDetailer(u)
    <2>1. PICK id \in Rides :
            /\ rows[id] # NoRow
            /\ WriteRow([id |-> id, status |-> "no_detailer_found", detailer |-> Keep])
      BY <1>3 DEF MarkNoDetailer
    <2>2. [id |-> id, status |-> "no_detailer_found", detailer |-> Keep] \in Change
      BY AllIds DEF Change, Statuses
    <2>3. QED
      BY <2>1, <2>2
  <1>4. CASE \/ ReadForTransition(u) \/ ReadForReassign(u)
             \/ ReadForAccept(u) \/ AbortUpdate(u)
    BY <1>4 DEF ReadForTransition, ReadForReassign, ReadForAccept, AbortUpdate
  <1>5. QED
    BY <1>1, <1>2, <1>3, <1>4

\* The step of an update, whether or not it writes its row.
LEMMA UpdateStep ==
  ASSUME IInv, NEW u \in Updates,
         \/ ReadForTransition(u) \/ CommitTransition(u) \/ ReadForReassign(u)
         \/ CommitReassign(u) \/ ReadForAccept(u) \/ CommitAccept(u)
         \/ MarkNoDetailer(u) \/ ForceStatus(u) \/ AbortUpdate(u)
  PROVE  IInv'
  <1> USE DEF ReadForTransition, CommitTransition, ReadForReassign, CommitReassign,
              ReadForAccept, CommitAccept, MarkNoDetailer, ForceStatus, AbortUpdate
  <1>1. TypeOK /\ DisjointRows /\ UpdateInv(u) /\ u \notin Bookings
    BY BookingAssumption DEF IInv
  <1>2. request' = request /\ lock' = lock
    OBVIOUS
  <1>3. \A x \in Bookings \union Updates : x # u => pc'[x] = pc[x]
    BY <1>1 DEF TypeOK
  <1>4. \/ UNCHANGED <<rows, moved>>
        \/ \E c \in Change : rows[c.id] # NoRow /\ WriteRow(c)
    BY <1>1, UpdateWrites
  <1>5. /\ rows' \in [Appointments -> Calendar!Row \union {NoRow}]
        /\ moved' \subseteq Appointments
        /\ \A id \in Appointments : rows'[id] = NoRow <=> rows[id] = NoRow
        /\ \A id \in Appointments : Standing(id)' => Standing(id) /\ SameWindow(id)
    <2>1. CASE UNCHANGED <<rows, moved>>
      BY <1>1, <2>1 DEF TypeOK, Standing, SameWindow
    <2>2. CASE \E c \in Change : rows[c.id] # NoRow /\ WriteRow(c)
      BY <1>1, <2>2, WriteRowEffect
    <2>3. QED
      BY <1>4, <2>1, <2>2
  <1>6. DisjointRows'
    BY <1>1, <1>5, StandingKept
  <1>7. ASSUME NEW b \in Bookings
        PROVE  RequestInv(b)'
    <2>1. RequestInv(b) /\ pc'[b] = pc[b]
      BY <1>1, <1>3, <1>7 DEF IInv
    <2>2. ClearOfRows(b) => ClearOfRows(b)'
      BY <1>2, <1>5, StandingKept
    <2>3. QED
      BY <1>2, <1>5, <2>1, <2>2, AllIds DEF RequestInv
  <1>8. ReadForTransition(u) \/ ReadForReassign(u) \/ ReadForAccept(u) =>
          \E c \in Change : rows[c.id] # NoRow /\ dirty' = [dirty EXCEPT ![u] = c]
    <2>1. CASE ReadForTransition(u)
      <3>1. PICK id \in Appointments, st \in Statuses :
              /\ rows[id] # NoRow
              /\ dirty' = [dirty EXCEPT ![u] = [id |-> id, status |-> st, detailer |-> Keep]]
        BY <2>1
      <3>2. [id |-> id, status |-> st, detailer |-> Keep] \in Change
        BY DEF Change
      <3>3. QED
        BY <3>1, <3>2
    <2>2. CASE ReadForReassign(u)
      <3>1. PICK id \in Appointments, d \in Detailers, st \in {"pending", Keep} :
              /\ rows[id] # NoRow
              /\ dirty' = [dirty EXCEPT ![u] = [id |-> id, detailer |-> d, status |-> st]]
        BY <2>2
      <3>2. [id |-> id, detailer |-> d, status |-> st] \in Change
        BY DEF Change, Statuses
      <3>3. QED
        BY <3>1, <3>2
    <2>3. CASE ReadForAccept(u)
      <3>1. PICK id \in Rides, d \in Detailers :
              /\ rows[id] # NoRow
              /\ dirty' = [dirty EXCEPT ![u] = [id |-> id, status |-> "confirmed", detailer |-> d]]
        BY <2>3
      <3>2. [id |-> id, status |-> "confirmed", detailer |-> d] \in Change
        BY AllIds DEF Change, Statuses
      <3>3. QED
        BY <3>1, <3>2
    <2>4. QED
      BY <2>1, <2>2, <2>3
  <1>9. /\ dirty' \in [Updates -> Change \union {NoRequest}]
        /\ \A v \in Updates : v # u => dirty'[v] = dirty[v]
    <2>1. \/ ReadForTransition(u) \/ ReadForReassign(u) \/ ReadForAccept(u)
          \/ UNCHANGED dirty
          \/ dirty' = [dirty EXCEPT ![u] = NoRequest]
      OBVIOUS
    <2>2. QED
      BY <1>1, <1>8, <2>1 DEF TypeOK
  <1>10. ASSUME NEW v \in Updates
         PROVE  UpdateInv(v)'
    <2>1. UpdateInv(v)
      BY <1>10 DEF IInv
    <2>2. CASE v # u
      BY <1>3, <1>5, <1>9, <1>10, <2>1, <2>2 DEF UpdateInv, Change
    <2>3. CASE v = u
      <3>1. CASE pc'[u] = "read"
        <4>1. ReadForTransition(u) \/ ReadForReassign(u) \/ ReadForAccept(u)
          BY <1>1, <3>1 DEF TypeOK
        <4>2. PICK c \in Change : rows[c.id] # NoRow /\ dirty' = [dirty EXCEPT ![u] = c]
          BY <4>1, <1>8
        <4>3. dirty'[u] = c
          BY <1>1, <4>2 DEF TypeOK
        <4>4. QED
          BY <1>5, <2>3, <4>2, <4>3 DEF UpdateInv, Change
      <3>2. QED
        BY <2>3, <3>1 DEF UpdateInv
    <2>4. QED
      BY <2>2, <2>3
  <1>11. TypeOK'
    <2>1. pc' \in [Bookings \union Updates -> BookingPc \union UpdatePc]
      BY <1>1 DEF TypeOK, UpdatePc
    <2>2. cancellations' \subseteq Appointments
      BY <1>1 DEF TypeOK, UpdateInv, Change
    <2>3. QED
      BY <1>1, <1>2, <1>5, <1>9, <2>1, <2>2 DEF TypeOK
  <1>12. QED
    BY <1>6, <1>7, <1>10, <1>11 DEF IInv

\* A ride's row appears: it is nobody's yet, so it stands in no calendar.
LEMMA RideStep ==
  ASSUME IInv, NEW rr \in Rides, RequestRide(rr)
  PROVE  IInv'
  <1>1. PICK now \in RideTimes :
          rows' = [rows EXCEPT ![rr] = [detailer |-> NoDetailer, start |-> now,
                                        bufferEnd |-> NoBuffer, status |-> "searching"]]
    BY DEF RequestRide
  <1> DEFINE new == [detailer |-> NoDetailer, start |-> now,
                     bufferEnd |-> NoBuffer, status |-> "searching"]
  <1>2. UNCHANGED <<moved, pc, request, lock, dirty, cancellations>> /\ rows[rr] = NoRow
    BY DEF RequestRide
  <1>3. TypeOK /\ DisjointRows
    BY DEF IInv
  <1>4. new \in Calendar!Row /\ new # NoRow
    <2>1. now \in Instants
      BY DEF Instants
    <2>2. new \in Calendar!Row
      BY <2>1, SameTables DEF Calendar!Row, Statuses
    <2>3. QED
      BY <2>2, NoRowAssumption
  <1>5. \A id \in Appointments : rows'[id] = IF id = rr THEN new ELSE rows[id]
    BY <1>1, <1>3 DEF TypeOK
  <1>6. rr \in Appointments /\ rr \notin Bookings
    BY AllIds, BookingAssumption
  <1>7. TypeOK'
    <2>1. rows' \in [Appointments -> Calendar!Row \union {NoRow}]
      BY <1>1, <1>3, <1>4 DEF TypeOK
    <2>2. QED
      BY <1>2, <1>3, <2>1 DEF TypeOK
  <1>8. \A id \in Appointments : Standing(id)' => Standing(id) /\ SameWindow(id)
    <2>1. ASSUME NEW id \in Appointments, id = rr PROVE ~ Standing(id)'
      <3>1. rows'[id].detailer = NoDetailer
        BY <1>5, <2>1
      <3>2. QED
        BY <3>1, BookingAssumption DEF Standing
    <2>2. QED
      BY <1>2, <1>5, <2>1 DEF Standing, SameWindow
  <1>9. DisjointRows'
    BY <1>3, <1>8, StandingKept
  <1>10. ASSUME NEW b \in Bookings PROVE RequestInv(b)'
    <2>1. RequestInv(b) /\ rows'[b] = rows[b]
      BY <1>5, <1>6, AllIds DEF IInv
    <2>2. ClearOfRows(b) => ClearOfRows(b)'
      BY <1>2, <1>8, StandingKept
    <2>3. QED
      BY <1>2, <2>1, <2>2 DEF RequestInv
  <1>11. ASSUME NEW u \in Updates PROVE UpdateInv(u)'
    <2>1. UpdateInv(u)
      BY <1>11 DEF IInv
    <2>2. QED
      BY <1>2, <1>4, <1>5, <2>1 DEF UpdateInv, Change
  <1>12. QED
    BY <1>7, <1>9, <1>10, <1>11 DEF IInv

-----------------------------------------------------------------------------
(* The theorems *)

LEMMA NextIInv == IInv /\ [Next]_vars => IInv'
  <1> SUFFICES ASSUME IInv, [Next]_vars PROVE IInv'
    OBVIOUS
  <1>1. CASE UNCHANGED vars
    BY <1>1 DEF vars, IInv, TypeOK, DisjointRows, Standing, RequestInv,
                ClearOfRows, BufferEnd, UpdateInv
  <1>2. CASE Next
    <2>1. ASSUME NEW b \in Bookings, CommitBooking(b) PROVE IInv'
      BY <2>1, CommitStep
    <2>2. ASSUME NEW b \in Bookings,
                 RequestBooking(b) \/ AcquireLock(b) \/ CheckOverlap(b) \/ AbortBooking(b)
          PROVE  IInv'
      BY <2>2, RequestStep
    <2>3. ASSUME NEW u \in Updates,
                 \/ ReadForTransition(u) \/ CommitTransition(u) \/ ReadForReassign(u)
                 \/ CommitReassign(u) \/ ReadForAccept(u) \/ CommitAccept(u)
         \/ MarkNoDetailer(u) \/ ForceStatus(u) \/ AbortUpdate(u)
          PROVE  IInv'
      BY <2>3, UpdateStep
    <2>4. ASSUME NEW rr \in Rides, RequestRide(rr) PROVE IInv'
      BY <2>4, RideStep
    <2>5. QED
      BY <1>2, <2>1, <2>2, <2>3, <2>4 DEF Next
  <1>3. QED
    BY <1>1, <1>2

LEMMA AlwaysIInv == Spec => []IInv
  BY InitIInv, NextIInv, PTL DEF Spec

\* Every variable keeps its type: a committed row has a start and a status of
\* the enumeration; its detailer and its travel buffer may be missing.
THEOREM TypeCorrect == Spec => []TypeOK
  <1>1. IInv => TypeOK
    BY DEF IInv
  <1>2. QED
    BY <1>1, AlwaysIInv, PTL

\* The inductive invariant of the booking path: the lock covers a request from
\* the overlap count to the commit, and the count stays true meanwhile.
THEOREM BookingInvariant == Spec => []BookingInv
  BY IInvIsBookingInv, AlwaysIInv, PTL

\* create_appointment never books one detailer twice for one instant, with
\* respect to every row that stands where it was booked.
THEOREM BookingsDisjoint == Spec => []NoBookedOverlap
  <1>1. BookingInv => NoBookedOverlap
    BY DEF BookingInv
  <1>2. QED
    BY <1>1, BookingInvariant, PTL

\* Two requests for one detailer are never both past the lock: the advisory
\* lock serialises them although it is keyed by eight bytes of the id.
THEOREM SectionExclusive == Spec => []ExclusiveSection
  <1>1. IInv => ExclusiveSection
    <2> SUFFICES ASSUME IInv, NEW a \in Bookings, NEW b \in Bookings, a # b,
                        pc[a] \in {"locked", "clear"}, pc[b] \in {"locked", "clear"}
                 PROVE  request[a].detailer # request[b].detailer
      BY DEF ExclusiveSection
    <2>1. RequestInv(a) /\ RequestInv(b)
      BY DEF IInv
    <2>2. QED
      BY <2>1 DEF RequestInv
  <1>2. QED
    BY <1>1, AlwaysIInv, PTL

-----------------------------------------------------------------------------
(* Booking implements BookingCalendar. *)

\* The write of an update is a Restate or a Move of the calendar.
LEMMA WriteRowMaps ==
  ASSUME TypeOK, NEW c \in Change, rows[c.id] # NoRow, WriteRow(c)
  PROVE  Calendar!Restate(c.id) \/ Calendar!Move(c.id)
  <1> DEFINE old == rows[c.id]
             new == Written(old, c)
             reopened == old.status \in TerminalStatuses /\ new.status \notin TerminalStatuses
  <1>1. /\ old \in Calendar!Row
        /\ new.status \in Statuses /\ new.detailer \in Detailers \union {old.detailer}
        /\ new = [old EXCEPT !.detailer = new.detailer, !.status = new.status]
        /\ c.detailer = Keep => new = [old EXCEPT !.status = new.status]
    BY SameTables DEF TypeOK, Change, Written, Calendar!Row
  <1>2. rows' = [rows EXCEPT ![c.id] = new]
    BY DEF WriteRow
  <1>3. CASE reopened \/ c.detailer # Keep
    <2>1. moved' = moved \union {c.id}
      BY <1>3 DEF WriteRow
    <2>2. QED
      BY <1>1, <1>2, <2>1, SameTables DEF Calendar!Move
  <1>4. CASE ~ reopened /\ c.detailer = Keep
    <2>1. moved' = moved
      BY <1>4 DEF WriteRow
    <2>2. QED
      BY <1>1, <1>2, <1>4, <2>1, SameTables DEF Calendar!Restate
  <1>5. QED
    BY <1>3, <1>4

\* The commit of a booking is the Book step of the calendar.
LEMMA CommitMaps ==
  ASSUME IInv, NEW b \in Bookings, CommitBooking(b)
  PROVE  Calendar!Book(b)
  <1> DEFINE r == request[b]
  <1>1. RequestInv(b) /\ pc[b] = "clear" /\ r \in Request
    BY DEF IInv, CommitBooking, RequestInv
  <1>2. Calendar!Conflicts(r.detailer, r.start, BufferEnd(r)) \subseteq moved
    BY <1>1, RowByRow DEF RequestInv, Request
  <1>3. r.detailer \in Detailers /\ r.start \in Instants
        /\ BufferEnd(r) \in Instants /\ r.start < BufferEnd(r)
    BY <1>1, BufferEndAfterStart DEF Request
  <1>4. rows[b] = NoRow /\ UNCHANGED moved
    BY <1>1 DEF RequestInv, CommitBooking
  <1>5. rows' = [rows EXCEPT ![b] = [detailer |-> r.detailer, start |-> r.start,
                                     bufferEnd |-> BufferEnd(r), status |-> "pending"]]
    BY DEF CommitBooking
  <1>6. QED
    BY <1>2, <1>3, <1>4, <1>5 DEF Calendar!Book

LEMMA StepMaps == IInv /\ [Next]_vars => [Calendar!Next]_(Calendar!calendarVars)
  <1> SUFFICES ASSUME IInv, [Next]_vars PROVE [Calendar!Next]_(Calendar!calendarVars)
    OBVIOUS
  <1>1. CASE UNCHANGED vars
    BY <1>1 DEF vars, Calendar!calendarVars
  <1>2. ASSUME NEW b \in Bookings, CommitBooking(b) PROVE Calendar!Next
    BY <1>2, CommitMaps DEF Calendar!Next
  <1>3. ASSUME NEW b \in Bookings,
               RequestBooking(b) \/ AcquireLock(b) \/ CheckOverlap(b) \/ AbortBooking(b)
        PROVE  UNCHANGED Calendar!calendarVars
    BY <1>3 DEF RequestBooking, AcquireLock, CheckOverlap, AbortBooking,
                Calendar!calendarVars
  <1>4. ASSUME NEW u \in Updates,
               \/ ReadForTransition(u) \/ CommitTransition(u) \/ ReadForReassign(u)
               \/ CommitReassign(u) \/ ReadForAccept(u) \/ CommitAccept(u)
         \/ MarkNoDetailer(u) \/ ForceStatus(u) \/ AbortUpdate(u)
        PROVE  [Calendar!Next]_(Calendar!calendarVars)
    <2>1. CASE UNCHANGED <<rows, moved>>
      BY <2>1 DEF Calendar!calendarVars
    <2>2. CASE \E c \in Change : rows[c.id] # NoRow /\ WriteRow(c)
      <3>1. PICK c \in Change : rows[c.id] # NoRow /\ WriteRow(c)
        BY <2>2
      <3>2. Calendar!Restate(c.id) \/ Calendar!Move(c.id)
        BY <3>1, WriteRowMaps DEF IInv
      <3>3. c.id \in Calendar!Appointments
        BY AllIds DEF Change
      <3>4. QED
        BY <3>2, <3>3 DEF Calendar!Next
    <2>3. QED
      BY <1>4, <2>1, <2>2, UpdateWrites DEF IInv
  <1>5. ASSUME NEW rr \in Rides, RequestRide(rr) PROVE Calendar!Next
    <2>1. RideTimes \subseteq Instants
      BY DEF Instants
    <2>2. Calendar!RequestRide(rr)
      BY <1>5, <2>1 DEF RequestRide, Calendar!RequestRide
    <2>3. QED
      BY <2>2 DEF Calendar!Next
  <1>6. QED
    BY <1>1, <1>2, <1>3, <1>4, <1>5 DEF Next

\* Seen through the table alone, the locked section of create_appointment is
\* one atomic booking, and every other request restates or moves one row.
THEOREM Refinement == Spec => ImplementsCalendar
  <1>1. Init => Calendar!Init
    BY AllIds DEF Init, Calendar!Init
  <1>2. QED
    BY <1>1, AlwaysIInv, StepMaps, PTL DEF Spec, ImplementsCalendar, Calendar!Spec

-----------------------------------------------------------------------------
(* Slots *)

\* An instant of day a that lies before the end of day b: a comes no later than b.
LEMMA DayOrder ==
  ASSUME NEW a \in Nat, NEW b \in Nat, NEW length \in Nat, a * length < b * length + length
  PROVE  a <= b
  <1> SUFFICES ASSUME a > b PROVE FALSE
    OBVIOUS
  <1>1. PICK k \in Nat : a = b + 1 + k
    <2>1. a - b - 1 \in Nat /\ a = b + 1 + (a - b - 1)
      OBVIOUS
    <2>2. QED
      BY <2>1
  <1>2. a * length = b * length + length + k * length
    BY <1>1
  <1>3. k * length >= 0 /\ b * length \in Nat /\ k * length \in Nat
    OBVIOUS
  <1>4. QED
    BY <1>2, <1>3

\* A row that conflicts with a slot of a detailer who keeps its hours starts on
\* the day of the slot, so the slot search has read it.
LEMMA ConflictIsRead ==
  ASSUME TypeOK, NEW d \in Detailers, KeepsHours(d), NEW day \in Days,
         NEW length \in Nat, NEW now, NEW t \in SlotStarts(d, day), Bookable(d, day, t, length, now),
         NEW id \in Calendar!Conflicts(d, t, t + length)
  PROVE  id \in OfDay(d, day)
  <1> DEFINE that == rows[id].start \div DAY
             s == rows[id].start
             e == rows[id].bufferEnd
  <1>1. id \in Calendar!Occupying(d) /\ Calendar!Overlaps(t, t + length, s, e)
    BY DEF Calendar!Conflicts
  <1>2. id \in Appointments /\ rows[id] \in Calendar!Row
    BY <1>1, AllIds DEF Calendar!Occupying, TypeOK
  <1>3. s \in Nat /\ e \in Nat /\ e # NoBuffer
    BY <1>1, <1>2, InstantsAreNat DEF Calendar!Row, Calendar!Overlaps
  <1>4. /\ DAY \in Nat \ {0} /\ day \in Nat /\ Opens[d] \in Nat /\ Closes[d] \in Nat
    BY SlotsAssumption
  <1>5. that \in Nat
    BY <1>3, <1>4
  <1>6. s >= WorkStart(d, that) /\ e <= WorkEnd(d, that) /\ Closes[d] <= DAY
    BY <1>1, <1>3 DEF KeepsHours
  <1>7. t \in WorkStart(d, day) .. (WorkEnd(d, day) - 1) /\ t + length <= WorkEnd(d, day)
    BY DEF SlotStarts, Bookable
  <1>8. t < e /\ t + length > s
    BY <1>1 DEF Calendar!Overlaps
  <1> HIDE DEF that, s, e
  <1>9. that * DAY \in Nat /\ day * DAY \in Nat
    BY <1>4, <1>5
  <1>10. day * DAY < that * DAY + DAY /\ that * DAY < day * DAY + DAY
    BY <1>3, <1>4, <1>6, <1>7, <1>8, <1>9 DEF WorkStart, WorkEnd
  <1>11. that = day
    BY <1>4, <1>5, <1>10, DayOrder
  <1>12. QED
    BY <1>1, <1>11 DEF OfDay, that

\* A list the query returns holds the rows of the day and no others.
LEMMA ListHoldsDay ==
  ASSUME NEW d, NEW day, NEW list \in Existing(d, day)
  PROVE  /\ \A i \in DOMAIN list : list[i] \in OfDay(d, day)
         /\ \A id \in OfDay(d, day) : \E i \in DOMAIN list : list[i] = id
  <1> DEFINE n == Cardinality(OfDay(d, day))
  <1>1. /\ list \in [1 .. n -> OfDay(d, day)]
        /\ \A id \in OfDay(d, day) : \E i \in 1 .. n : list[i] = id
    BY DEF Existing
  <1> HIDE DEF n
  <1>2. DOMAIN list = 1 .. n
    BY <1>1
  <1>3. QED
    BY <1>1, <1>2

\* SlotsMatchBooking: the search fails only over a ride, and when it answers, the
\* overlap test in Python and the one in SQL agree on every slot that can be booked,
\* whatever the hours, the appointments and the granularity.
THEOREM SlotsAgree == Spec => []SlotsMatchBooking
  <1>1. ASSUME TypeOK PROVE SlotsMatchBooking
    <2> SUFFICES ASSUME NEW d \in Accepting, KeepsHours(d), NEW day \in Days,
                        NEW list \in Existing(d, day),
                        NEW now \in Starts, NEW duration \in Durations
                 PROVE  IF Fails(d, day, duration + TRAVEL_BUFFER, now, list)
                        THEN HasRide(d, day)
                        ELSE \A t \in SlotStarts(d, day) :
                               Bookable(d, day, t, duration + TRAVEL_BUFFER, now) =>
                                 (t \in Offered(d, day, duration + TRAVEL_BUFFER, now, list)
                                    <=> Calendar!Conflicts(d, t, t + (duration + TRAVEL_BUFFER)) = {})
      BY DEF SlotsMatchBooking
    <2> DEFINE length == duration + TRAVEL_BUFFER
    <2>1. d \in Detailers /\ length \in Nat
      BY SlotsAssumption, BookingAssumption
    <2> HIDE DEF length
    <2>2. /\ \A i \in DOMAIN list : list[i] \in OfDay(d, day)
          /\ \A id \in OfDay(d, day) : \E i \in DOMAIN list : list[i] = id
      BY ListHoldsDay
    <2>3. ASSUME Fails(d, day, length, now, list) PROVE HasRide(d, day)
      <3>1. PICK i \in DOMAIN list : rows[list[i]].bufferEnd = NoBuffer
        BY <2>3 DEF Fails, Raises
      <3>2. QED
        BY <2>2, <3>1 DEF HasRide
    <2>4. ASSUME NEW t \in SlotStarts(d, day), Bookable(d, day, t, length, now)
          PROVE  t \in Offered(d, day, length, now, list)
                   <=> Calendar!Conflicts(d, t, t + length) = {}
      <3>1. t \in Offered(d, day, length, now, list) <=>
              \A i \in DOMAIN list : ~ Meets(t, length, rows[list[i]])
        BY <2>4 DEF Offered
      <3>2. ASSUME Calendar!Conflicts(d, t, t + length) = {}, NEW i \in DOMAIN list
            PROVE  ~ Meets(t, length, rows[list[i]])
        <4>1. list[i] \in Calendar!Occupying(d)
          BY <2>2, <3>2 DEF OfDay
        <4>2. QED
          BY <3>2, <4>1 DEF Calendar!Conflicts, Meets
      <3>3. ASSUME NEW id \in Calendar!Conflicts(d, t, t + length)
            PROVE  \E i \in DOMAIN list : Meets(t, length, rows[list[i]])
        <4>1. id \in OfDay(d, day)
          BY <1>1, <2>1, <2>4, <3>3, ConflictIsRead
        <4>2. Meets(t, length, rows[id])
          BY <3>3 DEF Calendar!Conflicts, Meets
        <4>3. QED
          BY <2>2, <4>1, <4>2
      <3>4. QED
        BY <3>1, <3>2, <3>3
    <2>5. QED
      BY <2>3, <2>4 DEF length
  <1>2. QED
    BY <1>1, TypeCorrect, PTL

=============================================================================
