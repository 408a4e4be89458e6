---------------------------- MODULE RideDispatch ----------------------------
(***************************************************************************)
(* On-demand rides: the client's request, the assignment engine and the    *)
(* detailers' answers.                                                     *)
(*                                                                         *)
(*  - POST /rides/request inserts the appointment as SEARCHING, commits,   *)
(*    writes the AUTHORIZATION ledger entry, commits, and only then adds   *)
(*    the ride to the Redis stream.                                        *)
(*  - assignment_worker, one task per server process, reads the stream and *)
(*    runs assign on one ride at a time: it offers the ride to one         *)
(*    candidate after the other and waits for an asyncio.Event of its own  *)
(*    process, OFFER_TIMEOUT_SECONDS at most.                              *)
(*  - PUT /rides/{id}/accept and /decline read the offer, write it back    *)
(*    without repeating the condition, and set the event if their process  *)
(*    has it.                                                              *)
(*                                                                         *)
(* Each statement of the source that commits, reads or signals is a step.  *)
(* The scores only order the candidates, so the next candidate is any      *)
(* detailer not tried yet and the list may end anywhere.                   *)
(***************************************************************************)
EXTENDS Naturals, Sequences, FiniteSets

CONSTANTS Rides,
          Detailers,
          Requests,         \* accept and decline calls
          Processes,        \* server processes, each with its worker
          MAX_CANDIDATES,
          MaxFailures,      \* bound: exceptions and crashes in a behaviour
          None

OfferStatuses == {"offered", "accepted", "declined", "timeout"}
RideStatuses  == {"searching", "confirmed", "no_detailer_found"}

ASSUME RideAssumption ==
  /\ MAX_CANDIDATES \in Nat
  /\ MaxFailures \in Nat
  /\ None \notin Rides \union Detailers \union Processes
  /\ None \notin OfferStatuses \union RideStatuses

VARIABLES status,      \* status column of each ride's appointment
          detailerOf,  \* its detailer_id
          offer,       \* offer[r][d]: status of the appointment_assignments row
          authorized,  \* rides with an AUTHORIZATION ledger entry
          captures,    \* number of CAPTURE ledger entries of each ride
          client,      \* progress of POST /rides/request
          lock,        \* rides whose key assignment:{id} is set in Redis
          worker,      \* each process' worker, its stream position, its event
          call,        \* progress of each accept or decline call
          failures

vars == <<status, detailerOf, offer, authorized, captures, client, lock,
          worker, call, failures>>

\* fresh: last_id still is "$", so only what arrives during a read is seen.
\* event: absent from app.state.assignment_events, registered, or set with the
\* response stored beside it.
Worker == [pc : {"between", "reading", "ranking", "locked", "offered",
                 "waiting", "declined", "timedOut"},
           ride : Rides \union {None},
           candidate : Detailers \union {None},
           tried : SUBSET Detailers,
           event : {"absent", "registered", "accepted", "declined"},
           fresh : BOOLEAN,
           queue : Seq(Rides)]

Call == [pc : {"idle", "rideRead", "offerRead", "committed", "signalled",
               "done", "refused", "failed"},
         kind : {"accept", "decline", "none"},
         ride : Rides \union {None},
         detailer : Detailers \union {None},
         process : Processes \union {None}]

\* A worker that has just been started by the application's lifespan.
Started == [pc |-> "between", ride |-> None, candidate |-> None, tried |-> {},
            event |-> "absent", fresh |-> TRUE, queue |-> <<>>]

NoCall == [pc |-> "idle", kind |-> "none", ride |-> None, detailer |-> None,
           process |-> None]

Init ==
  /\ status = [r \in Rides |-> None]
  /\ detailerOf = [r \in Rides |-> None]
  /\ offer = [r \in Rides |-> [d \in Detailers |-> None]]
  /\ authorized = {}
  /\ captures = [r \in Rides |-> 0]
  /\ client = [r \in Rides |-> "idle"]
  /\ lock = {}
  /\ worker = [p \in Processes |-> Started]
  /\ call = [c \in Requests |-> NoCall]
  /\ failures = 0

-----------------------------------------------------------------------------
(* POST /rides/request *)

RequestRide(r) ==
  /\ client[r] = "idle"
  /\ client' = [client EXCEPT ![r] = "inserted"]
  /\ status' = [status EXCEPT ![r] = "searching"]
  /\ UNCHANGED <<detailerOf, offer, authorized, captures, lock, worker, call, failures>>

Authorize(r) ==
  /\ client[r] = "inserted"
  /\ client' = [client EXCEPT ![r] = "authorized"]
  /\ authorized' = authorized \union {r}
  /\ UNCHANGED <<status, detailerOf, offer, captures, lock, worker, call, failures>>

\* XADD.  A worker that has read nothing yet and is between two reads never
\* sees the entry: its next read starts after it.
Delivered(w, r) ==
  IF w.fresh /\ w.pc = "between" THEN w ELSE [w EXCEPT !.queue = Append(@, r)]

\* Variant: the ride is queued before its authorization is on the ledger.
EnqueueEarly(r) ==
  /\ client[r] \in {"inserted", "authorized"}
  /\ client' = [client EXCEPT ![r] = "enqueued"]
  /\ worker' = [p \in Processes |-> Delivered(worker[p], r)]
  /\ UNCHANGED <<status, detailerOf, offer, authorized, captures, lock, call, failures>>

Enqueue(r) ==
  /\ client[r] = "authorized"
  /\ client' = [client EXCEPT ![r] = "enqueued"]
  /\ worker' = [p \in Processes |-> Delivered(worker[p], r)]
  /\ UNCHANGED <<status, detailerOf, offer, authorized, captures, lock, call, failures>>

\* An exception, or the end of the process, between two commits of the request.
RequestFails(r) ==
  /\ failures < MaxFailures
  /\ client[r] \in {"inserted", "authorized"}
  /\ client' = [client EXCEPT ![r] = "failed"]
  /\ failures' = failures + 1
  /\ UNCHANGED <<status, detailerOf, offer, authorized, captures, lock, worker, call>>

-----------------------------------------------------------------------------
(* assignment_worker and assign *)

\* The worker goes back to the stream; last_id is the message just handled.
NextMessage(w) ==
  [w EXCEPT !.pc = "reading", !.ride = None, !.candidate = None, !.tried = {},
            !.event = "absent"]

\* XREAD returns a ride, blocks, or gives up after a second and is called again.
ReadStream(p) ==
  LET w == worker[p]
  IN /\ \/ /\ w.pc = "reading" /\ w.queue # <<>>
           /\ worker' = [worker EXCEPT ![p] =
                [w EXCEPT !.pc = "ranking", !.ride = Head(w.queue),
                          !.queue = Tail(w.queue), !.fresh = FALSE]]
        \/ /\ w.pc = "reading" /\ w.queue = <<>> /\ w.fresh
           /\ worker' = [worker EXCEPT ![p].pc = "between"]
        \/ /\ w.pc = "between"
           /\ worker' = [worker EXCEPT ![p].pc = "reading"]
     /\ UNCHANGED <<status, detailerOf, offer, authorized, captures, client, lock, call, failures>>

\* SET NX for the next candidate: it skips the candidate when the key is held.
TryCandidate(p) ==
  LET w == worker[p]
  IN /\ w.pc = "ranking"
     /\ Cardinality(w.tried) < MAX_CANDIDATES
     /\ \E d \in Detailers \ w.tried :
          \/ /\ w.ride \in lock
             /\ worker' = [worker EXCEPT ![p].tried = @ \union {d}]
             /\ UNCHANGED lock
          \/ /\ w.ride \notin lock
             /\ worker' = [worker EXCEPT ![p] =
                  [w EXCEPT !.pc = "locked", !.candidate = d, !.tried = @ \union {d}]]
             /\ lock' = lock \union {w.ride}
     /\ UNCHANGED <<status, detailerOf, offer, authorized, captures, client, call, failures>>

\* The offer's row is inserted and committed; a second row for the same ride
\* and detailer breaks the unique constraint, and the exception ends assign
\* with the key still set.
InsertOffer(p) ==
  LET w == worker[p]
  IN /\ w.pc = "locked"
     /\ \/ /\ offer[w.ride][w.candidate] = None
           /\ offer' = [offer EXCEPT ![w.ride][w.candidate] = "offered"]
           /\ worker' = [worker EXCEPT ![p].pc = "offered"]
        \/ /\ offer[w.ride][w.candidate] # None
           /\ worker' = [worker EXCEPT ![p] = NextMessage(w)]
           /\ UNCHANGED offer
     /\ UNCHANGED <<status, detailerOf, authorized, captures, client, lock, call, failures>>

\* The offer has been committed and published; only now is the event registered.
AwaitAnswer(p) ==
  /\ worker[p].pc = "offered"
  /\ worker' = [worker EXCEPT ![p].pc = "waiting", ![p].event = "registered"]
  /\ UNCHANGED <<status, detailerOf, offer, authorized, captures, client, lock, call, failures>>

\* Variant: any answer ends the search.
TakeAnyAnswer(p) ==
  LET w == worker[p]
  IN /\ w.pc = "waiting"
     /\ w.event \in {"accepted", "declined"}
     /\ worker' = [worker EXCEPT ![p] = NextMessage(w)]
     /\ lock' = lock \ {w.ride}
     /\ UNCHANGED <<status, detailerOf, offer, authorized, captures, client, call, failures>>

\* The event is set.  An acceptance ends assign; its finally drops the event and
\* deletes the key, whoever holds it by now.
TakeAnswer(p) ==
  LET w == worker[p]
  IN /\ w.pc = "waiting"
     /\ \/ /\ w.event = "accepted"
           /\ worker' = [worker EXCEPT ![p] = NextMessage(w)]
           /\ lock' = lock \ {w.ride}
        \/ /\ w.event = "declined"
           /\ worker' = [worker EXCEPT ![p].pc = "declined"]
           /\ UNCHANGED lock
     /\ UNCHANGED <<status, detailerOf, offer, authorized, captures, client, call, failures>>

\* wait_for gives up.  It may do so although the event was set meanwhile.
OfferTimesOut(p) ==
  /\ worker[p].pc = "waiting"
  /\ worker' = [worker EXCEPT ![p].pc = "timedOut"]
  /\ UNCHANGED <<status, detailerOf, offer, authorized, captures, client, lock, call, failures>>

\* Variant: a timed out offer is left as it is, to expire by offer_expires_at.
CloseDeclinedOffer(p) ==
  LET w == worker[p]
  IN /\ w.pc \in {"declined", "timedOut"}
     /\ offer' = IF w.pc = "declined"
                 THEN [offer EXCEPT ![w.ride][w.candidate] = "declined"] ELSE offer
     /\ worker' = [worker EXCEPT ![p].pc = "ranking", ![p].candidate = None,
                                 ![p].event = "absent"]
     /\ lock' = lock \ {w.ride}
     /\ UNCHANGED <<status, detailerOf, authorized, captures, client, call, failures>>

\* UPDATE of the offer by its id, whatever its status is by now, and finally.
CloseOffer(p) ==
  LET w == worker[p]
  IN /\ w.pc \in {"declined", "timedOut"}
     /\ offer' = [offer EXCEPT ![w.ride][w.candidate] =
                    IF w.pc = "declined" THEN "declined" ELSE "timeout"]
     /\ worker' = [worker EXCEPT ![p].pc = "ranking", ![p].candidate = None,
                                 ![p].event = "absent"]
     /\ lock' = lock \ {w.ride}
     /\ UNCHANGED <<status, detailerOf, authorized, captures, client, call, failures>>

\* No candidate (left): UPDATE of the ride by its id, whatever its status is.
MarkNoDetailer(p) ==
  LET w == worker[p]
  IN /\ w.pc = "ranking"
     /\ status' = [status EXCEPT ![w.ride] = "no_detailer_found"]
     /\ worker' = [worker EXCEPT ![p] = NextMessage(w)]
     /\ UNCHANGED <<detailerOf, offer, authorized, captures, client, lock, call, failures>>

\* assign raises; the worker logs it and takes the next message.  The key is
\* deleted only when the exception crosses the finally.
AssignFails(p) ==
  LET w == worker[p]
  IN /\ failures < MaxFailures
     /\ w.pc \notin {"between", "reading"}
     /\ worker' = [worker EXCEPT ![p] = NextMessage(w)]
     /\ lock' = IF w.pc \in {"waiting", "declined", "timedOut"}
                THEN lock \ {w.ride} ELSE lock
     /\ failures' = failures + 1
     /\ UNCHANGED <<status, detailerOf, offer, authorized, captures, client, call>>

\* The process ends: its events, its position in the stream and the calls it
\* was serving are gone, what they committed stays.
Restart(p) ==
  /\ failures < MaxFailures
  /\ failures' = failures + 1
  /\ worker' = [worker EXCEPT ![p] = Started]
  /\ call' = [c \in Requests |->
       IF /\ call[c].process = p
          /\ call[c].pc \in {"rideRead", "offerRead", "committed", "signalled"}
       THEN [call[c] EXCEPT !.pc = "failed"] ELSE call[c]]
  /\ UNCHANGED <<status, detailerOf, offer, authorized, captures, client, lock>>

\* The key's time to live is the wait's timeout and starts before it.
LockExpires(r) ==
  /\ r \in lock
  /\ lock' = lock \ {r}
  /\ UNCHANGED <<status, detailerOf, offer, authorized, captures, client, worker, call, failures>>

-----------------------------------------------------------------------------
(* PUT /rides/{id}/accept and /decline *)

\* accept_ride: 404 unless the ride is SEARCHING.
AcceptReadRide(c) ==
  /\ call[c].pc = "idle"
  /\ \E r \in Rides, d \in Detailers, p \in Processes :
       /\ status[r] # None
       /\ call' = [call EXCEPT ![c] =
            [pc |-> IF status[r] = "searching" THEN "rideRead" ELSE "refused",
             kind |-> "accept", ride |-> r, detailer |-> d, process |-> p]]
  /\ UNCHANGED <<status, detailerOf, offer, authorized, captures, client, lock, worker, failures>>

\* accept_ride: 409 unless the caller's offer is OFFERED.
AcceptReadOffer(c) ==
  LET open == offer[call[c].ride][call[c].detailer] = "offered"
  IN /\ call[c].pc = "rideRead"
     /\ call' = [call EXCEPT ![c].pc = IF open THEN "offerRead" ELSE "refused"]
     /\ UNCHANGED <<status, detailerOf, offer, authorized, captures, client, lock, worker, failures>>

\* decline_ride: 404 unless the caller's offer is OFFERED.
DeclineReadOffer(c) ==
  /\ call[c].pc = "idle"
  /\ \E r \in Rides, d \in Detailers, p \in Processes :
       /\ status[r] # None
       /\ call' = [call EXCEPT ![c] =
            [pc |-> IF offer[r][d] = "offered" THEN "offerRead" ELSE "refused",
             kind |-> "decline", ride |-> r, detailer |-> d, process |-> p]]
  /\ UNCHANGED <<status, detailerOf, offer, authorized, captures, client, lock, worker, failures>>

\* Both UPDATEs go by primary key and repeat neither condition.
CommitAnswer(c) ==
  LET m == call[c]
  IN /\ m.pc = "offerRead"
     /\ \/ /\ m.kind = "accept"
           /\ offer' = [offer EXCEPT ![m.ride][m.detailer] = "accepted"]
           /\ status' = [status EXCEPT ![m.ride] = "confirmed"]
           /\ detailerOf' = [detailerOf EXCEPT ![m.ride] = m.detailer]
        \/ /\ m.kind = "decline"
           /\ offer' = [offer EXCEPT ![m.ride][m.detailer] = "declined"]
           /\ UNCHANGED <<status, detailerOf>>
     /\ call' = [call EXCEPT ![c].pc = "committed"]
     /\ UNCHANGED <<authorized, captures, client, lock, worker, failures>>

\* The event of this ride and detailer is set if this very process has it.
Signal(c) ==
  LET m == call[c]
      w == worker[m.process]
      answer == IF m.kind = "accept" THEN "accepted" ELSE "declined"
  IN /\ m.pc = "committed"
     /\ worker' = IF w.ride = m.ride /\ w.candidate = m.detailer /\ w.event # "absent"
                  THEN [worker EXCEPT ![m.process].event = answer]
                  ELSE worker
     /\ call' = [call EXCEPT ![c].pc = IF m.kind = "accept" THEN "signalled" ELSE "done"]
     /\ UNCHANGED <<status, detailerOf, offer, authorized, captures, client, lock, failures>>

\* coordinator.capture: the CAPTURE entry, in a transaction of its own.
Capture(c) ==
  /\ call[c].pc = "signalled"
  /\ captures' = [captures EXCEPT ![call[c].ride] = @ + 1]
  /\ call' = [call EXCEPT ![c].pc = "done"]
  /\ UNCHANGED <<status, detailerOf, offer, authorized, client, lock, worker, failures>>

\* An exception in the handler: before the commit it rolls back, after it the
\* acceptance stands without its CAPTURE.
CallFails(c) ==
  /\ failures < MaxFailures
  /\ call[c].pc \in {"rideRead", "offerRead", "signalled"}
  /\ call' = [call EXCEPT ![c].pc = "failed"]
  /\ failures' = failures + 1
  /\ UNCHANGED <<status, detailerOf, offer, authorized, captures, client, lock, worker>>

-----------------------------------------------------------------------------

WorkerStep(p) ==
  \/ ReadStream(p) \/ TryCandidate(p) \/ InsertOffer(p) \/ AwaitAnswer(p)
  \/ TakeAnswer(p) \/ OfferTimesOut(p) \/ CloseOffer(p) \/ MarkNoDetailer(p)

CallStep(c) ==
  \/ AcceptReadRide(c) \/ AcceptReadOffer(c) \/ DeclineReadOffer(c)
  \/ CommitAnswer(c) \/ Signal(c) \/ Capture(c) \/ CallFails(c)

Next ==
  \/ \E r \in Rides : \/ RequestRide(r) \/ Authorize(r) \/ Enqueue(r)
                      \/ RequestFails(r) \/ LockExpires(r)
  \/ \E p \in Processes : WorkerStep(p) \/ AssignFails(p) \/ Restart(p)
  \/ \E c \in Requests : CallStep(c)

Spec == Init /\ [][Next]_vars

\* The event loop runs the worker whenever it can run; clients and detailers
\* owe nothing.
FairSpec == Spec /\ \A p \in Processes : WF_vars(WorkerStep(p))

-----------------------------------------------------------------------------
(* Properties *)

\* The variables hold what the columns, the ledger and the process memory hold.
TypeOK ==
  /\ status \in [Rides -> RideStatuses \union {None}]
  /\ detailerOf \in [Rides -> Detailers \union {None}]
  /\ offer \in [Rides -> [Detailers -> OfferStatuses \union {None}]]
  /\ authorized \subseteq Rides
  /\ captures \in [Rides -> Nat]
  /\ client \in [Rides -> {"idle", "inserted", "authorized", "enqueued", "failed"}]
  /\ lock \subseteq Rides
  /\ worker \in [Processes -> Worker]
  /\ call \in [Requests -> Call]
  /\ failures \in 0..MaxFailures

\* With one server process a ride is open to one detailer at a time, whatever
\* expires, fails or restarts: assign closes an offer before it makes the next.
OneOpenOffer ==
  \A r \in Rides, d, e \in Detailers :
    offer[r][d] = "offered" /\ offer[r][e] = "offered" => d = e

\* No CAPTURE entry without an AUTHORIZATION entry: a ride reaches a detailer
\* only after request_ride has committed the authorization.
CapturedWasAuthorized == \A r \in Rides : captures[r] > 0 => r \in authorized

\* What a worker has in hand was authorized before it was queued.
WorkerSafe(p) ==
  LET w == worker[p]
  IN /\ \A i \in 1..Len(w.queue) : w.queue[i] \in authorized
     /\ w.pc \notin {"between", "reading"} => w.ride \in authorized
     /\ w.pc \in {"locked", "offered", "waiting", "declined", "timedOut"}
          => w.candidate \in Detailers

\* Whoever answers once had an offer, and offers are made by workers only.
AnswerSafe(c) ==
  LET m == call[c]
  IN m.pc \in {"rideRead", "offerRead", "committed", "signalled"} =>
       /\ m.ride \in Rides /\ m.detailer \in Detailers /\ m.process \in Processes
       /\ m.pc # "rideRead" => offer[m.ride][m.detailer] # None

\* A ride that no worker has had yet has no offer, a lone worker gets it once,
\* and the candidate it waits for is the only one with an open offer.
OneEngine(p) ==
  LET w == worker[p]
      Unoffered(r) == \A d \in Detailers : offer[r][d] = None
  IN /\ \A r \in Rides : client[r] # "enqueued" => Unoffered(r)
     /\ \A i \in 1..Len(w.queue) :
          /\ client[w.queue[i]] = "enqueued" /\ Unoffered(w.queue[i])
          /\ \A j \in 1..Len(w.queue) : w.queue[i] = w.queue[j] => i = j
     /\ w.pc \notin {"between", "reading"} =>
          /\ client[w.ride] = "enqueued"
          /\ \A i \in 1..Len(w.queue) : w.queue[i] # w.ride
          /\ \A d \in Detailers : offer[w.ride][d] = "offered"
               => w.pc \notin {"ranking", "locked"} /\ d = w.candidate
     /\ OneOpenOffer

\* The strengthening that makes the two properties above inductive.
RideInv ==
  /\ TypeOK
  /\ \A r \in Rides :
       /\ client[r] \in {"authorized", "enqueued"} => r \in authorized
       /\ captures[r] > 0 => r \in authorized
       /\ \A d \in Detailers : offer[r][d] # None => r \in authorized
  /\ \A p \in Processes : WorkerSafe(p)
  /\ \A c \in Requests : AnswerSafe(c)
  /\ (\A p, q \in Processes : p = q) => \A p \in Processes : OneEngine(p)

\* accept_ride's own terms, "not in SEARCHING state" and "No active offer": an
\* acceptance takes effect on a SEARCHING ride and an OFFERED offer.
AcceptsOpenOffer ==
  [][\A r \in Rides, d \in Detailers :
       offer[r][d] # "accepted" /\ offer'[r][d] = "accepted"
       => status[r] = "searching" /\ offer[r][d] = "offered"]_vars

InHand(r) ==
  \E p \in Processes : worker[p].ride = r \/ r \in { worker[p].queue[i] : i \in DOMAIN worker[p].queue }

\* A ride that reached a worker is decided: somebody accepted it, or it is
\* marked NO_DETAILER_FOUND, unless something failed on the way.
RideDecided == \A r \in Rides : InHand(r) ~> status[r] # "searching" \/ failures > 0

\* Every offer is answered or closed: no detailer keeps an open offer, and no
\* ride waits for one for ever.
OffersClose ==
  \A r \in Rides, d \in Detailers :
    offer[r][d] = "offered" ~> offer[r][d] # "offered" \/ failures > 0

=============================================================================
