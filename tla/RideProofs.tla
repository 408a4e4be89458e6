----------------------------- MODULE RideProofs -----------------------------
(***************************************************************************)
(* RideInv is an inductive invariant of RideDispatch for any number of     *)
(* rides, detailers, calls and server processes.  From it follow the types,*)
(* CapturedWasAuthorized, and, with one server process, OneOpenOffer.      *)
(*                                                                         *)
(* The first lemmas say what queues do; the next three say, for a worker,  *)
(* for a call and for a lone worker, which changes leave its part of       *)
(* RideInv true, so that each action below only has to show the part it    *)
(* really touches.                                                         *)
(***************************************************************************)
EXTENDS RideDispatch, TLAPS

Idle == {"between", "reading"}

Answering == {"rideRead", "offerRead", "committed", "signalled"}

\* What RideInv says of one ride: it is authorized before anything happens to it.
LedgerSafe(r) ==
  /\ client[r] \in {"authorized", "enqueued"} => r \in authorized
  /\ captures[r] > 0 => r \in authorized
  /\ \A d \in Detailers : offer[r][d] # None => r \in authorized

-----------------------------------------------------------------------------
(* Queues *)

\* XADD: the entries that were there keep their places, the new one is last.
LEMMA AppendFacts ==
  ASSUME NEW S, NEW q \in Seq(S), NEW x \in S
  PROVE  /\ Append(q, x) \in Seq(S)
         /\ Len(Append(q, x)) = Len(q) + 1
         /\ \A i \in 1..Len(q) : Append(q, x)[i] = q[i]
         /\ Append(q, x)[Len(q) + 1] = x
  OBVIOUS

\* XREAD: the first entry leaves the queue, the others move up.
LEMMA TailFacts ==
  ASSUME NEW S, NEW q \in Seq(S), q # <<>>
  PROVE  /\ Tail(q) \in Seq(S)
         /\ Len(q) \in Nat \ {0}
         /\ Len(Tail(q)) = Len(q) - 1
         /\ \A i \in 1..Len(Tail(q)) : Tail(q)[i] = q[i + 1]
         /\ Head(q) = q[1]
         /\ Head(q) \in S
  OBVIOUS

-----------------------------------------------------------------------------
(* Which changes leave a part of RideInv true *)

\* A worker that keeps or loses its queue and whose ride is authorized.
LEMMA WorkerKept ==
  ASSUME NEW p \in Processes, WorkerSafe(p),
         authorized \subseteq authorized',
         worker'[p].queue = worker[p].queue \/ worker'[p].queue = <<>>,
         worker'[p].pc \notin Idle => worker'[p].ride \in authorized',
         worker'[p].pc \in {"locked", "offered", "waiting", "declined", "timedOut"}
           => worker'[p].candidate \in Detailers
  PROVE  WorkerSafe(p)'
  BY DEF WorkerSafe, Idle

\* A call that goes on with the ride and detailer it has, while no offer vanishes.
LEMMA AnswerKept ==
  ASSUME NEW c \in Requests, AnswerSafe(c),
         \A r \in Rides, d \in Detailers : offer[r][d] # None => offer'[r][d] # None,
         call'[c].pc \in Answering =>
           /\ call[c].pc \in Answering
           /\ call'[c].ride = call[c].ride
           /\ call'[c].detailer = call[c].detailer
           /\ call'[c].process = call[c].process
           /\ call'[c].pc # "rideRead" => call[c].pc # "rideRead"
  PROVE  AnswerSafe(c)'
  BY DEF AnswerSafe, Answering

\* A lone worker that makes no offer, takes no ride and keeps its candidate
\* while one may be open, while no one else makes or reopens an offer.
LEMMA EngineKept ==
  ASSUME NEW p \in Processes, TypeOK, OneEngine(p),
         \A r \in Rides : client'[r] = "enqueued" <=> client[r] = "enqueued",
         \A r \in Rides, d \in Detailers :
           /\ offer'[r][d] = "offered" => offer[r][d] = "offered"
           /\ offer[r][d] = None => offer'[r][d] = None,
         worker'[p].queue = worker[p].queue \/ worker'[p].queue = <<>>,
         worker'[p].pc \notin Idle =>
           /\ worker[p].pc \notin Idle
           /\ worker'[p].ride = worker[p].ride
           /\ worker'[p].ride \in Rides
           /\ \/ worker[p].pc \in {"ranking", "locked"}
              \/ /\ worker'[p].pc \notin {"ranking", "locked"}
                 /\ worker'[p].candidate = worker[p].candidate
  PROVE  OneEngine(p)'
<1>1. worker[p].queue \in Seq(Rides)
  BY DEF TypeOK, Worker
<1>2. \A i \in 1..Len(worker'[p].queue) :
        worker'[p].queue = worker[p].queue /\ worker[p].queue[i] \in Rides
  BY <1>1
<1>3. \A r \in Rides : (\A d \in Detailers : offer[r][d] = None)
                       => (\A d \in Detailers : offer'[r][d] = None)
  OBVIOUS
<1>4. OneOpenOffer'
  BY DEF OneEngine, OneOpenOffer
<1>5. \A r \in Rides : client'[r] # "enqueued" => \A d \in Detailers : offer'[r][d] = None
  BY <1>3 DEF OneEngine
<1>6. \A i \in 1..Len(worker'[p].queue) :
        /\ client'[worker'[p].queue[i]] = "enqueued"
        /\ \A d \in Detailers : offer'[worker'[p].queue[i]][d] = None
        /\ \A j \in 1..Len(worker'[p].queue) :
             worker'[p].queue[i] = worker'[p].queue[j] => i = j
  BY <1>2, <1>3 DEF OneEngine
<1>7. worker'[p].pc \notin Idle =>
        /\ client'[worker'[p].ride] = "enqueued"
        /\ \A i \in 1..Len(worker'[p].queue) : worker'[p].queue[i] # worker'[p].ride
        /\ \A d \in Detailers : offer'[worker'[p].ride][d] = "offered"
             => worker'[p].pc \notin {"ranking", "locked"} /\ d = worker'[p].candidate
  BY <1>2 DEF OneEngine, Idle
<1>8. QED
  BY <1>4, <1>5, <1>6, <1>7 DEF OneEngine, Idle

-----------------------------------------------------------------------------
(* The parts of RideInv, taken apart and put together again *)

\* RideInv in named parts.
LEMMA Parts ==
  /\ RideInv <=>
       /\ TypeOK
       /\ \A r \in Rides : LedgerSafe(r)
       /\ \A p \in Processes : WorkerSafe(p)
       /\ \A c \in Requests : AnswerSafe(c)
       /\ (\A p, q \in Processes : p = q) => \A p \in Processes : OneEngine(p)
  /\ RideInv' <=>
       /\ TypeOK'
       /\ \A r \in Rides : LedgerSafe(r)'
       /\ \A p \in Processes : WorkerSafe(p)'
       /\ \A c \in Requests : AnswerSafe(c)'
       /\ (\A p, q \in Processes : p = q) => \A p \in Processes : OneEngine(p)'
  BY DEF RideInv, LedgerSafe

\* Before the first request there is nothing to be wrong.
LEMMA InitRideInv == Init => RideInv
<1> SUFFICES ASSUME Init PROVE RideInv
  OBVIOUS
<1>1. Started \in Worker /\ NoCall \in Call
  BY DEF Started, Worker, NoCall, Call
<1>2. TypeOK
  BY <1>1, RideAssumption DEF Init, TypeOK
<1>3. \A r \in Rides : LedgerSafe(r)
  BY DEF Init, LedgerSafe
<1>4. \A p \in Processes : WorkerSafe(p)
  BY DEF Init, Started, WorkerSafe
<1>5. \A c \in Requests : AnswerSafe(c)
  BY DEF Init, NoCall, AnswerSafe
<1>6. \A p \in Processes : OneEngine(p)
  <2>1. OneOpenOffer
    BY RideAssumption DEF Init, OneOpenOffer, OfferStatuses
  <2>2. QED
    BY <2>1 DEF Init, Started, OneEngine
<1>7. QED
  BY <1>2, <1>3, <1>4, <1>5, <1>6, Parts

-----------------------------------------------------------------------------
(* POST /rides/request *)

\* Only Enqueue reaches the workers, and it comes after Authorize.
LEMMA RequestStep ==
  ASSUME RideInv, NEW r \in Rides,
         RequestRide(r) \/ Authorize(r) \/ RequestFails(r) \/ LockExpires(r)
  PROVE  RideInv'
<1>0. /\ TypeOK
      /\ \A s \in Rides : LedgerSafe(s)
      /\ \A p \in Processes : WorkerSafe(p)
      /\ \A c \in Requests : AnswerSafe(c)
      /\ (\A p, q \in Processes : p = q) => \A p \in Processes : OneEngine(p)
  BY Parts
<1>1. TypeOK'
  <2>1. CASE RequestRide(r)
    BY <1>0, <2>1 DEF TypeOK, RequestRide, RideStatuses
  <2>2. CASE Authorize(r)
    BY <1>0, <2>2 DEF TypeOK, Authorize
  <2>3. CASE RequestFails(r)
    BY <1>0, <2>3, RideAssumption DEF TypeOK, RequestFails
  <2>4. CASE LockExpires(r)
    BY <1>0, <2>4 DEF TypeOK, LockExpires
  <2>5. QED
    BY <2>1, <2>2, <2>3, <2>4
<1>2. /\ UNCHANGED <<offer, captures, worker, call>>
      /\ authorized \subseteq authorized'
      /\ \A s \in Rides : client'[s] = "enqueued" <=> client[s] = "enqueued"
  BY <1>0 DEF TypeOK, RequestRide, Authorize, RequestFails, LockExpires
<1>3. ASSUME NEW s \in Rides PROVE LedgerSafe(s)'
  <2>1. LedgerSafe(s)
    BY <1>0
  <2>2. client'[s] \in {"authorized", "enqueued"} => s \in authorized'
    BY <1>0, <2>1 DEF LedgerSafe, TypeOK, RequestRide, Authorize, RequestFails, LockExpires
  <2>3. QED
    BY <1>2, <2>1, <2>2 DEF LedgerSafe
<1>4. ASSUME NEW p \in Processes PROVE WorkerSafe(p)'
  BY <1>0, <1>2, WorkerKept DEF WorkerSafe, Idle
<1>5. ASSUME NEW c \in Requests PROVE AnswerSafe(c)'
  BY <1>0, <1>2, AnswerKept
<1>6. ASSUME \A p, q \in Processes : p = q, NEW p \in Processes
      PROVE  OneEngine(p)'
  <2>1. worker[p].pc \notin Idle => worker[p].ride \in Rides
    BY <1>0 DEF WorkerSafe, TypeOK, Idle
  <2>2. worker[p].pc \in {"ranking", "locked"} \/ worker'[p].pc \notin {"ranking", "locked"}
    BY <1>2
  <2>3. QED
    BY <1>0, <1>2, <1>6, <2>1, <2>2, EngineKept
<1>7. QED
  BY Parts, <1>1, <1>3, <1>4, <1>5, <1>6

\* The ride that is queued is authorized, has no offer, and is nowhere yet.
LEMMA EnqueueStep ==
  ASSUME RideInv, NEW r \in Rides, Enqueue(r)
  PROVE  RideInv'
<1>0. /\ TypeOK
      /\ \A s \in Rides : LedgerSafe(s)
      /\ \A p \in Processes : WorkerSafe(p)
      /\ \A c \in Requests : AnswerSafe(c)
      /\ (\A p, q \in Processes : p = q) => \A p \in Processes : OneEngine(p)
  BY Parts
<1>1. /\ client[r] = "authorized" /\ r \in authorized
      /\ client' = [client EXCEPT ![r] = "enqueued"]
      /\ worker' = [p \in Processes |-> Delivered(worker[p], r)]
      /\ UNCHANGED <<status, detailerOf, offer, authorized, captures, lock, call, failures>>
  BY <1>0 DEF Enqueue, LedgerSafe
<1>2. ASSUME NEW p \in Processes
      PROVE  /\ worker'[p] \in Worker
             /\ worker'[p].pc = worker[p].pc
             /\ worker'[p].ride = worker[p].ride
             /\ worker'[p].candidate = worker[p].candidate
             /\ worker[p].queue \in Seq(Rides)
             /\ \/ worker'[p].queue = worker[p].queue
                \/ worker'[p].queue = Append(worker[p].queue, r)
  <2>1. worker[p] \in Worker /\ worker'[p] = Delivered(worker[p], r)
    BY <1>0, <1>1 DEF TypeOK
  <2>2. worker[p].queue \in Seq(Rides) /\ Append(worker[p].queue, r) \in Seq(Rides)
    BY <2>1, AppendFacts DEF Worker
  <2>3. CASE worker'[p] = worker[p]
    BY <2>1, <2>2, <2>3
  <2>4. CASE worker'[p] = [worker[p] EXCEPT !.queue = Append(worker[p].queue, r)]
    BY <2>1, <2>2, <2>4 DEF Worker
  <2>5. QED
    BY <2>1, <2>3, <2>4 DEF Delivered
<1>3. TypeOK'
  <2>1. worker' \in [Processes -> Worker]
    BY <1>1, <1>2
  <2>2. client' \in [Rides -> {"idle", "inserted", "authorized", "enqueued", "failed"}]
    BY <1>0, <1>1 DEF TypeOK
  <2>3. QED
    BY <1>0, <1>1, <2>1, <2>2 DEF TypeOK
<1>4. ASSUME NEW s \in Rides PROVE LedgerSafe(s)'
  BY <1>0, <1>1 DEF LedgerSafe, TypeOK
<1>5. ASSUME NEW p \in Processes PROVE WorkerSafe(p)'
  <2>1. \A i \in 1..Len(worker'[p].queue) : worker'[p].queue[i] \in authorized
    <3>1. CASE worker'[p].queue = worker[p].queue
      BY <1>0, <1>1, <3>1 DEF WorkerSafe
    <3>2. CASE worker'[p].queue = Append(worker[p].queue, r)
      <4>1. /\ Len(worker'[p].queue) = Len(worker[p].queue) + 1
            /\ \A i \in 1..Len(worker[p].queue) : worker'[p].queue[i] = worker[p].queue[i]
            /\ worker'[p].queue[Len(worker[p].queue) + 1] = r
            /\ Len(worker[p].queue) \in Nat
        BY <1>2, <3>2, AppendFacts
      <4>2. \A i \in 1..Len(worker[p].queue) : worker[p].queue[i] \in authorized
        BY <1>0 DEF WorkerSafe
      <4>3. QED
        BY <1>1, <4>1, <4>2
    <3>3. QED
      BY <1>2, <3>1, <3>2
  <2>2. QED
    BY <1>0, <1>1, <1>2, <2>1 DEF WorkerSafe
<1>6. ASSUME NEW c \in Requests PROVE AnswerSafe(c)'
  BY <1>0, <1>1, AnswerKept
<1>7. ASSUME \A p, q \in Processes : p = q, NEW p \in Processes
      PROVE  OneEngine(p)'
  <2>1. OneEngine(p) /\ \A d \in Detailers : offer[r][d] = None
    BY <1>0, <1>1, <1>7 DEF OneEngine
  <2>2. /\ client'[r] = "enqueued"
        /\ \A s \in Rides : s # r => client'[s] = client[s]
    BY <1>0, <1>1 DEF TypeOK
  <2>3. \A i \in 1..Len(worker[p].queue) :
          worker[p].queue[i] \in Rides /\ worker[p].queue[i] # r
    BY <1>1, <1>2, <2>1 DEF OneEngine
  <2>4. worker[p].pc \notin Idle => worker[p].ride \in Rides \ {r}
    BY <1>0, <1>1, <2>1 DEF OneEngine, WorkerSafe, TypeOK, Idle
  <2>5. \A i \in 1..Len(worker'[p].queue) :
          \/ worker'[p].queue[i] = r /\ i = Len(worker[p].queue) + 1
          \/ i \in 1..Len(worker[p].queue) /\ worker'[p].queue[i] = worker[p].queue[i]
    <3>1. CASE worker'[p].queue = worker[p].queue
      BY <3>1
    <3>2. CASE worker'[p].queue = Append(worker[p].queue, r)
      <4>1. /\ Len(worker'[p].queue) = Len(worker[p].queue) + 1
            /\ \A i \in 1..Len(worker[p].queue) : worker'[p].queue[i] = worker[p].queue[i]
            /\ worker'[p].queue[Len(worker[p].queue) + 1] = r
        BY <1>2, <3>2, AppendFacts
      <4>2. Len(worker[p].queue) \in Nat
        BY <1>2
      <4>3. QED
        BY <4>1, <4>2
    <3>3. QED
      BY <1>2, <3>1, <3>2
  <2>6. \A i \in 1..Len(worker'[p].queue) :
          /\ client'[worker'[p].queue[i]] = "enqueued"
          /\ \A d \in Detailers : offer'[worker'[p].queue[i]][d] = None
          /\ \A j \in 1..Len(worker'[p].queue) :
               worker'[p].queue[i] = worker'[p].queue[j] => i = j
    BY <1>1, <2>1, <2>2, <2>3, <2>5 DEF OneEngine
  <2>7. worker'[p].pc \notin Idle =>
          /\ client'[worker'[p].ride] = "enqueued"
          /\ \A i \in 1..Len(worker'[p].queue) : worker'[p].queue[i] # worker'[p].ride
          /\ \A d \in Detailers : offer'[worker'[p].ride][d] = "offered"
               => worker'[p].pc \notin {"ranking", "locked"} /\ d = worker'[p].candidate
    BY <1>1, <1>2, <2>1, <2>2, <2>4, <2>5 DEF OneEngine, Idle
  <2>8. \A s \in Rides : client'[s] # "enqueued" => \A d \in Detailers : offer'[s][d] = None
    BY <1>1, <2>1, <2>2 DEF OneEngine
  <2>9. OneOpenOffer'
    BY <1>1, <2>1 DEF OneEngine, OneOpenOffer
  <2>10. QED
    BY <2>6, <2>7, <2>8, <2>9 DEF OneEngine, Idle
<1>8. QED
  BY Parts, <1>3, <1>4, <1>5, <1>6, <1>7

-----------------------------------------------------------------------------
(* assignment_worker and assign *)

\* Whoever has a ride in hand has one of the rides, and keeps it authorized.
LEMMA InHandFacts ==
  ASSUME RideInv, NEW p \in Processes
  PROVE  /\ worker[p] \in Worker
         /\ worker[p].queue \in Seq(Rides)
         /\ worker[p].pc \notin Idle => worker[p].ride \in Rides \intersect authorized
         /\ worker[p].pc \in {"locked", "offered", "waiting", "declined", "timedOut"}
              => worker[p].candidate \in Detailers
  BY DEF RideInv, TypeOK, Worker, WorkerSafe, Idle

\* A step of one worker that takes no ride and touches no offer.
LEMMA MoveStep ==
  ASSUME RideInv, NEW p \in Processes, TypeOK',
         UNCHANGED <<offer, authorized, captures, client>>,
         worker' = [worker EXCEPT ![p] = worker'[p]],
         \A c \in Requests : call'[c] = call[c] \/ call'[c].pc \notin Answering,
         worker'[p].queue = worker[p].queue \/ worker'[p].queue = <<>>,
         worker'[p].pc \notin Idle =>
           /\ worker[p].pc \notin Idle
           /\ worker'[p].ride = worker[p].ride
           /\ \/ worker[p].pc \in {"ranking", "locked"}
              \/ /\ worker'[p].pc \notin {"ranking", "locked"}
                 /\ worker'[p].candidate = worker[p].candidate,
         worker'[p].pc \in {"locked", "offered", "waiting", "declined", "timedOut"}
           => worker'[p].candidate \in Detailers
  PROVE  RideInv'
<1>0. \A q \in Processes : q # p => worker'[q] = worker[q]
  BY DEF RideInv, TypeOK
<1>1. ASSUME NEW r \in Rides PROVE LedgerSafe(r)'
  BY Parts DEF LedgerSafe
<1>2. ASSUME NEW q \in Processes PROVE WorkerSafe(q)'
  <2>1. CASE q = p
    <3>1. WorkerSafe(p) /\ (worker'[p].pc \notin Idle => worker'[p].ride \in authorized')
      BY Parts, InHandFacts
    <3>2. QED
      BY <2>1, <3>1, WorkerKept
  <2>2. CASE q # p
    BY <1>0, <2>2, Parts DEF WorkerSafe
  <2>3. QED
    BY <2>1, <2>2
<1>3. ASSUME NEW c \in Requests PROVE AnswerSafe(c)'
  BY Parts, AnswerKept
<1>4. ASSUME \A s, q \in Processes : s = q, NEW q \in Processes
      PROVE  OneEngine(q)'
  <2>1. q = p /\ OneEngine(p) /\ TypeOK
    BY <1>4, Parts
  <2>2. QED
    BY <2>1, InHandFacts, EngineKept
<1>5. QED
  BY <1>1, <1>2, <1>3, <1>4, Parts

\* The worker's steps that only move it along.
LEMMA WaitingStep ==
  ASSUME RideInv, NEW p \in Processes,
         \/ TryCandidate(p) \/ AwaitAnswer(p) \/ TakeAnswer(p)
         \/ OfferTimesOut(p) \/ MarkNoDetailer(p) \/ AssignFails(p)
  PROVE  RideInv'
<1>0. /\ TypeOK /\ worker[p] \in Worker
      /\ \A q \in Processes : worker[q] \in Worker
  BY DEF RideInv, TypeOK
<1>1. /\ NextMessage(worker[p]) \in Worker
      /\ NextMessage(worker[p]).pc = "reading"
      /\ NextMessage(worker[p]).queue = worker[p].queue
  BY <1>0 DEF NextMessage, Worker
<1>2. CASE TryCandidate(p)
  <2>1. PICK d \in Detailers :
          /\ worker[p].pc = "ranking"
          /\ UNCHANGED <<status, detailerOf, offer, authorized, captures, client, call, failures>>
          /\ lock' \subseteq lock \union {worker[p].ride}
          /\ \/ worker' = [worker EXCEPT ![p].tried = @ \union {d}]
             \/ worker' = [worker EXCEPT ![p] =
                  [worker[p] EXCEPT !.pc = "locked", !.candidate = d, !.tried = @ \union {d}]]
    BY <1>2 DEF TryCandidate
  <2>2. /\ worker' = [worker EXCEPT ![p] = worker'[p]]
        /\ \/ worker'[p] = [worker[p] EXCEPT !.tried = worker[p].tried \union {d}]
           \/ worker'[p] = [worker[p] EXCEPT !.pc = "locked", !.candidate = d,
                                              !.tried = worker[p].tried \union {d}]
    BY <1>0, <2>1 DEF TypeOK
  <2>3. /\ worker'[p] \in Worker
        /\ worker'[p].queue = worker[p].queue
        /\ worker'[p].ride = worker[p].ride
        /\ \/ worker'[p].pc = "ranking"
           \/ worker'[p].pc = "locked" /\ worker'[p].candidate \in Detailers
    <3>1. worker[p].tried \union {d} \in SUBSET Detailers
      BY <1>0 DEF Worker
    <3>2. CASE worker'[p] = [worker[p] EXCEPT !.tried = worker[p].tried \union {d}]
      BY <1>0, <2>1, <3>1, <3>2 DEF Worker
    <3>3. CASE worker'[p] = [worker[p] EXCEPT !.pc = "locked", !.candidate = d,
                                              !.tried = worker[p].tried \union {d}]
      BY <1>0, <2>1, <3>1, <3>3 DEF Worker
    <3>4. QED
      BY <2>2, <3>2, <3>3
  <2>4. TypeOK'
    BY <1>0, <2>1, <2>2, <2>3, InHandFacts DEF TypeOK, Idle
  <2>5. QED
    BY <2>1, <2>2, <2>3, <2>4, MoveStep DEF Idle
<1>3. CASE AwaitAnswer(p)
  <2>1. /\ worker[p].pc = "offered"
        /\ worker' = [worker EXCEPT ![p] = worker'[p]]
        /\ worker'[p] = [worker[p] EXCEPT !.pc = "waiting", !.event = "registered"]
        /\ UNCHANGED <<status, detailerOf, offer, authorized, captures, client, lock, call, failures>>
    BY <1>0, <1>3 DEF AwaitAnswer, TypeOK
  <2>2. /\ worker'[p] \in Worker
        /\ worker'[p].pc = "waiting"
        /\ worker'[p].queue = worker[p].queue
        /\ worker'[p].ride = worker[p].ride
        /\ worker'[p].candidate = worker[p].candidate
    BY <1>0, <2>1 DEF Worker
  <2>3. TypeOK'
    BY <1>0, <2>1, <2>2 DEF TypeOK
  <2>4. QED
    BY <2>1, <2>2, <2>3, InHandFacts, MoveStep DEF Idle
<1>4. CASE TakeAnswer(p)
  <2>1. /\ worker[p].pc = "waiting"
        /\ worker' = [worker EXCEPT ![p] = worker'[p]]
        /\ \/ worker'[p] = NextMessage(worker[p])
           \/ worker'[p] = [worker[p] EXCEPT !.pc = "declined"]
        /\ UNCHANGED <<status, detailerOf, offer, authorized, captures, client, call, failures>>
        /\ lock' \subseteq lock
    BY <1>0, <1>4 DEF TakeAnswer, TypeOK
  <2>2. /\ worker'[p] \in Worker
        /\ worker'[p].queue = worker[p].queue
        /\ \/ worker'[p].pc = "reading"
           \/ /\ worker'[p].pc = "declined"
              /\ worker'[p].ride = worker[p].ride
              /\ worker'[p].candidate = worker[p].candidate
    BY <1>0, <1>1, <2>1 DEF Worker
  <2>3. TypeOK'
    BY <1>0, <2>1, <2>2 DEF TypeOK
  <2>4. QED
    BY <2>1, <2>2, <2>3, InHandFacts, MoveStep DEF Idle
<1>5. CASE OfferTimesOut(p)
  <2>1. /\ worker[p].pc = "waiting"
        /\ worker' = [worker EXCEPT ![p] = worker'[p]]
        /\ worker'[p] = [worker[p] EXCEPT !.pc = "timedOut"]
        /\ UNCHANGED <<status, detailerOf, offer, authorized, captures, client, lock, call, failures>>
    BY <1>0, <1>5 DEF OfferTimesOut, TypeOK
  <2>2. /\ worker'[p] \in Worker
        /\ worker'[p].pc = "timedOut"
        /\ worker'[p].queue = worker[p].queue
        /\ worker'[p].ride = worker[p].ride
        /\ worker'[p].candidate = worker[p].candidate
    BY <1>0, <2>1 DEF Worker
  <2>3. TypeOK'
    BY <1>0, <2>1, <2>2 DEF TypeOK
  <2>4. QED
    BY <2>1, <2>2, <2>3, InHandFacts, MoveStep DEF Idle
<1>6. CASE MarkNoDetailer(p)
  <2>1. /\ worker' = [worker EXCEPT ![p] = worker'[p]]
        /\ worker'[p] = NextMessage(worker[p])
        /\ status' = [status EXCEPT ![worker[p].ride] = "no_detailer_found"]
        /\ UNCHANGED <<detailerOf, offer, authorized, captures, client, lock, call, failures>>
    BY <1>0, <1>6 DEF MarkNoDetailer, TypeOK
  <2>2. TypeOK'
    BY <1>0, <1>1, <2>1 DEF TypeOK, RideStatuses
  <2>3. QED
    BY <1>1, <2>1, <2>2, MoveStep DEF Idle
<1>7. CASE AssignFails(p)
  <2>1. /\ worker' = [worker EXCEPT ![p] = worker'[p]]
        /\ worker'[p] = NextMessage(worker[p])
        /\ failures < MaxFailures /\ failures' = failures + 1
        /\ lock' \subseteq lock
        /\ UNCHANGED <<status, detailerOf, offer, authorized, captures, client, call>>
    BY <1>0, <1>7 DEF AssignFails, TypeOK
  <2>2. failures' \in 0..MaxFailures
    BY <1>0, <2>1, RideAssumption DEF TypeOK
  <2>3. TypeOK'
    BY <1>0, <1>1, <2>1, <2>2 DEF TypeOK
  <2>4. QED
    BY <1>1, <2>1, <2>3, MoveStep DEF Idle
<1>8. QED
  BY <1>2, <1>3, <1>4, <1>5, <1>6, <1>7

\* A restarted process has nothing in hand, and its calls answer no more.
LEMMA RestartStep ==
  ASSUME RideInv, NEW p \in Processes, Restart(p)
  PROVE  RideInv'
<1>1. Started \in Worker
  BY DEF Started, Worker
<1>2. TypeOK
  BY DEF RideInv
<1>3. ASSUME NEW c \in Requests
      PROVE  /\ call'[c] \in Call
             /\ call'[c] = call[c] \/ call'[c].pc \notin Answering
  <2>1. /\ call[c] \in Call
        /\ \/ call'[c] = call[c]
           \/ call'[c] = [call[c] EXCEPT !.pc = "failed"]
    BY <1>2 DEF Restart, TypeOK
  <2>2. [call[c] EXCEPT !.pc = "failed"] \in Call
    BY <2>1 DEF Call
  <2>3. [call[c] EXCEPT !.pc = "failed"].pc \notin Answering
    BY <2>1 DEF Call, Answering
  <2>4. QED
    BY <2>1, <2>2, <2>3
<1>4. /\ worker'[p] = Started
      /\ worker' = [worker EXCEPT ![p] = worker'[p]]
  BY <1>2 DEF Restart, TypeOK
<1>5. TypeOK'
  <2>1. call' \in [Requests -> Call]
    BY <1>3 DEF Restart
  <2>2. worker' \in [Processes -> Worker]
    BY <1>1, <1>2, <1>4 DEF TypeOK
  <2>3. failures' \in 0..MaxFailures
    BY <1>2, RideAssumption DEF Restart, TypeOK
  <2>4. QED
    BY <1>2, <2>1, <2>2, <2>3 DEF Restart, TypeOK
<1>6. worker'[p].pc = "between" /\ worker'[p].queue = <<>>
  BY <1>4 DEF Started
<1>7. UNCHANGED <<offer, authorized, captures, client>>
  BY DEF Restart
<1>8. QED
  BY <1>3, <1>4, <1>5, <1>6, <1>7, MoveStep DEF Idle

\* The ride that is read leaves the queue, and with one worker it is read once.
LEMMA ReadStreamStep ==
  ASSUME RideInv, NEW p \in Processes, ReadStream(p)
  PROVE  RideInv'
<1>0. TypeOK /\ worker[p] \in Worker
  BY DEF RideInv, TypeOK
<1>1. UNCHANGED <<status, detailerOf, offer, authorized, captures, client, lock, call, failures>>
  BY DEF ReadStream
<1>2. CASE /\ worker[p].pc = "reading" /\ worker[p].queue # <<>>
           /\ worker' = [worker EXCEPT ![p] =
                [worker[p] EXCEPT !.pc = "ranking", !.ride = Head(worker[p].queue),
                                  !.queue = Tail(worker[p].queue), !.fresh = FALSE]]
  <2>1. /\ worker[p].queue \in Seq(Rides)
        /\ Len(worker[p].queue) \in Nat \ {0}
        /\ Tail(worker[p].queue) \in Seq(Rides)
        /\ Len(Tail(worker[p].queue)) = Len(worker[p].queue) - 1
        /\ \A i \in 1..Len(Tail(worker[p].queue)) :
             Tail(worker[p].queue)[i] = worker[p].queue[i + 1]
        /\ Head(worker[p].queue) = worker[p].queue[1]
        /\ Head(worker[p].queue) \in Rides
    <3>1. worker[p].queue \in Seq(Rides) /\ worker[p].queue # <<>>
      BY <1>0, <1>2 DEF Worker
    <3>2. QED
      BY <3>1, TailFacts
  <2>2. /\ worker'[p] \in Worker
        /\ worker'[p].pc = "ranking"
        /\ worker'[p].ride = Head(worker[p].queue)
        /\ worker'[p].queue = Tail(worker[p].queue)
    <3>1. worker'[p] = [worker[p] EXCEPT !.pc = "ranking", !.ride = Head(worker[p].queue),
                                  !.queue = Tail(worker[p].queue), !.fresh = FALSE]
      BY <1>0, <1>2 DEF TypeOK
    <3>2. QED
      BY <1>0, <2>1, <3>1 DEF Worker
  <2>3. \A q \in Processes : q # p => worker'[q] = worker[q]
    BY <1>0, <1>2 DEF TypeOK
  <2>4. TypeOK'
    <3>1. worker' \in [Processes -> Worker]
      BY <1>0, <1>2, <2>2, <2>3 DEF TypeOK
    <3>2. QED
      BY <1>0, <1>1, <3>1 DEF TypeOK
  <2>5. \A i \in 1..Len(worker'[p].queue) :
          /\ i + 1 \in 1..Len(worker[p].queue)
          /\ worker'[p].queue[i] = worker[p].queue[i + 1]
    BY <2>1, <2>2
  <2>6. 1 \in 1..Len(worker[p].queue)
    BY <2>1
  <2>7. ASSUME NEW q \in Processes PROVE WorkerSafe(q)'
    <3>1. WorkerSafe(q)
      BY Parts
    <3>2. CASE q = p
      BY <1>1, <2>1, <2>2, <2>5, <2>6, <3>1, <3>2 DEF WorkerSafe
    <3>3. CASE q # p
      BY <1>1, <2>3, <3>1, <3>3 DEF WorkerSafe
    <3>4. QED
      BY <3>2, <3>3
  <2>8. ASSUME \A s, q \in Processes : s = q, NEW q \in Processes
        PROVE  OneEngine(q)'
    <3>1. q = p /\ OneEngine(p)
      BY <2>8, Parts
    <3>2. /\ client[worker'[p].ride] = "enqueued"
          /\ \A d \in Detailers : offer[worker'[p].ride][d] = None
      BY <2>1, <2>2, <2>6, <3>1 DEF OneEngine
    <3>3. \A i \in 1..Len(worker'[p].queue) : worker'[p].queue[i] # worker'[p].ride
      BY <2>1, <2>2, <2>5, <2>6, <3>1 DEF OneEngine
    <3>4. \A i \in 1..Len(worker'[p].queue) :
            /\ client[worker'[p].queue[i]] = "enqueued"
            /\ \A d \in Detailers : offer[worker'[p].queue[i]][d] = None
      BY <2>5, <3>1 DEF OneEngine
    <3>5. ASSUME NEW i \in 1..Len(worker'[p].queue), NEW j \in 1..Len(worker'[p].queue),
                 worker'[p].queue[i] = worker'[p].queue[j]
          PROVE  i = j
      <4>1. worker[p].queue[i + 1] = worker[p].queue[j + 1]
        BY <2>5, <3>5
      <4>2. i + 1 = j + 1
        BY <2>5, <3>1, <4>1 DEF OneEngine
      <4>3. QED
        BY <4>2
    <3>6. OneOpenOffer' /\ \A r \in Rides : client[r] # "enqueued"
                                => \A d \in Detailers : offer[r][d] = None
      BY <1>1, <3>1 DEF OneEngine, OneOpenOffer
    <3>7. worker'[p].ride \in Rides /\ None # "offered"
      BY <2>1, <2>2, RideAssumption DEF OfferStatuses
    <3>8. QED
      BY <1>1, <2>2, <3>1, <3>2, <3>3, <3>4, <3>5, <3>6, <3>7 DEF OneEngine
  <2>9. \A r \in Rides : LedgerSafe(r)'
    BY <1>1, Parts DEF LedgerSafe
  <2>10. \A c \in Requests : AnswerSafe(c)'
    BY <1>1, Parts, AnswerKept
  <2>11. QED
    BY <2>4, <2>7, <2>8, <2>9, <2>10, Parts
<1>3. CASE worker' \in { [worker EXCEPT ![p].pc = "between"], [worker EXCEPT ![p].pc = "reading"] }
  <2>1. /\ worker' = [worker EXCEPT ![p] = worker'[p]]
        /\ worker'[p] \in { [worker[p] EXCEPT !.pc = "between"],
                            [worker[p] EXCEPT !.pc = "reading"] }
    BY <1>0, <1>3 DEF TypeOK
  <2>2. /\ worker'[p] \in Worker
        /\ worker'[p].pc \in Idle
        /\ worker'[p].queue = worker[p].queue
    BY <1>0, <2>1 DEF Worker, Idle
  <2>3. TypeOK'
    BY <1>0, <1>1, <2>1, <2>2 DEF TypeOK
  <2>4. QED
    BY <1>1, <2>1, <2>2, <2>3, MoveStep DEF Idle
<1>4. QED
  BY <1>2, <1>3 DEF ReadStream

\* The new offer is the ride's only open one, because its worker closed the last.
LEMMA InsertOfferStep ==
  ASSUME RideInv, NEW p \in Processes, InsertOffer(p)
  PROVE  RideInv'
<1>0. TypeOK /\ worker[p] \in Worker /\ worker[p].pc = "locked"
  BY DEF RideInv, TypeOK, InsertOffer
<1>1. UNCHANGED <<status, detailerOf, authorized, captures, client, lock, call, failures>>
  BY DEF InsertOffer
<1>2. /\ worker[p].ride \in Rides /\ worker[p].ride \in authorized
      /\ worker[p].candidate \in Detailers
  BY <1>0, InHandFacts DEF Idle
<1>3. CASE /\ offer' = [offer EXCEPT ![worker[p].ride][worker[p].candidate] = "offered"]
           /\ worker' = [worker EXCEPT ![p].pc = "offered"]
  <2>1. /\ worker'[p] \in Worker
        /\ worker'[p].pc = "offered"
        /\ worker'[p].ride = worker[p].ride
        /\ worker'[p].candidate = worker[p].candidate
        /\ worker'[p].queue = worker[p].queue
    <3>1. worker'[p] = [worker[p] EXCEPT !.pc = "offered"]
      BY <1>0, <1>3 DEF TypeOK
    <3>2. QED
      BY <1>0, <3>1 DEF Worker
  <2>2. \A q \in Processes : q # p => worker'[q] = worker[q]
    BY <1>0, <1>3 DEF TypeOK
  <2>3. /\ offer'[worker[p].ride][worker[p].candidate] = "offered"
        /\ \A r \in Rides, d \in Detailers :
             r # worker[p].ride \/ d # worker[p].candidate => offer'[r][d] = offer[r][d]
    BY <1>0, <1>2, <1>3 DEF TypeOK
  <2>4. TypeOK'
    <3>1. offer' \in [Rides -> [Detailers -> OfferStatuses \union {None}]]
      BY <1>0, <1>2, <1>3 DEF TypeOK, OfferStatuses
    <3>2. worker' \in [Processes -> Worker]
      BY <1>0, <1>3, <2>1, <2>2 DEF TypeOK
    <3>3. QED
      BY <1>0, <1>1, <3>1, <3>2 DEF TypeOK
  <2>5. \A r \in Rides : LedgerSafe(r)'
    BY <1>1, <1>2, <2>3, Parts DEF LedgerSafe
  <2>6. ASSUME NEW q \in Processes PROVE WorkerSafe(q)'
    BY <1>0, <1>1, <1>2, <2>1, <2>2, Parts DEF WorkerSafe
  <2>7. ASSUME NEW c \in Requests PROVE AnswerSafe(c)'
    <3>1. \A r \in Rides, d \in Detailers : offer[r][d] # None => offer'[r][d] # None
      BY <2>3, RideAssumption DEF OfferStatuses
    <3>2. QED
      BY <1>1, <3>1, Parts, AnswerKept
  <2>8. ASSUME \A s, q \in Processes : s = q, NEW q \in Processes
        PROVE  OneEngine(q)'
    <3>1. q = p /\ OneEngine(p)
      BY <2>8, Parts
    <3>2. /\ client[worker[p].ride] = "enqueued"
          /\ \A i \in 1..Len(worker[p].queue) : worker[p].queue[i] # worker[p].ride
          /\ \A d \in Detailers : offer[worker[p].ride][d] # "offered"
      BY <1>0, <3>1 DEF OneEngine
    <3>3. \A d \in Detailers : offer'[worker[p].ride][d] = "offered" => d = worker[p].candidate
      BY <1>2, <2>3, <3>2
    <3>4. OneOpenOffer'
      BY <2>3, <3>1, <3>3 DEF OneEngine, OneOpenOffer
    <3>5. \A r \in Rides : r # worker[p].ride => \A d \in Detailers : offer'[r][d] = offer[r][d]
      BY <2>3
    <3>6. \A r \in Rides : client'[r] # "enqueued" => \A d \in Detailers : offer'[r][d] = None
      BY <1>1, <3>1, <3>2, <3>5 DEF OneEngine
    <3>7. \A i \in 1..Len(worker[p].queue) :
            worker[p].queue[i] \in Rides /\ worker[p].queue[i] # worker[p].ride
      BY <1>0, <3>2 DEF Worker
    <3>8. \A i \in 1..Len(worker[p].queue) :
            /\ client'[worker[p].queue[i]] = "enqueued"
            /\ \A d \in Detailers : offer'[worker[p].queue[i]][d] = None
            /\ \A j \in 1..Len(worker[p].queue) : worker[p].queue[i] = worker[p].queue[j] => i = j
      BY <1>1, <3>1, <3>5, <3>7 DEF OneEngine
    <3>9. QED
      BY <1>1, <2>1, <3>1, <3>2, <3>3, <3>4, <3>6, <3>8 DEF OneEngine
  <2>9. QED
    BY <2>4, <2>5, <2>6, <2>7, <2>8, Parts
<1>4. CASE worker' = [worker EXCEPT ![p] = NextMessage(worker[p])] /\ UNCHANGED offer
  <2>1. worker' = [worker EXCEPT ![p] = worker'[p]] /\ worker'[p] = NextMessage(worker[p])
    BY <1>0, <1>4 DEF TypeOK
  <2>2. /\ worker'[p] \in Worker
        /\ worker'[p].pc = "reading"
        /\ worker'[p].queue = worker[p].queue
    BY <1>0, <2>1 DEF NextMessage, Worker
  <2>3. TypeOK'
    BY <1>0, <1>1, <1>4, <2>1, <2>2 DEF TypeOK
  <2>4. QED
    BY <1>1, <1>4, <2>1, <2>2, <2>3, MoveStep DEF Idle
<1>5. QED
  BY <1>3, <1>4 DEF InsertOffer

\* The offer that is closed was the only one that could be open.
LEMMA CloseOfferStep ==
  ASSUME RideInv, NEW p \in Processes, CloseOffer(p)
  PROVE  RideInv'
<1>0. /\ TypeOK /\ worker[p] \in Worker
      /\ worker[p].pc \in {"declined", "timedOut"}
      /\ UNCHANGED <<status, detailerOf, authorized, captures, client, call, failures>>
      /\ lock' \subseteq lock
  BY DEF RideInv, TypeOK, CloseOffer
<1>1. /\ worker[p].ride \in Rides /\ worker[p].ride \in authorized
      /\ worker[p].candidate \in Detailers
  BY <1>0, InHandFacts DEF Idle
<1>2. /\ worker'[p] \in Worker
      /\ worker'[p].pc = "ranking"
      /\ worker'[p].ride = worker[p].ride
      /\ worker'[p].queue = worker[p].queue
      /\ \A q \in Processes : q # p => worker'[q] = worker[q]
      /\ worker' \in [Processes -> Worker]
  <2>1. /\ worker' = [worker EXCEPT ![p] = worker'[p]]
        /\ worker'[p] = [worker[p] EXCEPT !.pc = "ranking", !.candidate = None, !.event = "absent"]
    BY <1>0 DEF CloseOffer, TypeOK
  <2>2. /\ worker'[p] \in Worker
        /\ worker'[p].pc = "ranking"
        /\ worker'[p].ride = worker[p].ride
        /\ worker'[p].queue = worker[p].queue
    BY <1>0, <2>1 DEF Worker
  <2>3. QED
    BY <1>0, <2>1, <2>2 DEF TypeOK
<1>3. /\ offer' \in [Rides -> [Detailers -> OfferStatuses \union {None}]]
      /\ offer'[worker[p].ride][worker[p].candidate] \in {"declined", "timeout"}
      /\ \A r \in Rides, d \in Detailers :
           r # worker[p].ride \/ d # worker[p].candidate => offer'[r][d] = offer[r][d]
  BY <1>0, <1>1 DEF CloseOffer, TypeOK, OfferStatuses
<1>4. TypeOK'
  BY <1>0, <1>2, <1>3 DEF TypeOK
<1>5. \A r \in Rides : LedgerSafe(r)'
  BY <1>0, <1>1, <1>3, Parts DEF LedgerSafe
<1>6. ASSUME NEW q \in Processes PROVE WorkerSafe(q)'
  BY <1>0, <1>1, <1>2, Parts DEF WorkerSafe
<1>7. ASSUME NEW c \in Requests PROVE AnswerSafe(c)'
  <2>1. \A r \in Rides, d \in Detailers : offer[r][d] # None => offer'[r][d] # None
    BY <1>3, RideAssumption DEF OfferStatuses
  <2>2. QED
    BY <1>0, <2>1, Parts, AnswerKept
<1>8. ASSUME \A s, q \in Processes : s = q, NEW q \in Processes
      PROVE  OneEngine(q)'
  <2>1. q = p /\ OneEngine(p)
    BY <1>8, Parts
  <2>2. /\ client[worker[p].ride] = "enqueued"
        /\ \A i \in 1..Len(worker[p].queue) : worker[p].queue[i] # worker[p].ride
        /\ \A d \in Detailers : offer[worker[p].ride][d] = "offered" => d = worker[p].candidate
    BY <1>0, <2>1 DEF OneEngine
  <2>3. \A d \in Detailers : offer'[worker[p].ride][d] # "offered"
    BY <1>1, <1>3, <2>2
  <2>4. \A r \in Rides : r # worker[p].ride => \A d \in Detailers : offer'[r][d] = offer[r][d]
    BY <1>3
  <2>5. OneOpenOffer'
    BY <2>1, <2>3, <2>4 DEF OneEngine, OneOpenOffer
  <2>6. \A r \in Rides : client'[r] # "enqueued" => \A d \in Detailers : offer'[r][d] = None
    BY <1>0, <2>1, <2>2, <2>4 DEF OneEngine
  <2>7. \A i \in 1..Len(worker[p].queue) :
          worker[p].queue[i] \in Rides /\ worker[p].queue[i] # worker[p].ride
    BY <1>0, <2>2 DEF Worker
  <2>8. \A i \in 1..Len(worker[p].queue) :
          /\ client'[worker[p].queue[i]] = "enqueued"
          /\ \A d \in Detailers : offer'[worker[p].queue[i]][d] = None
          /\ \A j \in 1..Len(worker[p].queue) : worker[p].queue[i] = worker[p].queue[j] => i = j
    BY <1>0, <2>1, <2>4, <2>7 DEF OneEngine
  <2>9. QED
    BY <1>0, <1>2, <2>1, <2>2, <2>3, <2>5, <2>6, <2>8 DEF OneEngine
<1>9. QED
  BY <1>4, <1>5, <1>6, <1>7, <1>8, Parts

-----------------------------------------------------------------------------
(* PUT /rides/{id}/accept and /decline *)

\* A step of one call that leaves the workers and the offers alone.
LEMMA CallMoves ==
  ASSUME RideInv, NEW c \in Requests,
         call'[c] \in Call, call' = [call EXCEPT ![c] = call'[c]],
         AnswerSafe(c)', failures' \in 0..MaxFailures,
         UNCHANGED <<status, detailerOf, offer, authorized, captures, client, lock, worker>>
  PROVE  RideInv'
<1>1. TypeOK'
  BY DEF RideInv, TypeOK
<1>2. \A r \in Rides : LedgerSafe(r)'
  BY Parts DEF LedgerSafe
<1>3. \A p \in Processes : WorkerSafe(p)'
  BY Parts DEF WorkerSafe
<1>4. ASSUME NEW b \in Requests PROVE AnswerSafe(b)'
  <2>1. CASE b = c
    BY <2>1
  <2>2. CASE b # c
    <3>1. call'[b] = call[b] /\ AnswerSafe(b)
      BY <2>2, Parts DEF TypeOK
    <3>2. QED
      BY <3>1, AnswerKept
  <2>3. QED
    BY <2>1, <2>2
<1>5. (\A p, q \in Processes : p = q) => \A p \in Processes : OneEngine(p)'
  BY Parts DEF OneEngine, OneOpenOffer
<1>6. QED
  BY <1>1, <1>2, <1>3, <1>4, <1>5, Parts

\* A call that has read its offer knows there is one.
LEMMA ReadingStep ==
  ASSUME RideInv, NEW c \in Requests,
         AcceptReadRide(c) \/ AcceptReadOffer(c) \/ DeclineReadOffer(c) \/ CallFails(c)
  PROVE  RideInv'
<1>0. TypeOK /\ call[c] \in Call
  BY DEF RideInv, TypeOK
<1>1. CASE AcceptReadRide(c) \/ DeclineReadOffer(c)
  <2>1. PICK r \in Rides, d \in Detailers, p \in Processes,
             pc \in {"rideRead", "offerRead", "refused"}, kind \in {"accept", "decline"} :
          /\ call' = [call EXCEPT ![c] =
               [pc |-> pc, kind |-> kind, ride |-> r, detailer |-> d, process |-> p]]
          /\ pc = "offerRead" => offer[r][d] = "offered"
    BY <1>1 DEF AcceptReadRide, DeclineReadOffer
  <2>2. call'[c] = [pc |-> pc, kind |-> kind, ride |-> r, detailer |-> d, process |-> p]
    BY <1>0, <2>1 DEF TypeOK
  <2>3. call'[c] \in Call /\ call' = [call EXCEPT ![c] = call'[c]]
    BY <1>0, <2>1, <2>2 DEF TypeOK, Call
  <2>4. UNCHANGED <<status, detailerOf, offer, authorized, captures, client, lock, worker, failures>>
    BY <1>1 DEF AcceptReadRide, DeclineReadOffer
  <2>5. AnswerSafe(c)'
    BY <2>1, <2>2, <2>4, RideAssumption DEF AnswerSafe, OfferStatuses
  <2>6. QED
    BY <1>0, <2>3, <2>4, <2>5, CallMoves DEF TypeOK
<1>2. CASE AcceptReadOffer(c)
  <2>1. PICK pc \in {"offerRead", "refused"} :
          /\ call[c].pc = "rideRead"
          /\ call' = [call EXCEPT ![c].pc = pc]
          /\ pc = "offerRead" => offer[call[c].ride][call[c].detailer] = "offered"
    BY <1>2 DEF AcceptReadOffer
  <2>2. call'[c] = [call[c] EXCEPT !.pc = pc]
    BY <1>0, <2>1 DEF TypeOK
  <2>3. /\ call'[c] \in Call /\ call' = [call EXCEPT ![c] = call'[c]]
        /\ call'[c].pc = pc /\ call'[c].ride = call[c].ride
        /\ call'[c].detailer = call[c].detailer /\ call'[c].process = call[c].process
    BY <1>0, <2>1, <2>2 DEF TypeOK, Call
  <2>4. UNCHANGED <<status, detailerOf, offer, authorized, captures, client, lock, worker, failures>>
    BY <1>2 DEF AcceptReadOffer
  <2>5. AnswerSafe(c)'
    BY <2>1, <2>3, <2>4, RideAssumption, Parts DEF AnswerSafe, OfferStatuses
  <2>6. QED
    BY <1>0, <2>3, <2>4, <2>5, CallMoves DEF TypeOK
<1>3. CASE CallFails(c)
  <2>1. call'[c] = [call[c] EXCEPT !.pc = "failed"] /\ call' = [call EXCEPT ![c] = call'[c]]
    BY <1>0, <1>3 DEF CallFails, TypeOK
  <2>2. call'[c] \in Call /\ call'[c].pc = "failed"
    BY <1>0, <2>1 DEF Call
  <2>3. failures' \in 0..MaxFailures
    BY <1>0, <1>3, RideAssumption DEF CallFails, TypeOK
  <2>4. AnswerSafe(c)'
    BY <2>2 DEF AnswerSafe
  <2>5. UNCHANGED <<status, detailerOf, offer, authorized, captures, client, lock, worker>>
    BY <1>3 DEF CallFails
  <2>6. QED
    BY <2>1, <2>2, <2>3, <2>4, <2>5, CallMoves
<1>4. QED
  BY <1>1, <1>2, <1>3

\* What a call in progress has in hand.
LEMMA AnsweringFacts ==
  ASSUME RideInv, NEW c \in Requests, call[c].pc \in Answering \ {"rideRead"}
  PROVE  /\ call[c] \in Call
         /\ call[c].ride \in Rides /\ call[c].detailer \in Detailers
         /\ call[c].process \in Processes
         /\ offer[call[c].ride][call[c].detailer] # None
         /\ call[c].ride \in authorized
  BY DEF RideInv, TypeOK, AnswerSafe, Answering

\* The commit closes an offer that exists, so no ride comes by a first or open one.
LEMMA CommitAnswerStep ==
  ASSUME RideInv, NEW c \in Requests, CommitAnswer(c)
  PROVE  RideInv'
<1>0. TypeOK /\ call[c].pc = "offerRead"
  BY DEF RideInv, CommitAnswer
<1>1. /\ call[c] \in Call
      /\ call[c].ride \in Rides /\ call[c].detailer \in Detailers
      /\ call[c].process \in Processes
      /\ offer[call[c].ride][call[c].detailer] # None
      /\ call[c].ride \in authorized
  BY <1>0, AnsweringFacts DEF Answering
<1>2. UNCHANGED <<authorized, captures, client, lock, worker, failures>>
  BY DEF CommitAnswer
<1>3. PICK answer \in {"accepted", "declined"} :
        offer' = [offer EXCEPT ![call[c].ride][call[c].detailer] = answer]
  BY DEF CommitAnswer
<1>4. /\ offer' \in [Rides -> [Detailers -> OfferStatuses \union {None}]]
      /\ \A r \in Rides, d \in Detailers :
           /\ offer'[r][d] = "offered" => offer[r][d] = "offered"
           /\ offer[r][d] = None <=> offer'[r][d] = None
  BY <1>0, <1>1, <1>3, RideAssumption DEF TypeOK, OfferStatuses
<1>5. /\ status' \in [Rides -> RideStatuses \union {None}]
      /\ detailerOf' \in [Rides -> Detailers \union {None}]
  BY <1>0, <1>1 DEF CommitAnswer, TypeOK, RideStatuses
<1>6. /\ call' \in [Requests -> Call]
      /\ call'[c].pc = "committed" /\ call'[c].ride = call[c].ride
      /\ call'[c].detailer = call[c].detailer /\ call'[c].process = call[c].process
      /\ \A b \in Requests : b # c => call'[b] = call[b]
  <2>1. call' = [call EXCEPT ![c] = call'[c]] /\ call'[c] = [call[c] EXCEPT !.pc = "committed"]
    BY <1>0 DEF CommitAnswer, TypeOK
  <2>2. /\ call'[c] \in Call
        /\ call'[c].pc = "committed" /\ call'[c].ride = call[c].ride
        /\ call'[c].detailer = call[c].detailer /\ call'[c].process = call[c].process
    BY <1>1, <2>1 DEF Call
  <2>3. QED
    BY <1>0, <2>1, <2>2 DEF TypeOK
<1>7. TypeOK'
  BY <1>0, <1>2, <1>4, <1>5, <1>6 DEF TypeOK
<1>8. \A r \in Rides : LedgerSafe(r)'
  BY <1>2, <1>4, Parts DEF LedgerSafe
<1>9. \A p \in Processes : WorkerSafe(p)'
  BY <1>2, Parts DEF WorkerSafe
<1>10. ASSUME NEW b \in Requests PROVE AnswerSafe(b)'
  <2>1. CASE b = c
    BY <1>1, <1>4, <1>6, <2>1 DEF AnswerSafe
  <2>2. CASE b # c
    BY <1>4, <1>6, <2>2, Parts, AnswerKept
  <2>3. QED
    BY <2>1, <2>2
<1>11. ASSUME \A s, q \in Processes : s = q, NEW p \in Processes
       PROVE  OneEngine(p)'
  <2>1. OneEngine(p) /\ (worker[p].pc \notin Idle => worker[p].ride \in Rides)
    BY <1>11, Parts, InHandFacts
  <2>2. QED
    BY <1>0, <1>2, <1>4, <2>1, EngineKept
<1>12. QED
  BY <1>7, <1>8, <1>9, <1>10, <1>11, Parts

\* The signal changes an event and nothing else of a worker.
LEMMA SignalStep ==
  ASSUME RideInv, NEW c \in Requests, Signal(c)
  PROVE  RideInv'
<1>0. TypeOK /\ call[c].pc = "committed"
  BY DEF RideInv, Signal
<1>1. /\ call[c] \in Call /\ call[c].process \in Processes
      /\ UNCHANGED <<status, detailerOf, offer, authorized, captures, client, lock, failures>>
  BY <1>0, AnsweringFacts DEF Answering, Signal
<1>2. PICK answer \in {"accepted", "declined"} :
        \/ worker' = worker
        \/ worker' = [worker EXCEPT ![call[c].process].event = answer]
  BY DEF Signal
<1>3. ASSUME NEW p \in Processes
      PROVE  /\ worker'[p] \in Worker
             /\ worker'[p].pc = worker[p].pc
             /\ worker'[p].ride = worker[p].ride
             /\ worker'[p].candidate = worker[p].candidate
             /\ worker'[p].queue = worker[p].queue
  <2>1. worker[p] \in Worker
    BY <1>0 DEF TypeOK
  <2>2. worker'[p] = worker[p] \/ worker'[p] = [worker[p] EXCEPT !.event = answer]
    BY <1>0, <1>1, <1>2 DEF TypeOK
  <2>3. QED
    BY <2>1, <2>2 DEF Worker
<1>4. worker' \in [Processes -> Worker]
  BY <1>0, <1>1, <1>2, <1>3 DEF TypeOK
<1>5. PICK pc \in {"signalled", "done"} : call' = [call EXCEPT ![c].pc = pc]
  BY DEF Signal
<1>6. /\ call' \in [Requests -> Call]
      /\ call'[c].pc = pc /\ call'[c].ride = call[c].ride
      /\ call'[c].detailer = call[c].detailer /\ call'[c].process = call[c].process
      /\ \A b \in Requests : b # c => call'[b] = call[b]
  <2>1. call' = [call EXCEPT ![c] = call'[c]] /\ call'[c] = [call[c] EXCEPT !.pc = pc]
    BY <1>0, <1>5 DEF TypeOK
  <2>2. /\ call'[c] \in Call
        /\ call'[c].pc = pc /\ call'[c].ride = call[c].ride
        /\ call'[c].detailer = call[c].detailer /\ call'[c].process = call[c].process
    BY <1>1, <2>1 DEF Call
  <2>3. QED
    BY <1>0, <2>1, <2>2 DEF TypeOK
<1>7. TypeOK'
  BY <1>0, <1>1, <1>4, <1>6 DEF TypeOK
<1>8. \A r \in Rides : LedgerSafe(r)'
  BY <1>1, Parts DEF LedgerSafe
<1>9. ASSUME NEW p \in Processes PROVE WorkerSafe(p)'
  BY <1>1, <1>3, Parts DEF WorkerSafe
<1>10. ASSUME NEW b \in Requests PROVE AnswerSafe(b)'
  <2>1. AnswerSafe(b) /\ (b = c => call[b].pc = "committed")
    BY <1>0, Parts
  <2>2. QED
    BY <1>1, <1>6, <2>1, AnswerKept DEF Answering
<1>11. ASSUME \A s, q \in Processes : s = q, NEW p \in Processes
       PROVE  OneEngine(p)'
  <2>1. OneEngine(p) /\ (worker[p].pc \notin Idle => worker[p].ride \in Rides)
    BY <1>11, Parts, InHandFacts
  <2>2. QED
    BY <1>0, <1>1, <1>3, <2>1, EngineKept
<1>12. QED
  BY <1>7, <1>8, <1>9, <1>10, <1>11, Parts

\* Whoever captures had an offer, and only authorized rides are offered.
LEMMA CaptureStep ==
  ASSUME RideInv, NEW c \in Requests, Capture(c)
  PROVE  RideInv'
<1>0. TypeOK /\ call[c].pc = "signalled"
  BY DEF RideInv, Capture
<1>1. /\ call[c] \in Call /\ call[c].ride \in Rides /\ call[c].ride \in authorized
      /\ captures' = [captures EXCEPT ![call[c].ride] = @ + 1]
      /\ UNCHANGED <<status, detailerOf, offer, authorized, client, lock, worker, failures>>
  BY <1>0, AnsweringFacts DEF Answering, Capture
<1>2. /\ captures' \in [Rides -> Nat]
      /\ \A r \in Rides : captures'[r] > 0 => r = call[c].ride \/ captures[r] > 0
  BY <1>0, <1>1 DEF TypeOK
<1>3. /\ call' \in [Requests -> Call]
      /\ call'[c].pc = "done"
      /\ \A b \in Requests : b # c => call'[b] = call[b]
  <2>1. call' = [call EXCEPT ![c] = call'[c]] /\ call'[c] = [call[c] EXCEPT !.pc = "done"]
    BY <1>0 DEF Capture, TypeOK
  <2>2. call'[c] \in Call /\ call'[c].pc = "done"
    BY <1>1, <2>1 DEF Call
  <2>3. QED
    BY <1>0, <2>1, <2>2 DEF TypeOK
<1>4. TypeOK'
  BY <1>0, <1>1, <1>2, <1>3 DEF TypeOK
<1>5. \A r \in Rides : LedgerSafe(r)'
  BY <1>1, <1>2, Parts DEF LedgerSafe
<1>6. \A p \in Processes : WorkerSafe(p)'
  BY <1>1, Parts DEF WorkerSafe
<1>7. ASSUME NEW b \in Requests PROVE AnswerSafe(b)'
  BY <1>1, <1>3, Parts, AnswerKept DEF Answering
<1>8. (\A p, q \in Processes : p = q) => \A p \in Processes : OneEngine(p)'
  BY <1>1, Parts DEF OneEngine, OneOpenOffer
<1>9. QED
  BY <1>4, <1>5, <1>6, <1>7, <1>8, Parts

-----------------------------------------------------------------------------
(* The theorems *)

\* RideInv holds in every behaviour of the request, the worker and the answers.
THEOREM RideInvariant == Spec => []RideInv
<1>1. Init => RideInv
  BY InitRideInv
<1>2. RideInv /\ [Next]_vars => RideInv'
  <2> SUFFICES ASSUME RideInv, [Next]_vars PROVE RideInv'
    OBVIOUS
  <2>1. ASSUME NEW r \in Rides,
               \/ RequestRide(r) \/ Authorize(r) \/ Enqueue(r)
               \/ RequestFails(r) \/ LockExpires(r)
        PROVE  RideInv'
    BY <2>1, RequestStep, EnqueueStep
  <2>2. ASSUME NEW p \in Processes, WorkerStep(p) \/ AssignFails(p) \/ Restart(p)
        PROVE  RideInv'
    BY <2>2, ReadStreamStep, WaitingStep, InsertOfferStep, CloseOfferStep, RestartStep
       DEF WorkerStep
  <2>3. ASSUME NEW c \in Requests, CallStep(c)
        PROVE  RideInv'
    BY <2>3, ReadingStep, CommitAnswerStep, SignalStep, CaptureStep DEF CallStep
  <2>4. CASE UNCHANGED vars
    BY <2>4 DEF vars, RideInv, TypeOK, WorkerSafe, AnswerSafe, OneEngine, OneOpenOffer
  <2>5. QED
    BY <2>1, <2>2, <2>3, <2>4 DEF Next
<1>3. QED
  BY <1>1, <1>2, PTL DEF Spec

\* The columns, the ledger and the memory of the processes keep their types.
THEOREM RideTypeCorrect == Spec => []TypeOK
<1>1. RideInv => TypeOK
  BY DEF RideInv
<1>2. QED
  BY <1>1, RideInvariant, PTL

\* However many workers read the stream and however often answers cross, no
\* ride gets a CAPTURE entry before its AUTHORIZATION entry.
THEOREM AuthorizedBeforeCapture == Spec => []CapturedWasAuthorized
<1>1. RideInv => CapturedWasAuthorized
  BY DEF RideInv, CapturedWasAuthorized
<1>2. QED
  BY <1>1, RideInvariant, PTL

\* With one server process, and so one worker, a ride is open to one detailer
\* at a time.
THEOREM SingleOffer ==
  ASSUME NEW p \in Processes, \A q \in Processes : q = p
  PROVE  Spec => []OneOpenOffer
<1>1. RideInv => OneOpenOffer
  BY DEF RideInv, OneEngine
<1>2. QED
  BY <1>1, RideInvariant, PTL

=============================================================================
