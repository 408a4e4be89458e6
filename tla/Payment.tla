------------------------------- MODULE Payment -------------------------------
(***************************************************************************)
(* The money of one booked appointment: its status, the PaymentIntent at   *)
(* Stripe and the refunds table.                                           *)
(*                                                                         *)
(*  - POST /payments/create-intent makes an intent that only holds funds   *)
(*    (capture_method=manual) and stores its id on the appointment;        *)
(*  - transition_status captures the hold on COMPLETED, and on a           *)
(*    cancellation voids it, or refunds what was captured meanwhile;       *)
(*  - the administrator refunds up to a cap, or forces the status.         *)
(*                                                                         *)
(* Each call reads the row, talks to Stripe and writes in one transaction, *)
(* without a lock: what it read may be stale by the time it writes, and    *)
(* what Stripe did stays done when the transaction rolls back.             *)
(***************************************************************************)
EXTENDS Naturals, AppointmentFSM

CONSTANTS Calls,          \* concurrent calls; a call that ended is used again
          Estimate,       \* estimated_price, the amount the intent holds
          MaxPrice,       \* bound: the largest actual_price of a payload
          PartialPercent, \* CANCELLATION_PARTIAL_REFUND_PERCENT
          StripeErrs      \* FALSE: Stripe only refuses what its own rules forbid

ASSUME PaymentAssumption ==
  /\ Estimate \in Nat \ {0}
  /\ MaxPrice \in Nat
  /\ PartialPercent \in 0..100
  /\ StripeErrs \in BOOLEAN

VARIABLES row,        \* the appointment: status, intent id stored, price
          cancelled,  \* it has its row in appointment_cancellations
          refunds,    \* sum of its rows in refunds
          intent,     \* Stripe: status of the PaymentIntent
          captured,   \* Stripe: amount charged
          refunded,   \* Stripe: amount given back
          call,       \* progress of each call
          started,    \* a committed status was IN_PROGRESS
          disturbed   \* calls overlapped, one failed, or a status was forced

vars == <<row, cancelled, refunds, intent, captured, refunded, call, started, disturbed>>

Row == [status : Statuses, intent : BOOLEAN, price : 1..(Estimate + MaxPrice)]

Call == [pc : {"idle", "creating", "storing", "capturing", "voiding", "refunding",
               "writing", "repaying", "recording"},
         from : Statuses, to : Statuses, amount : 0..(Estimate + MaxPrice)]

Idle == [pc |-> "idle", from |-> "pending", to |-> "pending", amount |-> 0]

Init ==
  /\ row = [status |-> "pending", intent |-> FALSE, price |-> Estimate]
  /\ cancelled = FALSE
  /\ refunds = 0
  /\ intent = "none"
  /\ captured = 0
  /\ refunded = 0
  /\ call = [c \in Calls |-> Idle]
  /\ started = FALSE
  /\ disturbed = FALSE

Quiet == \A c \in Calls : call[c].pc = "idle"

\* A call reads the row and goes on to pc; another one may be under way.
Begin(c, rec) ==
  /\ call[c].pc = "idle"
  /\ call' = [call EXCEPT ![c] = rec]
  /\ disturbed' = (disturbed \/ ~ Quiet)

-----------------------------------------------------------------------------
(* POST /payments/create-intent: create_payment_intent *)

\* Only PENDING and CONFIRMED; with a stored intent the call changes nothing.
ReadForIntent(c) ==
  /\ row.status \in {"pending", "confirmed"}
  /\ ~ row.intent
  /\ Begin(c, [Idle EXCEPT !.pc = "creating"])
  /\ UNCHANGED <<row, cancelled, refunds, intent, captured, refunded, started>>

\* PaymentIntent.create: the idempotency key names the appointment, so a second
\* create returns the first intent.
CreateIntent(c) ==
  /\ call[c].pc = "creating"
  /\ intent' = IF intent = "none" THEN "unconfirmed" ELSE intent
  /\ call' = [call EXCEPT ![c].pc = "storing"]
  /\ UNCHANGED <<row, cancelled, refunds, captured, refunded, started, disturbed>>

StoreIntent(c) ==
  /\ call[c].pc = "storing"
  /\ row' = [row EXCEPT !.intent = TRUE]
  /\ call' = [call EXCEPT ![c] = Idle]
  /\ UNCHANGED <<cancelled, refunds, intent, captured, refunded, started, disturbed>>

\* The client confirms the intent with its card: the funds are held.
ConfirmAtStripe ==
  /\ row.intent
  /\ intent = "unconfirmed"
  /\ intent' = "held"
  /\ UNCHANGED <<row, cancelled, refunds, captured, refunded, call, started, disturbed>>

-----------------------------------------------------------------------------
(* transition_status *)

\* What somebody may turn the status into.
Targets ==
  [from \in Statuses |->
    { to \in Statuses : \E actor \in Actors : MayTransition(actor, from, to) }]

\* Variant: the hold is captured when the work begins.
NextOfEarlyCapture(to) ==
  CASE row.intent /\ to \in {"arrived", "in_progress"} -> "capturing"
    [] row.intent /\ to \in CancelStatuses             -> "voiding"
    [] OTHER                                           -> "writing"

\* Variant: only a confirmed booking is thought to have a hold to void.
NextOfConfirmedOnly(to) ==
  CASE row.intent /\ to = "completed"      -> "capturing"
    [] row.intent /\ to \in CancelStatuses /\ row.status = "confirmed" -> "voiding"
    [] OTHER                               -> "writing"

\* Where the call goes after its checks: to Stripe only if an intent is stored.
NextOf(to) ==
  CASE row.intent /\ to = "completed"      -> "capturing"
    [] row.intent /\ to \in CancelStatuses -> "voiding"
    [] OTHER                               -> "writing"

\* The payload may carry the price of a completed job; else it is the estimate.
ReadForTransition(c) ==
  /\ \E to \in Targets[row.status], price \in (1..MaxPrice) \union {Estimate} :
       /\ to # "completed" => price = Estimate
       /\ Begin(c, [pc |-> NextOf(to), from |-> row.status, to |-> to, amount |-> price])
  /\ UNCHANGED <<row, cancelled, refunds, intent, captured, refunded, started>>

\* PaymentIntent.capture of at most what is held; an exception is only logged.
CaptureHold(c) ==
  /\ call[c].pc = "capturing"
  /\ \/ /\ intent = "held"
        /\ call[c].amount <= Estimate
        /\ intent' = "captured"
        /\ captured' = call[c].amount
        /\ UNCHANGED disturbed
     \/ /\ StripeErrs \/ ~ (intent = "held" /\ call[c].amount <= Estimate)
        /\ disturbed' = (disturbed \/ (intent = "held" /\ call[c].amount <= Estimate))
        /\ UNCHANGED <<intent, captured>>
  /\ call' = [call EXCEPT ![c].pc = "writing"]
  /\ UNCHANGED <<row, cancelled, refunds, refunded, started>>

\* What the window until the appointment allows: all, a part, nothing.
PolicyAmounts == {Estimate, (Estimate * PartialPercent) \div 100, 0}

\* PaymentIntent.cancel, which Stripe refuses for a captured intent.  Then, and
\* on any other exception, a booking read as CONFIRMED goes on to the refund.
VoidHold(c) ==
  /\ call[c].pc = "voiding"
  /\ \/ /\ intent # "captured"
        /\ intent' = "voided"
        /\ call' = [call EXCEPT ![c].pc = "writing"]
        /\ UNCHANGED disturbed
     \/ /\ StripeErrs \/ intent = "captured"
        /\ disturbed' = (disturbed \/ intent # "captured")
        /\ \E amount \in PolicyAmounts :
             call' = [call EXCEPT
               ![c].pc = IF call[c].from = "confirmed" /\ amount > 0
                         THEN "refunding" ELSE "writing",
               ![c].amount = amount]
        /\ UNCHANGED intent
  /\ UNCHANGED <<row, cancelled, refunds, captured, refunded, started>>

\* Stripe gives back at most what it charged.
Refundable(amount) == intent = "captured" /\ refunded + amount <= captured

\* Refund.create of a cancellation; an exception ends the call with a rollback.
RefundCancelled(c) ==
  /\ call[c].pc = "refunding"
  /\ Refundable(call[c].amount)
  /\ refunded' = refunded + call[c].amount
  /\ call' = [call EXCEPT ![c].pc = "writing"]
  /\ UNCHANGED <<row, cancelled, refunds, intent, captured, started, disturbed>>

\* The status, the price and the cancellation's row are written and committed;
\* a second row for the same appointment breaks its constraint: rollback.
WriteTransition(c) ==
  LET m == call[c]
      cancels == m.to \in CancelStatuses
  IN /\ m.pc = "writing"
     /\ ~ (cancels /\ cancelled)
     /\ row' = [row EXCEPT !.status = m.to,
                           !.price = IF m.to = "completed" THEN m.amount ELSE row.price]
     /\ cancelled' = (cancelled \/ cancels)
     /\ started' = (started \/ m.to = "in_progress")
     /\ call' = [call EXCEPT ![c] = Idle]
     /\ UNCHANGED <<refunds, intent, captured, refunded, disturbed>>

-----------------------------------------------------------------------------
(* The administrator *)

\* refund_appointment: the intent, the cap and the sum of the refunds so far.
ReadForRefund(c) ==
  /\ row.intent
  /\ \E amount \in 1..row.price :
       /\ refunds + amount <= row.price
       /\ Begin(c, [Idle EXCEPT !.pc = "repaying", !.amount = amount])
  /\ UNCHANGED <<row, cancelled, refunds, intent, captured, refunded, started>>

\* Variant: the refunds row is kept although Stripe refused.
RepayAnyway(c) ==
  /\ call[c].pc = "repaying"
  /\ refunded' = IF Refundable(call[c].amount) THEN refunded + call[c].amount ELSE refunded
  /\ call' = [call EXCEPT ![c].pc = "recording"]
  /\ UNCHANGED <<row, cancelled, refunds, intent, captured, started, disturbed>>

Repay(c) ==
  /\ call[c].pc = "repaying"
  /\ Refundable(call[c].amount)
  /\ refunded' = refunded + call[c].amount
  /\ call' = [call EXCEPT ![c].pc = "recording"]
  /\ UNCHANGED <<row, cancelled, refunds, intent, captured, started, disturbed>>

\* The refunds row is inserted and committed.
RecordRefund(c) ==
  /\ call[c].pc = "recording"
  /\ refunds' = refunds + call[c].amount
  /\ call' = [call EXCEPT ![c] = Idle]
  /\ UNCHANGED <<row, cancelled, intent, captured, refunded, started, disturbed>>

\* force_appointment_status: one UPDATE, Stripe is not told.
ForceStatus ==
  /\ \E s \in Statuses : /\ row' = [row EXCEPT !.status = s]
                         /\ started' = (started \/ s = "in_progress")
  /\ disturbed' = TRUE
  /\ UNCHANGED <<cancelled, refunds, intent, captured, refunded, call>>

\* An exception, or the end of the process: what Stripe did is not undone.
Rollback(c) ==
  /\ call[c].pc # "idle"
  /\ call' = [call EXCEPT ![c] = Idle]
  /\ disturbed' = TRUE
  /\ UNCHANGED <<row, cancelled, refunds, intent, captured, refunded, started>>

-----------------------------------------------------------------------------

CallStep(c) ==
  \/ ReadForIntent(c) \/ CreateIntent(c) \/ StoreIntent(c)
  \/ ReadForTransition(c) \/ CaptureHold(c) \/ VoidHold(c) \/ RefundCancelled(c)
  \/ WriteTransition(c)
  \/ ReadForRefund(c) \/ Repay(c) \/ RecordRefund(c) \/ Rollback(c)

Next == \/ \E c \in Calls : CallStep(c)
        \/ ConfirmAtStripe \/ ForceStatus

Spec == Init /\ [][Next]_vars

-----------------------------------------------------------------------------
(* Properties *)

\* The row, Stripe's record and the calls hold values of their kinds.
TypeOK ==
  /\ row \in Row
  /\ cancelled \in BOOLEAN
  /\ refunds \in Nat
  /\ intent \in {"none", "unconfirmed", "held", "captured", "voided"}
  /\ captured \in 0..Estimate
  /\ refunded \in 0..captured
  /\ call \in [Calls -> Call]
  /\ started \in BOOLEAN
  /\ disturbed \in BOOLEAN

\* The client is charged only for a job that was begun, whatever raced.
ChargedOnlyIfStarted == captured > 0 => started

\* Every refund on the books was paid by Stripe: refund_appointment inserts its
\* row after Stripe has agreed.  (Not conversely: a rollback forgets the row.)
RefundsArePaid == refunds <= refunded

\* One call after the other, with no failure and no forced status, the money
\* follows the status: a cancelled booking leaves no hold, a charge means a
\* completed job at its final price, and Stripe and the books agree.
SettlesCleanly ==
  ~ disturbed /\ Quiet =>
    /\ row.status \in CancelStatuses => intent \in {"none", "voided"}
    /\ captured > 0 => row.status = "completed" /\ captured = row.price
    /\ refunds = refunded

\* What a finished call leaves, while nothing has disturbed the calls so far.
Settled ==
  /\ row.status \in CancelStatuses => intent \in {"none", "voided"}
  /\ captured > 0 => row.status = "completed" /\ captured = row.price
  /\ refunds = refunded
  /\ intent \in {"unconfirmed", "held", "captured"} => row.intent
  /\ intent = "captured" => row.status = "completed"

Open == {"pending", "confirmed", "arrived", "in_progress"}

\* What an undisturbed call knows of the row and of Stripe at each point.
Undisturbed(m) ==
  /\ m.pc \in {"creating", "capturing", "voiding", "repaying"} => Settled
  /\ m.pc \in {"creating", "storing"} => row.status \in Open /\ ~ row.intent
  /\ m.pc = "storing" =>
       /\ captured = 0 /\ refunds = refunded
       /\ intent \in {"unconfirmed", "voided"}
  /\ m.pc \in {"capturing", "voiding", "writing"} => row.status \in Open
  /\ m.pc # "refunding"
  /\ m.pc = "writing" =>
       /\ refunds = refunded
       /\ intent \in {"unconfirmed", "held", "captured"} => row.intent
       /\ intent = "captured" \/ captured > 0 => m.to = "completed" /\ captured = m.amount
       /\ m.to \in CancelStatuses => intent \in {"none", "voided"}
  /\ m.pc = "recording" =>
       /\ intent = "captured" /\ row.intent
       /\ row.status = "completed" /\ (captured > 0 => captured = row.price)
       /\ refunded = refunds + m.amount

\* A call that captures completes a started job, for a positive price; one that
\* voids or refunds cancels.
Purposeful(m) ==
  /\ m.pc = "capturing" => m.to = "completed" /\ started
  /\ m.pc \in {"capturing", "writing"} /\ m.to = "completed" => m.amount > 0
  /\ m.pc \in {"voiding", "refunding"} => m.to \in CancelStatuses

\* The strengthening that makes the properties above inductive.
PaymentInv ==
  /\ TypeOK
  /\ intent # "captured" => captured = 0
  /\ row.status = "in_progress" => started
  /\ ChargedOnlyIfStarted
  /\ \A c \in Calls : Purposeful(call[c])
  /\ ~ disturbed =>
       /\ \A c, d \in Calls : call[c].pc # "idle" /\ call[d].pc # "idle" => c = d
       /\ \A c \in Calls : Undisturbed(call[c])
       /\ Quiet => Settled

\* What Stripe has paid of a refund that is not on the books yet, and the sums of
\* it over the sets of calls.
Unrecorded(c) == IF call[c].pc = "recording" THEN call[c].amount ELSE 0

Sums == { sum \in [SUBSET Calls -> Nat] :
            /\ sum[{}] = 0
            /\ \A some \in SUBSET Calls : \A c \in some :
                 sum[some] = Unrecorded(c) + sum[some \ {c}] }

\* The refunds on the books and those that are about to be were paid.
BooksInv == TypeOK /\ \E sum \in Sums : refunds + sum[Calls] <= refunded

\* "Payment hold released in full": once a cancellation stands and no call is
\* under way, the client's funds are not held.
CancelledIsReleased == cancelled /\ Quiet => intent # "held"

=============================================================================
