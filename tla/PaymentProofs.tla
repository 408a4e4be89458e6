---------------------------- MODULE PaymentProofs ----------------------------
(***************************************************************************)
(* Proofs about Payment, for any number of calls, any estimate, any prices *)
(* and any refund policy.  PaymentInv is the inductive invariant.          *)
(***************************************************************************)
EXTENDS Payment, TLAPS

\* The refund policy never gives back more than the estimate.
LEMMA PolicyBound == PolicyAmounts \subseteq 0..Estimate
  <1>1. Estimate \in Nat /\ PartialPercent \in 0..100
    BY PaymentAssumption
  <1> DEFINE product == Estimate * PartialPercent
  <1>2. product \in Nat /\ product <= Estimate * 100
    BY <1>1
  <1>3. product \div 100 \in 0..Estimate
    <2> HIDE DEF product
    <2>1. QED
      BY <1>1, <1>2
  <1>4. QED
    BY <1>1, <1>3 DEF PolicyAmounts

\* What transition_status allows: it starts from an open status, completes only
\* a job in progress and cancels only before the work begins.
LEMMA TargetsEffect ==
  ASSUME NEW from \in Statuses, NEW to \in Targets[from]
  PROVE  /\ to \in Statuses
         /\ from \in Open
         /\ to = "completed" => from = "in_progress"
         /\ to \in CancelStatuses => from # "in_progress"
  BY DEF Targets, MayTransition, ValidTransitions, Statuses, CancelStatuses, Open

\* No cancelled status is an open one, and "completed" is neither.
LEMMA StatusKinds ==
  /\ Open \subseteq Statuses
  /\ CancelStatuses \subseteq Statuses
  /\ Open \intersect CancelStatuses = {}
  /\ "completed" \in Statuses
  /\ "completed" \notin Open \union CancelStatuses
  /\ "in_progress" \in Open
  /\ "pending" \in Open /\ "confirmed" \in Open
  /\ "in_progress" \notin CancelStatuses
  BY DEF Statuses, CancelStatuses, Open

LEMMA IdleIsCall == Idle \in Call
  BY PaymentAssumption DEF Idle, Call, Statuses

\* The initial state satisfies the invariant.
LEMMA InitPaymentInv == Init => PaymentInv
  <1> SUFFICES ASSUME Init PROVE PaymentInv
    OBVIOUS
  <1>1. TypeOK
    <2>1. Estimate \in 1..(Estimate + MaxPrice)
      BY PaymentAssumption
    <2>2. row \in Row
      BY <2>1 DEF Init, Row, Statuses
    <2>3. call \in [Calls -> Call]
      BY IdleIsCall DEF Init
    <2>4. captured \in 0..Estimate /\ refunded \in 0..captured /\ refunds \in Nat
      BY PaymentAssumption DEF Init
    <2>5. QED
      BY <2>2, <2>3, <2>4 DEF Init, TypeOK
  <1>2. Settled
    BY DEF Init, Settled, CancelStatuses
  <1>3. \A c \in Calls : call[c] = Idle /\ Idle.pc = "idle"
    BY DEF Init, Idle
  <1>4. ASSUME NEW c \in Calls PROVE Undisturbed(call[c])
    BY <1>3 DEF Undisturbed
  <1>5. QED
    BY <1>1, <1>2, <1>3, <1>4 DEF Init, PaymentInv, ChargedOnlyIfStarted, Purposeful

-----------------------------------------------------------------------------
(* How one step of a call preserves the invariant *)

\* What has to be shown of a step that changes the record of call c only.
Preserved(c) ==
  /\ call' = [call EXCEPT ![c] = call'[c]] /\ call'[c] \in Call
  /\ row' \in Row /\ cancelled' \in BOOLEAN /\ refunds' \in Nat
  /\ intent' \in {"none", "unconfirmed", "held", "captured", "voided"}
  /\ captured' \in 0..Estimate /\ refunded' \in 0..captured'
  /\ started' \in BOOLEAN /\ (started => started')
  /\ disturbed' \in BOOLEAN
  /\ intent' # "captured" => captured' = 0
  /\ row'.status = "in_progress" => started'
  /\ captured' > 0 => started'
  /\ Purposeful(call[c])'
  /\ ~ disturbed' => /\ \A d \in Calls \ {c} : call[d].pc = "idle"
                     /\ Undisturbed(call[c])'
                     /\ call'[c].pc = "idle" => Settled'

LEMMA StepPreserves ==
  ASSUME PaymentInv, NEW c \in Calls, Preserved(c)
  PROVE  PaymentInv'
  <1>1. /\ call' \in [Calls -> Call]
        /\ \A d \in Calls \ {c} : call'[d] = call[d]
    BY DEF PaymentInv, TypeOK, Preserved
  <1>2. TypeOK'
    BY <1>1 DEF Preserved, TypeOK
  <1>3. \A d \in Calls : Purposeful(call[d])'
    <2>1. ASSUME NEW d \in Calls \ {c} PROVE Purposeful(call[d])'
      BY <1>1 DEF PaymentInv, Preserved, Purposeful
    <2>2. QED
      BY <2>1 DEF Preserved
  <1>4. ASSUME ~ disturbed'
        PROVE  /\ \A d, e \in Calls :
                    call'[d].pc # "idle" /\ call'[e].pc # "idle" => d = e
               /\ \A d \in Calls : Undisturbed(call[d])'
               /\ Quiet' => Settled'
    <2>1. \A d \in Calls \ {c} : call'[d].pc = "idle"
      BY <1>1, <1>4 DEF Preserved
    <2>2. \A d \in Calls \ {c} : Undisturbed(call[d])'
      BY <2>1 DEF Undisturbed
    <2>3. Undisturbed(call[c])'
      BY <1>4 DEF Preserved
    <2>4. Quiet' => call'[c].pc = "idle"
      BY DEF Quiet
    <2>5. QED
      BY <1>4, <2>1, <2>2, <2>3, <2>4 DEF Preserved
  <1>5. QED
    BY <1>2, <1>3, <1>4 DEF PaymentInv, Preserved, ChargedOnlyIfStarted

\* Without a disturbance a call under way is the only one.
LEMMA Alone ==
  ASSUME PaymentInv, NEW c \in Calls, call[c].pc # "idle"
  PROVE  /\ Purposeful(call[c])
         /\ ~ disturbed => /\ \A d \in Calls \ {c} : call[d].pc = "idle"
                           /\ Undisturbed(call[c])
  BY DEF PaymentInv

\* A call that begins undisturbed finds the others idle and the money settled.
LEMMA BeginsAlone ==
  ASSUME PaymentInv, NEW c \in Calls, NEW m \in Call, Begin(c, m)
  PROVE  /\ call' = [call EXCEPT ![c] = call'[c]]
         /\ call'[c] = m
         /\ disturbed' \in BOOLEAN
         /\ ~ disturbed' => /\ \A d \in Calls \ {c} : call[d].pc = "idle"
                            /\ Settled
  BY DEF PaymentInv, TypeOK, Begin, Quiet

-----------------------------------------------------------------------------
(* POST /payments/create-intent *)

LEMMA ReadForIntentStep ==
  ASSUME PaymentInv, NEW c \in Calls, ReadForIntent(c)
  PROVE  PaymentInv'
  <1>1. /\ [Idle EXCEPT !.pc = "creating"] \in Call
        /\ [Idle EXCEPT !.pc = "creating"].pc = "creating"
    BY IdleIsCall DEF Idle, Call
  <1>2. Begin(c, [Idle EXCEPT !.pc = "creating"])
    BY DEF ReadForIntent
  <1>3. /\ call' = [call EXCEPT ![c] = call'[c]]
        /\ call'[c] \in Call /\ call'[c].pc = "creating"
        /\ disturbed' \in BOOLEAN
        /\ ~ disturbed' => /\ \A d \in Calls \ {c} : call[d].pc = "idle"
                           /\ Settled
    BY <1>1, <1>2, BeginsAlone
  <1>4. /\ row.status \in Open /\ ~ row.intent
        /\ UNCHANGED <<row, cancelled, refunds, intent, captured, refunded, started>>
    BY DEF ReadForIntent, Open
  <1>5. ~ disturbed' => Undisturbed(call[c])'
    BY <1>3, <1>4 DEF Undisturbed, Settled
  <1>6. Preserved(c)
    BY <1>3, <1>4, <1>5
    DEF PaymentInv, TypeOK, Preserved, ChargedOnlyIfStarted, Purposeful
  <1>7. QED
    BY <1>6, StepPreserves

LEMMA CreateIntentStep ==
  ASSUME PaymentInv, NEW c \in Calls, CreateIntent(c)
  PROVE  PaymentInv'
  <1>1. /\ call[c].pc = "creating"
        /\ intent' = IF intent = "none" THEN "unconfirmed" ELSE intent
        /\ UNCHANGED <<row, cancelled, refunds, captured, refunded, started, disturbed>>
    BY DEF CreateIntent
  <1>2. /\ call' = [call EXCEPT ![c] = call'[c]]
        /\ call'[c] \in Call /\ call'[c].pc = "storing"
    BY DEF CreateIntent, PaymentInv, TypeOK, Call
  <1>3. ~ disturbed' => /\ \A d \in Calls \ {c} : call[d].pc = "idle"
                        /\ Undisturbed(call[c])
    BY <1>1, Alone
  <1>4. ~ disturbed' => Undisturbed(call[c])'
    <2>1. SUFFICES ASSUME ~ disturbed'
                   PROVE  Undisturbed(call[c])'
      OBVIOUS
    <2>2. Settled /\ row.status \in Open /\ ~ row.intent
      BY <1>1, <1>3, <2>1 DEF Undisturbed
    <2>3. captured = 0 /\ intent \in {"none", "voided"}
      BY <2>2, StatusKinds DEF Settled, PaymentInv, TypeOK
    <2>4. QED
      BY <1>1, <1>2, <2>2, <2>3 DEF Undisturbed, Settled
  <1>5. Preserved(c)
    BY <1>1, <1>2, <1>3, <1>4
    DEF PaymentInv, TypeOK, Preserved, ChargedOnlyIfStarted, Purposeful
  <1>6. QED
    BY <1>5, StepPreserves

LEMMA StoreIntentStep ==
  ASSUME PaymentInv, NEW c \in Calls, StoreIntent(c)
  PROVE  PaymentInv'
  <1>1. /\ call[c].pc = "storing"
        /\ row' = [row EXCEPT !.intent = TRUE]
        /\ UNCHANGED <<cancelled, refunds, intent, captured, refunded, started, disturbed>>
    BY DEF StoreIntent
  <1>2. /\ call' = [call EXCEPT ![c] = call'[c]]
        /\ call'[c] \in Call /\ call'[c].pc = "idle"
    BY IdleIsCall DEF StoreIntent, Idle, PaymentInv, TypeOK
  <1>3. ~ disturbed' => /\ \A d \in Calls \ {c} : call[d].pc = "idle"
                        /\ Undisturbed(call[c])
    BY <1>1, Alone
  <1>4. row' \in Row /\ row'.status = row.status /\ row'.price = row.price /\ row'.intent
    BY <1>1 DEF PaymentInv, TypeOK, Row
  <1>5. ~ disturbed' => Settled'
    BY <1>1, <1>3, <1>4, StatusKinds DEF Undisturbed, Settled
  <1>6. Undisturbed(call[c])'
    BY <1>2 DEF Undisturbed
  <1>7. Preserved(c)
    BY <1>1, <1>2, <1>3, <1>4, <1>5, <1>6
    DEF PaymentInv, TypeOK, Preserved, ChargedOnlyIfStarted, Purposeful
  <1>8. QED
    BY <1>7, StepPreserves

-----------------------------------------------------------------------------
(* transition_status *)

LEMMA ReadForTransitionStep ==
  ASSUME PaymentInv, NEW c \in Calls, ReadForTransition(c)
  PROVE  PaymentInv'
  <1>1. PICK to \in Targets[row.status], price \in (1..MaxPrice) \union {Estimate} :
          Begin(c, [pc |-> NextOf(to), from |-> row.status, to |-> to, amount |-> price])
    BY DEF ReadForTransition
  <1>2. UNCHANGED <<row, cancelled, refunds, intent, captured, refunded, started>>
    BY DEF ReadForTransition
  <1>3. row.status \in Statuses
    BY DEF PaymentInv, TypeOK, Row
  <1>4. /\ to \in Statuses
        /\ row.status \in Open
        /\ to = "completed" => row.status = "in_progress"
    BY <1>3, TargetsEffect
  <1>5. price \in 0..(Estimate + MaxPrice) /\ price > 0
    BY PaymentAssumption
  <1>6. \/ NextOf(to) = "capturing" /\ to = "completed"
        \/ NextOf(to) = "voiding" /\ to \in CancelStatuses
        \/ /\ NextOf(to) = "writing"
           /\ ~ row.intent \/ (to # "completed" /\ to \notin CancelStatuses)
    <2>1. CASE row.intent /\ to = "completed"
      BY <2>1 DEF NextOf, CancelStatuses
    <2>2. CASE row.intent /\ to \in CancelStatuses
      BY <2>2 DEF NextOf, CancelStatuses
    <2>3. CASE ~ row.intent \/ (to # "completed" /\ to \notin CancelStatuses)
      BY <2>3 DEF NextOf
    <2>4. QED
      BY <2>1, <2>2, <2>3
  <1>7. [pc |-> NextOf(to), from |-> row.status, to |-> to, amount |-> price] \in Call
    BY <1>3, <1>4, <1>5, <1>6 DEF Call
  <1>8. /\ call' = [call EXCEPT ![c] = call'[c]]
        /\ call'[c] = [pc |-> NextOf(to), from |-> row.status, to |-> to, amount |-> price]
        /\ disturbed' \in BOOLEAN
        /\ ~ disturbed' => /\ \A d \in Calls \ {c} : call[d].pc = "idle"
                           /\ Settled
    BY <1>1, <1>7, BeginsAlone
  <1>9. /\ call'[c] \in Call
        /\ call'[c].pc = NextOf(to) /\ call'[c].to = to /\ call'[c].amount = price
        /\ call'[c].pc # "idle"
    BY <1>6, <1>7, <1>8
  <1>10. Purposeful(call[c])'
    BY <1>2, <1>4, <1>5, <1>6, <1>9 DEF Purposeful, PaymentInv
  <1>11. ~ disturbed' => Undisturbed(call[c])'
    <2>1. SUFFICES ASSUME ~ disturbed' PROVE Undisturbed(call[c])'
      OBVIOUS
    <2>2. Settled /\ Settled'
      BY <1>2, <1>8, <2>1 DEF Settled
    <2>3. intent # "captured" /\ captured = 0
      BY <1>4, <2>2, StatusKinds DEF Settled, PaymentInv, TypeOK
    <2>4. call'[c].pc = "writing" => (to \in CancelStatuses => intent \in {"none", "voided"})
      BY <1>6, <1>9, <2>2, <2>3, StatusKinds DEF Settled, PaymentInv, TypeOK
    <2>5. QED
      BY <1>2, <1>4, <1>6, <1>9, <2>2, <2>3, <2>4 DEF Undisturbed, Settled
  <1>12. Preserved(c)
    BY <1>2, <1>8, <1>9, <1>10, <1>11
    DEF PaymentInv, TypeOK, Preserved, ChargedOnlyIfStarted
  <1>13. QED
    BY <1>12, StepPreserves

LEMMA CaptureHoldStep ==
  ASSUME PaymentInv, NEW c \in Calls, CaptureHold(c)
  PROVE  PaymentInv'
  <1>1. /\ call[c].pc = "capturing"
        /\ UNCHANGED <<row, cancelled, refunds, refunded, started>>
    BY DEF CaptureHold
  <1>2. /\ call' = [call EXCEPT ![c] = call'[c]]
        /\ call'[c] \in Call /\ call'[c].pc = "writing"
        /\ call'[c].to = call[c].to /\ call'[c].amount = call[c].amount
    BY DEF CaptureHold, PaymentInv, TypeOK, Call
  <1>3. /\ Purposeful(call[c])
        /\ ~ disturbed => /\ \A d \in Calls \ {c} : call[d].pc = "idle"
                          /\ Undisturbed(call[c])
    BY <1>1, Alone
  <1>4. /\ call[c].to = "completed" /\ started
        /\ call[c].amount > 0 /\ call[c].amount \in Nat
    BY <1>1, <1>3, PaymentAssumption DEF Purposeful, Call, PaymentInv, TypeOK
  <1>5. /\ disturbed' \in BOOLEAN
        /\ ~ disturbed' => ~ disturbed
    BY DEF CaptureHold, PaymentInv, TypeOK
  <1>6. Purposeful(call[c])'
    BY <1>2, <1>4 DEF Purposeful
  <1>7. ~ disturbed' => Settled /\ row.status \in Open
    BY <1>1, <1>3, <1>5 DEF Undisturbed
  <1>8. CASE /\ intent = "held"
             /\ call[c].amount <= Estimate
             /\ intent' = "captured"
             /\ captured' = call[c].amount
    <2>1. captured' \in 0..Estimate /\ captured = 0 /\ refunded = 0
      BY <1>4, <1>8, PaymentAssumption DEF PaymentInv, TypeOK
    <2>2. ~ disturbed' => Undisturbed(call[c])'
      BY <1>1, <1>2, <1>4, <1>7, <1>8, StatusKinds DEF Undisturbed, Settled
    <2>3. Preserved(c)
      BY <1>1, <1>2, <1>3, <1>4, <1>5, <1>6, <1>8, <2>1, <2>2
      DEF PaymentInv, TypeOK, Preserved, ChargedOnlyIfStarted
    <2>4. QED
      BY <2>3, StepPreserves
  <1>9. CASE UNCHANGED <<intent, captured>>
    <2>1. ~ disturbed' => intent # "captured" /\ captured = 0
      BY <1>7, StatusKinds DEF Settled, PaymentInv, TypeOK
    <2>2. ~ disturbed' => Undisturbed(call[c])'
      BY <1>1, <1>2, <1>4, <1>7, <1>9, <2>1, StatusKinds DEF Undisturbed, Settled
    <2>3. Preserved(c)
      BY <1>1, <1>2, <1>3, <1>4, <1>5, <1>6, <1>9, <2>2
      DEF PaymentInv, TypeOK, Preserved, ChargedOnlyIfStarted
    <2>4. QED
      BY <2>3, StepPreserves
  <1>10. QED
    BY <1>8, <1>9 DEF CaptureHold

LEMMA VoidHoldStep ==
  ASSUME PaymentInv, NEW c \in Calls, VoidHold(c)
  PROVE  PaymentInv'
  <1>1. /\ call[c].pc = "voiding"
        /\ UNCHANGED <<row, cancelled, refunds, captured, refunded, started>>
    BY DEF VoidHold
  <1>2. /\ call[c] \in Call
        /\ call[c].to \in CancelStatuses
        /\ ~ disturbed => /\ \A d \in Calls \ {c} : call[d].pc = "idle"
                          /\ Undisturbed(call[c])
    BY <1>1, Alone DEF Purposeful, PaymentInv, TypeOK
  <1>3. ~ disturbed => /\ Settled
                       /\ row.status \in Open
                       /\ intent # "captured"
                       /\ captured = 0
    BY <1>1, <1>2, StatusKinds DEF Undisturbed, Settled, PaymentInv, TypeOK
  <1>4. CASE /\ intent # "captured"
             /\ intent' = "voided"
             /\ call' = [call EXCEPT ![c].pc = "writing"]
             /\ UNCHANGED disturbed
    <2>1. /\ call' = [call EXCEPT ![c] = call'[c]]
          /\ call'[c] \in Call /\ call'[c].pc = "writing" /\ call'[c].to = call[c].to
      BY <1>2, <1>4 DEF Call, PaymentInv, TypeOK
    <2>2. ~ disturbed' => Undisturbed(call[c])'
      BY <1>1, <1>2, <1>3, <1>4, <2>1 DEF Undisturbed, Settled
    <2>3. Purposeful(call[c])'
      BY <1>2, <2>1, StatusKinds DEF Purposeful
    <2>4. Preserved(c)
      BY <1>1, <1>2, <1>4, <2>1, <2>2, <2>3
      DEF PaymentInv, TypeOK, Preserved, ChargedOnlyIfStarted
    <2>5. QED
      BY <2>4, StepPreserves
  <1>5. CASE /\ StripeErrs \/ intent = "captured"
             /\ disturbed' = (disturbed \/ intent # "captured")
             /\ \E amount \in PolicyAmounts :
                  call' = [call EXCEPT
                    ![c].pc = IF call[c].from = "confirmed" /\ amount > 0
                              THEN "refunding" ELSE "writing",
                    ![c].amount = amount]
             /\ UNCHANGED intent
    <2>1. PICK amount \in PolicyAmounts :
            call' = [call EXCEPT
              ![c].pc = IF call[c].from = "confirmed" /\ amount > 0
                        THEN "refunding" ELSE "writing",
              ![c].amount = amount]
      BY <1>5
    <2>2. amount \in 0..(Estimate + MaxPrice)
      BY PolicyBound, PaymentAssumption
    <2>3. /\ call' = [call EXCEPT ![c] = call'[c]]
          /\ call'[c] = [call[c] EXCEPT
               !.pc = IF call[c].from = "confirmed" /\ amount > 0
                      THEN "refunding" ELSE "writing",
               !.amount = amount]
      BY <2>1 DEF PaymentInv, TypeOK
    <2>4. /\ call'[c] \in Call /\ call'[c].to = call[c].to
          /\ call'[c].pc \in {"refunding", "writing"}
      BY <1>2, <2>2, <2>3 DEF Call
    <2>5. disturbed' = TRUE
      BY <1>3, <1>5 DEF PaymentInv, TypeOK
    <2>6. Purposeful(call[c])'
      BY <1>2, <2>4, StatusKinds DEF Purposeful
    <2>7. Preserved(c)
      BY <1>1, <1>2, <1>5, <2>3, <2>4, <2>5, <2>6
      DEF PaymentInv, TypeOK, Preserved, ChargedOnlyIfStarted
    <2>8. QED
      BY <2>7, StepPreserves
  <1>6. QED
    BY <1>4, <1>5 DEF VoidHold

LEMMA RefundCancelledStep ==
  ASSUME PaymentInv, NEW c \in Calls, RefundCancelled(c)
  PROVE  PaymentInv'
  <1>1. /\ call[c].pc = "refunding"
        /\ Refundable(call[c].amount)
        /\ refunded' = refunded + call[c].amount
        /\ UNCHANGED <<row, cancelled, refunds, intent, captured, started, disturbed>>
    BY DEF RefundCancelled
  <1>2. /\ call' = [call EXCEPT ![c] = call'[c]]
        /\ call'[c] \in Call /\ call'[c].pc = "writing" /\ call'[c].to = call[c].to
    BY DEF RefundCancelled, PaymentInv, TypeOK, Call
  <1>3. call[c].to \in CancelStatuses /\ disturbed
    BY <1>1, Alone DEF Purposeful, Undisturbed
  <1>4. refunded' \in 0..captured
    BY <1>1, PaymentAssumption DEF Refundable, Call, PaymentInv, TypeOK
  <1>5. Purposeful(call[c])'
    BY <1>2, <1>3, StatusKinds DEF Purposeful
  <1>6. Preserved(c)
    BY <1>1, <1>2, <1>3, <1>4, <1>5
    DEF PaymentInv, TypeOK, Preserved, ChargedOnlyIfStarted
  <1>7. QED
    BY <1>6, StepPreserves

LEMMA WriteTransitionStep ==
  ASSUME PaymentInv, NEW c \in Calls, WriteTransition(c)
  PROVE  PaymentInv'
  <1> DEFINE m == call[c]
  <1>1. /\ m.pc = "writing" /\ m \in Call
        /\ UNCHANGED <<refunds, intent, captured, refunded, disturbed>>
        /\ started' = (started \/ m.to = "in_progress")
        /\ cancelled' \in BOOLEAN
    BY DEF WriteTransition, PaymentInv, TypeOK
  <1>2. row' = [row EXCEPT !.status = m.to,
                           !.price = IF m.to = "completed" THEN m.amount ELSE row.price]
    BY DEF WriteTransition
  <1>3. /\ call' = [call EXCEPT ![c] = call'[c]]
        /\ call'[c] \in Call /\ call'[c].pc = "idle"
    BY IdleIsCall DEF WriteTransition, Idle, PaymentInv, TypeOK
  <1>4. /\ m.to = "completed" => m.amount > 0
        /\ ~ disturbed => /\ \A d \in Calls \ {c} : call[d].pc = "idle"
                          /\ Undisturbed(m)
    BY <1>1, Alone DEF Purposeful
  <1>5. /\ row' \in Row
        /\ row'.status = m.to /\ row'.intent = row.intent
        /\ row'.price = IF m.to = "completed" THEN m.amount ELSE row.price
    <2>1. /\ row \in Row
          /\ m.to \in Statuses /\ m.amount \in 0..(Estimate + MaxPrice)
      BY <1>1 DEF Call, PaymentInv, TypeOK
    <2>2. m.to = "completed" => m.amount \in 1..(Estimate + MaxPrice)
      BY <1>4, <2>1, PaymentAssumption
    <2> HIDE DEF m
    <2>3. (IF m.to = "completed" THEN m.amount ELSE row.price) \in 1..(Estimate + MaxPrice)
      BY <2>1, <2>2 DEF Row
    <2>4. QED
      BY <1>2, <2>1, <2>3 DEF Row
  <1>6. ~ disturbed' => Settled'
    <2>1. SUFFICES ASSUME ~ disturbed' PROVE Settled'
      OBVIOUS
    <2>2. /\ refunds = refunded
          /\ intent \in {"unconfirmed", "held", "captured"} => row.intent
          /\ intent = "captured" \/ captured > 0 => m.to = "completed" /\ captured = m.amount
          /\ m.to \in CancelStatuses => intent \in {"none", "voided"}
      BY <1>1, <1>4, <2>1 DEF Undisturbed
    <2>3. QED
      BY <1>1, <1>5, <2>2 DEF Settled
  <1>7. Undisturbed(call[c])' /\ Purposeful(call[c])'
    BY <1>3 DEF Undisturbed, Purposeful
  <1>8. Preserved(c)
    BY <1>1, <1>3, <1>4, <1>5, <1>6, <1>7
    DEF PaymentInv, TypeOK, Preserved, ChargedOnlyIfStarted
  <1>9. QED
    BY <1>8, StepPreserves

-----------------------------------------------------------------------------
(* The administrator, the client at Stripe, failures *)

LEMMA ReadForRefundStep ==
  ASSUME PaymentInv, NEW c \in Calls, ReadForRefund(c)
  PROVE  PaymentInv'
  <1>1. UNCHANGED <<row, cancelled, refunds, intent, captured, refunded, started>>
    BY DEF ReadForRefund
  <1>2. PICK amount \in 1..row.price :
          Begin(c, [Idle EXCEPT !.pc = "repaying", !.amount = amount])
    BY DEF ReadForRefund
  <1>3. amount \in 0..(Estimate + MaxPrice)
    BY PaymentAssumption DEF PaymentInv, TypeOK, Row
  <1>4. /\ [Idle EXCEPT !.pc = "repaying", !.amount = amount] \in Call
        /\ [Idle EXCEPT !.pc = "repaying", !.amount = amount].pc = "repaying"
    BY <1>3, IdleIsCall DEF Idle, Call
  <1>5. /\ call' = [call EXCEPT ![c] = call'[c]]
        /\ call'[c] \in Call /\ call'[c].pc = "repaying"
        /\ disturbed' \in BOOLEAN
        /\ ~ disturbed' => /\ \A d \in Calls \ {c} : call[d].pc = "idle"
                           /\ Settled
    BY <1>2, <1>4, BeginsAlone
  <1>6. ~ disturbed' => Undisturbed(call[c])'
    BY <1>1, <1>5 DEF Undisturbed, Settled
  <1>7. Preserved(c)
    BY <1>1, <1>5, <1>6
    DEF PaymentInv, TypeOK, Preserved, ChargedOnlyIfStarted, Purposeful
  <1>8. QED
    BY <1>7, StepPreserves

LEMMA RepayStep ==
  ASSUME PaymentInv, NEW c \in Calls, Repay(c)
  PROVE  PaymentInv'
  <1>1. /\ call[c].pc = "repaying"
        /\ Refundable(call[c].amount)
        /\ refunded' = refunded + call[c].amount
        /\ UNCHANGED <<row, cancelled, refunds, intent, captured, started, disturbed>>
    BY DEF Repay
  <1>2. /\ call' = [call EXCEPT ![c] = call'[c]]
        /\ call'[c] \in Call /\ call'[c].pc = "recording"
        /\ call'[c].amount = call[c].amount
    BY DEF Repay, PaymentInv, TypeOK, Call
  <1>3. ~ disturbed => /\ \A d \in Calls \ {c} : call[d].pc = "idle"
                       /\ Settled
    BY <1>1, Alone DEF Undisturbed
  <1>4. refunded' \in 0..captured /\ intent = "captured"
    BY <1>1, PaymentAssumption DEF Refundable, Call, PaymentInv, TypeOK
  <1>5. ~ disturbed' => Undisturbed(call[c])'
    BY <1>1, <1>2, <1>3, <1>4 DEF Undisturbed, Settled
  <1>6. Preserved(c)
    BY <1>1, <1>2, <1>3, <1>4, <1>5
    DEF PaymentInv, TypeOK, Preserved, ChargedOnlyIfStarted, Purposeful
  <1>7. QED
    BY <1>6, StepPreserves

LEMMA RecordRefundStep ==
  ASSUME PaymentInv, NEW c \in Calls, RecordRefund(c)
  PROVE  PaymentInv'
  <1>1. /\ call[c].pc = "recording"
        /\ refunds' = refunds + call[c].amount
        /\ UNCHANGED <<row, cancelled, intent, captured, refunded, started, disturbed>>
    BY DEF RecordRefund
  <1>2. /\ call' = [call EXCEPT ![c] = call'[c]]
        /\ call'[c] \in Call /\ call'[c].pc = "idle"
    BY IdleIsCall DEF RecordRefund, Idle, PaymentInv, TypeOK
  <1>3. ~ disturbed => /\ \A d \in Calls \ {c} : call[d].pc = "idle"
                       /\ Undisturbed(call[c])
    BY <1>1, Alone
  <1>4. refunds' \in Nat
    BY <1>1, PaymentAssumption DEF Call, PaymentInv, TypeOK
  <1>5. ~ disturbed' => Settled'
    BY <1>1, <1>3, StatusKinds DEF Undisturbed, Settled
  <1>6. Preserved(c)
    BY <1>1, <1>2, <1>3, <1>4, <1>5
    DEF PaymentInv, TypeOK, Preserved, ChargedOnlyIfStarted, Purposeful, Undisturbed
  <1>7. QED
    BY <1>6, StepPreserves

LEMMA RollbackStep ==
  ASSUME PaymentInv, NEW c \in Calls, Rollback(c)
  PROVE  PaymentInv'
  <1>1. /\ disturbed' = TRUE
        /\ UNCHANGED <<row, cancelled, refunds, intent, captured, refunded, started>>
    BY DEF Rollback
  <1>2. /\ call' = [call EXCEPT ![c] = call'[c]]
        /\ call'[c] \in Call /\ call'[c].pc = "idle"
    BY IdleIsCall DEF Rollback, Idle, PaymentInv, TypeOK
  <1>3. Preserved(c)
    BY <1>1, <1>2 DEF PaymentInv, TypeOK, Preserved, ChargedOnlyIfStarted, Purposeful
  <1>4. QED
    BY <1>3, StepPreserves

LEMMA ConfirmAtStripeStep ==
  ASSUME PaymentInv, ConfirmAtStripe
  PROVE  PaymentInv'
  <1>1. /\ row.intent /\ intent = "unconfirmed" /\ intent' = "held"
        /\ UNCHANGED <<row, cancelled, refunds, captured, refunded, call, started, disturbed>>
    BY DEF ConfirmAtStripe
  <1>2. TypeOK'
    BY <1>1 DEF PaymentInv, TypeOK
  <1>3. Settled => Settled'
    BY <1>1 DEF Settled
  <1>4. ASSUME NEW c \in Calls PROVE Purposeful(call[c])'
    BY <1>1 DEF PaymentInv, Purposeful
  <1>5. ASSUME ~ disturbed', NEW c \in Calls PROVE Undisturbed(call[c])'
    BY <1>1, <1>3, <1>5 DEF PaymentInv, Undisturbed
  <1>6. ~ disturbed' => (Quiet' => Settled')
    BY <1>1, <1>3 DEF PaymentInv, Quiet
  <1>7. QED
    BY <1>1, <1>2, <1>4, <1>5, <1>6 DEF PaymentInv, ChargedOnlyIfStarted

LEMMA ForceStatusStep ==
  ASSUME PaymentInv, ForceStatus
  PROVE  PaymentInv'
  <1>1. PICK s \in Statuses : /\ row' = [row EXCEPT !.status = s]
                              /\ started' = (started \/ s = "in_progress")
    BY DEF ForceStatus
  <1>2. /\ disturbed' = TRUE
        /\ UNCHANGED <<cancelled, refunds, intent, captured, refunded, call>>
    BY DEF ForceStatus
  <1>3. row' \in Row /\ row'.status = s
    BY <1>1 DEF PaymentInv, TypeOK, Row
  <1>4. TypeOK'
    BY <1>1, <1>2, <1>3 DEF PaymentInv, TypeOK
  <1>5. ASSUME NEW c \in Calls PROVE Purposeful(call[c])'
    BY <1>1, <1>2 DEF PaymentInv, Purposeful
  <1>6. QED
    BY <1>1, <1>2, <1>3, <1>4, <1>5 DEF PaymentInv, ChargedOnlyIfStarted

-----------------------------------------------------------------------------
(* The sum of the refunds *)

\* When what one call has to record changes, the sums over the sets with that call do.
LEMMA SumChanges ==
  ASSUME TypeOK, TypeOK', NEW sum \in Sums, NEW c \in Calls,
         \A d \in Calls \ {c} : Unrecorded(d)' = Unrecorded(d)
  PROVE  \E next \in Sums' : next[Calls] = sum[Calls] - Unrecorded(c) + Unrecorded(c)'
  <1> DEFINE v    == Unrecorded(c)'
             next == [some \in SUBSET Calls |->
                        IF c \in some THEN sum[some \ {c}] + v ELSE sum[some]]
  <1>1. Unrecorded(c) \in Nat /\ v \in Nat
    BY DEF TypeOK, Unrecorded, Call
  <1>2. /\ sum \in [SUBSET Calls -> Nat] /\ sum[{}] = 0
        /\ \A some \in SUBSET Calls : \A d \in some :
             sum[some] = Unrecorded(d) + sum[some \ {d}]
    BY DEF Sums
  <1> HIDE DEF v
  <1>3. next \in [SUBSET Calls -> Nat] /\ next[{}] = 0
    BY <1>1, <1>2
  <1>4. ASSUME NEW some \in SUBSET Calls, NEW d \in some
        PROVE  next[some] = Unrecorded(d)' + next[some \ {d}]
    <2>1. CASE d = c
      BY <1>1, <1>2, <2>1 DEF v
    <2>2. CASE d # c /\ c \in some
      <3>1. (some \ {c}) \ {d} = (some \ {d}) \ {c}
        OBVIOUS
      <3>2. sum[some \ {c}] = Unrecorded(d) + sum[(some \ {d}) \ {c}]
        BY <1>2, <2>2, <3>1
      <3>3. /\ next[some] = sum[some \ {c}] + v
            /\ next[some \ {d}] = sum[(some \ {d}) \ {c}] + v
        BY <2>2
      <3>4. Unrecorded(d)' = Unrecorded(d) /\ Unrecorded(d) \in Nat
        BY <2>2 DEF TypeOK, Unrecorded, Call
      <3>5. sum[(some \ {d}) \ {c}] \in Nat
        BY <1>2
      <3>6. QED
        BY <1>1, <3>2, <3>3, <3>4, <3>5
    <2>3. CASE c \notin some
      BY <1>2, <2>3
    <2>4. QED
      BY <2>1, <2>2, <2>3
  <1>5. next[Calls] = sum[Calls \ {c}] + v /\ sum[Calls] = Unrecorded(c) + sum[Calls \ {c}]
        /\ sum[Calls \ {c}] \in Nat
    BY <1>2
  <1>6. next \in Sums'
    BY <1>3, <1>4 DEF Sums
  <1> HIDE DEF next
  <1>7. next[Calls] = sum[Calls] - Unrecorded(c) + v
    BY <1>1, <1>5
  <1>8. QED
    BY <1>6, <1>7 DEF v

\* A step in which a call records a refund, is paid one, or has nothing to do with it.
LEMMA StepKeepsBooks ==
  ASSUME BooksInv, TypeOK', NEW c \in Calls, CallStep(c)
  PROVE  BooksInv'
  <1>1. PICK sum \in Sums : refunds + sum[Calls] <= refunded
    BY DEF BooksInv
  <1>2. TypeOK
    BY DEF BooksInv
  <1>3. /\ \A d \in Calls \ {c} : call'[d] = call[d]
        /\ refunded' - refunds' >= refunded - refunds + Unrecorded(c)' - Unrecorded(c)
    <2>1. call[c] \in Call /\ call' \in [Calls -> Call] /\ refunds \in Nat /\ refunded \in Nat
      BY <1>2 DEF TypeOK
    <2>2. ASSUME \/ ReadForIntent(c) \/ CreateIntent(c) \/ StoreIntent(c) \/ ReadForTransition(c)
                 \/ CaptureHold(c) \/ VoidHold(c) \/ WriteTransition(c)
                 \/ ReadForRefund(c) \/ Rollback(c)
          PROVE  /\ call' = [call EXCEPT ![c] = call'[c]]
                 /\ call'[c].pc # "recording" /\ UNCHANGED <<refunds, refunded>>
      <3>1. UNCHANGED <<refunds, refunded>>
        BY <2>2 DEF ReadForIntent, CreateIntent, StoreIntent, ReadForTransition, CaptureHold,
                    VoidHold, WriteTransition, ReadForRefund, Rollback
      <3>2. CASE ReadForIntent(c)
        BY <2>1, <3>1, <3>2 DEF ReadForIntent, Begin, Idle
      <3>3. CASE CreateIntent(c) \/ CaptureHold(c)
        BY <2>1, <3>1, <3>3 DEF CreateIntent, CaptureHold, Call
      <3>4. CASE StoreIntent(c) \/ WriteTransition(c) \/ Rollback(c)
        BY <2>1, <3>1, <3>4 DEF StoreIntent, WriteTransition, Rollback, Idle
      <3>5. CASE ReadForTransition(c)
        <4>1. PICK to \in Targets[row.status], price \in (1..MaxPrice) \union {Estimate} :
                Begin(c, [pc |-> NextOf(to), from |-> row.status, to |-> to, amount |-> price])
          BY <3>5 DEF ReadForTransition
        <4>2. NextOf(to) # "recording"
          BY DEF NextOf
        <4>3. QED
          BY <2>1, <3>1, <4>1, <4>2 DEF Begin
      <3>6. CASE VoidHold(c)
        <4>1. CASE call' = [call EXCEPT ![c].pc = "writing"]
          BY <2>1, <3>1, <4>1 DEF Call
        <4>2. ASSUME NEW amount \in PolicyAmounts, NEW pc \in {"refunding", "writing"},
                     call' = [call EXCEPT ![c].pc = pc, ![c].amount = amount]
              PROVE  call' = [call EXCEPT ![c] = call'[c]] /\ call'[c].pc # "recording"
          BY <2>1, <4>2 DEF Call
        <4>3. QED
          BY <3>1, <3>6, <4>1, <4>2 DEF VoidHold
      <3>7. CASE ReadForRefund(c)
        BY <2>1, <3>1, <3>7 DEF ReadForRefund, Begin, Idle
      <3>8. QED
        BY <2>2, <3>2, <3>3, <3>4, <3>5, <3>6, <3>7
    <2>3. ASSUME call' = [call EXCEPT ![c] = call'[c]], call'[c].pc # "recording",
                 UNCHANGED <<refunds, refunded>>
          PROVE  /\ \A d \in Calls \ {c} : call'[d] = call[d]
                 /\ refunded' - refunds' >= refunded - refunds + Unrecorded(c)' - Unrecorded(c)
      BY <2>1, <2>3 DEF Unrecorded, Call
    <2>4. CASE RefundCancelled(c)
      BY <1>2, <2>1, <2>4 DEF TypeOK, RefundCancelled, Unrecorded, Call
    <2>5. CASE Repay(c)
      BY <1>2, <2>1, <2>5 DEF TypeOK, Repay, Unrecorded, Call
    <2>6. CASE RecordRefund(c)
      BY <1>2, <2>1, <2>6 DEF TypeOK, RecordRefund, Unrecorded, Idle, Call
    <2>7. QED
      BY <2>2, <2>3, <2>4, <2>5, <2>6 DEF CallStep
  <1>4. PICK next \in Sums' : next[Calls] = sum[Calls] - Unrecorded(c) + Unrecorded(c)'
    <2>1. \A d \in Calls \ {c} : Unrecorded(d)' = Unrecorded(d)
      BY <1>3 DEF Unrecorded
    <2>2. QED
      BY <1>2, <2>1, SumChanges
  <1>5. /\ refunds \in Nat /\ refunded \in Nat /\ refunds' \in Nat /\ refunded' \in Nat
        /\ Unrecorded(c) \in Nat /\ Unrecorded(c)' \in Nat
    BY <1>2 DEF TypeOK, Unrecorded, Call
  <1>6. sum[Calls] \in Nat /\ next[Calls] \in Nat
    BY DEF Sums
  <1>7. refunds' + next[Calls] <= refunded'
    BY <1>1, <1>3, <1>4, <1>5, <1>6
  <1>8. QED
    BY <1>7 DEF BooksInv

-----------------------------------------------------------------------------
(* The theorems *)

LEMMA NextPreserves == PaymentInv /\ [Next]_vars => PaymentInv'
  <1> SUFFICES ASSUME PaymentInv, [Next]_vars
               PROVE  PaymentInv'
    OBVIOUS
  <1>1. ASSUME NEW c \in Calls, CallStep(c)
        PROVE  PaymentInv'
    BY <1>1, ReadForIntentStep, CreateIntentStep, StoreIntentStep,
       ReadForTransitionStep, CaptureHoldStep, VoidHoldStep, RefundCancelledStep,
       WriteTransitionStep, ReadForRefundStep, RepayStep, RecordRefundStep, RollbackStep
    DEF CallStep
  <1>2. CASE ConfirmAtStripe
    BY <1>2, ConfirmAtStripeStep
  <1>3. CASE ForceStatus
    BY <1>3, ForceStatusStep
  <1>4. CASE UNCHANGED vars
    BY <1>4
    DEF vars, PaymentInv, TypeOK, ChargedOnlyIfStarted, Purposeful, Undisturbed, Settled, Quiet
  <1>5. QED
    BY <1>1, <1>2, <1>3, <1>4 DEF Next

\* The strengthening holds of every behaviour of create_payment_intent,
\* transition_status and the administrator's refund and force.
THEOREM PaymentInvariant == Spec => []PaymentInv
  <1>1. Init => PaymentInv
    BY InitPaymentInv
  <1>2. PaymentInv /\ [Next]_vars => PaymentInv'
    BY NextPreserves
  <1>3. QED
    BY <1>1, <1>2, PTL DEF Spec

\* Prices stay positive, Stripe's refunds within its charge and the charge
\* within the estimate that was held, whatever the calls did.
THEOREM PaymentTypeCorrect == Spec => []TypeOK
  <1>1. PaymentInv => TypeOK
    BY DEF PaymentInv
  <1>2. QED
    BY <1>1, PaymentInvariant, PTL

\* transition_status captures only what it completes, and a job completes only
\* from IN_PROGRESS: no charge without a job that was begun.
THEOREM NoChargeBeforeStart == Spec => []ChargedOnlyIfStarted
  <1>1. PaymentInv => ChargedOnlyIfStarted
    BY DEF PaymentInv
  <1>2. QED
    BY <1>1, PaymentInvariant, PTL

\* As long as calls come one after the other, none fails and nobody forces a
\* status, the hold, the charge and the refunds follow the status.
THEOREM MoneyFollowsStatus == Spec => []SettlesCleanly
  <1>1. PaymentInv => SettlesCleanly
    <2>1. SUFFICES ASSUME PaymentInv, ~ disturbed, Quiet
                   PROVE  Settled
      BY DEF SettlesCleanly, Settled
    <2>2. QED
      BY <2>1 DEF PaymentInv
  <1>2. QED
    BY <1>1, PaymentInvariant, PTL

\* refund_appointment inserts its row after Stripe has agreed: what the refunds table
\* adds up to was paid, for any number of refunds and cancellations at once.
THEOREM RefundsWerePaid == Spec => []RefundsArePaid
  <1>1. Init => BooksInv
    <2> SUFFICES ASSUME Init PROVE BooksInv
      OBVIOUS
    <2> DEFINE none == [some \in SUBSET Calls |-> 0]
    <2>1. TypeOK
      BY InitPaymentInv DEF PaymentInv
    <2>2. none \in Sums
      BY DEF Init, Sums, Unrecorded, Idle
    <2>3. refunds + none[Calls] <= refunded
      BY DEF Init
    <2>4. QED
      BY <2>1, <2>2, <2>3 DEF BooksInv
  <1>2. BooksInv /\ TypeOK' /\ [Next]_vars => BooksInv'
    <2> SUFFICES ASSUME BooksInv, TypeOK', [Next]_vars PROVE BooksInv'
      OBVIOUS
    <2>1. CASE ConfirmAtStripe \/ ForceStatus \/ UNCHANGED vars
      BY <2>1 DEF ConfirmAtStripe, ForceStatus, vars, BooksInv, Sums, Unrecorded
    <2>2. QED
      BY <2>1, StepKeepsBooks DEF Next
  <1>3. BooksInv => RefundsArePaid
    BY DEF BooksInv, Sums, TypeOK, RefundsArePaid
  <1>4. QED
    BY <1>1, <1>2, <1>3, PaymentTypeCorrect, PTL DEF Spec

=============================================================================
