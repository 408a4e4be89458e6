------------------------------ MODULE Webhooks ------------------------------
(***************************************************************************)
(* POST /webhooks/stripe.  Stripe delivers an event again until a delivery *)
(* is answered with 200, in any order and possibly twice at once.  Each    *)
(* delivery is one transaction: it inserts the event's id into             *)
(* processed_webhooks (ON CONFLICT DO NOTHING, so a second delivery waits  *)
(* for the first one's transaction and then finds the row), runs the       *)
(* handler on the cards or on the provider profile, and commits both       *)
(* together.  A handler that finds nothing to do returns normally and      *)
(* leaves only the id behind.                                              *)
(***************************************************************************)
EXTENDS Naturals, Sequences, FiniteSets, Cards, ProviderProfile

CONSTANTS Deliveries,     \* requests of Stripe that may run at one time
          MaxEvents,      \* bound on the events of a behaviour
          MaxFailures,    \* bound on the deliveries that fail
          NoEvent

ASSUME WebhooksAssumption ==
  /\ Deliveries \subseteq CardCallers \intersect ProfileCallers
  /\ MaxEvents \in Nat /\ MaxFailures \in Nat
  /\ NoEvent \notin 1 .. MaxEvents

VARIABLES stripe,       \* the events Stripe has created, in order
          processed,    \* events with a committed row in processed_webhooks
          effects,      \* how many committed effects each event has had
          delivery,     \* the event each delivery holds the uncommitted row of
          disordered,   \* objects with an event received before an earlier one
          lateLinks,    \* identity sessions linked to the row after a verdict was sent
          failures

hookVars == <<stripe, processed, effects, delivery, disordered, lateLinks, failures>>
webhookVars == <<cardVars, profileVars, hookVars>>

Events == 1 .. MaxEvents
Users  == CardCallers \ Deliveries

CardKinds     == {"attached", "setup_intent", "updated", "detached"}
IdentityKinds == {"verified", "requires_input"}

WebhookInit ==
  /\ CardInit /\ ProfileInit
  /\ stripe = <<>> /\ processed = {} /\ disordered = {} /\ lateLinks = {} /\ failures = 0
  /\ effects = [e \in Events |-> 0]
  /\ delivery = [h \in Deliveries |-> NoEvent]

-----------------------------------------------------------------------------
(* Stripe creates events *)

Emit(events) ==
  /\ Len(stripe) + Len(events) <= MaxEvents
  /\ stripe' = stripe \o events
  /\ UNCHANGED <<processed, effects, delivery, disordered, lateLinks, failures>>

Event(kind, about) == [kind |-> kind, about |-> about]

\* The client confirms a SetupIntent; one event or both are sent.
AttachAtStripe(p) ==
  /\ p \notin attached
  /\ attached' = attached \union {p}
  /\ \/ Emit(<<Event("attached", p)>>)
     \/ Emit(<<Event("attached", p), Event("setup_intent", p)>>)
  /\ UNCHANGED <<cards, cardTxn, cardsOverlap, orphaned, profileVars>>

UpdateAtStripe(p) ==
  /\ p \in attached
  /\ Emit(<<Event("updated", p)>>)
  /\ UNCHANGED <<cardVars, profileVars>>

DetachAtStripe(p) ==
  /\ p \in attached
  /\ attached' = attached \ {p}
  /\ Emit(<<Event("detached", p)>>)
  /\ UNCHANGED <<cards, cardTxn, cardsOverlap, orphaned, profileVars>>

\* Identity asks for another input any number of times before it verifies.
Decide(s, verdict) ==
  /\ s \in minted
  /\ Event("verified", s) \notin { stripe[e] : e \in DOMAIN stripe }
  /\ Len(stripe) < MaxEvents
  /\ stripe' = Append(stripe, Event(verdict, s))
  /\ lateLinks' = IF profile # NoProfile /\ profile.session = s THEN lateLinks
                                                               ELSE lateLinks \union {s}
  /\ UNCHANGED <<processed, effects, delivery, disordered, failures, cardVars, profileVars>>

-----------------------------------------------------------------------------
(* Deliveries *)

EarlierPending(e) ==
  \E f \in 1 .. (e - 1) : stripe[f].about = stripe[e].about /\ f \notin processed

\* Variant: the id is committed on its own, before the handler runs.
ReceiveAndCommit(h, e) ==
  /\ e \in DOMAIN stripe \ processed
  /\ delivery[h] = NoEvent
  /\ delivery' = [delivery EXCEPT ![h] = e]
  /\ processed' = processed \union {e}
  /\ disordered' = IF EarlierPending(e) THEN disordered \union {stripe[e].about} ELSE disordered
  /\ UNCHANGED <<stripe, effects, lateLinks, failures, cardVars, profileVars>>

\* The insert into processed_webhooks succeeds.  It waits while another delivery
\* of the event is open; when the row is there, the answer is 200 at once.
Receive(h, e) ==
  /\ e \in DOMAIN stripe \ processed
  /\ delivery[h] = NoEvent
  /\ \A g \in Deliveries : delivery[g] # e
  /\ delivery' = [delivery EXCEPT ![h] = e]
  /\ disordered' = IF EarlierPending(e) THEN disordered \union {stripe[e].about} ELSE disordered
  /\ UNCHANGED <<stripe, processed, effects, lateLinks, failures, cardVars, profileVars>>

Holds(h, kinds) == delivery[h] # NoEvent /\ stripe[delivery[h]].kind \in kinds
About(h) == stripe[delivery[h]].about

\* The commit of the id, alone or with an effect.
Answer(h, effect) ==
  /\ processed' = processed \union {delivery[h]}
  /\ effects' = [effects EXCEPT ![delivery[h]] = @ + effect]
  /\ delivery' = [delivery EXCEPT ![h] = NoEvent]
  /\ UNCHANGED <<stripe, disordered, lateLinks, failures>>

\* Variant: the id of a failed delivery stays behind.
GiveUpKeepingId(h) ==
  /\ delivery' = [delivery EXCEPT ![h] = NoEvent]
  /\ processed' = processed \union {delivery[h]}
  /\ UNCHANGED <<stripe, effects, disordered, lateLinks>>

\* The transaction of the delivery is gone, and its id with it.
GiveUp(h) ==
  /\ delivery' = [delivery EXCEPT ![h] = NoEvent]
  /\ UNCHANGED <<stripe, processed, effects, disordered, lateLinks>>

\* _handle_payment_method_upsert up to its first statement.
BeginUpsert(h) ==
  /\ Holds(h, {"attached", "setup_intent", "updated"})
  /\ ReadSnapshot(h, About(h))
  /\ UNCHANGED <<hookVars, profileVars>>

\* The setup intent names the card only by id and the adapter fails to fetch it:
\* the handler logs and returns, and the event counts as processed.
LoseSetupIntent(h) ==
  /\ Holds(h, {"setup_intent"})
  /\ cardTxn[h].pc = "idle"
  /\ Answer(h, 0)
  /\ UNCHANGED <<cardVars, profileVars>>

BeginDetached(h) ==
  /\ Holds(h, {"detached"})
  /\ BeginDetach(h, About(h))
  /\ UNCHANGED <<hookVars, profileVars>>

\* The statement of the handler; a unique index that refuses it is a 500.
WriteMirror(h) ==
  /\ Holds(h, CardKinds)
  /\ InsertCard(h) \/ UpdateCard(h) \/ DetachCard(h)
  /\ IF cardTxn'[h].pc = "idle" THEN GiveUp(h) /\ UNCHANGED failures
                                ELSE UNCHANGED hookVars
  /\ UNCHANGED profileVars

CommitMirror(h) ==
  /\ Holds(h, CardKinds)
  /\ CommitCard(h, {})
  /\ Answer(h, 1)
  /\ UNCHANGED profileVars

\* _handle_identity_verified and _handle_identity_requires_input: the row linked
\* to the session, if there is one by now.
HandleVerdict(h) ==
  /\ Holds(h, IdentityKinds)
  /\ profile # NoProfile
  /\ IF stripe[delivery[h]].kind = "verified" THEN ApproveIdentity(h, About(h))
                                              ELSE RejectIdentity(h, About(h))
  /\ UNCHANGED <<hookVars, cardVars>>

\* Variant: a verdict for a session nobody linked is an error.
RefuseVerdict(h) ==
  /\ Holds(h, IdentityKinds)
  /\ profileTxn[h] = NoProfile
  /\ profile # NoProfile => profile.session # About(h)
  /\ GiveUp(h)
  /\ UNCHANGED <<failures, cardVars, profileVars>>

\* No row is linked to the session: nothing but the id is kept.
DropVerdict(h) ==
  /\ Holds(h, IdentityKinds)
  /\ profileTxn[h] = NoProfile
  /\ profile # NoProfile => profile.session # About(h)
  /\ Answer(h, 0)
  /\ UNCHANGED <<cardVars, profileVars>>

CommitVerdict(h) ==
  /\ Holds(h, IdentityKinds)
  /\ CommitProfile(h)
  /\ Answer(h, 1)
  /\ UNCHANGED cardVars

\* An exception in the handler or the end of the process: Stripe tries again.
FailDelivery(h) ==
  /\ delivery[h] # NoEvent
  /\ failures < MaxFailures
  /\ failures' = failures + 1
  /\ GiveUp(h)
  /\ cardTxn' = [cardTxn EXCEPT ![h] = Mirror!Idle]
  /\ profileTxn' = [profileTxn EXCEPT ![h] = NoProfile]
  /\ UNCHANGED <<cards, cardsOverlap, attached, orphaned, profile, minted, excused>>

-----------------------------------------------------------------------------
(* The user's own requests *)

CommitUserCard(u) ==
  /\ \/ CommitCard(u, {}) /\ UNCHANGED hookVars
     \/ /\ CommitCard(u, {cardTxn[u].row})
        /\ Emit(<<Event("detached", cardTxn[u].row)>>)
  /\ UNCHANGED profileVars

UseCards(u) ==
  /\ \/ ReadDefaultTarget(u) \/ PivotDefault(u)
     \/ ReadCardToDelete(u) \/ SoftDeleteCard(u) \/ ReplaceDefault(u)
     \/ AbortCard(u)
  /\ UNCHANGED <<hookVars, profileVars>>

UseProfile(u) ==
  /\ \/ Activate \/ CreateProfile \/ Onboard \/ CommitProfile(u) \/ AbortProfile(u)
     \/ \E s \in VerificationSessions : MintOnly(s)
     \/ /\ profile # NoProfile
        /\ \/ \E b \in BOOLEAN : SetAccepting(u, b) \/ PatchProfile(u, b) \/ ToggleStatus(u, b)
           \/ Deactivate(u)
           \/ \E s \in VerificationSessions : StartVerification(u, s)
           \/ AdminVerdict(u)
           \/ SubmitApplication(u) \/ ApproveDetailer(u) \/ SuspendDetailer(u)
  /\ UNCHANGED <<hookVars, cardVars>>

\* POST /detailers/verification/submit, with or without a session.
SubmitVerification(u, s) ==
  /\ SubmitDetails(u, s) \/ (s = NoProfile /\ BypassVerification(u))
  /\ lateLinks' = IF \E e \in DOMAIN stripe : stripe[e].about = s
                  THEN lateLinks \union {s} ELSE lateLinks
  /\ UNCHANGED <<stripe, processed, effects, delivery, disordered, failures, cardVars>>

-----------------------------------------------------------------------------

StripeNext ==
  \/ \E p \in CardIds : AttachAtStripe(p) \/ UpdateAtStripe(p) \/ DetachAtStripe(p)
  \/ \E s \in VerificationSessions, v \in IdentityKinds : Decide(s, v)

DeliveryStep(h) ==
  \/ \E e \in Events : Receive(h, e)
  \/ BeginUpsert(h) \/ BeginDetached(h) \/ WriteMirror(h) \/ CommitMirror(h)
  \/ HandleVerdict(h) \/ DropVerdict(h) \/ CommitVerdict(h)

UserStep(u) == UseCards(u) \/ CommitUserCard(u)

UserNext ==
  \/ \E u \in Users : UserStep(u)
  \/ \E u \in ProfileCallers \ Deliveries :
       \/ UseProfile(u)
       \/ \E s \in VerificationSessions \union {NoProfile} : SubmitVerification(u, s)

DeliveryNext ==
  \E h \in Deliveries : DeliveryStep(h) \/ LoseSetupIntent(h) \/ FailDelivery(h)

WebhookNext == StripeNext \/ DeliveryNext \/ UserNext

WebhookSpec == WebhookInit /\ [][WebhookNext]_webhookVars

-----------------------------------------------------------------------------
(* Properties *)

Once == INSTANCE OnceOnly WITH Events <- Events, processed <- processed, effects <- effects

\* Duplicated, concurrent and failed deliveries notwithstanding, an event has at
\* most one effect, and it commits together with the event's id.
DeliveriesImplementOnce == Once!Spec

\* What makes it so: a delivery holds the id of an event nobody has processed
\* and no other delivery holds, and only a processed event has had an effect.
HookInv ==
  /\ processed \subseteq Events
  /\ effects \in [Events -> {0, 1}]
  /\ delivery \in [Deliveries -> Events \union {NoEvent}]
  /\ \A e \in Events : e \notin processed => effects[e] = 0
  /\ \A h \in Deliveries : delivery[h] \notin processed
  /\ \A g, h \in Deliveries : delivery[g] = delivery[h] /\ delivery[h] # NoEvent => g = h

\* Every event processed, nothing in flight.
AtRest ==
  /\ processed = DOMAIN stripe
  /\ \A c \in CardCallers : cardTxn[c].pc = "idle"
  /\ \A c \in ProfileCallers : profileTxn[c] = NoProfile

\* A card that is gone at Stripe is gone in the app once every event is
\* processed, also when a late update revived it in between: if the events of
\* the card came in order.  This is the re-convergence delete relies on.
DetachedIsGone == AtRest => ActiveCards \ disordered \subseteq attached

Verified == { s \in VerificationSessions :
                \E e \in DOMAIN stripe : stripe[e] = Event("verified", s) }

\* "KYC enforcement": a detailer clients can find is approved, and Stripe has verified
\* a session of theirs, over any sequence of starting, submitting, verdicts, pauses
\* and edits, whatever the calls and deliveries in flight still have to write: as long
\* as nobody used a route without the gate or submitted without a session, no
\* administrator decided and no two calls overlapped.
VisibleIsApproved ==
  ~ excused /\ profile # NoProfile /\ profile.active
    => profile.status = "approved" /\ Verified # {}

\* "Mark detailer as approved when Stripe verifies their identity", as far as it
\* goes: if the session was linked before its first verdict, and
\* its verdicts were received in order, whatever deliveries failed on the way.
VerdictStands ==
  AtRest /\ ~ excused /\ profile # NoProfile
         /\ profile.session \in Verified \ (lateLinks \union disordered)
    => profile.status = "approved"

\* Every event is processed in the end, although deliveries fail, wait for each
\* other's rows and are refused by the unique indexes, unless a deletion that
\* met another call has left a deleted default row behind.
EventsAbsorbed == []<>(processed = DOMAIN stripe \/ cardsOverlap)

-----------------------------------------------------------------------------
(* The inductive invariants behind the properties of cards and verdicts *)

Sent(e, kinds, x) == /\ e \in DOMAIN stripe
                     /\ stripe[e].kind \in kinds /\ stripe[e].about = x

\* A detailer's session is asked about while it is linked, and never again after it
\* is verified.
EventsTyped ==
  /\ stripe \in Seq([kind : CardKinds \union IdentityKinds, about : CardIds \union VerificationSessions])
  /\ DOMAIN stripe \subseteq Events
  /\ \A e \in DOMAIN stripe :
       /\ stripe[e].kind \in CardKinds => stripe[e].about \in CardIds
       /\ stripe[e].kind \in IdentityKinds => stripe[e].about \in minted
  /\ \A e, f \in DOMAIN stripe :
       stripe[e].kind = "verified" /\ Sent(f, IdentityKinds, stripe[e].about) => f <= e
  /\ minted \subseteq VerificationSessions /\ attached \subseteq CardIds
  /\ processed \subseteq DOMAIN stripe
  /\ \A h \in Deliveries : delivery[h] \in DOMAIN stripe \union {NoEvent}

\* What is received in order is received after everything earlier is processed.
InOrder ==
  \A e \in DOMAIN stripe :
    /\ e \in processed \/ \E h \in Deliveries : delivery[h] = e
    /\ stripe[e].about \notin disordered
    => \A f \in 1 .. (e - 1) : stripe[f].about = stripe[e].about => f \in processed

EventInv == EventsTyped /\ InOrder

\* No approval, in the row or on the way there, is older than Stripe's.
ByStripe ==
  ~ excused /\ Verified = {} =>
    /\ profile # NoProfile => profile.status # "approved"
    /\ \A c \in ProfileCallers : profileTxn[c] # NoProfile => profileTxn[c].status # "approved"

\* A session that has left the row does not come back unnoticed, so that the row it
\* is linked to is the one every verdict about it met.
Linked ==
  /\ profile # NoProfile => profile.session # Same
  /\ \A c \in ProfileCallers : profileTxn[c] # NoProfile =>
       /\ profileTxn[c].session # profile.session
       /\ \A s \in VerificationSessions \ lateLinks :
            (\E e \in DOMAIN stripe : Sent(e, IdentityKinds, s)) => profileTxn[c].session # s

\* A delivery that has found the row is about to write its verdict there.
Verdict(h) ==
  profileTxn[h] # NoProfile =>
    /\ profileTxn[h].session = Same /\ profile.session = About(h)
    /\ stripe[delivery[h]].kind = "verified" => Merged(profileTxn[h]).status = "approved"

\* Once the verification of the linked session is processed the row is approved, and
\* whatever is still to be written leaves it so.
Approved ==
  \A e \in processed :
    /\ profile # NoProfile
    /\ stripe[e] = Event("verified", profile.session)
    /\ profile.session \in VerificationSessions \ (lateLinks \union disordered)
    => /\ profile.status = "approved"
       /\ \A c \in ProfileCallers : profileTxn[c] # NoProfile /\ profileTxn[c].session = Same
            => Merged(profileTxn[c]).status = "approved"

VerdictInv ==
  /\ \A h \in Deliveries : profileTxn[h] # NoProfile => Holds(h, IdentityKinds)
  /\ ~ excused => Linked /\ Approved /\ \A h \in Deliveries : Verdict(h)

\* One default card, and none without it; see DefaultFlag.
DefaultInv == /\ Mirror!FlagInv
              /\ ~ cardsOverlap /\ ~ orphaned => Mirror!DefaultHeld

\* A delivery works on its own card; only deliveries bring a card in or back.
Serving(h) ==
  cardTxn[h].pc # "idle" =>
    /\ Holds(h, CardKinds) /\ cardTxn[h].row = About(h)
    /\ Mirror!Held(h) \subseteq {About(h)}
    /\ cardTxn[h].pc \in {"new", "existing"} => ~ Holds(h, {"detached"})

Sparing(u) ==
  \A p \in Mirror!Held(u) :
    p \in ActiveCards \/ (cards[p] # NoCard /\ cardTxn[u].writes[p].deleted)

\* The last event about a card tells whether it is attached; a card is in the app
\* only after an event about it.
LastSent(e, p) == /\ Sent(e, CardKinds, p)
                  /\ \A f \in DOMAIN stripe : Sent(f, CardKinds, p) => f <= e

Told ==
  \A p \in CardIds :
    \/ /\ cards[p] = NoCard /\ p \notin attached
       /\ \A e \in DOMAIN stripe : ~ Sent(e, CardKinds, p)
    \/ \E e \in DOMAIN stripe :
         LastSent(e, p) /\ (p \notin attached => stripe[e].kind = "detached")

\* A detachment received in order has removed the card, or is about to.
Gone ==
  \A p \in CardIds \ disordered : \A e \in DOMAIN stripe :
    Sent(e, {"detached"}, p) =>
      /\ e \in processed /\ LastSent(e, p) => p \notin ActiveCards
      /\ \A h \in Deliveries :
           delivery[h] = e /\ cardTxn[h].pc = "done" => p \notin Mirror!Active(h)

CardInv == /\ \A h \in Deliveries : Serving(h)
           /\ \A u \in Users : Sparing(u)
           /\ Told
           /\ Gone

=============================================================================
