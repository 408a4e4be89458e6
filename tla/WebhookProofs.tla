---------------------------- MODULE WebhookProofs ----------------------------
(***************************************************************************)
(* Proofs about Webhooks and, through it, about Cards and ProviderProfile, *)
(* for any number of events, deliveries, callers, cards and verification   *)
(* sessions.  HookInv carries the refinement of OnceOnly, ProfileInv whom  *)
(* clients can find, EventInv and VerdictInv that a verification stands,   *)
(* DefaultInv the default card and CardInv that detached cards go.  The    *)
(* lemmas about one table with a default row are those of                  *)
(* DefaultFlagProofs, cited through Mirror.                                *)
(***************************************************************************)
EXTENDS Webhooks, TLAPS

dedupVars == <<processed, effects, delivery>>

\* All that a step does to the ids and effects: nothing, an insert of an id, a
\* commit of it with or without an effect, or a rollback.
Insert(h, e) ==
  /\ e \notin processed /\ delivery[h] = NoEvent
  /\ \A g \in Deliveries : delivery[g] # e
  /\ delivery' = [delivery EXCEPT ![h] = e]
  /\ UNCHANGED <<processed, effects>>

CommitId(h, effect) ==
  /\ delivery[h] # NoEvent
  /\ processed' = processed \union {delivery[h]}
  /\ effects' = [effects EXCEPT ![delivery[h]] = @ + effect]
  /\ delivery' = [delivery EXCEPT ![h] = NoEvent]

DropId(h) ==
  /\ delivery' = [delivery EXCEPT ![h] = NoEvent]
  /\ UNCHANGED <<processed, effects>>

DedupStep ==
  \/ UNCHANGED dedupVars
  \/ \E h \in Deliveries :
       \/ \E e \in Events : Insert(h, e)
       \/ \E effect \in {0, 1} : CommitId(h, effect)
       \/ DropId(h)

\* Stripe's and the users' requests touch neither ids nor effects.
LEMMA OthersStutter == StripeNext \/ UserNext => UNCHANGED dedupVars
  <1>1. StripeNext => UNCHANGED dedupVars
    BY DEF StripeNext, AttachAtStripe, UpdateAtStripe, DetachAtStripe, Decide, Emit, dedupVars
  <1>2. ASSUME NEW u, UserStep(u) PROVE UNCHANGED dedupVars
    BY <1>2 DEF UserStep, UseCards, CommitUserCard, Emit, hookVars, dedupVars
  <1>3. ASSUME NEW u, UseProfile(u) PROVE UNCHANGED dedupVars
    BY <1>3 DEF UseProfile, hookVars, dedupVars
  <1>4. ASSUME NEW u, NEW s, SubmitVerification(u, s) PROVE UNCHANGED dedupVars
    BY <1>4 DEF SubmitVerification, dedupVars
  <1>5. QED
    BY <1>1, <1>2, <1>3, <1>4 DEF UserNext

\* Of the steps of the deliveries, Receive takes a free id, Commit lets the id and
\* the effect in together, and the rest leave both alone or give the id back.
LEMMA DeliveriesDedup == ASSUME DeliveryNext PROVE DedupStep
  <1>1. PICK h \in Deliveries : DeliveryStep(h) \/ LoseSetupIntent(h) \/ FailDelivery(h)
    BY DEF DeliveryNext
  <1>2. CASE \E e \in Events : Receive(h, e)
    BY <1>2 DEF Receive, DedupStep, Insert
  <1>3. CASE BeginUpsert(h) \/ BeginDetached(h) \/ HandleVerdict(h)
    BY <1>3 DEF BeginUpsert, BeginDetached, HandleVerdict, hookVars, DedupStep, dedupVars
  <1>4. CASE WriteMirror(h)
    <2>1. (GiveUp(h) /\ UNCHANGED failures) \/ UNCHANGED hookVars
      BY <1>4 DEF WriteMirror
    <2>2. QED
      BY <2>1 DEF GiveUp, hookVars, DedupStep, DropId, dedupVars
  <1>5. CASE LoseSetupIntent(h) \/ DropVerdict(h)
    BY <1>5 DEF LoseSetupIntent, DropVerdict, Holds, Answer, DedupStep, CommitId
  <1>6. CASE CommitMirror(h) \/ CommitVerdict(h)
    BY <1>6 DEF CommitMirror, CommitVerdict, Holds, Answer, DedupStep, CommitId
  <1>7. CASE FailDelivery(h)
    BY <1>7 DEF FailDelivery, GiveUp, DedupStep, DropId
  <1>8. QED
    BY <1>1, <1>2, <1>3, <1>4, <1>5, <1>6, <1>7 DEF DeliveryStep

\* These kinds of steps keep the invariant.
LEMMA DedupPreserves == ASSUME HookInv, DedupStep PROVE HookInv'
  <1>1. NoEvent \notin Events /\ NoEvent \notin processed
    BY WebhooksAssumption DEF Events, HookInv
  <1>2. CASE UNCHANGED dedupVars
    BY <1>2 DEF HookInv, dedupVars
  <1>3. ASSUME NEW h \in Deliveries, NEW e \in Events, Insert(h, e) PROVE HookInv'
    BY <1>1, <1>3 DEF HookInv, Insert
  <1>4. ASSUME NEW h \in Deliveries, NEW effect \in {0, 1}, CommitId(h, effect) PROVE HookInv'
    <2> DEFINE e == delivery[h]
    <2>1. e \in Events /\ e \notin processed /\ effects[e] = 0
      BY <1>4 DEF HookInv, CommitId
    <2>2. /\ effects' \in [Events -> {0, 1}]
          /\ \A f \in Events \ {e} : effects'[f] = effects[f]
          /\ processed' = processed \union {e}
      BY <1>4, <2>1 DEF HookInv, CommitId
    <2>3. /\ delivery' \in [Deliveries -> Events \union {NoEvent}] /\ delivery'[h] = NoEvent
          /\ \A g \in Deliveries \ {h} : delivery'[g] = delivery[g] /\ delivery[g] # e
      BY <1>4 DEF HookInv, CommitId
    <2>4. QED
      BY <1>1, <2>1, <2>2, <2>3 DEF HookInv
  <1>5. ASSUME NEW h \in Deliveries, DropId(h) PROVE HookInv'
    BY <1>1, <1>5 DEF HookInv, DropId
  <1>6. QED
    BY <1>2, <1>3, <1>4, <1>5 DEF DedupStep

\* Every step of the specification is of one of these kinds.
LEMMA EveryStepDedup == [WebhookNext]_webhookVars => DedupStep
  <1>1. UNCHANGED webhookVars => UNCHANGED dedupVars
    BY DEF webhookVars, hookVars, dedupVars
  <1>2. QED
    BY <1>1, OthersStutter, DeliveriesDedup DEF WebhookNext, DedupStep

\* The invariant holds at the start and after every step.
THEOREM HookInvariant == WebhookSpec => []HookInv
  <1>1. WebhookInit => HookInv
    BY WebhooksAssumption DEF WebhookInit, HookInv, Events
  <1>2. HookInv /\ [WebhookNext]_webhookVars => HookInv'
    BY EveryStepDedup, DedupPreserves
  <1>3. QED
    BY <1>1, <1>2, PTL DEF WebhookSpec

\* An event has at most one effect, and it commits together with the event's
\* id, however often, at once or in vain the event is delivered.
THEOREM Deduplication == WebhookSpec => DeliveriesImplementOnce
  <1>1. WebhookInit => Once!Init
    BY DEF WebhookInit, Once!Init
  <1>2. HookInv /\ [WebhookNext]_webhookVars => [Once!Next]_<<processed, effects>>
    <2> SUFFICES ASSUME HookInv, DedupStep PROVE [Once!Next]_<<processed, effects>>
      BY EveryStepDedup
    <2>1. ASSUME NEW h \in Deliveries, NEW effect \in {0, 1}, CommitId(h, effect)
          PROVE  Once!Process(delivery[h]) /\ delivery[h] \in Events
      <3>1. delivery[h] \in Events /\ delivery[h] \notin processed
        BY <2>1 DEF HookInv, CommitId
      <3>2. effect = 0 => effects' = effects
        BY <2>1, <3>1 DEF HookInv, CommitId
      <3>3. QED
        BY <2>1, <3>1, <3>2 DEF CommitId, Once!Process
    <2>2. QED
      BY <2>1 DEF DedupStep, Insert, DropId, dedupVars, Once!Next
  <1>3. QED
    BY <1>1, <1>2, HookInvariant, PTL DEF WebhookSpec, DeliveriesImplementOnce, Once!Spec

-----------------------------------------------------------------------------
(* The events *)

AllEvents == [kind : CardKinds \union IdentityKinds, about : CardIds \union VerificationSessions]

\* Stripe has sent one or two more events about x; those sent before stay.
Grown(kinds, x) ==
  /\ stripe' \in Seq(AllEvents) /\ DOMAIN stripe' \subseteq Events
  /\ \A e \in DOMAIN stripe : e \in DOMAIN stripe' /\ stripe'[e] = stripe[e]
  /\ \A e \in DOMAIN stripe' \ DOMAIN stripe :
       /\ stripe'[e].kind \in kinds /\ stripe'[e].about = x
       /\ \A f \in DOMAIN stripe : f < e
  /\ \E e \in DOMAIN stripe' \ DOMAIN stripe : \A f \in DOMAIN stripe' : f <= e

\* What appending does to a sequence.
LEMMA Appending ==
  ASSUME NEW S, NEW old \in Seq(S), NEW new \in Seq(S)
  PROVE  /\ old \o new \in Seq(S)
         /\ Len(old \o new) = Len(old) + Len(new)
         /\ DOMAIN old = 1 .. Len(old) /\ DOMAIN (old \o new) = 1 .. (Len(old) + Len(new))
         /\ \A e \in DOMAIN old : (old \o new)[e] = old[e]
         /\ \A e \in DOMAIN (old \o new) \ DOMAIN old :
              e - Len(old) \in 1 .. Len(new) /\ (old \o new)[e] = new[e - Len(old)]
         /\ Len(old) \in Nat /\ Len(new) \in Nat
  OBVIOUS

\* The elements of a sequence.
LEMMA Elements ==
  ASSUME NEW S, NEW s \in Seq(S)
  PROVE  /\ DOMAIN s = 1 .. Len(s) /\ Len(s) \in Nat
         /\ \A i \in DOMAIN s : s[i] \in S
  OBVIOUS

\* The events sent are events.
LEMMA EventTypes ==
  ASSUME EventsTyped
  PROVE  /\ stripe \in Seq(AllEvents)
         /\ DOMAIN stripe = 1 .. Len(stripe) /\ Len(stripe) \in Nat
         /\ \A e \in DOMAIN stripe : stripe[e] \in AllEvents
  <1>1. stripe \in Seq(AllEvents)
    BY DEF EventsTyped, AllEvents
  <1>2. QED
    BY <1>1, Elements

\* Appending events of these kinds about x.
LEMMA Growing ==
  ASSUME EventsTyped, NEW kinds, NEW x, NEW new \in Seq(AllEvents), stripe' = stripe \o new,
         Len(new) > 0, Len(stripe) + Len(new) <= MaxEvents,
         \A i \in 1 .. Len(new) : new[i].kind \in kinds /\ new[i].about = x
  PROVE  Grown(kinds, x)
  <1>1. stripe \in Seq(AllEvents)
    BY DEF EventsTyped, AllEvents
  <1>2. /\ stripe' \in Seq(AllEvents)
        /\ DOMAIN stripe = 1 .. Len(stripe) /\ DOMAIN stripe' = 1 .. (Len(stripe) + Len(new))
        /\ \A e \in DOMAIN stripe : stripe'[e] = stripe[e]
        /\ \A e \in DOMAIN stripe' \ DOMAIN stripe :
              e - Len(stripe) \in 1 .. Len(new) /\ stripe'[e] = new[e - Len(stripe)]
        /\ Len(stripe) \in Nat /\ Len(new) \in Nat
    BY <1>1, Appending
  <1>3. \A e \in DOMAIN stripe' \ DOMAIN stripe :
          stripe'[e].kind \in kinds /\ stripe'[e].about = x
    BY <1>2
  <1>4. \A e \in DOMAIN stripe' \ DOMAIN stripe : \A f \in DOMAIN stripe : f < e
    BY <1>2
  <1>5. \A e \in DOMAIN stripe : e \in DOMAIN stripe'
    BY <1>2
  <1>6. /\ Len(stripe) + Len(new) \in DOMAIN stripe' \ DOMAIN stripe
        /\ \A f \in DOMAIN stripe' : f <= Len(stripe) + Len(new)
    BY <1>2
  <1>7. DOMAIN stripe' \subseteq Events
    BY <1>2, WebhooksAssumption DEF Events
  <1>8. QED
    BY <1>2, <1>3, <1>4, <1>5, <1>6, <1>7 DEF Grown

\* The events of one card, one at a time or the pair of a confirmed SetupIntent.
LEMMA Emitting ==
  ASSUME EventsTyped, NEW p \in CardIds, NEW k \in CardKinds,
         \/ Emit(<<Event(k, p)>>)
         \/ k = "attached" /\ Emit(<<Event(k, p), Event("setup_intent", p)>>)
  PROVE  Grown({k, IF k = "attached" THEN "setup_intent" ELSE k}, p)
  <1> DEFINE x == Event(k, p)
             y == Event("setup_intent", p)
  <1>1. x \in AllEvents /\ y \in AllEvents
    BY DEF AllEvents, Event, CardKinds
  <1>2. x.kind = k /\ x.about = p /\ y.kind = "setup_intent" /\ y.about = p
    BY DEF Event
  <1> HIDE DEF x, y
  <1>3. CASE Emit(<<x>>)
    <2>1. <<x>> \in Seq(AllEvents) /\ Len(<<x>>) = 1 /\ <<x>>[1] = x
      BY <1>1
    <2>2. \A i \in 1 .. Len(<<x>>) : /\ <<x>>[i].kind \in {k, IF k = "attached" THEN "setup_intent" ELSE k}
                                     /\ <<x>>[i].about = p
      BY <1>2, <2>1
    <2>3. stripe' = stripe \o <<x>>
      BY <1>3 DEF Emit
    <2>4. Len(<<x>>) > 0 /\ Len(stripe) + Len(<<x>>) <= MaxEvents
      BY <1>3, <2>1 DEF Emit
    <2>5. QED
      BY <2>1, <2>2, <2>3, <2>4, Growing
  <1>4. CASE k = "attached" /\ Emit(<<x, y>>)
    <2>1. <<x, y>> \in Seq(AllEvents) /\ Len(<<x, y>>) = 2 /\ <<x, y>>[1] = x /\ <<x, y>>[2] = y
      BY <1>1
    <2>2. \A i \in 1 .. Len(<<x, y>>) : /\ <<x, y>>[i].kind \in {k, IF k = "attached" THEN "setup_intent" ELSE k}
                                        /\ <<x, y>>[i].about = p
      BY <1>2, <1>4, <2>1
    <2>3. stripe' = stripe \o <<x, y>>
      BY <1>4 DEF Emit
    <2>4. Len(<<x, y>>) > 0 /\ Len(stripe) + Len(<<x, y>>) <= MaxEvents
      BY <1>4, <2>1 DEF Emit
    <2>5. QED
      BY <2>1, <2>2, <2>3, <2>4, Growing
  <1>5. QED
    BY <1>3, <1>4 DEF x, y

\* A verdict about a session Stripe has created.
LEMMA Deciding ==
  ASSUME EventsTyped, NEW s, NEW v \in IdentityKinds, Decide(s, v)
  PROVE  /\ Grown({v}, s) /\ s \in minted
         /\ \A e, f \in DOMAIN stripe' \ DOMAIN stripe : e = f
         /\ \A e \in DOMAIN stripe : ~ Sent(e, {"verified"}, s)
         /\ UNCHANGED <<processed, delivery, disordered, minted, attached>>
  <1> DEFINE x == Event(v, s)
  <1>1. x \in AllEvents /\ x.kind = v /\ x.about = s
    BY DEF AllEvents, Event, EventsTyped, Decide
  <1>2. Event("verified", s) \notin { stripe[e] : e \in DOMAIN stripe }
    BY DEF Decide
  <1>3. ASSUME NEW e \in DOMAIN stripe, stripe[e].kind = "verified", stripe[e].about = s
        PROVE  FALSE
    <2>1. stripe[e] \in AllEvents
      BY EventTypes
    <2>2. stripe[e] = Event("verified", s)
      BY <1>3, <2>1 DEF AllEvents, Event
    <2>3. QED
      BY <1>2, <2>2
  <1>4. stripe' = Append(stripe, x)
    BY DEF Decide
  <1> HIDE DEF x
  <1>5. /\ <<x>> \in Seq(AllEvents) /\ Len(<<x>>) = 1 /\ <<x>>[1] = x
        /\ stripe \in Seq(AllEvents)
    BY <1>1 DEF EventsTyped, AllEvents
  <1>6. stripe' = stripe \o <<x>>
    BY <1>1, <1>4, <1>5
  <1>7. Grown({v}, s)
    <2>1. \A i \in 1 .. Len(<<x>>) : <<x>>[i].kind \in {v} /\ <<x>>[i].about = s
      BY <1>1, <1>5
    <2>2. Len(<<x>>) > 0 /\ Len(stripe) + Len(<<x>>) <= MaxEvents
      BY <1>5, EventTypes, WebhooksAssumption DEF Decide
    <2>3. QED
      BY <1>5, <1>6, <2>1, <2>2, Growing
  <1>8. \A e, f \in DOMAIN stripe' \ DOMAIN stripe : e = f
    BY <1>5, <1>6, Appending
  <1>9. QED
    BY <1>3, <1>7, <1>8 DEF Decide, Sent, profileVars, cardVars

\* Nothing but more events: about a card, or a verdict on a session that has none.
News ==
  /\ \E kinds, x :
       /\ Grown(kinds, x)
       /\ \/ kinds \subseteq CardKinds /\ x \in CardIds
          \/ /\ kinds \subseteq IdentityKinds /\ x \in minted
             /\ \A e \in DOMAIN stripe : ~ Sent(e, {"verified"}, x)
             /\ \A e, f \in DOMAIN stripe' \ DOMAIN stripe : e = f
  /\ UNCHANGED <<processed, delivery, disordered, minted>>

\* Nothing about the events: a delivery commits or drops its id, or nothing at all.
Served ==
  /\ UNCHANGED <<stripe, disordered>>
  /\ minted \subseteq minted' /\ minted' \subseteq VerificationSessions
  /\ \/ UNCHANGED <<processed, delivery>>
     \/ \E h \in Deliveries : DropId(h) \/ \E effect \in {0, 1} : CommitId(h, effect)

\* More events leave the earlier ones in order.
LEMMA NewsKeepsEvents ==
  ASSUME EventInv, News, attached' \subseteq CardIds PROVE EventInv'
  <1>1. PICK kinds, x :
          /\ Grown(kinds, x)
          /\ \/ kinds \subseteq CardKinds /\ x \in CardIds
             \/ /\ kinds \subseteq IdentityKinds /\ x \in minted
                /\ \A e \in DOMAIN stripe : ~ Sent(e, {"verified"}, x)
                /\ \A e, f \in DOMAIN stripe' \ DOMAIN stripe : e = f
    BY DEF News
  <1>2. /\ UNCHANGED <<processed, delivery, disordered, minted>>
        /\ EventsTyped /\ InOrder
    BY DEF News, EventInv
  <1>3. CardKinds \intersect IdentityKinds = {} /\ "verified" \notin CardKinds
    BY DEF CardKinds, IdentityKinds
  <1>4. /\ DOMAIN stripe \subseteq DOMAIN stripe' /\ DOMAIN stripe' \subseteq Nat
        /\ \A e \in DOMAIN stripe : stripe'[e] = stripe[e]
        /\ \A e \in DOMAIN stripe' \ DOMAIN stripe :
             stripe'[e].kind \in kinds /\ stripe'[e].about = x /\ \A f \in DOMAIN stripe : f < e
    BY <1>1, Elements DEF Grown
  <1>5. \A e \in DOMAIN stripe' :
          /\ stripe'[e].kind \in CardKinds => stripe'[e].about \in CardIds
          /\ stripe'[e].kind \in IdentityKinds => stripe'[e].about \in minted
    BY <1>1, <1>2, <1>3, <1>4 DEF EventsTyped
  <1>6. ASSUME NEW e \in DOMAIN stripe', NEW f \in DOMAIN stripe',
               stripe'[e].kind = "verified", stripe'[f].kind \in IdentityKinds,
               stripe'[f].about = stripe'[e].about
        PROVE  f <= e
    <2>1. CASE e \in DOMAIN stripe /\ f \in DOMAIN stripe
      BY <1>2, <1>4, <1>6, <2>1 DEF EventsTyped, Sent
    <2>2. CASE e \in DOMAIN stripe /\ f \notin DOMAIN stripe
      BY <1>1, <1>3, <1>4, <1>6, <2>2 DEF Sent
    <2>3. CASE e \notin DOMAIN stripe /\ f \in DOMAIN stripe
      BY <1>4, <1>6, <2>3
    <2>4. CASE e \notin DOMAIN stripe /\ f \notin DOMAIN stripe
      <3>1. e = f
        BY <1>1, <1>3, <1>4, <1>6, <2>4
      <3>2. QED
        BY <1>4, <3>1
    <2>5. QED
      BY <2>1, <2>2, <2>3, <2>4
  <1>7. EventsTyped'
    BY <1>1, <1>2, <1>4, <1>5, <1>6 DEF EventsTyped, Sent, Grown, AllEvents
  <1>8. ASSUME NEW e \in DOMAIN stripe', NEW f \in 1 .. (e - 1),
               e \in processed \/ \E h \in Deliveries : delivery[h] = e,
               stripe'[e].about \notin disordered, stripe'[f].about = stripe'[e].about
        PROVE  f \in processed
    <2>1. e \in DOMAIN stripe
      BY <1>1, <1>2, <1>8, WebhooksAssumption DEF EventsTyped, Grown, Events
    <2>2. f \in DOMAIN stripe
      BY <1>2, <2>1, EventTypes
    <2>3. QED
      BY <1>2, <1>4, <1>8, <2>1, <2>2 DEF InOrder
  <1>9. QED
    BY <1>2, <1>7, <1>8 DEF EventInv, InOrder

\* A delivery takes an event, in order or not.
LEMMA ReceiptKeepsEvents ==
  ASSUME EventInv, NEW h \in Deliveries, NEW e, Receive(h, e) PROVE EventInv'
  <1>1. /\ EventsTyped /\ InOrder
        /\ e \in DOMAIN stripe
        /\ delivery' = [delivery EXCEPT ![h] = e]
        /\ disordered' = IF EarlierPending(e) THEN disordered \union {stripe[e].about} ELSE disordered
        /\ UNCHANGED <<stripe, processed, minted, attached>>
    BY DEF EventInv, Receive, cardVars, profileVars
  <1>2. \A g \in Deliveries : delivery'[g] \in {delivery[g], e}
    BY <1>1
  <1>3. EventsTyped'
    BY <1>1, <1>2 DEF EventsTyped, Sent
  <1>4. ASSUME NEW d \in DOMAIN stripe, NEW f \in 1 .. (d - 1),
               d \in processed \/ \E g \in Deliveries : delivery'[g] = d,
               stripe[d].about \notin disordered', stripe[f].about = stripe[d].about
        PROVE  f \in processed
    <2>1. CASE d = e
      BY <1>1, <1>4, <2>1 DEF EarlierPending
    <2>2. CASE d # e
      BY <1>1, <1>2, <1>4, <2>2 DEF InOrder
    <2>3. QED
      BY <2>1, <2>2
  <1>5. QED
    BY <1>1, <1>3, <1>4 DEF EventInv, InOrder

\* What the deliveries commit or drop, they held before.
LEMMA ServiceKeepsEvents ==
  ASSUME HookInv, EventInv, Served, attached' \subseteq CardIds PROVE EventInv'
  <1>1. /\ EventsTyped /\ InOrder
        /\ UNCHANGED <<stripe, disordered>>
        /\ minted \subseteq minted' /\ minted' \subseteq VerificationSessions
    BY DEF EventInv, Served
  <1>2. /\ \A h \in Deliveries : delivery'[h] \in {delivery[h], NoEvent}
        /\ processed \subseteq processed'
        /\ \A e \in processed' : \/ e \in processed
                                 \/ \E h \in Deliveries : delivery[h] = e /\ e # NoEvent
    <2>1. CASE UNCHANGED <<processed, delivery>>
      BY <2>1
    <2>2. ASSUME NEW h \in Deliveries, DropId(h) \/ \E effect \in {0, 1} : CommitId(h, effect)
          PROVE  /\ delivery' = [delivery EXCEPT ![h] = NoEvent]
                 /\ \/ processed' = processed
                    \/ delivery[h] # NoEvent /\ processed' = processed \union {delivery[h]}
      BY <2>2 DEF DropId, CommitId
    <2>3. QED
      BY <2>1, <2>2 DEF Served, HookInv
  <1>3. EventsTyped'
    BY <1>1, <1>2 DEF EventsTyped, Sent
  <1>4. NoEvent \notin DOMAIN stripe
    BY <1>1, WebhooksAssumption DEF EventsTyped, Events
  <1>5. ASSUME NEW d \in DOMAIN stripe, NEW f \in 1 .. (d - 1),
               d \in processed' \/ \E g \in Deliveries : delivery'[g] = d,
               stripe[d].about \notin disordered, stripe[f].about = stripe[d].about
        PROVE  f \in processed'
    <2>1. d \in processed \/ \E g \in Deliveries : delivery[g] = d
      BY <1>2, <1>4, <1>5
    <2>2. QED
      BY <1>1, <1>2, <1>5, <2>1 DEF InOrder
  <1>6. QED
    BY <1>1, <1>3, <1>5 DEF EventInv, InOrder

\* Stripe's own steps and a deletion that detaches its card send events.
LEMMA Senders ==
  ASSUME EventInv, StripeNext \/ \E u \in Users : UserStep(u)
  PROVE  attached' \subseteq CardIds /\ (News \/ Served)
  <1>1. EventsTyped /\ attached \subseteq CardIds /\ minted \subseteq VerificationSessions
    BY DEF EventInv, EventsTyped
  <1>2. ASSUME NEW p \in CardIds, NEW k \in CardKinds,
               \/ Emit(<<Event(k, p)>>)
               \/ k = "attached" /\ Emit(<<Event(k, p), Event("setup_intent", p)>>),
               minted' = minted
        PROVE  News
    <2>1. Grown({k, IF k = "attached" THEN "setup_intent" ELSE k}, p)
      BY <1>1, <1>2, Emitting
    <2>2. {k, IF k = "attached" THEN "setup_intent" ELSE k} \subseteq CardKinds
      BY DEF CardKinds
    <2>3. UNCHANGED <<processed, delivery, disordered, minted>>
      BY <1>2 DEF Emit
    <2>4. QED
      BY <2>1, <2>2, <2>3 DEF News
  <1>3. ASSUME NEW p \in CardIds, AttachAtStripe(p) \/ UpdateAtStripe(p) \/ DetachAtStripe(p)
        PROVE  attached' \subseteq CardIds /\ News
    <2>1. attached' \subseteq CardIds /\ minted' = minted
      BY <1>1, <1>3 DEF AttachAtStripe, UpdateAtStripe, DetachAtStripe, cardVars, profileVars
    <2>2. \E k \in CardKinds :
            \/ Emit(<<Event(k, p)>>)
            \/ k = "attached" /\ Emit(<<Event(k, p), Event("setup_intent", p)>>)
      BY <1>3 DEF AttachAtStripe, UpdateAtStripe, DetachAtStripe, CardKinds
    <2>3. QED
      BY <1>2, <2>1, <2>2
  <1>4. ASSUME NEW s \in VerificationSessions, NEW v \in IdentityKinds, Decide(s, v)
        PROVE  attached' \subseteq CardIds /\ News
    <2>1. /\ Grown({v}, s) /\ s \in minted
          /\ \A e, f \in DOMAIN stripe' \ DOMAIN stripe : e = f
          /\ \A e \in DOMAIN stripe : ~ Sent(e, {"verified"}, s)
          /\ UNCHANGED <<processed, delivery, disordered, minted, attached>>
      BY <1>1, <1>4, Deciding
    <2>2. QED
      BY <1>1, <2>1 DEF News
  <1>5. ASSUME NEW u \in Users, UseCards(u)
        PROVE  attached' \subseteq CardIds /\ Served
    <2>1. attached' = attached
      BY <1>5 DEF UseCards, ReadDefaultTarget, PivotDefault, ReadCardToDelete, SoftDeleteCard,
                  ReplaceDefault, AbortCard
    <2>2. UNCHANGED <<hookVars, profileVars>>
      BY <1>5 DEF UseCards
    <2>3. QED
      BY <1>1, <2>1, <2>2 DEF Served, hookVars, profileVars
  <1>6. ASSUME NEW u \in Users, CommitUserCard(u)
        PROVE  attached' \subseteq CardIds /\ (News \/ Served)
    <2>1. UNCHANGED profileVars /\ minted' = minted
      BY <1>6 DEF CommitUserCard, profileVars
    <2>2. CASE CommitCard(u, {}) /\ UNCHANGED hookVars
      BY <1>1, <2>1, <2>2 DEF CommitCard, Served, hookVars
    <2>3. CASE /\ CommitCard(u, {cardTxn[u].row})
               /\ Emit(<<Event("detached", cardTxn[u].row)>>)
      <3>1. cardTxn[u].row \in CardIds /\ attached' \subseteq CardIds
        BY <1>1, <2>3 DEF CommitCard
      <3>2. "detached" \in CardKinds
        BY DEF CardKinds
      <3>3. QED
        BY <1>2, <2>1, <2>3, <3>1, <3>2
    <2>4. QED
      BY <1>6, <2>2, <2>3 DEF CommitUserCard
  <1>7. QED
    BY <1>3, <1>4, <1>5, <1>6 DEF StripeNext, UserStep

\* The other requests send nothing.
LEMMA Servants ==
  ASSUME EventInv,
         \/ DeliveryNext /\ ~ \E h \in Deliveries, e \in Events : Receive(h, e)
         \/ \E u : UseProfile(u) \/ \E s : SubmitVerification(u, s)
  PROVE  attached' \subseteq CardIds /\ Served
  <1>1. attached \subseteq CardIds /\ minted \subseteq VerificationSessions
    BY DEF EventInv, EventsTyped
  <1>2. ASSUME NEW h \in Deliveries,
               \/ BeginUpsert(h) \/ BeginDetached(h) \/ WriteMirror(h) \/ CommitMirror(h)
               \/ HandleVerdict(h) \/ DropVerdict(h) \/ CommitVerdict(h)
               \/ LoseSetupIntent(h) \/ FailDelivery(h)
        PROVE  attached' = attached /\ minted' = minted /\ UNCHANGED <<stripe, disordered>>
    <2>1. CASE BeginUpsert(h) \/ BeginDetached(h)
      BY <2>1 DEF BeginUpsert, BeginDetached, ReadSnapshot, BeginDetach, hookVars, profileVars
    <2>2. CASE WriteMirror(h)
      BY <2>2 DEF WriteMirror, InsertCard, UpdateCard, DetachCard, GiveUp, hookVars, profileVars
    <2>3. CASE CommitMirror(h)
      BY <2>3 DEF CommitMirror, CommitCard, Answer, profileVars
    <2>4. CASE HandleVerdict(h)
      BY <2>4 DEF HandleVerdict, ApproveIdentity, RejectIdentity, hookVars, cardVars
    <2>5. CASE DropVerdict(h) \/ LoseSetupIntent(h)
      BY <2>5 DEF DropVerdict, LoseSetupIntent, Answer, cardVars, profileVars
    <2>6. CASE CommitVerdict(h)
      BY <2>6 DEF CommitVerdict, CommitProfile, Answer, cardVars
    <2>7. CASE FailDelivery(h)
      BY <2>7 DEF FailDelivery, GiveUp
    <2>8. QED
      BY <1>2, <2>1, <2>2, <2>3, <2>4, <2>5, <2>6, <2>7
  <1>3. ASSUME NEW h \in Deliveries,
               \/ BeginUpsert(h) \/ BeginDetached(h) \/ WriteMirror(h) \/ CommitMirror(h)
               \/ HandleVerdict(h) \/ DropVerdict(h) \/ CommitVerdict(h)
               \/ LoseSetupIntent(h) \/ FailDelivery(h)
        PROVE  \/ UNCHANGED <<processed, delivery>>
               \/ DropId(h) \/ \E effect \in {0, 1} : CommitId(h, effect)
    BY <1>3 DEF BeginUpsert, BeginDetached, WriteMirror, CommitMirror, HandleVerdict, DropVerdict,
                CommitVerdict, LoseSetupIntent, FailDelivery, Holds, Answer, GiveUp, hookVars,
                CommitId, DropId
  <1>4. ASSUME NEW u, NEW s, SubmitVerification(u, s)
        PROVE  attached' \subseteq CardIds /\ Served
    <2>1. UNCHANGED <<stripe, disordered, processed, delivery, minted, attached>>
      BY <1>4 DEF SubmitVerification, SubmitDetails, BypassVerification, cardVars
    <2>2. QED
      BY <1>1, <2>1 DEF Served
  <1>5. ASSUME NEW u, UseProfile(u) PROVE attached' \subseteq CardIds /\ Served
    <2>1. UNCHANGED <<stripe, disordered, processed, delivery, attached>>
      BY <1>5 DEF UseProfile, hookVars, cardVars
    <2>2. minted' = minted \/ \E s \in VerificationSessions : minted' = minted \union {s}
      BY <1>5 DEF UseProfile, Activate, CreateProfile, Onboard, CommitProfile, AbortProfile, MintOnly,
                  SetAccepting, PatchProfile, ToggleStatus, Overwrite, Deactivate,
                  StartVerification, AdminVerdict, SubmitApplication, ApproveDetailer,
                  SuspendDetailer
    <2>3. QED
      BY <1>1, <2>1, <2>2 DEF Served
  <1>6. QED
    BY <1>1, <1>2, <1>3, <1>4, <1>5 DEF DeliveryNext, DeliveryStep, Served

\* The events and their order, at the start and after every step.
LEMMA EventsInductive ==
  /\ WebhookInit => EventInv
  /\ HookInv /\ EventInv /\ [WebhookNext]_webhookVars => EventInv'
  <1>1. WebhookInit => EventInv
    <2>1. ASSUME WebhookInit PROVE stripe = << >> /\ DOMAIN stripe = {}
      BY <2>1 DEF WebhookInit
    <2>2. QED
      BY <2>1 DEF WebhookInit, CardInit, ProfileInit, EventInv, EventsTyped, InOrder
  <1>2. ASSUME HookInv, EventInv, [WebhookNext]_webhookVars PROVE EventInv'
    <2>1. CASE UNCHANGED webhookVars
      <3>1. attached' \subseteq CardIds /\ Served
        BY <1>2, <2>1 DEF webhookVars, hookVars, cardVars, profileVars, Served, EventInv, EventsTyped
      <3>2. QED
        BY <1>2, <3>1, ServiceKeepsEvents
    <2>2. CASE \E h \in Deliveries, e \in Events : Receive(h, e)
      BY <1>2, <2>2, ReceiptKeepsEvents
    <2>3. CASE WebhookNext /\ ~ \E h \in Deliveries, e \in Events : Receive(h, e)
      <3>1. attached' \subseteq CardIds /\ (News \/ Served)
        BY <1>2, <2>3, Senders, Servants DEF WebhookNext, UserNext
      <3>2. QED
        BY <1>2, <3>1, NewsKeepsEvents, ServiceKeepsEvents
    <2>4. QED
      BY <1>2, <2>1, <2>2, <2>3
  <1>3. QED
    BY <1>1, <1>2

\* The events, who holds them and their order, in every behaviour.
THEOREM EventInvariant == WebhookSpec => []EventInv
  <1>1. QED
    BY EventsInductive, HookInvariant, PTL DEF WebhookSpec

\* An event that was sent stays.
LEMMA VerifiedStays == EventInv /\ [WebhookNext]_webhookVars => Verified \subseteq Verified'
  <1> SUFFICES ASSUME EventInv, [WebhookNext]_webhookVars PROVE Verified \subseteq Verified'
    OBVIOUS
  <1>1. UNCHANGED stripe \/ \E kinds, x : Grown(kinds, x)
    <2>1. CASE UNCHANGED webhookVars
      BY <2>1 DEF webhookVars, hookVars
    <2>2. CASE \E h \in Deliveries, e \in Events : Receive(h, e)
      BY <2>2 DEF Receive
    <2>3. CASE WebhookNext /\ ~ \E h \in Deliveries, e \in Events : Receive(h, e)
      <3>1. News \/ Served
        BY <2>3, Senders, Servants DEF WebhookNext, UserNext
      <3>2. QED
        BY <3>1 DEF News, Served
    <2>4. QED
      BY <2>1, <2>2, <2>3
  <1>2. \A e \in DOMAIN stripe : e \in DOMAIN stripe' /\ stripe'[e] = stripe[e]
    BY <1>1 DEF Grown
  <1>3. QED
    BY <1>2 DEF Verified, Event

-----------------------------------------------------------------------------
(* The profile *)

\* All that a step does to the profile: it opens a transaction that keeps to the
\* rule, commits or drops one, creates a row that nobody approved, or is excused.
OpenEdit(c) ==
  \E new :
    /\ Edit(c, new)
    /\ DOMAIN new = Columns
    /\ ~ excused => /\ Presentable(new)
                    /\ \A k \in {"active", "status"} : new[k] = profile[k] \/ new[k] # Same
    /\ new.status = "approved" => profile.status = "approved" \/ Verified # {}

DropEdit(c) ==
  /\ profileTxn' = [profileTxn EXCEPT ![c] = NoProfile]
  /\ UNCHANGED <<profile, excused>>

Excuse ==
  /\ profile' # NoProfile => DOMAIN profile' = Columns
  /\ DOMAIN profileTxn' = DOMAIN profileTxn
  /\ excused'

NewRow ==
  /\ profile = NoProfile
  /\ DOMAIN profile' = Columns
  /\ ~ profile'.active /\ profile'.status # "approved"
  /\ UNCHANGED <<profileTxn, excused>>

ProfileStep ==
  \/ UNCHANGED <<profile, profileTxn, excused>>
  \/ NewRow
  \/ Excuse
  \/ \E c \in ProfileCallers : OpenEdit(c) \/ CommitProfile(c) \/ DropEdit(c)

\* Stripe's approval writes both columns of the rule.
LEMMA Approving ==
  ASSUME DOMAIN profile = Columns, Same # "approved", Same # TRUE, Verified # {}, NEW c,
         Edit(c, [profile EXCEPT !.status = "approved", !.active = TRUE])
  PROVE  OpenEdit(c)
  <1> DEFINE new == [profile EXCEPT !.status = "approved", !.active = TRUE]
  <1>1. DOMAIN new = Columns /\ new.active = TRUE /\ new.status = "approved"
    BY DEF Columns
  <1>2. Edit(c, new)
    OBVIOUS
  <1> HIDE DEF new
  <1>3. QED
    BY <1>1, <1>2 DEF OpenEdit, Presentable

\* The same for a refusal.
LEMMA Rejecting ==
  ASSUME DOMAIN profile = Columns, Same # "rejected", Same # FALSE, NEW c,
         Edit(c, [profile EXCEPT !.status = "rejected", !.active = FALSE])
  PROVE  OpenEdit(c)
  <1> DEFINE new == [profile EXCEPT !.status = "rejected", !.active = FALSE]
  <1>1. DOMAIN new = Columns /\ new.active = FALSE /\ new.status = "rejected"
    BY DEF Columns
  <1>2. Edit(c, new)
    OBVIOUS
  <1> HIDE DEF new
  <1>3. QED
    BY <1>1, <1>2 DEF OpenEdit, Presentable

\* The routes and verdicts that read the row and pass the identity check, or
\* cannot make a row visible, write only what keeps to the rule.
LEMMA RoutesEdit ==
  ASSUME ProfileInv, profile # NoProfile, NEW c, NEW b \in BOOLEAN, NEW s,
         \/ SetAccepting(c, b) \/ PatchProfile(c, b) \/ Deactivate(c)
         \/ StartVerification(c, s) \/ SubmitDetails(c, s)
         \/ (ApproveIdentity(c, s) /\ Verified # {}) \/ RejectIdentity(c, s)
         \/ SubmitApplication(c) \/ ApproveDetailer(c) \/ SuspendDetailer(c)
  PROVE  OpenEdit(c)
  <1>1. DOMAIN profile = Columns /\ (~ excused => Presentable(profile))
    BY DEF ProfileInv
  <1>2. /\ Same \notin {"pending", "approved", "rejected"}
        /\ b # Same /\ TRUE # Same /\ FALSE # Same
    BY ProfileAssumption
  <1>3. CASE SetAccepting(c, b) \/ PatchProfile(c, b)
    BY <1>1, <1>2, <1>3 DEF SetAccepting, PatchProfile, OpenEdit, Presentable, Columns
  <1>4. CASE Deactivate(c)
    <2> DEFINE new == [profile EXCEPT !.active = FALSE]
    <2>1. DOMAIN new = Columns /\ new.active = FALSE /\ new.status = profile.status
      BY <1>1 DEF Columns
    <2>2. Edit(c, new)
      BY <1>4 DEF Deactivate
    <2> HIDE DEF new
    <2>3. QED
      BY <1>1, <1>2, <2>1, <2>2 DEF OpenEdit, Presentable
  <1>5. CASE StartVerification(c, s)
    <2> DEFINE new == [profile EXCEPT !.session = s,
                         !.status = IF @ = "not_submitted" THEN "pending" ELSE @]
    <2>1. /\ DOMAIN new = Columns
          /\ new.active = profile.active
          /\ new.status = IF profile.status = "not_submitted" THEN "pending" ELSE profile.status
      BY <1>1 DEF Columns
    <2>2. Edit(c, new)
      BY <1>5 DEF StartVerification
    <2> HIDE DEF new
    <2>3. QED
      BY <1>1, <1>2, <2>1, <2>2 DEF OpenEdit, Presentable
  <1>6. CASE SubmitDetails(c, s)
    <2> DEFINE new == [profile EXCEPT !.session = s, !.status = "pending", !.active = FALSE]
    <2>1. DOMAIN new = Columns /\ new.active = FALSE /\ new.status = "pending"
      BY <1>1 DEF Columns
    <2>2. Edit(c, new)
      BY <1>6 DEF SubmitDetails
    <2> HIDE DEF new
    <2>3. QED
      BY <1>2, <2>1, <2>2 DEF OpenEdit, Presentable
  <1>7. CASE (ApproveIdentity(c, s) /\ Verified # {}) \/ RejectIdentity(c, s)
    BY <1>1, <1>2, <1>7, Approving, Rejecting DEF ApproveIdentity, RejectIdentity
  <1>8. CASE SubmitApplication(c) \/ ApproveDetailer(c) \/ SuspendDetailer(c)
    BY <1>1, <1>2, <1>8
       DEF SubmitApplication, ApproveDetailer, SuspendDetailer, OpenEdit, Presentable, Columns
  <1>9. QED
    BY <1>3, <1>4, <1>5, <1>6, <1>7, <1>8

\* A row comes in empty, or with the session it is submitted with.
LEMMA NewRows ==
  ASSUME profile = NoProfile, NEW c, NEW s,
         Activate \/ CreateProfile \/ SubmitDetails(c, s)
  PROVE  NewRow
  <1>1. CASE Activate \/ CreateProfile
    BY <1>1 DEF Activate, CreateProfile, Skeleton, NewRow, Columns
  <1>2. CASE SubmitDetails(c, s)
    <2> DEFINE new == [Skeleton EXCEPT !.session = s, !.status = "pending"]
    <2>1. profile' = new /\ UNCHANGED <<profileTxn, excused>>
      BY <1>2 DEF SubmitDetails, Edit
    <2>2. DOMAIN new = Columns /\ new.active = FALSE /\ new.status = "pending"
      BY DEF Skeleton, Columns
    <2> HIDE DEF new
    <2>3. QED
      BY <2>1, <2>2 DEF NewRow
  <1>3. QED
    BY <1>1, <1>2

\* The routes without the check or without Stripe, and the administrator's verdict,
\* are excused.
LEMMA RoutesExcused ==
  ASSUME ProfileInv, NEW c,
         \/ Onboard \/ AdminVerdict(c) \/ \E b \in BOOLEAN : ToggleStatus(c, b)
         \/ BypassVerification(c)
  PROVE  Excuse
  <1>1. CASE Onboard
    BY <1>1 DEF Onboard, Skeleton, Excuse, Columns
  <1>2. CASE AdminVerdict(c) \/ \E b \in BOOLEAN : ToggleStatus(c, b)
    BY <1>2 DEF AdminVerdict, ToggleStatus, Overwrite, Excuse, ProfileInv
  <1>3. CASE BypassVerification(c)
    <2>1. CASE profile = NoProfile
      BY <1>3, <2>1 DEF BypassVerification, Skeleton, Excuse, Columns
    <2>2. CASE profile # NoProfile
      BY <1>3, <2>2 DEF BypassVerification, Excuse, ProfileInv
    <2>3. QED
      BY <2>1, <2>2
  <1>4. QED
    BY <1>1, <1>2, <1>3

\* A delivery that approves carries an event by which Stripe verified a session.
LEMMA VerifiedNow ==
  ASSUME EventInv, NEW h \in Deliveries, Holds(h, {"verified"})
  PROVE  Verified # {}
  <1> DEFINE e == delivery[h]
  <1>1. e \in DOMAIN stripe /\ stripe[e].kind = "verified" /\ stripe[e].about \in minted
    BY DEF EventInv, EventsTyped, Holds, IdentityKinds
  <1>2. stripe[e] \in AllEvents /\ minted \subseteq VerificationSessions
    BY <1>1, EventTypes DEF EventInv, EventsTyped
  <1>3. stripe[e] = Event("verified", stripe[e].about)
    BY <1>1, <1>2 DEF Event, AllEvents
  <1>4. QED
    BY <1>1, <1>2, <1>3 DEF Verified

\* Every step of the specification is of one of these kinds.
LEMMA EveryStepProfile ==
  EventInv /\ ProfileInv /\ [WebhookNext]_webhookVars => ProfileStep
  <1> SUFFICES ASSUME EventInv, ProfileInv, [WebhookNext]_webhookVars PROVE ProfileStep
    OBVIOUS
  <1>1. CASE UNCHANGED webhookVars
    BY <1>1 DEF webhookVars, profileVars, ProfileStep
  <1>2. CASE StripeNext
    BY <1>2 DEF StripeNext, AttachAtStripe, UpdateAtStripe, DetachAtStripe, Decide, ProfileStep,
                profileVars
  <1>3. CASE DeliveryNext
    <2>1. PICK h \in Deliveries : DeliveryStep(h) \/ LoseSetupIntent(h) \/ FailDelivery(h)
      BY <1>3 DEF DeliveryNext
    <2>2. h \in ProfileCallers
      BY WebhooksAssumption
    <2>3. CASE HandleVerdict(h)
      <3>1. /\ profile # NoProfile
            /\ \/ ApproveIdentity(h, About(h)) /\ Verified # {}
               \/ RejectIdentity(h, About(h))
        BY <2>3, VerifiedNow DEF HandleVerdict, Holds
      <3>2. QED
        BY <2>2, <3>1, RoutesEdit DEF ProfileStep
    <2>4. CASE CommitVerdict(h)
      BY <2>2, <2>4 DEF CommitVerdict, ProfileStep
    <2>5. CASE FailDelivery(h)
      BY <2>2, <2>5 DEF FailDelivery, ProfileStep, DropEdit
    <2>6. CASE \/ \E e \in Events : Receive(h, e)
               \/ BeginUpsert(h) \/ BeginDetached(h) \/ WriteMirror(h) \/ CommitMirror(h)
               \/ DropVerdict(h) \/ LoseSetupIntent(h)
      BY <2>6 DEF Receive, BeginUpsert, BeginDetached, WriteMirror, CommitMirror, DropVerdict,
                  LoseSetupIntent, ProfileStep, profileVars
    <2>7. QED
      BY <2>1, <2>3, <2>4, <2>5, <2>6 DEF DeliveryStep
  <1>4. ASSUME NEW u, UserStep(u) PROVE ProfileStep
    BY <1>4 DEF UserStep, UseCards, CommitUserCard, ProfileStep, profileVars
  <1>5. ASSUME NEW u \in ProfileCallers, UseProfile(u) PROVE ProfileStep
    <2>1. CASE Activate \/ CreateProfile
      BY <2>1, NewRows DEF CreateProfile, Activate, ProfileStep
    <2>2. CASE CommitProfile(u) \/ AbortProfile(u)
      BY <2>2 DEF AbortProfile, DropEdit, ProfileStep
    <2>3. CASE \E s \in VerificationSessions : MintOnly(s)
      BY <2>3 DEF MintOnly, ProfileStep
    <2>4. CASE Onboard \/ (profile # NoProfile
                            /\ (AdminVerdict(u) \/ \E b \in BOOLEAN : ToggleStatus(u, b)))
      BY <2>4, RoutesExcused DEF ProfileStep
    <2>5. CASE /\ profile # NoProfile
               /\ \/ \E b \in BOOLEAN : SetAccepting(u, b) \/ PatchProfile(u, b)
                  \/ Deactivate(u)
                  \/ \E s \in VerificationSessions : StartVerification(u, s)
                  \/ SubmitApplication(u) \/ ApproveDetailer(u) \/ SuspendDetailer(u)
      BY <2>5, RoutesEdit DEF ProfileStep
    <2>6. QED
      BY <1>5, <2>1, <2>2, <2>3, <2>4, <2>5 DEF UseProfile
  <1>6. ASSUME NEW u \in ProfileCallers, NEW s, SubmitVerification(u, s) PROVE ProfileStep
    BY <1>6, RoutesEdit, RoutesExcused, NewRows DEF SubmitVerification, ProfileStep
  <1>7. QED
    BY <1>1, <1>2, <1>3, <1>4, <1>5, <1>6 DEF WebhookNext, UserNext

\* These kinds of steps keep the invariant.
LEMMA ProfilePreserved == ASSUME ProfileInv, ProfileStep PROVE ProfileInv'
  <1>1. CASE UNCHANGED <<profile, profileTxn, excused>>
    BY <1>1 DEF ProfileInv, Merged, Presentable
  <1>2. CASE NewRow
    BY <1>2 DEF NewRow, ProfileInv, Presentable
  <1>3. CASE Excuse
    BY <1>3 DEF Excuse, ProfileInv
  <1>4. ASSUME NEW c \in ProfileCallers, OpenEdit(c) PROVE ProfileInv'
    <2>1. PICK new : /\ Edit(c, new)
                     /\ DOMAIN new = Columns
                     /\ ~ excused =>
                          /\ Presentable(new)
                          /\ \A k \in {"active", "status"} : new[k] = profile[k] \/ new[k] # Same
      BY <1>4 DEF OpenEdit
    <2>2. ASSUME ~ excused
          PROVE  LET m == [k \in Columns |-> IF Dirty(new)[k] = Same THEN profile[k]
                                             ELSE Dirty(new)[k]]
                 IN m.active = new.active /\ m.status = new.status
      BY <2>1, <2>2 DEF Dirty, Columns
    <2>3. ~ excused => Presentable(Merged(Dirty(new)))
      BY <2>1, <2>2 DEF Merged, Presentable
    <2>4. QED
      BY <2>1, <2>3 DEF Edit, ProfileInv, Merged
  <1>5. ASSUME NEW c \in ProfileCallers, CommitProfile(c) PROVE ProfileInv'
    <2>1. /\ profile' = Merged(profileTxn[c])
          /\ profileTxn' = [profileTxn EXCEPT ![c] = NoProfile]
          /\ profileTxn[c] # NoProfile /\ excused' = excused
      BY <1>5 DEF CommitProfile, Merged
    <2>2. DOMAIN profile' = Columns
      BY <2>1 DEF Merged
    <2>3. ~ excused => Presentable(profile')
      BY <2>1 DEF ProfileInv
    <2>4. QED
      BY <2>1, <2>2, <2>3 DEF ProfileInv, Presentable
  <1>6. ASSUME NEW c \in ProfileCallers, DropEdit(c) PROVE ProfileInv'
    BY <1>6 DEF DropEdit, ProfileInv, Merged, Presentable
  <1>7. QED
    BY <1>1, <1>2, <1>3, <1>4, <1>5, <1>6 DEF ProfileStep

\* The invariant holds at the start and after every step.
THEOREM ProfileInvariant == WebhookSpec => []ProfileInv
  <1>1. WebhookInit => ProfileInv
    BY DEF WebhookInit, ProfileInit, ProfileInv
  <1>2. QED
    BY <1>1, EventInvariant, EveryStepProfile, ProfilePreserved, PTL DEF WebhookSpec

\* Events stay, so that what is verified stays verified; and an approval comes in only
\* when something is.
LEMMA ApprovalsPreserved ==
  ASSUME ProfileInv, ByStripe, ProfileStep, Verified \subseteq Verified'
  PROVE  ByStripe'
  <1> SUFFICES ASSUME ~ excused', Verified' = {}
               PROVE  /\ profile' # NoProfile => profile'.status # "approved"
                      /\ \A c \in ProfileCallers :
                           profileTxn'[c] # NoProfile => profileTxn'[c].status # "approved"
    BY DEF ByStripe
  <1>1. Verified = {}
    OBVIOUS
  <1>2. CASE UNCHANGED <<profile, profileTxn, excused>>
    BY <1>1, <1>2 DEF ByStripe
  <1>3. CASE NewRow
    BY <1>1, <1>3 DEF NewRow, ByStripe
  <1>4. ASSUME NEW c \in ProfileCallers, OpenEdit(c)
        PROVE  /\ profile' = profile /\ ~ excused /\ profile # NoProfile
               /\ profileTxn'[c].status # "approved"
               /\ \A d \in ProfileCallers \ {c} : profileTxn'[d] = profileTxn[d]
    <2>1. PICK new : /\ Edit(c, new) /\ DOMAIN new = Columns
                     /\ new.status = "approved" => profile.status = "approved" \/ Verified # {}
      BY <1>4 DEF OpenEdit
    <2>2. profile # NoProfile /\ profile' = profile /\ ~ excused
      BY <2>1 DEF Edit
    <2>3. profile.status # "approved" /\ new.status # "approved"
      BY <1>1, <2>1, <2>2 DEF ByStripe
    <2>4. Same # "approved"
      BY ProfileAssumption
    <2>5. Dirty(new).status # "approved"
      BY <2>3, <2>4 DEF Dirty, Columns
    <2>6. QED
      BY <2>1, <2>2, <2>5 DEF Edit, ProfileInv
  <1>5. ASSUME NEW c \in ProfileCallers, CommitProfile(c)
        PROVE  /\ profile'.status # "approved" /\ ~ excused
               /\ profileTxn' = [profileTxn EXCEPT ![c] = NoProfile]
    <2>1. ~ excused /\ profileTxn[c] # NoProfile /\ profile # NoProfile
      BY <1>5 DEF CommitProfile, ProfileInv
    <2>2. profile.status # "approved" /\ profileTxn[c].status # "approved"
      BY <1>1, <2>1 DEF ByStripe
    <2>3. QED
      BY <1>5, <2>1, <2>2 DEF CommitProfile, Columns
  <1>6. ASSUME NEW c \in ProfileCallers, DropEdit(c)
        PROVE  /\ UNCHANGED <<profile, excused>>
               /\ profileTxn' = [profileTxn EXCEPT ![c] = NoProfile]
    BY <1>6 DEF DropEdit
  <1>7. QED
    BY <1>1, <1>2, <1>3, <1>4, <1>5, <1>6 DEF ProfileStep, Excuse, ByStripe, ProfileInv

\* Whom clients can find, Stripe has verified: over any sequence of calls, events
\* and failures, as long as nothing the property excepts has happened.
THEOREM VisibleWasApproved == WebhookSpec => []VisibleIsApproved
  <1>1. WebhookInit => ByStripe
    BY DEF WebhookInit, ProfileInit, ByStripe
  <1>2. EventInv /\ ProfileInv /\ ByStripe /\ [WebhookNext]_webhookVars => ByStripe'
    BY EveryStepProfile, ApprovalsPreserved, VerifiedStays
  <1>3. ProfileInv /\ ByStripe => VisibleIsApproved
    BY DEF ProfileInv, Presentable, ByStripe, VisibleIsApproved
  <1>4. QED
    BY <1>1, <1>2, <1>3, EventInvariant, ProfileInvariant, PTL DEF WebhookSpec

-----------------------------------------------------------------------------
(* The verdicts *)

\* What Approved says of one event.
LEMMA VerdictFacts ==
  ASSUME EventInv
  PROVE  /\ processed \subseteq DOMAIN stripe
         /\ \A e \in DOMAIN stripe : \A s : stripe[e] = Event("verified", s)
              <=> stripe[e].kind = "verified" /\ stripe[e].about = s
         /\ \A e \in DOMAIN stripe : \A s :
              stripe[e] = Event("verified", s) => Sent(e, IdentityKinds, s)
         /\ \A h \in Deliveries : delivery[h] # NoEvent => delivery[h] \in DOMAIN stripe
  <1>1. \A e \in DOMAIN stripe : stripe[e] \in AllEvents
    BY EventTypes DEF EventInv
  <1>2. \A e \in DOMAIN stripe : \A s : stripe[e] = Event("verified", s)
              <=> stripe[e].kind = "verified" /\ stripe[e].about = s
    BY <1>1 DEF Event, AllEvents
  <1>3. QED
    BY <1>2 DEF EventInv, EventsTyped, Sent, IdentityKinds

\* As long as nothing excuses it one transaction at most is open.
LEMMA OneOpen ==
  ASSUME ProfileInv, ~ excused, NEW c \in ProfileCallers, profileTxn[c] # NoProfile,
         NEW d \in ProfileCallers, profileTxn[d] # NoProfile
  PROVE  c = d /\ profile # NoProfile
  BY DEF ProfileInv

\* Steps that leave the row alone: transactions may end, events be sent, received
\* and processed.  What is processed is no verification of the linked session, and
\* a verdict on a session that is not linked is late.
LEMMA StillKeepsVerdicts ==
  ASSUME EventInv, EventInv', ProfileInv, VerdictInv,
         profile' = profile, excused' = excused,
         \A c \in ProfileCallers : profileTxn'[c] \in {profileTxn[c], NoProfile},
         \A h \in Deliveries : profileTxn'[h] # NoProfile => delivery'[h] = delivery[h],
         \A e \in DOMAIN stripe : e \in DOMAIN stripe' /\ stripe'[e] = stripe[e],
         lateLinks \subseteq lateLinks', disordered \subseteq disordered',
         \A e \in processed' \ processed :
           e \in DOMAIN stripe /\ (profile # NoProfile => stripe[e] # Event("verified", profile.session)),
         \A s \in VerificationSessions \ lateLinks', e \in DOMAIN stripe' \ DOMAIN stripe :
           stripe'[e].kind \in IdentityKinds /\ stripe'[e].about = s
             => profile # NoProfile /\ profile.session = s
  PROVE  VerdictInv'
  <1>1. /\ \A h \in Deliveries : delivery[h] # NoEvent => delivery[h] \in DOMAIN stripe
        /\ processed \subseteq DOMAIN stripe /\ Deliveries \subseteq ProfileCallers
    BY VerdictFacts, WebhooksAssumption
  <1>2. ASSUME NEW h \in Deliveries, profileTxn'[h] # NoProfile PROVE Holds(h, IdentityKinds)'
    <2>1. profileTxn[h] = profileTxn'[h] /\ delivery'[h] = delivery[h]
      BY <1>1, <1>2
    <2>2. Holds(h, IdentityKinds)
      BY <1>2, <2>1 DEF VerdictInv
    <2>3. QED
      BY <1>1, <2>1, <2>2 DEF Holds
  <1>3. ASSUME ~ excused PROVE Linked'
    <2>1. Linked
      BY <1>3 DEF VerdictInv
    <2>2. ASSUME NEW c \in ProfileCallers, profileTxn'[c] # NoProfile,
                 NEW s \in VerificationSessions \ lateLinks', NEW e \in DOMAIN stripe',
                 Sent(e, IdentityKinds, s)'
          PROVE  profileTxn'[c].session # s
      <3>1. profileTxn'[c] = profileTxn[c]
        BY <2>2
      <3>2. CASE e \in DOMAIN stripe
        <4>1. Sent(e, IdentityKinds, s) /\ s \in VerificationSessions \ lateLinks
          BY <2>2, <3>2 DEF Sent
        <4>2. QED
          BY <2>1, <2>2, <3>1, <4>1, <3>2 DEF Linked
      <3>3. CASE e \notin DOMAIN stripe
        <4>1. profile.session = s
          BY <2>2, <3>3 DEF Sent
        <4>2. QED
          BY <2>1, <2>2, <3>1, <4>1 DEF Linked
      <3>4. QED
        BY <3>2, <3>3
    <2>3. QED
      BY <2>1, <2>2 DEF Linked
  <1>4. ASSUME ~ excused PROVE Approved'
    <2>1. Approved
      BY <1>4 DEF VerdictInv
    <2>2. ASSUME NEW e \in processed', profile # NoProfile,
                 stripe'[e] = Event("verified", profile.session),
                 profile.session \in VerificationSessions \ (lateLinks' \union disordered')
          PROVE  /\ profile.status = "approved"
                 /\ \A c \in ProfileCallers : profileTxn'[c] # NoProfile /\ profileTxn'[c].session = Same
                      => Merged(profileTxn'[c]).status = "approved"
      <3>1. e \in processed /\ stripe'[e] = stripe[e]
        BY <1>1, <2>2
      <3>2. /\ profile.status = "approved"
            /\ \A c \in ProfileCallers : profileTxn[c] # NoProfile /\ profileTxn[c].session = Same
                 => Merged(profileTxn[c]).status = "approved"
        BY <2>1, <2>2, <3>1 DEF Approved
      <3>3. QED
        BY <3>2
    <2>3. QED
      BY <2>2 DEF Approved, Merged, Event
  <1>5. ASSUME ~ excused, NEW h \in Deliveries PROVE Verdict(h)'
    <2>1. Verdict(h)
      BY <1>5 DEF VerdictInv
    <2>2. ASSUME profileTxn'[h] # NoProfile
          PROVE  /\ profileTxn'[h] = profileTxn[h] /\ delivery'[h] = delivery[h]
                 /\ delivery[h] \in DOMAIN stripe /\ stripe'[delivery[h]] = stripe[delivery[h]]
      <3>1. profileTxn'[h] = profileTxn[h] /\ delivery'[h] = delivery[h]
        BY <1>1, <2>2
      <3>2. delivery[h] # NoEvent
        BY <2>2, <3>1 DEF VerdictInv, Holds
      <3>3. QED
        BY <1>1, <3>1, <3>2
    <2>3. QED
      BY <2>1, <2>2 DEF Verdict, About, Merged
  <1>6. QED
    BY <1>2, <1>3, <1>4, <1>5 DEF VerdictInv

\* The linked session is verified, and every verdict on it was met in order.
Verification(late) ==
  /\ profile.session \in VerificationSessions \ (late \union disordered)
  /\ \E e \in processed : stripe[e] = Event("verified", profile.session)

\* Opening a transaction: it links no session that was asked about unless that is
\* noticed, and does not take a verification back.
LEMMA EditKeepsVerdicts ==
  ASSUME EventInv, ProfileInv, ProfileInv', VerdictInv,
         NEW c \in ProfileCallers, NEW new, Edit(c, new), DOMAIN new = Columns,
         UNCHANGED <<stripe, processed, delivery, disordered>>, lateLinks \subseteq lateLinks',
         new.status = profile.status \/ new.status # Same,
         \/ new.session = profile.session
         \/ /\ new.session # Same
            /\ \A s \in VerificationSessions \ lateLinks', e \in DOMAIN stripe :
                 Sent(e, IdentityKinds, s) => new.session # s,
         Verification(lateLinks') /\ new.session = profile.session
           => new.status \in {profile.status, "approved"},
         c \in Deliveries => /\ Holds(c, IdentityKinds)
                             /\ new.session = profile.session /\ profile.session = About(c)
                             /\ stripe[delivery[c]].kind = "verified" => new.status = "approved"
  PROVE  VerdictInv'
  <1> DEFINE t == Dirty(new)
  <1>1. /\ profile # NoProfile /\ profile' = profile /\ profileTxn[c] = NoProfile
        /\ profileTxn' = [profileTxn EXCEPT ![c] = t]
        /\ excused' = (excused \/ \E d \in ProfileCallers : profileTxn[d] # NoProfile)
    BY DEF Edit
  <1>2. /\ DOMAIN profile = Columns /\ DOMAIN profileTxn = ProfileCallers
        /\ Deliveries \subseteq ProfileCallers
        /\ Columns = {"status", "active", "application", "session"}
    BY <1>1, WebhooksAssumption DEF ProfileInv, Columns
  <1>3. /\ t.session = IF new.session = profile.session THEN Same ELSE new.session
        /\ Merged(t).status = new.status
    BY <1>2 DEF Dirty, Merged
  <1>4. profileTxn'[c] = t /\ \A d \in ProfileCallers \ {c} : profileTxn'[d] = profileTxn[d]
    BY <1>1, <1>2
  <1> HIDE DEF t
  <1>5. ASSUME NEW h \in Deliveries, profileTxn'[h] # NoProfile PROVE Holds(h, IdentityKinds)'
    <2>1. Holds(h, IdentityKinds)
      BY <1>2, <1>4, <1>5 DEF VerdictInv
    <2>2. QED
      BY <2>1 DEF Holds
  <1>6. ASSUME ~ excused'
        PROVE  Linked' /\ Approved' /\ \A h \in Deliveries : Verdict(h)'
    <2>1. ~ excused /\ \A d \in ProfileCallers \ {c} : profileTxn'[d] = NoProfile
      BY <1>1, <1>4, <1>6
    <2>2. Linked /\ Approved
      BY <2>1 DEF VerdictInv
    <2>3. Same \notin VerificationSessions
      BY ProfileAssumption
    <2>4. profile.session # Same
      BY <1>1, <2>2 DEF Linked
    <2>5. t.session # profile.session
      BY <1>3, <2>4
    <2>6. ASSUME NEW s \in VerificationSessions \ lateLinks', NEW e \in DOMAIN stripe,
                 Sent(e, IdentityKinds, s)
          PROVE  t.session # s
      BY <1>3, <2>3, <2>6
    <2>7. Linked'
      BY <1>1, <1>4, <2>1, <2>4, <2>5, <2>6 DEF Linked, Sent
    <2>8. ASSUME NEW e \in processed, stripe[e] = Event("verified", profile.session),
                 profile.session \in VerificationSessions \ (lateLinks' \union disordered)
          PROVE  /\ profile.status = "approved"
                 /\ t.session = Same => Merged(t).status = "approved"
      <3>1. profile.status = "approved"
        BY <1>1, <2>2, <2>8 DEF Approved
      <3>2. Verification(lateLinks')
        BY <2>8 DEF Verification
      <3>3. t.session = Same => new.session = profile.session
        BY <1>3
      <3>4. QED
        BY <1>3, <3>1, <3>2, <3>3
    <2>9. Approved'
      <3>1. ASSUME NEW e \in processed, stripe[e] = Event("verified", profile.session),
                   profile.session \in VerificationSessions \ (lateLinks' \union disordered')
            PROVE  /\ profile.status = "approved"
                   /\ \A d \in ProfileCallers :
                        profileTxn'[d] # NoProfile /\ profileTxn'[d].session = Same
                          => Merged(profileTxn'[d]).status = "approved"
        <4>1. /\ profile.status = "approved"
              /\ t.session = Same => Merged(t).status = "approved"
          BY <2>8, <3>1
        <4>2. QED
          BY <1>4, <2>1, <4>1
      <3>2. /\ profile' = profile /\ processed' = processed /\ stripe' = stripe
            /\ profile # NoProfile
        BY <1>1
      <3>3. QED
        BY <3>1, <3>2 DEF Approved, Event, Merged
    <2>10. ASSUME NEW h \in Deliveries PROVE Verdict(h)'
      BY <1>1, <1>2, <1>3, <1>4, <2>1, <2>10 DEF Verdict, About, Merged
    <2>11. QED
      BY <2>7, <2>9, <2>10
  <1>7. QED
    BY <1>5, <1>6 DEF VerdictInv

\* A commit, of a user's transaction or of a delivery's together with its id.
LEMMA CommitKeepsVerdicts ==
  ASSUME HookInv, EventInv, ProfileInv, VerdictInv,
         NEW c \in ProfileCallers, CommitProfile(c),
         UNCHANGED <<stripe, disordered, lateLinks>>,
         \/ UNCHANGED <<processed, delivery>>
         \/ /\ c \in Deliveries
            /\ processed' = processed \union {delivery[c]}
            /\ delivery' = [delivery EXCEPT ![c] = NoEvent]
  PROVE  VerdictInv'
  <1> DEFINE t == profileTxn[c]
  <1>1. /\ t # NoProfile /\ excused' = excused
        /\ profile' = Merged(t)
        /\ profileTxn' = [profileTxn EXCEPT ![c] = NoProfile]
    BY DEF CommitProfile, Merged
  <1>2. /\ DOMAIN profileTxn = ProfileCallers /\ Deliveries \subseteq ProfileCallers
        /\ DOMAIN delivery = Deliveries
    BY WebhooksAssumption DEF ProfileInv, HookInv
  <1>3. /\ profileTxn'[c] = NoProfile
        /\ \A d \in ProfileCallers \ {c} : profileTxn'[d] = profileTxn[d]
        /\ \A h \in Deliveries \ {c} : delivery'[h] = delivery[h]
    BY <1>1, <1>2
  <1>4. \A h \in Deliveries : profileTxn'[h] # NoProfile => Holds(h, IdentityKinds)'
    BY <1>2, <1>3 DEF VerdictInv, Holds
  <1>5. ASSUME ~ excused
        PROVE  Linked' /\ Approved' /\ \A h \in Deliveries : Verdict(h)'
    <2>1. \A d \in ProfileCallers : profileTxn'[d] = NoProfile
      BY <1>1, <1>3, <1>5, OneOpen
    <2>2. Linked /\ Approved /\ profile # NoProfile
      BY <1>1, <1>5, OneOpen DEF VerdictInv
    <2>3. profile'.session = IF t.session = Same THEN profile.session ELSE t.session
      BY <1>1 DEF Merged, Columns
    <2>4. profile'.session # Same
      BY <2>2, <2>3 DEF Linked
    <2>5. ASSUME NEW e \in processed', stripe[e] = Event("verified", profile'.session),
                 profile'.session \in VerificationSessions \ (lateLinks \union disordered)
          PROVE  profile'.status = "approved"
      <3>1. CASE e \in processed
        <4>1. Sent(e, IdentityKinds, profile'.session) /\ e \in DOMAIN stripe
          BY <2>5, <3>1, VerdictFacts
        <4>2. t.session # profile'.session
          BY <1>1, <2>2, <2>5, <4>1 DEF Linked
        <4>3. t.session = Same /\ profile'.session = profile.session
          BY <2>3, <4>2
        <4>4. Merged(t).status = "approved"
          BY <1>1, <2>2, <2>5, <3>1, <4>3 DEF Approved
        <4>5. QED
          BY <1>1, <4>4
      <3>2. CASE e \notin processed
        <4>1. c \in Deliveries /\ e = delivery[c]
          BY <2>5, <3>2
        <4>2. /\ Holds(c, IdentityKinds) /\ Verdict(c)
              /\ e \in DOMAIN stripe
          BY <1>1, <1>5, <4>1, VerdictFacts DEF VerdictInv, Holds
        <4>3. stripe[e].kind = "verified"
          BY <2>5, <4>2, VerdictFacts
        <4>4. QED
          BY <1>1, <4>1, <4>2, <4>3 DEF Verdict
      <3>3. QED
        BY <3>1, <3>2
    <2>6. Linked' /\ \A h \in Deliveries : Verdict(h)'
      BY <1>2, <2>1, <2>4 DEF Linked, Verdict
    <2>7. Approved'
      BY <2>1, <2>5 DEF Approved, Event
    <2>8. QED
      BY <2>6, <2>7
  <1>6. QED
    BY <1>1, <1>4, <1>5 DEF VerdictInv

\* A new row has no session; an excused step owes nothing.
LEMMA OthersKeepVerdicts ==
  ASSUME EventInv, ProfileInv, VerdictInv, UNCHANGED hookVars, UNCHANGED profileTxn,
         Activate \/ excused'
  PROVE  VerdictInv'
  <1>1. \A h \in Deliveries : profileTxn'[h] # NoProfile => Holds(h, IdentityKinds)'
    BY DEF VerdictInv, Holds, hookVars
  <1>2. CASE excused'
    BY <1>1, <1>2 DEF VerdictInv
  <1>3. CASE Activate /\ ~ excused'
    <2>1. /\ profile = NoProfile /\ profile'.session = NoProfile /\ ~ excused
      BY <1>3 DEF Activate, Skeleton
    <2>2. \A c \in ProfileCallers : profileTxn'[c] = NoProfile
      BY <2>1 DEF ProfileInv
    <2>3. Linked' /\ Approved' /\ \A h \in Deliveries : Verdict(h)'
      BY <2>1, <2>2, ProfileAssumption, WebhooksAssumption DEF Linked, Approved, Verdict
    <2>4. QED
      BY <1>1, <2>3 DEF VerdictInv
  <1>4. QED
    BY <1>2, <1>3

\* A delivery that ends, fails or takes an event, or leaves all that alone, while
\* the row stays as it is.
LEMMA DeliveryKeepsVerdicts ==
  ASSUME HookInv, EventInv, EventInv', ProfileInv, VerdictInv, NEW h \in Deliveries,
         UNCHANGED <<profile, excused, stripe, lateLinks>>, disordered \subseteq disordered',
         \A c \in ProfileCallers : profileTxn'[c] \in {profileTxn[c], NoProfile},
         \A g \in Deliveries \ {h} : delivery'[g] = delivery[g],
         delivery'[h] = delivery[h] \/ profileTxn'[h] = NoProfile,
         \/ processed' = processed
         \/ /\ processed' = processed \union {delivery[h]} /\ delivery[h] # NoEvent
            /\ \/ ~ Holds(h, {"verified"})
               \/ profile # NoProfile => profile.session # About(h)
  PROVE  VerdictInv'
  <1>1. \A e \in processed' \ processed :
          e \in DOMAIN stripe /\ (profile # NoProfile => stripe[e] # Event("verified", profile.session))
    BY VerdictFacts DEF Holds, About
  <1>2. \A g \in Deliveries : profileTxn'[g] # NoProfile => delivery'[g] = delivery[g]
    OBVIOUS
  <1>3. QED
    BY <1>1, <1>2, StillKeepsVerdicts

\* A delivery that has nothing to do with the profile has no transaction on it.
LEMMA CardsApart ==
  ASSUME VerdictInv, NEW h \in Deliveries, delivery[h] = NoEvent \/ Holds(h, CardKinds)
  PROVE  profileTxn[h] = NoProfile
  BY DEF VerdictInv, Holds, CardKinds, IdentityKinds

\* The deliveries, except for the handler of a verdict and its commit.
LEMMA DeliveriesKeepVerdicts ==
  ASSUME HookInv, EventInv, EventInv', ProfileInv, VerdictInv, NEW h \in Deliveries,
         \/ \E e \in Events : Receive(h, e)
         \/ BeginUpsert(h) \/ BeginDetached(h) \/ WriteMirror(h) \/ CommitMirror(h)
         \/ LoseSetupIntent(h) \/ DropVerdict(h) \/ FailDelivery(h)
  PROVE  VerdictInv'
  <1>1. /\ DOMAIN profileTxn = ProfileCallers /\ DOMAIN delivery = Deliveries
        /\ Deliveries \subseteq ProfileCallers
    BY WebhooksAssumption DEF ProfileInv, HookInv
  <1>2. ASSUME NEW e \in Events, Receive(h, e) PROVE VerdictInv'
    <2>1. /\ UNCHANGED <<profile, excused, stripe, lateLinks, processed, profileTxn>>
          /\ disordered \subseteq disordered' /\ delivery[h] = NoEvent
          /\ \A g \in Deliveries \ {h} : delivery'[g] = delivery[g]
      BY <1>1, <1>2 DEF Receive, profileVars
    <2>2. profileTxn'[h] = NoProfile
      BY <2>1, CardsApart
    <2>3. QED
      BY <2>1, <2>2, DeliveryKeepsVerdicts
  <1>3. CASE BeginUpsert(h) \/ BeginDetached(h)
    BY <1>3, DeliveryKeepsVerdicts DEF BeginUpsert, BeginDetached, hookVars, profileVars
  <1>4. CASE WriteMirror(h)
    <2>1. /\ UNCHANGED <<profile, excused, stripe, lateLinks, processed, profileTxn>>
          /\ disordered' = disordered /\ Holds(h, CardKinds)
          /\ \A g \in Deliveries \ {h} : delivery'[g] = delivery[g]
      BY <1>1, <1>4 DEF WriteMirror, GiveUp, profileVars, hookVars
    <2>2. profileTxn'[h] = NoProfile
      BY <2>1, CardsApart
    <2>3. QED
      BY <2>1, <2>2, DeliveryKeepsVerdicts
  <1>5. CASE CommitMirror(h) \/ LoseSetupIntent(h)
    <2>1. Holds(h, CardKinds) /\ ~ Holds(h, {"verified"}) /\ delivery[h] # NoEvent
      BY <1>5 DEF CommitMirror, LoseSetupIntent, Holds, CardKinds
    <2>2. /\ UNCHANGED <<profile, excused, stripe, lateLinks, profileTxn>>
          /\ disordered' = disordered /\ processed' = processed \union {delivery[h]}
          /\ \A g \in Deliveries \ {h} : delivery'[g] = delivery[g]
      BY <1>1, <1>5 DEF CommitMirror, LoseSetupIntent, Answer, profileVars
    <2>3. profileTxn'[h] = NoProfile
      BY <2>1, <2>2, CardsApart
    <2>4. QED
      BY <2>1, <2>2, <2>3, DeliveryKeepsVerdicts
  <1>6. CASE DropVerdict(h)
    <2>1. /\ profile # NoProfile => profile.session # About(h)
          /\ delivery[h] # NoEvent /\ profileTxn[h] = NoProfile
      BY <1>6 DEF DropVerdict, Holds
    <2>2. /\ UNCHANGED <<profile, excused, stripe, lateLinks, profileTxn>>
          /\ disordered' = disordered /\ processed' = processed \union {delivery[h]}
          /\ \A g \in Deliveries \ {h} : delivery'[g] = delivery[g]
      BY <1>1, <1>6 DEF DropVerdict, Answer, profileVars
    <2>3. QED
      BY <2>1, <2>2, DeliveryKeepsVerdicts
  <1>7. CASE FailDelivery(h)
    <2>1. /\ UNCHANGED <<profile, excused, stripe, lateLinks, processed>>
          /\ disordered' = disordered
          /\ profileTxn' = [profileTxn EXCEPT ![h] = NoProfile]
          /\ \A g \in Deliveries \ {h} : delivery'[g] = delivery[g]
      BY <1>1, <1>7 DEF FailDelivery, GiveUp
    <2>2. QED
      BY <1>1, <2>1, DeliveryKeepsVerdicts
  <1>8. QED
    BY <1>2, <1>3, <1>4, <1>5, <1>6, <1>7

\* A refusal comes before the verification of the session, so that in order it finds
\* it unprocessed.
LEMMA RefusedBefore ==
  ASSUME HookInv, EventInv, NEW h \in Deliveries, Holds(h, {"requires_input"}),
         profile.session = About(h), Verification(lateLinks)
  PROVE  FALSE
  <1>1. PICK e \in processed : stripe[e] = Event("verified", profile.session)
    BY DEF Verification
  <1>2. /\ e \in DOMAIN stripe /\ delivery[h] \in DOMAIN stripe
        /\ stripe[e].kind = "verified" /\ stripe[e].about = profile.session
        /\ delivery[h] \notin processed
    BY <1>1, VerdictFacts DEF Holds, HookInv
  <1>3. Sent(delivery[h], IdentityKinds, stripe[e].about)
    BY <1>2 DEF Sent, Holds, About, IdentityKinds
  <1>4. delivery[h] <= e /\ delivery[h] # e /\ DOMAIN stripe \subseteq Nat \ {0}
    BY <1>1, <1>2, <1>3, EventTypes DEF EventInv, EventsTyped
  <1>5. delivery[h] \in 1 .. (e - 1) /\ stripe[delivery[h]].about = stripe[e].about
    BY <1>2, <1>3, <1>4 DEF Sent
  <1>6. stripe[e].about \notin disordered
    BY <1>2 DEF Verification
  <1>7. QED
    BY <1>1, <1>2, <1>5, <1>6 DEF EventInv, InOrder

\* The handler of a verdict opens its transaction on the row of the session.
LEMMA HandlersKeepVerdicts ==
  ASSUME HookInv, EventInv, ProfileInv, ProfileInv', VerdictInv, NEW h \in Deliveries,
         HandleVerdict(h)
  PROVE  VerdictInv'
  <1> DEFINE yes == [profile EXCEPT !.status = "approved", !.active = TRUE]
             no == [profile EXCEPT !.status = "rejected", !.active = FALSE]
  <1>1. /\ Holds(h, IdentityKinds) /\ profile # NoProfile /\ UNCHANGED hookVars
        /\ profile.session = About(h) /\ DOMAIN profile = Columns /\ h \in ProfileCallers
        /\ Same # "approved" /\ Same # "rejected"
        /\ IF stripe[delivery[h]].kind = "verified" THEN Edit(h, yes) ELSE Edit(h, no)
    BY ProfileAssumption, WebhooksAssumption
       DEF HandleVerdict, ApproveIdentity, RejectIdentity, ProfileInv
  <1>2. /\ DOMAIN yes = Columns /\ yes.status = "approved" /\ yes.session = profile.session
        /\ DOMAIN no = Columns /\ no.status = "rejected" /\ no.session = profile.session
    BY <1>1 DEF Columns
  <1> HIDE DEF yes, no
  <1>3. CASE stripe[delivery[h]].kind = "verified"
    BY <1>1, <1>2, <1>3, EditKeepsVerdicts DEF hookVars
  <1>4. CASE stripe[delivery[h]].kind # "verified"
    <2>1. Holds(h, {"requires_input"})
      BY <1>1, <1>4 DEF Holds, IdentityKinds
    <2>2. ~ Verification(lateLinks)
      BY <1>1, <2>1, RefusedBefore
    <2>3. lateLinks' = lateLinks /\ UNCHANGED <<stripe, processed, delivery, disordered>>
      BY <1>1 DEF hookVars
    <2>4. QED
      BY <1>1, <1>2, <1>4, <2>2, <2>3, EditKeepsVerdicts
  <1>5. QED
    BY <1>3, <1>4

\* The commit of a verdict together with its id, and of a user's transaction.
LEMMA CommitsKeepVerdicts ==
  ASSUME HookInv, EventInv, ProfileInv, VerdictInv,
         \/ \E h \in Deliveries : CommitVerdict(h)
         \/ \E u \in ProfileCallers : CommitProfile(u) /\ UNCHANGED hookVars
  PROVE  VerdictInv'
  <1>1. ASSUME NEW h \in Deliveries, CommitVerdict(h) PROVE VerdictInv'
    <2>1. /\ CommitProfile(h) /\ h \in ProfileCallers
          /\ processed' = processed \union {delivery[h]}
          /\ delivery' = [delivery EXCEPT ![h] = NoEvent]
          /\ UNCHANGED <<stripe, disordered, lateLinks>>
      BY <1>1, WebhooksAssumption DEF CommitVerdict, Answer
    <2>2. QED
      BY <2>1, CommitKeepsVerdicts
  <1>2. ASSUME NEW u \in ProfileCallers, CommitProfile(u), UNCHANGED hookVars PROVE VerdictInv'
    BY <1>2, CommitKeepsVerdicts DEF hookVars
  <1>3. QED
    BY <1>1, <1>2

\* The routes that change neither the verdict nor the session.
LEMMA QuietRoutesKeepVerdicts ==
  ASSUME EventInv, ProfileInv, ProfileInv', VerdictInv,
         NEW u \in ProfileCallers \ Deliveries, NEW b \in BOOLEAN, UNCHANGED hookVars,
         profile # NoProfile,
         \/ SetAccepting(u, b) \/ PatchProfile(u, b) \/ Deactivate(u)
         \/ SubmitApplication(u) \/ ApproveDetailer(u) \/ SuspendDetailer(u)
  PROVE  VerdictInv'
  <1>1. DOMAIN profile = Columns
    BY DEF ProfileInv
  <1>2. \E new : /\ Edit(u, new) /\ DOMAIN new = Columns
                 /\ new.status = profile.status /\ new.session = profile.session
    BY <1>1 DEF SetAccepting, PatchProfile, Deactivate, SubmitApplication, ApproveDetailer,
                SuspendDetailer, Columns
  <1>3. PICK new : /\ Edit(u, new) /\ DOMAIN new = Columns
                   /\ new.status = profile.status /\ new.session = profile.session
    BY <1>2
  <1>4. UNCHANGED <<stripe, processed, delivery, disordered>> /\ lateLinks' = lateLinks
    BY DEF hookVars
  <1>5. QED
    BY <1>3, <1>4, EditKeepsVerdicts

\* A session that was just created has not been asked about.
LEMMA StartsKeepVerdicts ==
  ASSUME EventInv, ProfileInv, ProfileInv', VerdictInv,
         NEW u \in ProfileCallers \ Deliveries, NEW s \in VerificationSessions,
         UNCHANGED hookVars, profile # NoProfile, StartVerification(u, s)
  PROVE  VerdictInv'
  <1> DEFINE new == [profile EXCEPT !.session = s,
                       !.status = IF @ = "not_submitted" THEN "pending" ELSE @]
  <1>1. DOMAIN profile = Columns /\ Same # "pending" /\ s # Same /\ s \notin minted
    BY ProfileAssumption DEF ProfileInv, StartVerification
  <1>2. /\ DOMAIN new = Columns /\ new.session = s
        /\ new.status = IF profile.status = "not_submitted" THEN "pending" ELSE profile.status
    BY <1>1 DEF Columns
  <1>3. Edit(u, new)
    BY DEF StartVerification
  <1> HIDE DEF new
  <1>4. \A e \in DOMAIN stripe : \A x : Sent(e, IdentityKinds, x) => x \in minted
    BY DEF EventInv, EventsTyped, Sent
  <1>5. ~ (Verification(lateLinks) /\ profile.session = s)
    BY <1>1, <1>4, VerdictFacts DEF Verification
  <1>6. UNCHANGED <<stripe, processed, delivery, disordered>> /\ lateLinks' = lateLinks
    BY DEF hookVars
  <1>7. QED
    BY <1>1, <1>2, <1>3, <1>4, <1>5, <1>6, EditKeepsVerdicts

\* A session that is linked by its name after a verdict on it was sent is late.
LEMMA SubmissionsKeepVerdicts ==
  ASSUME EventInv, ProfileInv, ProfileInv', VerdictInv,
         NEW u \in ProfileCallers \ Deliveries, NEW s, SubmitVerification(u, s)
  PROVE  VerdictInv'
  <1>1. /\ profile # NoProfile => DOMAIN profile = Columns
        /\ Same # "pending"
        /\ UNCHANGED <<stripe, processed, delivery, disordered>>
        /\ lateLinks' = IF \E e \in DOMAIN stripe : stripe[e].about = s
                        THEN lateLinks \union {s} ELSE lateLinks
    BY ProfileAssumption DEF ProfileInv, SubmitVerification
  <1>2. CASE /\ s \in minted
             /\ Edit(u, [profile EXCEPT !.session = s, !.status = "pending", !.active = FALSE])
    <2> DEFINE new == [profile EXCEPT !.session = s, !.status = "pending", !.active = FALSE]
    <2>1. DOMAIN new = Columns /\ new.session = s /\ new.status = "pending"
      BY <1>1, <1>2 DEF Edit, Columns
    <2>2. Edit(u, new)
      BY <1>2
    <2> HIDE DEF new
    <2>3. s # Same /\ lateLinks \subseteq lateLinks'
      BY <1>1, <1>2, ProfileAssumption DEF EventInv, EventsTyped
    <2>4. \A e \in DOMAIN stripe : Sent(e, IdentityKinds, s) => s \in lateLinks'
      BY <1>1 DEF Sent
    <2>5. ~ (Verification(lateLinks') /\ profile.session = s)
      BY <2>4, VerdictFacts DEF Verification
    <2>6. QED
      BY <1>1, <2>1, <2>2, <2>3, <2>4, <2>5, EditKeepsVerdicts
  <1>3. CASE /\ s \in minted /\ profile = NoProfile
             /\ profile' = [Skeleton EXCEPT !.session = s, !.status = "pending"]
             /\ UNCHANGED <<profileTxn, excused>>
    <2>1. profile'.session = s /\ s # Same /\ s \in VerificationSessions
      BY <1>3, ProfileAssumption DEF Skeleton, EventInv, EventsTyped
    <2>2. \A h \in Deliveries : profileTxn'[h] # NoProfile => Holds(h, IdentityKinds)'
      BY <1>1, <1>3 DEF VerdictInv, Holds
    <2>3. ~ excused => \A c \in ProfileCallers : profileTxn'[c] = NoProfile
      BY <1>3 DEF ProfileInv
    <2>4. ASSUME NEW e \in processed, stripe[e] = Event("verified", s) PROVE s \in lateLinks'
      BY <1>1, <2>4, VerdictFacts DEF Event
    <2>5. ASSUME ~ excused' PROVE Linked' /\ Approved' /\ \A h \in Deliveries : Verdict(h)'
      <3>1. \A c \in ProfileCallers : profileTxn'[c] = NoProfile
        BY <1>3, <2>3, <2>5
      <3>2. Linked'
        BY <2>1, <3>1 DEF Linked
      <3>3. Approved'
        BY <1>1, <2>1, <2>4 DEF Approved, Event
      <3>4. \A h \in Deliveries : Verdict(h)'
        BY <3>1, WebhooksAssumption DEF Verdict
      <3>5. QED
        BY <3>2, <3>3, <3>4
    <2>6. QED
      BY <2>2, <2>5 DEF VerdictInv
  <1>4. CASE BypassVerification(u)
    <2>1. excused' /\ \A h \in Deliveries : profileTxn'[h] = profileTxn[h]
      BY <1>4, WebhooksAssumption DEF BypassVerification, ProfileInv
    <2>2. \A h \in Deliveries : profileTxn'[h] # NoProfile => Holds(h, IdentityKinds)'
      BY <1>1, <2>1 DEF VerdictInv, Holds
    <2>3. QED
      BY <2>1, <2>2 DEF VerdictInv
  <1>5. QED
    BY <1>2, <1>3, <1>4 DEF SubmitVerification, SubmitDetails

\* The users' requests on the profile.
LEMMA UsersKeepVerdicts ==
  ASSUME HookInv, EventInv, EventInv', ProfileInv, ProfileInv', VerdictInv,
         NEW u \in ProfileCallers \ Deliveries, UseProfile(u)
  PROVE  VerdictInv'
  <1>1. UNCHANGED hookVars /\ UNCHANGED <<stripe, lateLinks, disordered, processed, delivery>>
    BY DEF UseProfile, hookVars
  <1>2. CASE Activate \/ CreateProfile
    BY <1>1, <1>2, OthersKeepVerdicts DEF Activate, CreateProfile
  <1>3. CASE Onboard \/ AdminVerdict(u) \/ \E b \in BOOLEAN : ToggleStatus(u, b)
    BY <1>1, <1>3, OthersKeepVerdicts DEF Onboard, AdminVerdict, ToggleStatus, Overwrite
  <1>4. CASE CommitProfile(u)
    BY <1>1, <1>4, CommitsKeepVerdicts
  <1>5. CASE AbortProfile(u) \/ \E s \in VerificationSessions : MintOnly(s)
    <2>1. /\ UNCHANGED <<profile, excused>>
          /\ profileTxn' = profileTxn \/ profileTxn' = [profileTxn EXCEPT ![u] = NoProfile]
      BY <1>5 DEF AbortProfile, MintOnly
    <2>2. \A c \in ProfileCallers : profileTxn'[c] \in {profileTxn[c], NoProfile}
      BY <2>1 DEF ProfileInv
    <2>3. QED
      BY <1>1, <2>1, <2>2, StillKeepsVerdicts
  <1>6. CASE /\ profile # NoProfile
             /\ \/ \E b \in BOOLEAN : SetAccepting(u, b) \/ PatchProfile(u, b)
                \/ Deactivate(u)
                \/ SubmitApplication(u) \/ ApproveDetailer(u) \/ SuspendDetailer(u)
    BY <1>1, <1>6, QuietRoutesKeepVerdicts
  <1>7. CASE profile # NoProfile /\ \E s \in VerificationSessions : StartVerification(u, s)
    BY <1>1, <1>7, StartsKeepVerdicts
  <1>8. QED
    BY <1>2, <1>3, <1>4, <1>5, <1>6, <1>7 DEF UseProfile

\* A step on a card sends events of cards, if any.
LEMMA CardNews ==
  ASSUME EventsTyped,
         \/ \E p \in CardIds : AttachAtStripe(p) \/ UpdateAtStripe(p) \/ DetachAtStripe(p)
         \/ \E u \in Users : UserStep(u)
  PROVE  UNCHANGED stripe \/ \E p \in CardIds : Grown(CardKinds, p)
  <1>1. ASSUME NEW p \in CardIds, NEW k \in CardKinds,
               \/ Emit(<<Event(k, p)>>)
               \/ k = "attached" /\ Emit(<<Event(k, p), Event("setup_intent", p)>>)
        PROVE  Grown(CardKinds, p)
    <2>1. Grown({k, IF k = "attached" THEN "setup_intent" ELSE k}, p)
      BY <1>1, Emitting
    <2>2. {k, IF k = "attached" THEN "setup_intent" ELSE k} \subseteq CardKinds
      BY DEF CardKinds
    <2>3. QED
      BY <2>1, <2>2 DEF Grown
  <1>2. ASSUME NEW p \in CardIds, AttachAtStripe(p) \/ UpdateAtStripe(p) \/ DetachAtStripe(p)
        PROVE  Grown(CardKinds, p)
    <2>1. \E k \in CardKinds :
            \/ Emit(<<Event(k, p)>>)
            \/ k = "attached" /\ Emit(<<Event(k, p), Event("setup_intent", p)>>)
      BY <1>2 DEF AttachAtStripe, UpdateAtStripe, DetachAtStripe, CardKinds
    <2>2. QED
      BY <1>1, <2>1
  <1>3. ASSUME NEW u \in Users, UserStep(u)
        PROVE  UNCHANGED stripe \/ \E p \in CardIds : Grown(CardKinds, p)
    <2>1. \/ UNCHANGED stripe
          \/ /\ CommitCard(u, {cardTxn[u].row})
             /\ Emit(<<Event("detached", cardTxn[u].row)>>)
      BY <1>3 DEF UserStep, UseCards, CommitUserCard, hookVars
    <2>2. ASSUME CommitCard(u, {cardTxn[u].row}), Emit(<<Event("detached", cardTxn[u].row)>>)
          PROVE  \E p \in CardIds : Grown(CardKinds, p)
      <3>1. cardTxn[u].row \in CardIds /\ "detached" \in CardKinds
        BY <2>2 DEF CommitCard, EventsTyped, CardKinds
      <3>2. QED
        BY <1>1, <2>2, <3>1
    <2>3. QED
      BY <2>1, <2>2
  <1>4. QED
    BY <1>2, <1>3

\* Stripe's own steps and the users' requests on cards: events at most.
LEMMA SendersKeepVerdicts ==
  ASSUME HookInv, EventInv, EventInv', ProfileInv, VerdictInv,
         StripeNext \/ \E u \in Users : UserStep(u)
  PROVE  VerdictInv'
  <1>1. UNCHANGED profileTxn /\ UNCHANGED <<profile, excused>>
    BY DEF StripeNext, AttachAtStripe, UpdateAtStripe, DetachAtStripe, Decide, UserStep, UseCards,
           CommitUserCard, profileVars
  <1>2. ASSUME UNCHANGED <<processed, delivery, disordered>>, lateLinks \subseteq lateLinks',
               \A e \in DOMAIN stripe : e \in DOMAIN stripe' /\ stripe'[e] = stripe[e],
               \A s \in VerificationSessions \ lateLinks', e \in DOMAIN stripe' \ DOMAIN stripe :
                 stripe'[e].kind \in IdentityKinds /\ stripe'[e].about = s
                   => profile # NoProfile /\ profile.session = s
        PROVE  VerdictInv'
    BY <1>1, <1>2, StillKeepsVerdicts
  <1>3. ASSUME NEW s \in VerificationSessions, NEW v \in IdentityKinds, Decide(s, v)
        PROVE  VerdictInv'
    <2>1. Grown({v}, s) /\ UNCHANGED <<processed, delivery, disordered>>
      BY <1>3, Deciding DEF EventInv
    <2>2. lateLinks' = IF profile # NoProfile /\ profile.session = s THEN lateLinks
                                                                    ELSE lateLinks \union {s}
      BY <1>3 DEF Decide
    <2>3. QED
      BY <1>2, <2>1, <2>2 DEF Grown
  <1>4. CASE \/ \E p \in CardIds : AttachAtStripe(p) \/ UpdateAtStripe(p) \/ DetachAtStripe(p)
             \/ \E u \in Users : UserStep(u)
    <2>1. UNCHANGED <<processed, delivery, disordered, lateLinks>>
      BY <1>4 DEF AttachAtStripe, UpdateAtStripe, DetachAtStripe, Emit, UserStep, UseCards,
                  CommitUserCard, hookVars
    <2>2. UNCHANGED stripe \/ \E p \in CardIds : Grown(CardKinds, p)
      BY <1>4, CardNews DEF EventInv
    <2>3. QED
      BY <1>2, <2>1, <2>2 DEF Grown, CardKinds, IdentityKinds
  <1>5. QED
    BY <1>3, <1>4 DEF StripeNext

\* The verdicts, at the start and after every step.
LEMMA VerdictsInductive ==
  /\ WebhookInit => VerdictInv
  /\ HookInv /\ EventInv /\ ProfileInv /\ VerdictInv /\ [WebhookNext]_webhookVars => VerdictInv'
  <1>1. WebhookInit => VerdictInv
    BY WebhooksAssumption
       DEF WebhookInit, ProfileInit, VerdictInv, Linked, Approved, Verdict
  <1>2. ASSUME HookInv, EventInv, ProfileInv, VerdictInv, [WebhookNext]_webhookVars
        PROVE  VerdictInv'
    <2>1. EventInv' /\ ProfileInv'
      BY <1>2, EventsInductive, EveryStepProfile, ProfilePreserved
    <2>2. CASE UNCHANGED webhookVars
      BY <1>2, <2>1, <2>2, StillKeepsVerdicts DEF webhookVars, hookVars, profileVars
    <2>3. CASE StripeNext \/ \E u \in Users : UserStep(u)
      BY <1>2, <2>1, <2>3, SendersKeepVerdicts
    <2>4. ASSUME NEW h \in Deliveries, DeliveryStep(h) \/ LoseSetupIntent(h) \/ FailDelivery(h)
          PROVE  VerdictInv'
      BY <1>2, <2>1, <2>4, DeliveriesKeepVerdicts, HandlersKeepVerdicts, CommitsKeepVerdicts
         DEF DeliveryStep
    <2>5. ASSUME NEW u \in ProfileCallers \ Deliveries,
                 UseProfile(u) \/ \E s : SubmitVerification(u, s)
          PROVE  VerdictInv'
      BY <1>2, <2>1, <2>5, UsersKeepVerdicts, SubmissionsKeepVerdicts
    <2>6. QED
      BY <1>2, <2>2, <2>3, <2>4, <2>5 DEF WebhookNext, DeliveryNext, UserNext
  <1>3. QED
    BY <1>1, <1>2

\* The invariants of the events and of the verdicts, in every behaviour.
THEOREM VerdictInvariant == WebhookSpec => [](EventInv /\ VerdictInv)
  <1>1. WebhookInit => EventInv /\ VerdictInv
    BY EventsInductive, VerdictsInductive
  <1>2. HookInv /\ ProfileInv /\ (EventInv /\ VerdictInv) /\ [WebhookNext]_webhookVars
          => (EventInv /\ VerdictInv)'
    BY EventsInductive, VerdictsInductive
  <1>3. QED
    BY <1>1, <1>2, HookInvariant, ProfileInvariant, PTL DEF WebhookSpec

\* "Mark detailer as approved when Stripe verifies their identity": once every event
\* is processed, the verification of the session the row is linked to stands, whatever
\* deliveries were duplicated, overlapped or failed.
THEOREM VerificationStands == WebhookSpec => []VerdictStands
  <1>1. EventInv /\ VerdictInv => VerdictStands
    BY DEF EventInv, VerdictInv, Approved, VerdictStands, AtRest, Verified
  <1>2. QED
    BY <1>1, VerdictInvariant, PTL

-----------------------------------------------------------------------------
(* The default card *)

\* A delivery reads the row of its card.
LEMMA SnapshotsKeepDefault ==
  ASSUME DefaultInv, NEW c \in CardCallers, NEW p \in CardIds,
         ReadSnapshot(c, p) \/ BeginDetach(c, p)
  PROVE  DefaultInv'
  <1>1. \E pc \in {"new", "existing", "detach"}, flag \in BOOLEAN :
          /\ Mirror!Begin(c, pc, p, flag)
          /\ pc = "existing" => cards[p] # NoCard
    BY DEF ReadSnapshot, BeginDetach
  <1>2. PICK pc \in {"new", "existing", "detach"}, flag \in BOOLEAN :
          /\ Mirror!Begin(c, pc, p, flag)
          /\ pc = "existing" => cards[p] # NoCard
    BY <1>1
  <1>3. pc \in Mirror!Points /\ orphaned' = orphaned
    BY DEF Mirror!Points, ReadSnapshot, BeginDetach
  <1>4. Mirror!FlagInv'
    BY <1>2, <1>3, CardsAssumption, Mirror!BeginKeepsFlagInv DEF DefaultInv
  <1>5. ASSUME ~ cardsOverlap', ~ orphaned' PROVE Mirror!DefaultHeld'
    <2>1. Mirror!DefaultHeld
      BY <1>2, <1>3, <1>5 DEF DefaultInv, Mirror!Begin
    <2>2. QED
      BY <1>2, <1>3, <1>5, <2>1, CardsAssumption, Mirror!BeginKeepsDefault DEF DefaultInv
  <1>6. QED
    BY <1>4, <1>5 DEF DefaultInv

\* The rows a delivery is about to write for the first time.
LEMMA FirstSight ==
  ASSUME DefaultInv, NEW c \in CardCallers, cardTxn[c].pc \in {"new", "existing", "detach"}
  PROVE  /\ cardTxn[c].row \in CardIds /\ Mirror!Held(c) = {}
         /\ \A p \in CardIds : Mirror!View(c, p) = cards[p]
         /\ cards[cardTxn[c].row] \in Mirror!Flags \union {NoCard}
         /\ cardTxn[c].pc = "existing" => cards[cardTxn[c].row] # NoCard
         /\ ~ cardsOverlap /\ ~ orphaned => Mirror!SeesDefault(c)
  <1>1. /\ Mirror!Standing(c) /\ cardTxn[c].row \in CardIds /\ Mirror!Held(c) = {}
        /\ cards \in [CardIds -> Mirror!Flags \union {NoCard}]
    BY DEF DefaultInv, Mirror!FlagInv, Mirror!Standing
  <1>2. \A p \in CardIds : Mirror!View(c, p) = cards[p]
    BY <1>1 DEF Mirror!View, Mirror!Held
  <1>3. ~ cardsOverlap /\ ~ orphaned => Mirror!SeesDefault(c)
    BY DEF DefaultInv, Mirror!DefaultHeld, Mirror!Provided, Mirror!Owes
  <1>4. QED
    BY <1>1, <1>2, <1>3 DEF Mirror!Standing

\* The first card becomes the default, the others do not touch it.
LEMMA InsertKeepsDefault ==
  ASSUME DefaultInv, NEW c \in CardCallers, InsertCard(c) PROVE DefaultInv'
  <1> DEFINE p == cardTxn[c].row
             v == [deleted |-> FALSE, default |-> Mirror!Active(c) = {}]
  <1>1. /\ cardTxn[c].pc = "new" /\ orphaned' = orphaned
        /\ \/ Mirror!Rollback(c)
           \/ cards[p] = NoCard /\ Mirror!Write(c, p, v, "done")
    BY DEF InsertCard
  <1>2. /\ v \in Mirror!Flags /\ v.deleted = FALSE /\ (v.default <=> Mirror!Active(c) = {})
    BY DEF Mirror!Flags
  <1> HIDE DEF v
  <1>3. CASE Mirror!Rollback(c)
    BY <1>1, <1>3, CardsAssumption, Mirror!RollbackKeepsFlagInv, Mirror!RollbackKeepsDefault
       DEF DefaultInv, Mirror!Rollback
  <1>4. CASE cards[p] = NoCard /\ Mirror!Write(c, p, v, "done")
    <2>1. p \in CardIds /\ Mirror!View(c, p) = NoCard
      BY <1>1, <1>4, FirstSight
    <2>2. "done" \in Mirror!Points
      BY DEF Mirror!Points
    <2>3. Mirror!FlagInv' /\ cardsOverlap' = cardsOverlap
      BY <1>2, <1>4, <2>1, <2>2, CardsAssumption, Mirror!WriteKeepsFlagInv DEF DefaultInv
    <2>4. ASSUME ~ cardsOverlap, ~ orphaned PROVE Mirror!DefaultHeld'
      <3>1. Mirror!DefaultHeld /\ Mirror!SeesDefault(c)
        BY <1>1, <2>4, FirstSight DEF DefaultInv
      <3>2. ~ Mirror!IsDefault(Mirror!View(c, p))
        BY <2>1, CardsAssumption DEF Mirror!IsDefault, Mirror!Marks
      <3>3. Mirror!IsDefault(v) \/ Mirror!Active(c) # {}
        BY <1>2 DEF Mirror!IsDefault
      <3>4. QED
        BY <1>1, <1>2, <1>4, <2>1, <3>1, <3>2, <3>3, CardsAssumption,
           Mirror!LastWriteKeepsDefault DEF DefaultInv
    <2>5. QED
      BY <1>1, <2>3, <2>4 DEF DefaultInv
  <1>5. QED
    BY <1>1, <1>3, <1>4

\* A row that was not soft-deleted keeps its flag.
LEMMA UpdateKeepsDefault ==
  ASSUME DefaultInv, NEW c \in CardCallers, UpdateCard(c) PROVE DefaultInv'
  <1> DEFINE p == cardTxn[c].row
             v == IF cardTxn[c].flag THEN [cards[p] EXCEPT !.deleted = FALSE] ELSE cards[p]
  <1>1. /\ cardTxn[c].pc = "existing" /\ orphaned' = (orphaned \/ cardTxn[c].flag)
        /\ Mirror!Write(c, p, v, "done")
    BY DEF UpdateCard
  <1>2. /\ p \in CardIds /\ Mirror!View(c, p) = cards[p] /\ cards[p] \in Mirror!Flags
        /\ ~ cardsOverlap /\ ~ orphaned => Mirror!SeesDefault(c)
    BY <1>1, FirstSight
  <1>3. v \in Mirror!Flags /\ (~ cardTxn[c].flag => v = cards[p])
    BY <1>2 DEF Mirror!Flags
  <1> HIDE DEF v
  <1>4. "done" \in Mirror!Points
    BY DEF Mirror!Points
  <1>5. Mirror!FlagInv' /\ cardsOverlap' = cardsOverlap
    BY <1>1, <1>2, <1>3, <1>4, CardsAssumption, Mirror!WriteKeepsFlagInv DEF DefaultInv
  <1>6. ASSUME ~ cardsOverlap, ~ orphaned' PROVE Mirror!DefaultHeld'
    <2>1. Mirror!DefaultHeld /\ Mirror!SeesDefault(c) /\ v = cards[p]
      BY <1>1, <1>2, <1>3, <1>6 DEF DefaultInv
    <2>2. Mirror!IsDefault(cards[p]) => ~ v.deleted
      BY <2>1 DEF Mirror!IsDefault
    <2>3. QED
      BY <1>1, <1>2, <1>3, <2>1, <2>2, CardsAssumption, Mirror!LastWriteKeepsDefault DEF DefaultInv
  <1>7. QED
    BY <1>1, <1>5, <1>6 DEF DefaultInv

\* A card that is not the default leaves.
LEMMA DetachKeepsDefault ==
  ASSUME DefaultInv, NEW c \in CardCallers, DetachCard(c) PROVE DefaultInv'
  <1> DEFINE p == cardTxn[c].row
             v == [deleted |-> TRUE, default |-> FALSE]
  <1>1. /\ cardTxn[c].pc = "detach" /\ orphaned' = (orphaned \/ Mirror!IsDefault(cards[p]))
        /\ Mirror!Write(c, p, v, "done") \/ Mirror!Goto(c, "done")
    BY DEF DetachCard
  <1>2. /\ p \in CardIds /\ Mirror!View(c, p) = cards[p]
        /\ ~ cardsOverlap /\ ~ orphaned => Mirror!SeesDefault(c)
    BY <1>1, FirstSight
  <1>3. v \in Mirror!Flags /\ v.deleted /\ "done" \in Mirror!Points
    BY DEF Mirror!Flags, Mirror!Points
  <1> HIDE DEF v
  <1>4. CASE Mirror!Write(c, p, v, "done")
    <2>1. Mirror!FlagInv' /\ cardsOverlap' = cardsOverlap
      BY <1>2, <1>3, <1>4, CardsAssumption, Mirror!WriteKeepsFlagInv DEF DefaultInv
    <2>2. ASSUME ~ cardsOverlap, ~ orphaned' PROVE Mirror!DefaultHeld'
      <3>1. Mirror!DefaultHeld /\ Mirror!SeesDefault(c) /\ ~ Mirror!IsDefault(cards[p])
        BY <1>1, <1>2, <2>2 DEF DefaultInv
      <3>2. QED
        BY <1>1, <1>2, <1>3, <1>4, <3>1, CardsAssumption, Mirror!LastWriteKeepsDefault DEF DefaultInv
    <2>3. QED
      BY <1>1, <2>1, <2>2 DEF DefaultInv
  <1>5. CASE Mirror!Goto(c, "done")
    <2> DEFINE t == [cardTxn[c] EXCEPT !.pc = "done"]
    <2>1. /\ cardTxn' = [cardTxn EXCEPT ![c] = t] /\ cards' = cards /\ cardsOverlap' = cardsOverlap
          /\ t.pc = "done" /\ t.deleting = cardTxn[c].deleting /\ t.writes = cardTxn[c].writes
          /\ t \in Mirror!Txns
      BY <1>3, <1>5, Mirror!GotoEffect DEF DefaultInv
    <2> HIDE DEF t
    <2>2. /\ Mirror!FlagInv' /\ cardTxn'[c] = t /\ Mirror!Held(c)' = Mirror!Held(c)
          /\ \A q \in CardIds : Mirror!View(c, q)' = Mirror!View(c, q)
      BY <2>1, CardsAssumption, Mirror!MoveKeepsFlagInv DEF DefaultInv
    <2>3. ASSUME ~ cardsOverlap, ~ orphaned PROVE Mirror!DefaultHeld'
      <3>1. Mirror!DefaultHeld /\ Mirror!Provided(c) /\ Mirror!SeesDefault(c)
        BY <1>2, <2>3 DEF DefaultInv, Mirror!DefaultHeld
      <3>2. Mirror!SeesDefault(c)'
        BY <2>2, <3>1, Mirror!SameSight
      <3>3. Mirror!Provided(c)'
        BY <1>1, <2>1, <2>2, <3>1, <3>2 DEF Mirror!Provided
      <3>4. QED
        BY <1>1, <2>1, <3>1, <3>3, Mirror!StatementKeepsDefault DEF DefaultInv
    <2>4. QED
      BY <1>1, <2>1, <2>2, <2>3 DEF DefaultInv
  <1>6. QED
    BY <1>1, <1>4, <1>5

\* The user's own calls, by the lemmas of DefaultFlagProofs.
LEMMA CallsKeepDefault ==
  ASSUME DefaultInv, NEW c \in CardCallers, UseCards(c) PROVE DefaultInv'
  <1>1. CASE ReadDefaultTarget(c) \/ ReadCardToDelete(c)
    <2>1. PICK p : Mirror!ReadForDefault(c, p) \/ Mirror!ReadForDelete(c, p)
      BY <1>1 DEF ReadDefaultTarget, ReadCardToDelete
    <2>2. (cardsOverlap => cardsOverlap') /\ orphaned' = orphaned
      BY <1>1, <2>1 DEF ReadDefaultTarget, ReadCardToDelete, Mirror!ReadForDefault,
                        Mirror!ReadForDelete, Mirror!Begin
    <2>3. QED
      BY <2>1, <2>2, CardsAssumption, Mirror!ReadersKeep DEF DefaultInv
  <1>2. CASE PivotDefault(c)
    BY <1>2, CardsAssumption, Mirror!PivotKeeps
       DEF PivotDefault, DefaultInv, Mirror!Pivot, Mirror!Rollback
  <1>3. CASE SoftDeleteCard(c)
    BY <1>3, CardsAssumption, Mirror!SoftDeleteKeeps
       DEF SoftDeleteCard, DefaultInv, Mirror!SoftDelete, Mirror!Write, Mirror!Goto, Mirror!Rollback
  <1>4. CASE ReplaceDefault(c)
    BY <1>4, CardsAssumption, Mirror!PickReplacementKeeps, Mirror!PromoteKeeps
       DEF ReplaceDefault, DefaultInv, Mirror!PickReplacement, Mirror!Promote, Mirror!Write,
           Mirror!Goto, Mirror!Rollback
  <1>5. CASE AbortCard(c)
    BY <1>5, CardsAssumption, Mirror!RollbackKeepsFlagInv, Mirror!RollbackKeepsDefault
       DEF AbortCard, DefaultInv, Mirror!Rollback
  <1>6. QED
    BY <1>1, <1>2, <1>3, <1>4, <1>5 DEF UseCards

\* The steps that leave the cards and their transactions alone.
LEMMA OthersKeepDefault ==
  ASSUME DefaultInv, UNCHANGED <<cards, cardTxn, cardsOverlap, orphaned>> PROVE DefaultInv'
  BY DEF DefaultInv, Mirror!FlagInv, Mirror!Standing, Mirror!RowLocks, Mirror!SingleDefault,
         Mirror!Held, Mirror!View, Mirror!IndexFree, Mirror!DefaultHeld, Mirror!HasDefault,
         Mirror!Provided, Mirror!Owes, Mirror!SeesDefault, Mirror!Active

\* One default card and no card without one, at the start and after every step.
LEMMA DefaultInductive ==
  /\ WebhookInit => DefaultInv
  /\ EventInv /\ DefaultInv /\ [WebhookNext]_webhookVars => DefaultInv'
  <1>1. ASSUME WebhookInit PROVE DefaultInv
    <2>1. /\ cards = [p \in CardIds |-> NoCard] /\ cardTxn = [c \in CardCallers |-> Mirror!Idle]
      BY <1>1 DEF WebhookInit, CardInit, Mirror!Init
    <2>2. Mirror!Idle \in Mirror!Txns /\ Mirror!Idle.pc = "idle" /\ ~ Mirror!Idle.deleting
      BY DEF Mirror!Idle, Mirror!Txns, Mirror!Points
    <2>3. \A c \in CardCallers, p \in CardIds :
            /\ cardTxn[c].writes[p] = Unwritten /\ Mirror!View(c, p) = NoCard /\ cards[p] = NoCard
      BY <2>1 DEF Mirror!View, Mirror!Idle
    <2>4. ~ Mirror!IsDefault(NoCard) /\ ~ Mirror!IsDefault(Unwritten)
      BY CardsAssumption DEF Mirror!IsDefault, Mirror!Marks
    <2>5. Mirror!FlagInv
      BY <2>1, <2>2, <2>3, <2>4
         DEF Mirror!FlagInv, Mirror!Standing, Mirror!RowLocks, Mirror!SingleDefault, Mirror!Held
    <2>6. Mirror!DefaultHeld
      BY <2>1, <2>2, <2>3 DEF Mirror!DefaultHeld, Mirror!HasDefault, Mirror!Provided
    <2>7. QED
      BY <2>5, <2>6 DEF DefaultInv
  <1>2. ASSUME EventInv, DefaultInv, [WebhookNext]_webhookVars PROVE DefaultInv'
    <2>1. Deliveries \subseteq CardCallers /\ Users \subseteq CardCallers
      BY WebhooksAssumption DEF Users
    <2>2. CASE UNCHANGED webhookVars
      BY <1>2, <2>2, OthersKeepDefault DEF webhookVars, cardVars
    <2>3. CASE StripeNext
      BY <1>2, <2>3, OthersKeepDefault
         DEF StripeNext, AttachAtStripe, UpdateAtStripe, DetachAtStripe, Decide, cardVars
    <2>4. ASSUME NEW h \in Deliveries, DeliveryStep(h) \/ LoseSetupIntent(h) \/ FailDelivery(h)
          PROVE  DefaultInv'
      <3>1. CASE BeginUpsert(h) \/ BeginDetached(h)
        <4>1. /\ Holds(h, CardKinds)
              /\ ReadSnapshot(h, About(h)) \/ BeginDetach(h, About(h))
          BY <3>1 DEF BeginUpsert, BeginDetached, Holds, CardKinds
        <4>2. About(h) \in CardIds
          BY <1>2, <4>1 DEF EventInv, EventsTyped, Holds, About
        <4>3. QED
          BY <1>2, <2>1, <4>1, <4>2, SnapshotsKeepDefault
      <3>2. CASE WriteMirror(h)
        BY <1>2, <2>1, <3>2, InsertKeepsDefault, UpdateKeepsDefault, DetachKeepsDefault DEF WriteMirror
      <3>3. CASE CommitMirror(h)
        BY <1>2, <2>1, <3>3, CardsAssumption, Mirror!CommitKeepsFlagInv, Mirror!CommitKeepsDefault
           DEF CommitMirror, CommitCard, DefaultInv, Mirror!Commit
      <3>4. CASE FailDelivery(h)
        BY <1>2, <2>1, <3>4, CardsAssumption, Mirror!RollbackKeepsFlagInv,
           Mirror!RollbackKeepsDefault DEF FailDelivery, DefaultInv
      <3>5. CASE \/ \E e \in Events : Receive(h, e)
                 \/ HandleVerdict(h) \/ DropVerdict(h) \/ CommitVerdict(h) \/ LoseSetupIntent(h)
        BY <1>2, <3>5, OthersKeepDefault
           DEF Receive, HandleVerdict, DropVerdict, CommitVerdict, LoseSetupIntent, cardVars
      <3>6. QED
        BY <2>4, <3>1, <3>2, <3>3, <3>4, <3>5 DEF DeliveryStep
    <2>5. ASSUME NEW u \in Users, UserStep(u) PROVE DefaultInv'
      <3>1. CASE UseCards(u)
        BY <1>2, <2>1, <3>1, CallsKeepDefault
      <3>2. CASE CommitUserCard(u)
        <4>1. Mirror!Commit(u) /\ orphaned' = orphaned /\ cardsOverlap' = cardsOverlap
          BY <3>2 DEF CommitUserCard, CommitCard, Mirror!Commit
        <4>2. QED
          BY <1>2, <2>1, <4>1, CardsAssumption, Mirror!CommitKeepsFlagInv,
             Mirror!CommitKeepsDefault DEF DefaultInv
      <3>3. QED
        BY <2>5, <3>1, <3>2 DEF UserStep
    <2>6. ASSUME NEW u, UseProfile(u) \/ \E s : SubmitVerification(u, s) PROVE DefaultInv'
      BY <1>2, <2>6, OthersKeepDefault DEF UseProfile, SubmitVerification, cardVars
    <2>7. QED
      BY <1>2, <2>2, <2>3, <2>4, <2>5, <2>6 DEF WebhookNext, DeliveryNext, UserNext
  <1>3. QED
    BY <1>1, <1>2

\* The invariant of the cards and their default, in every behaviour.
THEOREM DefaultCard == WebhookSpec => []DefaultInv
  BY DefaultInductive, VerdictInvariant, PTL DEF WebhookSpec

\* First card, set_default and delete keep a default among the active cards, however
\* the deliveries interleave with each other and with the user's calls.
THEOREM CardDefaultIsKept == WebhookSpec => []CardDefaultKept
  <1>1. DefaultInv => CardDefaultKept
    BY DEF DefaultInv, CardDefaultKept, Mirror!DefaultHeld
  <1>2. QED
    BY <1>1, DefaultCard, PTL

-----------------------------------------------------------------------------
(* The detached cards *)

\* What Stripe may do to the events and the attached cards in one step.
Heard ==
  \/ UNCHANGED <<stripe, attached>>
  \/ UNCHANGED attached /\ \E kinds \in SUBSET IdentityKinds : \E x : Grown(kinds, x)
  \/ \E p \in CardIds :
       \/ Grown(CardKinds, p) /\ p \in attached' /\ attached' \ {p} = attached \ {p}
       \/ Grown({"detached"}, p) /\ attached' = attached \ {p}

\* The events sent before are still there, and the latest about p is among the new
\* ones if there is any.
LEMMA Hearing ==
  ASSUME EventInv, Heard
  PROVE  /\ \A e \in DOMAIN stripe : e \in DOMAIN stripe' /\ stripe'[e] = stripe[e]
         /\ \A e \in DOMAIN stripe' \ DOMAIN stripe : \A f \in DOMAIN stripe : f < e
         /\ DOMAIN stripe \subseteq Nat
  <1>1. DOMAIN stripe \subseteq Nat
    BY EventTypes DEF EventInv
  <1>2. QED
    BY <1>1 DEF Heard, Grown

\* Whether the last event about a card tells of its detachment.
LEMMA ToldKept ==
  ASSUME EventInv, Told, Heard,
         \A p \in CardIds : cards[p] = NoCard /\ (\A e \in DOMAIN stripe : ~ Sent(e, CardKinds, p))
           => cards'[p] = NoCard
  PROVE  Told'
  <1>1. CASE UNCHANGED <<stripe, attached>>
    BY <1>1 DEF Told, LastSent, Sent
  <1>2. ASSUME NEW kinds, NEW x, Grown(kinds, x), NEW q \in CardIds,
               x # q \/ kinds \subseteq IdentityKinds, q \in attached' <=> q \in attached
        PROVE  \/ /\ cards'[q] = NoCard /\ q \notin attached'
                  /\ \A e \in DOMAIN stripe' : ~ Sent(e, CardKinds, q)'
               \/ \E e \in DOMAIN stripe' :
                    LastSent(e, q)' /\ (q \notin attached' => stripe'[e].kind = "detached")
    <2>1. /\ \A e \in DOMAIN stripe : e \in DOMAIN stripe' /\ stripe'[e] = stripe[e]
          /\ \A e \in DOMAIN stripe' \ DOMAIN stripe : stripe'[e].kind \in kinds /\ stripe'[e].about = x
      BY <1>2 DEF Grown
    <2>2. \A e \in DOMAIN stripe' : Sent(e, CardKinds, q)' <=> Sent(e, CardKinds, q)
      BY <1>2, <2>1 DEF Sent, CardKinds, IdentityKinds
    <2>3. CASE /\ cards[q] = NoCard /\ q \notin attached
               /\ \A e \in DOMAIN stripe : ~ Sent(e, CardKinds, q)
      BY <1>2, <2>2, <2>3 DEF Sent
    <2>4. CASE \E e \in DOMAIN stripe :
                 LastSent(e, q) /\ (q \notin attached => stripe[e].kind = "detached")
      <3>1. PICK e \in DOMAIN stripe :
                   LastSent(e, q) /\ (q \notin attached => stripe[e].kind = "detached")
        BY <2>4
      <3>2. LastSent(e, q)'
        BY <2>1, <2>2, <3>1 DEF LastSent, Sent
      <3>3. QED
        BY <1>2, <2>1, <3>1, <3>2
    <2>5. QED
      BY <2>3, <2>4 DEF Told
  <1>3. CASE UNCHANGED attached /\ \E kinds \in SUBSET IdentityKinds : \E x : Grown(kinds, x)
    BY <1>2, <1>3 DEF Told
  <1>4. ASSUME NEW p \in CardIds, NEW kinds \in SUBSET CardKinds, Grown(kinds, p),
               attached' \ {p} = attached \ {p},
               p \notin attached' => kinds = {"detached"}
        PROVE  Told'
    <2>1. PICK e \in DOMAIN stripe' \ DOMAIN stripe : \A f \in DOMAIN stripe' : f <= e
      BY <1>4 DEF Grown
    <2>2. /\ stripe'[e].kind \in kinds /\ stripe'[e].about = p
          /\ \A f \in DOMAIN stripe' : f <= e
      BY <1>4, <2>1 DEF Grown
    <2>3. LastSent(e, p)' /\ (p \notin attached' => stripe'[e].kind = "detached")
      BY <1>4, <2>1, <2>2 DEF LastSent, Sent
    <2>4. QED
      BY <1>2, <1>4, <2>1, <2>3 DEF Told
  <1>5. QED
    BY <1>1, <1>3, <1>4 DEF Heard, CardKinds

\* Nothing that revives a card, takes a new one or processes a detachment.
LEMMA GoneKept ==
  ASSUME EventInv, EventInv', Gone, Heard, disordered \subseteq disordered',
         \A e \in processed' \ processed : e \in DOMAIN stripe /\ stripe[e].kind # "detached",
         \A h \in Deliveries : cardTxn'[h].pc = "done" =>
           \/ /\ cardTxn[h].pc = "done" /\ delivery'[h] = delivery[h] /\ delivery[h] \in DOMAIN stripe
              /\ \A p \in CardIds : p \in Mirror!Active(h)' => p \in Mirror!Active(h)
           \/ \A p \in CardIds : stripe'[delivery'[h]] = Event("detached", p) => p \notin Mirror!Active(h)',
         \A p \in CardIds : p \in ActiveCards' => p \in ActiveCards
  PROVE  Gone'
  <1>1. /\ \A e \in DOMAIN stripe : e \in DOMAIN stripe' /\ stripe'[e] = stripe[e]
        /\ \A e \in DOMAIN stripe' \ DOMAIN stripe : \A f \in DOMAIN stripe : f < e
        /\ DOMAIN stripe \subseteq Nat
        /\ processed \subseteq DOMAIN stripe
    BY Hearing DEF EventInv, EventsTyped
  <1>2. ASSUME NEW p \in CardIds \ disordered', NEW e \in DOMAIN stripe', Sent(e, {"detached"}, p)'
        PROVE  /\ e \in processed' /\ LastSent(e, p)' => p \notin ActiveCards'
               /\ \A h \in Deliveries :
                    delivery'[h] = e /\ cardTxn'[h].pc = "done" => p \notin Mirror!Active(h)'
    <2>1. ASSUME e \in processed', LastSent(e, p)' PROVE p \notin ActiveCards'
      <3>1. e \in DOMAIN stripe
        BY <1>1, <2>1
      <3>2. Sent(e, {"detached"}, p)
        BY <1>1, <1>2, <3>1 DEF Sent
      <3>3. e \in processed
        BY <2>1, <3>1, <3>2 DEF Sent
      <3>4. LastSent(e, p)
        BY <1>1, <2>1, <3>1 DEF LastSent, Sent
      <3>5. p \notin ActiveCards
        BY <1>2, <3>1, <3>2, <3>3, <3>4 DEF Gone
      <3>6. QED
        BY <3>5
    <2>2. ASSUME NEW h \in Deliveries, delivery'[h] = e, cardTxn'[h].pc = "done"
          PROVE  p \notin Mirror!Active(h)'
      <3>1. CASE /\ cardTxn[h].pc = "done" /\ delivery[h] = e /\ e \in DOMAIN stripe
                 /\ p \in Mirror!Active(h)' => p \in Mirror!Active(h)
        <4>1. Sent(e, {"detached"}, p)
          BY <1>1, <1>2, <3>1 DEF Sent
        <4>2. QED
          BY <1>2, <3>1, <4>1 DEF Gone
      <3>2. CASE stripe'[e] = Event("detached", p) => p \notin Mirror!Active(h)'
        <4>1. stripe' \in Seq(AllEvents)
          BY DEF EventInv, EventsTyped, AllEvents
        <4>2. stripe'[e] \in AllEvents
          BY <1>2, <4>1, Elements
        <4>3. stripe'[e].kind = "detached" /\ stripe'[e].about = p
          BY <1>2 DEF Sent
        <4>4. stripe'[e] = Event("detached", p)
          BY <4>2, <4>3 DEF Event, AllEvents
        <4>5. QED
          BY <3>2, <4>4
      <3>3. QED
        BY <2>2, <3>1, <3>2
    <2>3. QED
      BY <2>1, <2>2
  <1>3. QED
    BY <1>2 DEF Gone

\* The views of the callers a step does not concern.
LEMMA SameView ==
  ASSUME NEW c \in CardCallers, cards' = cards, cardTxn'[c] = cardTxn[c]
  PROVE  /\ Mirror!Held(c)' = Mirror!Held(c) /\ Mirror!Active(c)' = Mirror!Active(c)
         /\ \A p \in CardIds : Mirror!View(c, p)' = Mirror!View(c, p)
         /\ (c \in Users /\ Sparing(c)) => Sparing(c)'
  BY DEF Mirror!Held, Mirror!Active, Mirror!View, Sparing, ActiveCards

\* A delivery that goes on with its event goes on with its card.
LEMMA SameService ==
  ASSUME NEW h \in Deliveries, cardTxn'[h] = cardTxn[h], Serving(h),
         cardTxn[h].pc # "idle" =>
           delivery'[h] = delivery[h] /\ stripe'[delivery[h]] = stripe[delivery[h]]
  PROVE  Serving(h)'
  BY DEF Serving, Holds, About, Mirror!Held

\* A step that leaves the cards and their transactions alone.
LEMMA StillKeepsCards ==
  ASSUME EventInv, EventInv', CardInv, Heard, UNCHANGED <<cards, cardTxn>>,
         disordered \subseteq disordered',
         \A h \in Deliveries : cardTxn[h].pc # "idle" => delivery'[h] = delivery[h],
         \A e \in processed' \ processed : e \in DOMAIN stripe /\ stripe[e].kind # "detached"
  PROVE  CardInv'
  <1>1. /\ Deliveries \subseteq CardCallers /\ Users \subseteq CardCallers
        /\ \A e \in DOMAIN stripe : e \in DOMAIN stripe' /\ stripe'[e] = stripe[e]
        /\ \A h \in Deliveries : delivery[h] # NoEvent => delivery[h] \in DOMAIN stripe
    BY WebhooksAssumption, Hearing DEF Users, EventInv, EventsTyped
  <1>2. /\ \A c \in CardCallers : Mirror!Active(c)' = Mirror!Active(c)
        /\ \A u \in Users : Sparing(u)'
    BY <1>1, SameView DEF CardInv
  <1>3. \A h \in Deliveries :
          cardTxn[h].pc # "idle" => delivery[h] # NoEvent /\ delivery[h] \in DOMAIN stripe
    BY <1>1 DEF CardInv, Serving, Holds
  <1>4. \A h \in Deliveries : Serving(h)'
    BY <1>1, <1>3, SameService DEF CardInv
  <1>5. ActiveCards' = ActiveCards
    BY DEF ActiveCards
  <1>6. Told'
    BY ToldKept DEF CardInv
  <1>7. Gone'
    BY <1>1, <1>2, <1>3, <1>5, GoneKept DEF CardInv
  <1>8. QED
    BY <1>2, <1>4, <1>6, <1>7 DEF CardInv

\* A statement of one caller.
LEMMA StatementKeepsCards ==
  ASSUME HookInv, EventInv, EventInv', CardInv, NEW c \in CardCallers, UNCHANGED <<cards, stripe, attached, processed, disordered>>,
         \A d \in CardCallers \ {c} : cardTxn'[d] = cardTxn[d],
         \A h \in Deliveries \ {c} : delivery'[h] = delivery[h],
         c \in Deliveries => Serving(c)', c \in Users => Sparing(c)',
         c \in Deliveries /\ cardTxn'[c].pc = "done"
           => \A p \in CardIds : stripe[delivery'[c]] = Event("detached", p) => p \notin Mirror!Active(c)'
  PROVE  CardInv'
  <1>1. /\ Deliveries \subseteq CardCallers /\ Users \subseteq CardCallers
        /\ \A h \in Deliveries : delivery[h] # NoEvent => delivery[h] \in DOMAIN stripe
    BY WebhooksAssumption, Hearing DEF Users, EventInv, EventsTyped
  <1>2. /\ \A d \in CardCallers \ {c} : Mirror!Active(d)' = Mirror!Active(d)
        /\ \A u \in Users : Sparing(u)'
    BY <1>1, SameView DEF CardInv
  <1>3. \A h \in Deliveries :
          cardTxn[h].pc # "idle" => delivery[h] # NoEvent /\ delivery[h] \in DOMAIN stripe
    BY <1>1 DEF CardInv, Serving, Holds
  <1>4. \A h \in Deliveries : Serving(h)'
    BY <1>1, <1>3, SameService DEF CardInv
  <1>5. ActiveCards' = ActiveCards /\ Heard
    BY DEF ActiveCards, Heard
  <1>6. Told'
    BY <1>5, ToldKept DEF CardInv
  <1>7. \A h \in Deliveries : cardTxn'[h].pc = "done" =>
           \/ /\ cardTxn[h].pc = "done" /\ delivery'[h] = delivery[h] /\ delivery[h] \in DOMAIN stripe
              /\ \A p \in CardIds : p \in Mirror!Active(h)' => p \in Mirror!Active(h)
           \/ \A p \in CardIds : stripe'[delivery'[h]] = Event("detached", p) => p \notin Mirror!Active(h)'
    BY <1>1, <1>2, <1>3
  <1>8. Gone'
    BY <1>5, <1>7, GoneKept DEF CardInv
  <1>9. QED
    BY <1>2, <1>4, <1>6, <1>8 DEF CardInv

\* A delivery that has nothing open takes the row of its card.
LEMMA BeginsKeepCards ==
  ASSUME HookInv, EventInv, EventInv', DefaultInv, CardInv, NEW h \in Deliveries,
         BeginUpsert(h) \/ BeginDetached(h)
  PROVE  CardInv'
  <1>1. h \in CardCallers /\ h \notin Users
    BY WebhooksAssumption DEF Users
  <1>2. PICK pc \in {"new", "existing", "detach"} : \E flag :
          /\ Mirror!Begin(h, pc, About(h), flag) /\ Holds(h, CardKinds)
          /\ pc \in {"new", "existing"} => ~ Holds(h, {"detached"})
          /\ UNCHANGED attached /\ UNCHANGED <<stripe, processed, disordered, delivery>>
    BY DEF BeginUpsert, BeginDetached, ReadSnapshot, BeginDetach, hookVars, Holds, CardKinds
  <1>3. PICK flag :
          /\ Mirror!Begin(h, pc, About(h), flag) /\ Holds(h, CardKinds)
          /\ pc \in {"new", "existing"} => ~ Holds(h, {"detached"})
          /\ UNCHANGED attached /\ UNCHANGED <<stripe, processed, disordered, delivery>>
    BY <1>2
  <1> DEFINE t == [Mirror!Idle EXCEPT !.pc = pc, !.row = About(h), !.flag = flag,
                                      !.deleting = (pc = "found")]
  <1>4. t.pc = pc /\ t.row = About(h) /\ t.writes = [p \in CardIds |-> Unwritten]
    BY DEF Mirror!Idle
  <1>5. cardTxn' = [cardTxn EXCEPT ![h] = t] /\ cards' = cards
    BY <1>3 DEF Mirror!Begin
  <1> HIDE DEF t
  <1>6. /\ cardTxn'[h] = t
        /\ \A d \in CardCallers \ {h} : cardTxn'[d] = cardTxn[d]
    BY <1>1, <1>5 DEF DefaultInv, Mirror!FlagInv
  <1>7. Mirror!Held(h)' = {}
    BY <1>4, <1>6 DEF Mirror!Held
  <1>8. Serving(h)' /\ cardTxn'[h].pc # "done"
    BY <1>3, <1>4, <1>6, <1>7 DEF Serving, Holds, About
  <1>9. QED
    BY <1>1, <1>3, <1>5, <1>6, <1>8, StatementKeepsCards

\* A statement of a delivery that fails ends it.
LEMMA EndsKeepCards ==
  ASSUME HookInv, EventInv, EventInv', DefaultInv, CardInv, NEW h \in Deliveries,
         cards' = cards, cardTxn' = [cardTxn EXCEPT ![h] = Mirror!Idle],
         UNCHANGED <<attached, stripe, processed, disordered>>,
         \A g \in Deliveries \ {h} : delivery'[g] = delivery[g]
  PROVE  CardInv'
  <1>1. h \in CardCallers /\ h \notin Users
    BY WebhooksAssumption DEF Users
  <1>2. /\ cardTxn'[h] = Mirror!Idle /\ cardTxn'[h].pc = "idle"
        /\ \A d \in CardCallers \ {h} : cardTxn'[d] = cardTxn[d]
    BY <1>1 DEF DefaultInv, Mirror!FlagInv, Mirror!Idle
  <1>3. Serving(h)'
    BY <1>2 DEF Serving
  <1>4. QED
    BY <1>1, <1>2, <1>3, StatementKeepsCards

\* The statement of the handler: it writes its card, and a detachment removes it
\* from the delivery's view.
LEMMA WritesKeepCards ==
  ASSUME HookInv, EventInv, EventInv', DefaultInv, CardInv, NEW h \in Deliveries, WriteMirror(h)
  PROVE  CardInv'
  <1> DEFINE p == cardTxn[h].row
  <1>1. /\ h \in CardCallers /\ h \notin Users /\ DOMAIN delivery = Deliveries
        /\ UNCHANGED <<attached, stripe, processed, disordered>>
        /\ IF cardTxn'[h].pc = "idle" THEN GiveUp(h) /\ UNCHANGED failures
                                      ELSE UNCHANGED hookVars
    BY WebhooksAssumption
       DEF Users, HookInv, WriteMirror, InsertCard, UpdateCard, DetachCard, GiveUp, hookVars
  <1>2. \A g \in Deliveries \ {h} : delivery'[g] = delivery[g]
    BY <1>1 DEF GiveUp, hookVars
  <1>3. /\ cardTxn[h].pc \in {"new", "existing", "detach"}
        /\ p \in CardIds /\ Mirror!Held(h) = {} /\ cards[p] \in Mirror!Flags \union {NoCard}
        /\ cardTxn[h].pc = "existing" => cards[p] \in Mirror!Flags
    <2>1. cardTxn[h].pc \in {"new", "existing", "detach"}
      BY DEF WriteMirror, InsertCard, UpdateCard, DetachCard
    <2>2. QED
      BY <1>1, <2>1, FirstSight
  <1>4. /\ Holds(h, CardKinds) /\ p = About(h)
        /\ cardTxn[h].pc \in {"new", "existing"} => ~ Holds(h, {"detached"})
    BY <1>3 DEF CardInv, Serving
  <1>5. CASE cards' = cards /\ cardTxn' = [cardTxn EXCEPT ![h] = Mirror!Idle]
    BY <1>1, <1>2, <1>5, EndsKeepCards
  <1>6. ASSUME NEW t, cards' = cards, cardTxn' = [cardTxn EXCEPT ![h] = t], cardTxn'[h] = t,
               t.pc = "done", t.row = p, Mirror!Held(h)' \subseteq {p},
               cardTxn[h].pc = "detach" => p \notin Mirror!Active(h)'
        PROVE  CardInv'
    <2>1. UNCHANGED hookVars
      BY <1>1, <1>6
    <2>2. delivery' = delivery /\ stripe' = stripe
      BY <2>1 DEF hookVars
    <2>3. Serving(h)'
      BY <1>4, <1>6, <2>2 DEF Serving, Holds, About
    <2>4. \A d \in CardCallers \ {h} : cardTxn'[d] = cardTxn[d]
      BY <1>1, <1>6 DEF DefaultInv, Mirror!FlagInv
    <2>5. \A q \in CardIds : stripe[delivery'[h]] = Event("detached", q) => q \notin Mirror!Active(h)'
      <3>1. SUFFICES ASSUME NEW q \in CardIds, stripe[delivery[h]] = Event("detached", q)
                     PROVE  q \notin Mirror!Active(h)'
        BY <2>2
      <3>2. q = p /\ Holds(h, {"detached"})
        BY <1>4, <3>1 DEF Event, About, Holds
      <3>3. QED
        BY <1>3, <1>4, <1>6, <3>2
    <2>6. QED
      BY <1>1, <1>2, <1>6, <2>3, <2>4, <2>5, StatementKeepsCards
  <1>7. ASSUME NEW v \in Mirror!Flags, Mirror!Write(h, p, v, "done"),
               cardTxn[h].pc = "detach" => v.deleted
        PROVE  CardInv'
    <2>1. "done" \in Mirror!Points
      BY DEF Mirror!Points
    <2>2. /\ cards' = cards
          /\ \/ cardTxn' = [cardTxn EXCEPT ![h] = Mirror!Idle]
             \/ \E t \in Mirror!Txns :
                  /\ cardTxn' = [cardTxn EXCEPT ![h] = t]
                  /\ cardTxn'[h] = t /\ t.pc = "done"
                  /\ t.row = cardTxn[h].row /\ t.flag = cardTxn[h].flag /\ t.pick = cardTxn[h].pick
                  /\ t.deleting = cardTxn[h].deleting
                  /\ t.writes[p] = v /\ \A q \in CardIds \ {p} : t.writes[q] = cardTxn[h].writes[q]
                  /\ Mirror!View(h, p)' = v
                  /\ \A q \in CardIds \ {p} : Mirror!View(h, q)' = Mirror!View(h, q)
                  /\ Mirror!Held(h)' = Mirror!Held(h) \union {p}
      BY <1>1, <1>3, <1>7, <2>1, CardsAssumption, Mirror!WriteKeepsFlagInv DEF DefaultInv
    <2>3. ASSUME NEW t \in Mirror!Txns, cardTxn' = [cardTxn EXCEPT ![h] = t],
                 cardTxn'[h] = t, t.pc = "done", t.row = cardTxn[h].row,
                 Mirror!View(h, p)' = v, Mirror!Held(h)' = Mirror!Held(h) \union {p}
          PROVE  CardInv'
      <3>1. Mirror!Held(h)' \subseteq {p}
        BY <1>3, <2>3
      <3>2. cardTxn[h].pc = "detach" => p \notin Mirror!Active(h)'
        BY <1>7, <2>3 DEF Mirror!Active
      <3>3. QED
        BY <1>6, <2>2, <2>3, <3>1, <3>2
    <2>4. QED
      BY <1>5, <2>2, <2>3
  <1>8. CASE InsertCard(h)
    <2> DEFINE v == [deleted |-> FALSE, default |-> Mirror!Active(h) = {}]
    <2>1. Mirror!Rollback(h) \/ Mirror!Write(h, p, v, "done")
      BY <1>8 DEF InsertCard
    <2>2. v \in Mirror!Flags
      BY DEF Mirror!Flags
    <2>3. cardTxn[h].pc = "new"
      BY <1>8 DEF InsertCard
    <2> HIDE DEF v
    <2>4. QED
      BY <1>5, <1>7, <2>1, <2>2, <2>3 DEF Mirror!Rollback
  <1>9. CASE UpdateCard(h)
    <2> DEFINE v == IF cardTxn[h].flag THEN [cards[p] EXCEPT !.deleted = FALSE] ELSE cards[p]
    <2>1. cardTxn[h].pc = "existing" /\ Mirror!Write(h, p, v, "done")
      BY <1>9 DEF UpdateCard
    <2>2. v \in Mirror!Flags
      BY <1>3, <2>1 DEF Mirror!Flags
    <2> HIDE DEF v
    <2>3. QED
      BY <1>7, <2>1, <2>2
  <1>10. CASE DetachCard(h)
    <2> DEFINE v == [deleted |-> TRUE, default |-> FALSE]
    <2>1. IF p \in Mirror!Active(h) THEN Mirror!Write(h, p, v, "done") ELSE Mirror!Goto(h, "done")
      BY <1>10 DEF DetachCard
    <2>2. v \in Mirror!Flags /\ v.deleted /\ "done" \in Mirror!Points
      BY DEF Mirror!Flags, Mirror!Points
    <2> HIDE DEF v
    <2>3. CASE p \notin Mirror!Active(h)
      <3> DEFINE t == [cardTxn[h] EXCEPT !.pc = "done"]
      <3>1. /\ cardTxn' = [cardTxn EXCEPT ![h] = t] /\ cards' = cards
            /\ t.pc = "done" /\ t.row = p /\ t.writes = cardTxn[h].writes
        <4>1. Mirror!FlagInv /\ h \in CardCallers /\ Mirror!Goto(h, "done")
          BY <1>1, <2>1, <2>3 DEF DefaultInv
        <4> HIDE DEF p
        <4>2. /\ cardTxn' = [cardTxn EXCEPT ![h] = t] /\ cards' = cards /\ t.pc = "done"
              /\ \A k \in {"row", "flag", "pick", "deleting", "writes"} : t[k] = cardTxn[h][k]
          BY <4>1, Mirror!GotoEffect
        <4> HIDE DEF t
        <4>3. t.row = cardTxn[h].row /\ t.writes = cardTxn[h].writes
          BY <4>2
        <4>4. QED
          BY <4>2, <4>3 DEF p
      <3> HIDE DEF t
      <3>2. cardTxn'[h] = t
        BY <1>1, <3>1 DEF DefaultInv, Mirror!FlagInv
      <3>3. Mirror!Held(h)' \subseteq {p} /\ p \notin Mirror!Active(h)'
        BY <1>3, <2>3, <3>1, <3>2 DEF Mirror!Held, Mirror!Active, Mirror!View
      <3>4. QED
        BY <1>6, <3>1, <3>2, <3>3
    <2>4. QED
      BY <1>7, <2>1, <2>2, <2>3
  <1>11. QED
    BY <1>8, <1>9, <1>10 DEF WriteMirror

\* Two events about a card whose events came in order are not held at one time, and
\* one that is held comes after all that are processed.
LEMMA OneAtATime ==
  ASSUME HookInv, EventInv, NEW d \in DOMAIN stripe, NEW e \in DOMAIN stripe, d # e,
         stripe[d].about = stripe[e].about, stripe[e].about \notin disordered,
         \E h \in Deliveries : delivery[h] = d,
         e \in processed \/ \E h \in Deliveries : delivery[h] = e
  PROVE  e \in processed /\ e < d
  <1>1. /\ DOMAIN stripe \subseteq Nat \ {0}
        /\ \A f, g \in DOMAIN stripe : f < g => f \in 1 .. (g - 1)
    BY EventTypes DEF EventInv
  <1>2. d \notin processed
    BY DEF HookInv
  <1>3. ~ (d < e)
    BY <1>1, <1>2 DEF EventInv, InOrder
  <1>4. e < d
    BY <1>1, <1>3
  <1>5. e \in processed
    BY <1>1, <1>4 DEF EventInv, InOrder
  <1>6. QED
    BY <1>4, <1>5

\* The commit of a delivery, with its id: what it has done to its card is final.
LEMMA MirrorsKeepCards ==
  ASSUME HookInv, EventInv, EventInv', DefaultInv, CardInv, NEW h \in Deliveries, CommitMirror(h)
  PROVE  CardInv'
  <1> DEFINE d == delivery[h]
             p == About(h)
  <1>1. /\ Deliveries \subseteq CardCallers /\ Users \subseteq CardCallers \ Deliveries
        /\ h \in CardCallers /\ DOMAIN delivery = Deliveries
        /\ UNCHANGED <<stripe, disordered>> /\ UNCHANGED attached
        /\ processed' = processed \union {d} /\ delivery' = [delivery EXCEPT ![h] = NoEvent]
        /\ Mirror!Commit(h) /\ cardTxn[h].pc = "done" /\ Holds(h, CardKinds)
    <2>1. attached' = attached
      BY DEF CommitMirror, CommitCard
    <2>2. QED
      BY <2>1, WebhooksAssumption DEF Users, HookInv, CommitMirror, CommitCard, Answer, Mirror!Commit
  <1>2. /\ d \in DOMAIN stripe /\ stripe[d].about = p /\ p \in CardIds /\ Sent(d, CardKinds, p)
        /\ d \notin processed
    BY <1>1, EventTypes DEF EventInv, EventsTyped, Holds, About, Sent, HookInv
  <1>3. /\ cardTxn'[h].pc = "idle"
        /\ \A c \in CardCallers \ {h} : cardTxn'[c] = cardTxn[c]
        /\ \A q \in CardIds : cards'[q] = Mirror!View(h, q)
        /\ \A c \in CardCallers \ {h} :
             \A q \in CardIds : /\ q \in Mirror!Held(c) => Mirror!View(c, q)' = Mirror!View(c, q)
                                /\ q \notin Mirror!Held(c) => Mirror!View(c, q)' = Mirror!View(h, q)
                                /\ q \notin Mirror!Held(h) => Mirror!View(c, q)' = Mirror!View(c, q)
        /\ \A c \in CardCallers \ {h} : Mirror!Held(c)' = Mirror!Held(c)
    BY <1>1, Mirror!CommitEffect DEF DefaultInv, Mirror!Idle
  <1>4. /\ Mirror!Held(h) \subseteq {p}
        /\ \A q \in CardIds \ {p} : q \notin Mirror!Held(h) /\ cards'[q] = cards[q]
    BY <1>1, <1>3 DEF CardInv, Serving, Mirror!Held, Mirror!View
  <1>5. \A q \in CardIds \ {p} : q \in ActiveCards' <=> q \in ActiveCards
    BY <1>4 DEF ActiveCards
  <1>6. ASSUME NEW g \in Deliveries PROVE Serving(g)'
    <2>1. CASE g = h
      BY <1>3, <2>1 DEF Serving
    <2>2. CASE g # h
      BY <1>1, <1>3, <2>2, SameService DEF CardInv
    <2>3. QED
      BY <2>1, <2>2
  <1>7. ASSUME NEW u \in Users PROVE Sparing(u)'
    <2>1. ASSUME NEW q \in Mirror!Held(u) PROVE q \in CardIds /\ cards'[q] = cards[q]
      <3>1. q \notin Mirror!Held(h) /\ q \in CardIds
        BY <1>1, <2>1, Mirror!OneHolder DEF DefaultInv, Mirror!Held
      <3>2. QED
        BY <1>3, <3>1 DEF Mirror!View, Mirror!Held
    <2>2. /\ Mirror!Held(u)' = Mirror!Held(u) /\ cardTxn'[u] = cardTxn[u]
      BY <1>1, <1>3
    <2>3. QED
      BY <2>1, <2>2 DEF CardInv, Sparing, ActiveCards
  <1>8. Told'
    <2>1. \A q \in CardIds : cards[q] = NoCard /\ (\A e \in DOMAIN stripe : ~ Sent(e, CardKinds, q))
            => cards'[q] = NoCard
      BY <1>2, <1>4
    <2>2. QED
      BY <1>1, <2>1, ToldKept DEF CardInv, Heard
  <1>9. ASSUME NEW q \in CardIds \ disordered, NEW e \in DOMAIN stripe, Sent(e, {"detached"}, q),
               e \in processed', LastSent(e, q)
        PROVE  q \notin ActiveCards'
    <2>1. CASE e = d
      <3>1. q = p /\ q \notin Mirror!Active(h)
        BY <1>1, <1>2, <1>9, <2>1 DEF Sent, CardInv, Gone
      <3>2. QED
        BY <1>3, <3>1 DEF Mirror!Active, ActiveCards
    <2>2. CASE e # d
      <3>1. e \in processed /\ q \notin ActiveCards
        BY <1>1, <1>9, <2>2 DEF CardInv, Gone
      <3>2. q # p
        <4>1. SUFFICES ASSUME q = p PROVE FALSE
          OBVIOUS
        <4>2. e < d
          BY <1>2, <1>9, <2>2, <3>1, <4>1, OneAtATime DEF Sent
        <4>3. d <= e
          BY <1>2, <1>9, <4>1 DEF LastSent
        <4>4. QED
          BY <1>2, <4>2, <4>3, EventTypes DEF EventInv
      <3>3. QED
        BY <1>5, <3>1, <3>2
    <2>3. QED
      BY <2>1, <2>2
  <1>10. ASSUME NEW q \in CardIds \ disordered, NEW e \in DOMAIN stripe, Sent(e, {"detached"}, q),
                NEW g \in Deliveries, delivery'[g] = e, cardTxn'[g].pc = "done"
         PROVE  q \notin Mirror!Active(g)'
    <2>1. g # h /\ delivery[g] = e /\ cardTxn[g].pc = "done" /\ g \in CardCallers
      BY <1>1, <1>3, <1>10
    <2>2. q \notin Mirror!Active(g)
      BY <1>10, <2>1 DEF CardInv, Gone
    <2>3. e # d /\ e \notin processed
      BY <1>1, <2>1 DEF HookInv, Holds
    <2>4. q # p
      BY <1>2, <1>10, <2>1, <2>3, OneAtATime DEF Sent
    <2>5. Mirror!View(g, q)' = Mirror!View(g, q)
      BY <1>3, <1>4, <2>1, <2>4
    <2>6. QED
      BY <2>2, <2>5 DEF Mirror!Active
  <1>11. Gone'
    <2>1. \A q \in CardIds, e \in DOMAIN stripe : /\ Sent(e, {"detached"}, q)' <=> Sent(e, {"detached"}, q)
                                                  /\ LastSent(e, q)' <=> LastSent(e, q)
      BY <1>1 DEF Sent, LastSent
    <2>2. QED
      BY <1>1, <1>9, <1>10, <2>1 DEF Gone
  <1>12. QED
    BY <1>6, <1>7, <1>8, <1>11 DEF CardInv

\* A user's transaction writes cards that are in the app, or deleted there.
LEMMA WritesSpare ==
  ASSUME DefaultInv, CardInv, NEW u \in Users, UseCards(u)
  PROVE  /\ Sparing(u)' /\ cards' = cards
         /\ \A c \in CardCallers \ {u} : cardTxn'[c] = cardTxn[c]
  <1>1. u \in CardCallers /\ DOMAIN cardTxn = CardCallers /\ Sparing(u)
    BY DEF Users, DefaultInv, Mirror!FlagInv, CardInv
  <1>2. ASSUME cards' = cards, cardTxn' = [cardTxn EXCEPT ![u] = Mirror!Idle]
        PROVE  /\ Sparing(u)' /\ cards' = cards
               /\ \A c \in CardCallers \ {u} : cardTxn'[c] = cardTxn[c]
    BY <1>1, <1>2 DEF Sparing, Mirror!Held, Mirror!Idle
  <1>3. ASSUME NEW t, cards' = cards, cardTxn' = [cardTxn EXCEPT ![u] = t],
               \A q \in CardIds : t.writes[q] # Unwritten =>
                 \/ t.writes[q] = cardTxn[u].writes[q]
                 \/ q \in ActiveCards
                 \/ cards[q] # NoCard /\ t.writes[q].deleted
        PROVE  /\ Sparing(u)' /\ cards' = cards
               /\ \A c \in CardCallers \ {u} : cardTxn'[c] = cardTxn[c]
    <2>1. cardTxn'[u] = t
      BY <1>1, <1>3
    <2>2. \A q \in CardIds : t.writes[q] # Unwritten =>
            q \in ActiveCards \/ (cards[q] # NoCard /\ t.writes[q].deleted)
      BY <1>1, <1>3 DEF Sparing, Mirror!Held
    <2>3. Sparing(u)'
      BY <1>3, <2>1, <2>2 DEF Sparing, Mirror!Held, ActiveCards
    <2>4. QED
      BY <1>1, <1>3, <2>3
  <1>4. CASE ReadDefaultTarget(u) \/ ReadCardToDelete(u)
    <2>1. \E pc, p, flag : Mirror!Begin(u, pc, p, flag)
      BY <1>4 DEF ReadDefaultTarget, ReadCardToDelete, Mirror!ReadForDefault, Mirror!ReadForDelete
    <2>2. PICK pc, p, flag : Mirror!Begin(u, pc, p, flag)
      BY <2>1
    <2> DEFINE t == [Mirror!Idle EXCEPT !.pc = pc, !.row = p, !.flag = flag,
                                        !.deleting = (pc = "found")]
    <2>3. t.writes = [q \in CardIds |-> Unwritten]
      BY DEF Mirror!Idle
    <2>4. cardTxn' = [cardTxn EXCEPT ![u] = t] /\ cards' = cards
      BY <2>2 DEF Mirror!Begin
    <2> HIDE DEF t
    <2>5. QED
      BY <1>3, <2>3, <2>4
  <1>5. CASE Mirror!Rollback(u)
    BY <1>2, <1>5 DEF Mirror!Rollback
  <1>6. CASE PivotDefault(u) /\ ~ Mirror!Rollback(u)
    <2> DEFINE w == [q \in CardIds |-> IF q \in Mirror!Active(u)
                       THEN [deleted |-> FALSE, default |-> q = cardTxn[u].row]
                       ELSE cardTxn[u].writes[q]]
               t == [cardTxn[u] EXCEPT !.pc = "done", !.writes = w]
    <2>1. cardTxn' = [cardTxn EXCEPT ![u] = t] /\ cards' = cards /\ cardTxn[u].pc = "target"
      BY <1>6 DEF PivotDefault, Mirror!Pivot
    <2>2. \A q \in CardIds : q \in Mirror!Active(u) => q \in ActiveCards
      BY <1>1, <2>1 DEF DefaultInv, Mirror!FlagInv, Mirror!Standing, Mirror!Active, Mirror!View,
                        Mirror!Held, ActiveCards
    <2>3. \A q \in CardIds : w[q] = cardTxn[u].writes[q] \/ q \in ActiveCards
      BY <2>2
    <2> HIDE DEF w
    <2>4. t.writes = w
      BY <1>1 DEF DefaultInv, Mirror!FlagInv, Mirror!Txns
    <2> HIDE DEF t
    <2>5. QED
      BY <1>3, <2>1, <2>3, <2>4
  <1>7. ASSUME NEW r \in CardIds, NEW v \in Mirror!Flags, NEW pc \in Mirror!Points,
               Mirror!Write(u, r, v, pc),
               r \in ActiveCards \/ (cards[r] # NoCard /\ v.deleted)
        PROVE  /\ Sparing(u)' /\ cards' = cards
               /\ \A c \in CardCallers \ {u} : cardTxn'[c] = cardTxn[c]
    <2>1. CASE Mirror!Rollback(u)
      BY <1>2, <2>1 DEF Mirror!Rollback
    <2>2. CASE ~ Mirror!Rollback(u)
      <3>1. PICK t \in Mirror!Txns :
              /\ cardTxn' = [cardTxn EXCEPT ![u] = t]
              /\ cardTxn'[u] = t /\ t.pc = pc
              /\ t.row = cardTxn[u].row /\ t.flag = cardTxn[u].flag /\ t.pick = cardTxn[u].pick
              /\ t.deleting = cardTxn[u].deleting
              /\ t.writes[r] = v /\ \A q \in CardIds \ {r} : t.writes[q] = cardTxn[u].writes[q]
        BY <1>1, <1>7, <2>2, Mirror!WriteEffect DEF DefaultInv
      <3>2. cards' = cards
        BY <1>7, <2>2 DEF Mirror!Write
      <3>3. QED
        BY <1>3, <1>7, <3>1, <3>2
    <2>3. QED
      BY <2>1, <2>2
  <1>8. ASSUME NEW t, cards' = cards, cardTxn' = [cardTxn EXCEPT ![u] = t],
               t.writes = cardTxn[u].writes
        PROVE  /\ Sparing(u)' /\ cards' = cards
               /\ \A c \in CardCallers \ {u} : cardTxn'[c] = cardTxn[c]
    BY <1>3, <1>8
  <1>9. ASSUME NEW pc, Mirror!Goto(u, pc)
        PROVE  /\ Sparing(u)' /\ cards' = cards
               /\ \A c \in CardCallers \ {u} : cardTxn'[c] = cardTxn[c]
    <2> DEFINE t == [cardTxn[u] EXCEPT !.pc = pc]
    <2>1. cardTxn' = [cardTxn EXCEPT ![u] = t] /\ cards' = cards /\ t.writes = cardTxn[u].writes
      BY <1>1, <1>9, Mirror!GotoEffect DEF DefaultInv
    <2> HIDE DEF t
    <2>2. QED
      BY <1>8, <2>1
  <1>10. CASE SoftDeleteCard(u)
    <2> DEFINE r == cardTxn[u].row
               v == [deleted |-> TRUE, default |-> FALSE]
    <2>1. /\ cardTxn[u].pc = "found"
          /\ IF r \in Mirror!Active(u) THEN Mirror!Write(u, r, v, "removed") ELSE Mirror!Goto(u, "removed")
      BY <1>10 DEF SoftDeleteCard, Mirror!SoftDelete
    <2>2. r \in Mirror!Active(u) => r \in CardIds /\ r \in ActiveCards
      BY <1>1, <2>1 DEF DefaultInv, Mirror!FlagInv, Mirror!Standing, Mirror!Active, Mirror!View,
                        Mirror!Held, ActiveCards
    <2>3. v \in Mirror!Flags /\ "removed" \in Mirror!Points
      BY DEF Mirror!Flags, Mirror!Points
    <2> HIDE DEF v, r
    <2>4. QED
      BY <1>7, <1>9, <2>1, <2>2, <2>3
  <1>11. CASE Mirror!Promote(u)
    <2> DEFINE r == cardTxn[u].pick
               v == [Mirror!View(u, r) EXCEPT !.default = TRUE]
    <2>1. /\ cardTxn[u].pc = "picked" /\ Mirror!Write(u, r, v, "done")
          /\ r \in CardIds /\ Mirror!View(u, r) # NoCard
      BY <1>1, <1>11 DEF Mirror!Promote, DefaultInv, Mirror!FlagInv, Mirror!Standing
    <2>2. Mirror!View(u, r) \in Mirror!Flags
      BY <1>1, <2>1, Mirror!ViewTypes DEF DefaultInv
    <2>3. v \in Mirror!Flags /\ v.deleted = Mirror!View(u, r).deleted /\ "done" \in Mirror!Points
      BY <2>2 DEF Mirror!Flags, Mirror!Points
    <2>4. r \in ActiveCards \/ (cards[r] # NoCard /\ Mirror!View(u, r).deleted)
      BY <1>1, <2>1, <2>2 DEF Sparing, Mirror!Held, Mirror!View, ActiveCards, Mirror!Flags
    <2> HIDE DEF v, r
    <2>5. QED
      BY <1>7, <2>1, <2>3, <2>4
  <1>12. CASE Mirror!PickReplacement(u)
    <2>1. CASE Mirror!Goto(u, "done")
      BY <1>9, <2>1
    <2>2. ASSUME NEW r, NEW pc, cards' = cards,
                 cardTxn' = [cardTxn EXCEPT ![u].pick = r, ![u].pc = pc]
          PROVE  /\ Sparing(u)' /\ cards' = cards
                 /\ \A c \in CardCallers \ {u} : cardTxn'[c] = cardTxn[c]
      <3> DEFINE t == [cardTxn[u] EXCEPT !.pick = r, !.pc = pc]
      <3>1. cardTxn' = [cardTxn EXCEPT ![u] = t]
        BY <1>1, <2>2
      <3>2. t.writes = cardTxn[u].writes
        BY <1>1 DEF DefaultInv, Mirror!FlagInv, Mirror!Txns
      <3> HIDE DEF t
      <3>3. QED
        BY <1>8, <2>2, <3>1, <3>2
    <2>3. QED
      BY <1>12, <2>1, <2>2 DEF Mirror!PickReplacement
  <1>13. QED
    BY <1>4, <1>5, <1>6, <1>10, <1>11, <1>12 DEF UseCards, ReplaceDefault, AbortCard

\* The user's calls on the cards, up to their commit.
LEMMA CallsKeepCards ==
  ASSUME HookInv, EventInv, EventInv', DefaultInv, CardInv, NEW u \in Users, UseCards(u)
  PROVE  CardInv'
  <1>1. /\ u \in CardCallers /\ u \notin Deliveries
        /\ UNCHANGED <<stripe, processed, disordered, delivery>> /\ UNCHANGED attached
    BY DEF Users, UseCards, hookVars, ReadDefaultTarget, PivotDefault, ReadCardToDelete,
           SoftDeleteCard, ReplaceDefault, AbortCard
  <1>2. QED
    BY <1>1, WritesSpare, StatementKeepsCards

\* The commit of a user's transaction, which revives no card and brings none in.
LEMMA UserCommitsKeepCards ==
  ASSUME HookInv, EventInv, EventInv', DefaultInv, CardInv, NEW u \in Users, CommitUserCard(u)
  PROVE  CardInv'
  <1>1. /\ u \in CardCallers /\ u \notin Deliveries /\ Mirror!Commit(u)
        /\ Users \subseteq CardCallers /\ Deliveries \subseteq CardCallers
        /\ UNCHANGED <<processed, delivery, disordered>>
    BY WebhooksAssumption DEF Users, CommitUserCard, CommitCard, Emit, hookVars
  <1>2. Heard
    <2>1. CASE CommitCard(u, {}) /\ UNCHANGED hookVars
      <3>1. attached' = attached
        BY <2>1 DEF CommitCard
      <3>2. QED
        BY <2>1, <3>1 DEF hookVars, Heard
    <2>2. CASE CommitCard(u, {cardTxn[u].row}) /\ Emit(<<Event("detached", cardTxn[u].row)>>)
      <3>1. /\ cardTxn[u].row \in CardIds /\ attached' = attached \ {cardTxn[u].row}
            /\ "detached" \in CardKinds
        BY <2>2 DEF CommitCard, EventInv, EventsTyped, CardKinds
      <3>2. Grown({"detached"}, cardTxn[u].row)
        <4>1. Grown({"detached", IF "detached" = "attached" THEN "setup_intent" ELSE "detached"},
                    cardTxn[u].row)
          BY <2>2, <3>1, Emitting DEF EventInv
        <4>2. {"detached", IF "detached" = "attached" THEN "setup_intent" ELSE "detached"} = {"detached"}
          OBVIOUS
        <4>3. QED
          BY <4>1, <4>2
      <3>3. QED
        BY <3>1, <3>2 DEF Heard
    <2>3. QED
      BY <2>1, <2>2 DEF CommitUserCard
  <1>3. /\ cardTxn'[u].pc = "idle" /\ Mirror!Held(u)' = {}
        /\ \A c \in CardCallers \ {u} : cardTxn'[c] = cardTxn[c]
        /\ \A q \in CardIds : cards'[q] = Mirror!View(u, q)
        /\ \A c \in CardCallers \ {u} :
             \A q \in CardIds : /\ q \in Mirror!Held(c) => Mirror!View(c, q)' = Mirror!View(c, q)
                                /\ q \notin Mirror!Held(c) => Mirror!View(c, q)' = Mirror!View(u, q)
                                /\ q \notin Mirror!Held(u) => Mirror!View(c, q)' = Mirror!View(c, q)
        /\ \A c \in CardCallers \ {u} : Mirror!Held(c)' = Mirror!Held(c)
    BY <1>1, Mirror!CommitEffect DEF DefaultInv, Mirror!Idle
  <1>4. /\ \A q \in CardIds \ Mirror!Held(u) : cards'[q] = cards[q]
        /\ \A q \in Mirror!Held(u) : q \in CardIds /\ cards'[q] = cardTxn[u].writes[q]
    BY <1>3 DEF Mirror!View, Mirror!Held
  <1>5. /\ \A q \in CardIds : q \in ActiveCards' => q \in ActiveCards
        /\ \A q \in CardIds : cards[q] = NoCard => cards'[q] = NoCard
        /\ \A q \in CardIds : Mirror!View(u, q) # NoCard /\ ~ Mirror!View(u, q).deleted
             => q \in ActiveCards
    <2>1. Sparing(u)
      BY DEF CardInv
    <2>2. \A q \in CardIds : cards[q] = NoCard => cards'[q] = NoCard
      BY <1>4, <2>1 DEF Sparing, ActiveCards
    <2>3. \A q \in CardIds : cards'[q] # NoCard /\ ~ cards'[q].deleted => q \in ActiveCards
      BY <1>4, <2>1 DEF Sparing, ActiveCards
    <2>4. QED
      BY <1>3, <2>2, <2>3 DEF ActiveCards
  <1>6. ASSUME NEW g \in Deliveries PROVE Serving(g)'
    <2>1. g # u /\ g \in CardCallers /\ cardTxn'[g] = cardTxn[g]
      BY <1>1, <1>3
    <2>2. cardTxn[g].pc # "idle" => delivery[g] \in DOMAIN stripe
      BY DEF CardInv, Serving, Holds, EventInv, EventsTyped
    <2>3. cardTxn[g].pc # "idle" => stripe'[delivery[g]] = stripe[delivery[g]]
      BY <1>2, <2>2, Hearing
    <2>4. QED
      BY <1>1, <2>1, <2>3, SameService DEF CardInv
  <1>7. ASSUME NEW w \in Users PROVE Sparing(w)'
    <2>1. CASE w = u
      BY <1>3, <2>1 DEF Sparing
    <2>2. CASE w # u
      <3>1. ASSUME NEW q \in Mirror!Held(w) PROVE cards'[q] = cards[q] /\ q \in CardIds
        <4>1. q \notin Mirror!Held(u) /\ q \in CardIds
          BY <1>1, <2>2, <3>1, Mirror!OneHolder DEF DefaultInv, Mirror!Held
        <4>2. QED
          BY <1>4, <4>1
      <3>2. Mirror!Held(w)' = Mirror!Held(w) /\ cardTxn'[w] = cardTxn[w]
        BY <1>1, <1>3, <2>2
      <3>3. QED
        BY <3>1, <3>2 DEF CardInv, Sparing, ActiveCards
    <2>3. QED
      BY <2>1, <2>2
  <1>8. Told'
    BY <1>2, <1>5, ToldKept DEF CardInv
  <1>9. \A h \in Deliveries : cardTxn'[h].pc = "done" =>
           /\ cardTxn[h].pc = "done" /\ delivery'[h] = delivery[h] /\ delivery[h] \in DOMAIN stripe
           /\ \A p \in CardIds : p \in Mirror!Active(h)' => p \in Mirror!Active(h)
    <2>1. SUFFICES ASSUME NEW h \in Deliveries, cardTxn'[h].pc = "done"
                   PROVE  /\ cardTxn[h].pc = "done" /\ delivery'[h] = delivery[h]
                          /\ delivery[h] \in DOMAIN stripe
                          /\ \A p \in CardIds : p \in Mirror!Active(h)' => p \in Mirror!Active(h)
      OBVIOUS
    <2>2. h # u /\ h \in CardCallers /\ cardTxn[h].pc = "done"
      BY <1>1, <1>3, <2>1
    <2>3. delivery[h] \in DOMAIN stripe
      BY <2>2 DEF CardInv, Serving, Holds, EventInv, EventsTyped
    <2>4. ASSUME NEW p \in CardIds, p \in Mirror!Active(h)' PROVE p \in Mirror!Active(h)
      <3>1. CASE p \in Mirror!Held(h)
        BY <1>3, <2>2, <2>4, <3>1 DEF Mirror!Active
      <3>2. CASE p \notin Mirror!Held(h)
        <4>1. p \in ActiveCards
          BY <1>3, <1>5, <2>2, <2>4, <3>2 DEF Mirror!Active
        <4>2. QED
          BY <3>2, <4>1 DEF Mirror!Active, Mirror!View, Mirror!Held, ActiveCards
      <3>3. QED
        BY <3>1, <3>2
    <2>5. QED
      BY <1>1, <2>2, <2>3, <2>4
  <1>10. Gone'
    BY <1>1, <1>2, <1>5, <1>9, GoneKept DEF CardInv
  <1>11. QED
    BY <1>6, <1>7, <1>8, <1>10 DEF CardInv

\* Stripe's own steps.
LEMMA StripeKeepsCards ==
  ASSUME EventInv, EventInv', CardInv, StripeNext PROVE CardInv'
  <1>1. /\ UNCHANGED <<cards, cardTxn>> /\ UNCHANGED <<processed, delivery, disordered>>
    BY DEF StripeNext, AttachAtStripe, UpdateAtStripe, DetachAtStripe, Decide, Emit, cardVars
  <1>2. Heard
    <2>1. ASSUME NEW s \in VerificationSessions, NEW v \in IdentityKinds, Decide(s, v) PROVE Heard
      <3>1. Grown({v}, s) /\ UNCHANGED attached
        <4>1. Grown({v}, s) /\ UNCHANGED <<processed, delivery, disordered, minted, attached>>
          BY <2>1, Deciding DEF EventInv
        <4>2. QED
          BY <4>1
      <3>2. QED
        BY <2>1, <3>1 DEF Heard
    <2>2. ASSUME NEW p \in CardIds, AttachAtStripe(p) \/ UpdateAtStripe(p) PROVE Heard
      <3>1. p \in attached' /\ attached' \ {p} = attached \ {p}
        BY <2>2 DEF AttachAtStripe, UpdateAtStripe, cardVars
      <3>2. \E k \in CardKinds :
              \/ Emit(<<Event(k, p)>>)
              \/ k = "attached" /\ Emit(<<Event(k, p), Event("setup_intent", p)>>)
        BY <2>2 DEF AttachAtStripe, UpdateAtStripe, CardKinds
      <3>3. PICK k \in CardKinds : Grown({k, IF k = "attached" THEN "setup_intent" ELSE k}, p)
        BY <3>2, Emitting DEF EventInv
      <3>4. {k, IF k = "attached" THEN "setup_intent" ELSE k} \subseteq CardKinds
        BY DEF CardKinds
      <3>5. Grown(CardKinds, p)
        BY <3>3, <3>4 DEF Grown
      <3>6. QED
        BY <3>1, <3>5 DEF Heard
    <2>3. ASSUME NEW p \in CardIds, DetachAtStripe(p) PROVE Heard
      <3>1. "detached" \in CardKinds /\ attached' = attached \ {p} /\ Emit(<<Event("detached", p)>>)
        BY <2>3 DEF DetachAtStripe, CardKinds
      <3>2. Grown({"detached", IF "detached" = "attached" THEN "setup_intent" ELSE "detached"}, p)
        BY <3>1, Emitting DEF EventInv
      <3>3. {"detached", IF "detached" = "attached" THEN "setup_intent" ELSE "detached"} = {"detached"}
        OBVIOUS
      <3>4. QED
        BY <3>1, <3>2, <3>3 DEF Heard
    <2>4. QED
      BY <2>1, <2>2, <2>3 DEF StripeNext
  <1>3. QED
    BY <1>1, <1>2, StillKeepsCards

\* The deliveries of verdicts, those that end without an effect, and the users'
\* requests on the profile.
LEMMA ProfilesKeepCards ==
  ASSUME HookInv, EventInv, EventInv', CardInv,
         \/ \E h \in Deliveries :
              \/ \E e \in Events : Receive(h, e)
              \/ HandleVerdict(h) \/ DropVerdict(h) \/ CommitVerdict(h) \/ LoseSetupIntent(h)
         \/ \E u : UseProfile(u) \/ \E s : SubmitVerification(u, s)
  PROVE  CardInv'
  <1>1. DOMAIN delivery = Deliveries
    BY DEF HookInv
  <1>2. ASSUME UNCHANGED <<cards, cardTxn, attached, stripe>>, disordered \subseteq disordered',
               \A g \in Deliveries : cardTxn[g].pc # "idle" => delivery'[g] = delivery[g],
               \A e \in processed' \ processed : e \in DOMAIN stripe /\ stripe[e].kind # "detached"
        PROVE  CardInv'
    BY <1>2, StillKeepsCards DEF Heard
  <1>3. ASSUME NEW h \in Deliveries, NEW e \in Events, Receive(h, e) PROVE CardInv'
    <2>1. /\ UNCHANGED <<cards, cardTxn, attached, stripe, processed>> /\ delivery[h] = NoEvent
          /\ disordered \subseteq disordered' /\ \A g \in Deliveries \ {h} : delivery'[g] = delivery[g]
      BY <1>1, <1>3 DEF Receive, cardVars
    <2>2. cardTxn[h].pc = "idle"
      BY <2>1 DEF CardInv, Serving, Holds
    <2>3. QED
      BY <1>2, <2>1, <2>2
  <1>4. ASSUME NEW h \in Deliveries, DropVerdict(h) \/ CommitVerdict(h) \/ LoseSetupIntent(h)
        PROVE  CardInv'
    <2>1. /\ UNCHANGED <<cards, cardTxn, attached, stripe, disordered>>
          /\ processed' = processed \union {delivery[h]}
          /\ \A g \in Deliveries \ {h} : delivery'[g] = delivery[g]
      BY <1>1, <1>4 DEF DropVerdict, CommitVerdict, LoseSetupIntent, Answer, cardVars
    <2>2. /\ delivery[h] # NoEvent /\ stripe[delivery[h]].kind # "detached"
          /\ cardTxn[h].pc = "idle"
      BY <1>4 DEF DropVerdict, CommitVerdict, LoseSetupIntent, Holds, CardInv, Serving, CardKinds,
                  IdentityKinds
    <2>3. delivery[h] \in DOMAIN stripe
      BY <2>2 DEF EventInv, EventsTyped
    <2>4. QED
      BY <1>2, <2>1, <2>2, <2>3
  <1>5. CASE \/ \E h \in Deliveries : HandleVerdict(h)
             \/ \E u : UseProfile(u) \/ \E s : SubmitVerification(u, s)
    <2>1. UNCHANGED <<cards, cardTxn, attached, stripe, disordered, delivery, processed>>
      BY <1>5 DEF HandleVerdict, UseProfile, SubmitVerification, hookVars, cardVars
    <2>2. QED
      BY <1>2, <2>1
  <1>6. QED
    BY <1>3, <1>4, <1>5

\* What the deliveries and the users have done to the cards, at the start and after
\* every step.
LEMMA CardsInductive ==
  /\ WebhookInit => CardInv
  /\ HookInv /\ EventInv /\ DefaultInv /\ CardInv /\ [WebhookNext]_webhookVars => CardInv'
  <1>1. ASSUME WebhookInit PROVE CardInv
    <2>1. /\ cards = [p \in CardIds |-> NoCard] /\ cardTxn = [c \in CardCallers |-> Mirror!Idle]
          /\ attached = {} /\ stripe = << >>
      BY <1>1 DEF WebhookInit, CardInit, Mirror!Init
    <2>2. /\ Mirror!Idle.pc = "idle" /\ Mirror!Idle.writes = [p \in CardIds |-> Unwritten]
          /\ DOMAIN stripe = {}
      BY <2>1 DEF Mirror!Idle
    <2>3. \A c \in CardCallers : cardTxn[c].pc = "idle" /\ Mirror!Held(c) = {}
      BY <2>1, <2>2 DEF Mirror!Held
    <2>4. QED
      BY <2>1, <2>2, <2>3, WebhooksAssumption DEF CardInv, Serving, Sparing, Told, Gone, Users
  <1>2. ASSUME HookInv, EventInv, DefaultInv, CardInv, [WebhookNext]_webhookVars PROVE CardInv'
    <2>1. EventInv'
      BY <1>2, EventsInductive
    <2>2. CASE UNCHANGED webhookVars
      BY <1>2, <2>1, <2>2, StillKeepsCards DEF webhookVars, cardVars, hookVars, Heard
    <2>3. ASSUME NEW h \in Deliveries, DeliveryStep(h) \/ LoseSetupIntent(h) \/ FailDelivery(h)
          PROVE  CardInv'
      <3>1. CASE FailDelivery(h)
        <4>1. /\ cards' = cards /\ cardTxn' = [cardTxn EXCEPT ![h] = Mirror!Idle]
              /\ UNCHANGED <<attached, stripe, processed, disordered>>
              /\ delivery' = [delivery EXCEPT ![h] = NoEvent]
          BY <3>1 DEF FailDelivery, GiveUp
        <4>2. \A g \in Deliveries \ {h} : delivery'[g] = delivery[g]
          BY <1>2, <4>1 DEF HookInv
        <4>3. QED
          BY <1>2, <2>1, <4>1, <4>2, EndsKeepCards
      <3>2. QED
        BY <1>2, <2>1, <2>3, <3>1, BeginsKeepCards, WritesKeepCards, MirrorsKeepCards,
           ProfilesKeepCards DEF DeliveryStep
    <2>4. QED
      BY <1>2, <2>1, <2>2, <2>3, StripeKeepsCards, CallsKeepCards, UserCommitsKeepCards,
         ProfilesKeepCards DEF WebhookNext, DeliveryNext, UserNext, UserStep
  <1>3. QED
    BY <1>1, <1>2

\* The invariant of the cards, in every behaviour.
THEOREM CardInvariant == WebhookSpec => []CardInv
  BY CardsInductive, HookInvariant, VerdictInvariant, DefaultCard, PTL DEF WebhookSpec

\* A card detached at Stripe is gone from the app once every event is processed,
\* whatever deliveries were duplicated, overlapped or failed, and whatever the user
\* did meanwhile: if the events of the card came in order.
THEOREM DetachedCardsGo == WebhookSpec => []DetachedIsGone
  <1>1. CardInv => DetachedIsGone
    <2>1. SUFFICES ASSUME CardInv, AtRest, NEW p \in ActiveCards \ disordered, p \notin attached
                   PROVE  FALSE
      BY DEF DetachedIsGone
    <2>2. p \in CardIds /\ cards[p] # NoCard
      BY <2>1 DEF ActiveCards
    <2>3. PICK e \in DOMAIN stripe : LastSent(e, p) /\ stripe[e].kind = "detached"
      BY <2>1, <2>2 DEF CardInv, Told
    <2>4. Sent(e, {"detached"}, p) /\ e \in processed
      BY <2>1, <2>3 DEF LastSent, Sent, AtRest
    <2>5. QED
      BY <2>1, <2>2, <2>3, <2>4 DEF CardInv, Gone
  <1>2. QED
    BY <1>1, CardInvariant, PTL
=============================================================================
