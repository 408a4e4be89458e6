--------------------------- MODULE ServiceProofs ----------------------------
(***************************************************************************)
(* Proofs about the components around a booking: what a detailer offers    *)
(* and where it is, addresses, status messages, pins and preferences,      *)
(* pictures, reminders, reviews, the seals of the ledger and the seeds,    *)
(* each for any number of requests and workers at once.  Every part shows  *)
(* that the inductive invariant of its module (OfferInv, SealInv, BookInv, *)
(* FeedInv, ChoiceInv, LocationInv, UploadInv, ReminderInv, ReviewInv,     *)
(* SeedInv) is kept by each action, and what follows from it.              *)
(***************************************************************************)
EXTENDS Offer, LedgerSeals, Addresses, StatusFeed, Choices, Locations, Uploads,
        Reminders, Reviews, Seeding, FiniteSetTheorems, TLAPS

-----------------------------------------------------------------------------
(* Offer *)

\* A step of one request that commits nothing.
LEMMA RequestStep ==
  ASSUME OfferInv, NEW c \in OfferCalls, NEW t,
         offerTxn' = [offerTxn EXCEPT ![c] = t],
         UNCHANGED <<about, specialties, told, terms, agreed, tangled>>,
         OfferSafe(t),
         \A d \in OfferCalls \ {c} :
           OffersApart(t, offerTxn[d]) /\ OffersApart(offerTxn[d], t)
  PROVE  OfferInv'
  <1>1. /\ offerTxn'[c] = t /\ DOMAIN offerTxn' = OfferCalls
        /\ \A d \in OfferCalls \ {c} : offerTxn'[d] = offerTxn[d]
    BY DEF OfferInv
  <1>2. OfferAsTold'
    BY DEF OfferInv, OfferAsTold
  <1>3. \A d \in OfferCalls : OfferSafe(offerTxn[d])'
    BY <1>1 DEF OfferInv, OfferSafe
  <1>4. \A d \in OfferCalls : \A e \in OfferCalls \ {d} : OffersApart(offerTxn[d], offerTxn[e])'
    BY <1>1 DEF OfferInv, OffersApart
  <1>5. QED
    BY <1>1, <1>2, <1>3, <1>4 DEF OfferInv

\* PUT /detailers/me up to its commit.
LEMMA PutSteps ==
  ASSUME OfferInv, NEW c \in OfferCalls,
         \/ \E text \in About, slugs \in SUBSET Slugs : ReadOffer(c, text, slugs)
         \/ UpsertProfile(c) \/ SyncSpecialties(c) \/ AbortOffer(c)
  PROVE  OfferInv'
  <1>1. ASSUME NEW text, NEW slugs, ReadOffer(c, text, slugs) PROVE OfferInv'
    <2> DEFINE t == [pc |-> "read", about |-> text, slugs |-> slugs,
                     creates |-> about["detailer"] = NoProfile]
    <2>1. t.pc = "read"
      OBVIOUS
    <2>2. /\ offerTxn' = [offerTxn EXCEPT ![c] = t]
          /\ UNCHANGED <<about, specialties, told, terms, agreed, tangled>>
      BY <1>1 DEF ReadOffer
    <2> HIDE DEF t
    <2>3. QED
      BY <2>1, <2>2, RequestStep DEF OfferSafe, OffersApart
  <1>2. CASE AbortOffer(c)
    <2>1. Resting.pc = "idle"
      BY DEF Resting
    <2>2. QED
      BY <1>2, <2>1, RequestStep DEF AbortOffer, OfferSafe, OffersApart
  <1>3. CASE UpsertProfile(c)
    <2> DEFINE o == offerTxn[c]
               w == [pc |-> "written", about |-> o.about, slugs |-> o.slugs,
                     creates |-> o.creates]
    <2>1. Resting.pc = "idle"
      BY DEF Resting
    <2>2. w.pc = "written"
      OBVIOUS
    <2>3. PICK t : /\ offerTxn' = [offerTxn EXCEPT ![c] = t]
                   /\ t = Resting \/ t = w
      BY <1>3 DEF UpsertProfile, WriteProfile, OfferInv
    <2> HIDE DEF w
    <2>4. UNCHANGED <<about, specialties, told, terms, agreed, tangled>>
      BY <1>3 DEF UpsertProfile, WriteProfile
    <2>5. \A d \in OfferCalls \ {c} : offerTxn[d].pc \notin {"written", "synced"}
      BY <1>3 DEF UpsertProfile, ProfileFree
    <2>6. t.pc \in {"idle", "read", "written"}
      BY <2>1, <2>2, <2>3
    <2>7. QED
      BY <2>3, <2>4, <2>5, <2>6, RequestStep DEF OfferSafe, OffersApart
  <1>4. CASE SyncSpecialties(c)
    <2> DEFINE o == offerTxn[c]
               t == [pc |-> "synced", about |-> o.about, slugs |-> o.slugs,
                     creates |-> o.creates, dropped |-> specialties,
                     added |-> o.slugs \intersect KnownSlugs]
    <2>1. /\ offerTxn' = [offerTxn EXCEPT ![c] = t]
          /\ UNCHANGED <<about, specialties, told, terms, agreed, tangled>>
          /\ o.pc = "written"
      BY <1>4 DEF SyncSpecialties, OfferInv
    <2>2. t.pc = "synced" /\ t.dropped = specialties /\ t.added = t.slugs \intersect KnownSlugs
      OBVIOUS
    <2>3. \A d \in OfferCalls \ {c} : offerTxn[d].pc \notin {"written", "synced"}
      BY <2>1 DEF OfferInv, OffersApart
    <2> HIDE DEF t
    <2>4. QED
      BY <2>1, <2>2, <2>3, RequestStep DEF OfferSafe, OffersApart
  <1>5. QED
    BY <1>1, <1>2, <1>3, <1>4

\* The commit of a PUT: nobody else has replaced the specialties meanwhile.
LEMMA CommitOfferStep ==
  ASSUME OfferInv, NEW c \in OfferCalls, CommitOffer(c)
  PROVE  OfferInv'
  <1> DEFINE t == offerTxn[c]
  <1>1. t.pc = "synced" /\ t.dropped = specialties /\ t.added = t.slugs \intersect KnownSlugs
    BY DEF CommitOffer, OfferInv, OfferSafe
  <1>2. /\ offerTxn'[c] = Resting /\ DOMAIN offerTxn' = OfferCalls
        /\ \A d \in OfferCalls \ {c} : offerTxn'[d] = offerTxn[d]
    BY DEF CommitOffer, OfferInv
  <1>3. \A d \in OfferCalls \ {c} : offerTxn[d].pc \notin {"written", "synced"}
    BY <1>1 DEF OfferInv, OffersApart
  <1>4. about'["detailer"] = t.about /\ told'.about = t.about /\ told'.slugs = t.slugs
    BY DEF CommitOffer, Types
  <1>5. specialties' = t.slugs \intersect KnownSlugs
    BY <1>1 DEF CommitOffer
  <1>6. UNCHANGED <<terms, agreed, tangled>>
    BY DEF CommitOffer
  <1>7. OfferAsTold'
    BY <1>4, <1>5, <1>6 DEF OfferInv, OfferAsTold
  <1>8. Resting.pc = "idle"
    BY DEF Resting
  <1>9. \A d \in OfferCalls : OfferSafe(offerTxn[d])'
    BY <1>2, <1>3, <1>6, <1>8 DEF OfferInv, OfferSafe
  <1>10. \A d \in OfferCalls : \A e \in OfferCalls \ {d} : OffersApart(offerTxn[d], offerTxn[e])'
    BY <1>2, <1>6, <1>8 DEF OfferInv, OffersApart
  <1>11. QED
    BY <1>2, <1>6, <1>7, <1>9, <1>10 DEF OfferInv

\* A PATCH reads the service.  If it meets another one, the service is tangled.
LEMMA ReadTermsStep ==
  ASSUME OfferInv, NEW c \in OfferCalls, NEW s \in Services, NEW body \in Terms,
         ReadTerms(c, s, body)
  PROVE  OfferInv'
  <1> DEFINE t == [pc |-> "looked", of |-> s, body |-> body, loaded |-> terms[s]]
  <1>1. /\ offerTxn'[c] = t /\ DOMAIN offerTxn' = OfferCalls
        /\ \A d \in OfferCalls \ {c} : offerTxn'[d] = offerTxn[d]
    BY DEF ReadTerms, OfferInv
  <1>2. UNCHANGED <<about, specialties, told, terms, agreed>> /\ tangled \subseteq tangled'
    BY DEF ReadTerms
  <1>3. \A d \in OfferCalls \ {c} :
          offerTxn[d].pc \in {"looked", "priced"} /\ offerTxn[d].of = s => s \in tangled'
    BY DEF ReadTerms
  <1>4. t.pc = "looked" /\ t.of = s /\ t.body = body /\ t.loaded = terms[s]
    OBVIOUS
  <1> HIDE DEF t
  <1>5. OfferAsTold'
    BY <1>2 DEF OfferInv, OfferAsTold
  <1>6. \A d \in OfferCalls : OfferSafe(offerTxn[d])'
    BY <1>1, <1>2, <1>4 DEF OfferInv, OfferSafe
  <1>7. \A d \in OfferCalls : \A e \in OfferCalls \ {d} : OffersApart(offerTxn[d], offerTxn[e])'
    BY <1>1, <1>2, <1>3, <1>4 DEF OfferInv, OffersApart
  <1>8. QED
    BY <1>1, <1>2, <1>5, <1>6, <1>7 DEF OfferInv

\* The flush of a PATCH, refused if the row has come since.
LEMMA FlushTermsStep ==
  ASSUME OfferInv, NEW c \in OfferCalls, FlushTerms(c)
  PROVE  OfferInv'
  <1> DEFINE o == offerTxn[c]
             w == [pc |-> "priced", of |-> o.of, body |-> o.body, loaded |-> o.loaded]
  <1>1. Resting.pc = "idle" /\ o.pc = "looked"
    BY DEF Resting, FlushTerms
  <1>2. PICK t : /\ offerTxn' = [offerTxn EXCEPT ![c] = t]
                 /\ t = Resting \/ t = w
    BY DEF FlushTerms, OfferInv
  <1>3. UNCHANGED <<about, specialties, told, terms, agreed, tangled>>
    BY DEF FlushTerms
  <1>4. w.pc = "priced" /\ w.of = o.of /\ w.body = o.body /\ w.loaded = o.loaded
    OBVIOUS
  <1> HIDE DEF w
  <1>5. CASE t = Resting
    BY <1>1, <1>2, <1>3, <1>5, RequestStep DEF OfferSafe, OffersApart
  <1>6. CASE t = w
    <2>1. OfferSafe(t)
      BY <1>1, <1>4, <1>6 DEF OfferInv, OfferSafe
    <2>2. \A d \in OfferCalls \ {c} : OffersApart(t, offerTxn[d]) /\ OffersApart(offerTxn[d], t)
      BY <1>1, <1>4, <1>6 DEF OfferInv, OffersApart
    <2>3. QED
      BY <1>2, <1>3, <2>1, <2>2, RequestStep
  <1>7. QED
    BY <1>2, <1>5, <1>6

\* The commit of a PATCH: what it had read still stands, so the columns it leaves
\* out are the ones it asked for already.
LEMMA CommitTermsStep ==
  ASSUME OfferInv, NEW c \in OfferCalls, CommitTerms(c)
  PROVE  OfferInv'
  <1> DEFINE t == offerTxn[c]
  <1>1. t.pc = "priced" /\ t.of \in Services /\ t.body \in Terms
    BY DEF CommitTerms, OfferInv, OfferSafe
  <1>2. /\ offerTxn'[c] = Resting /\ DOMAIN offerTxn' = OfferCalls
        /\ \A d \in OfferCalls \ {c} : offerTxn'[d] = offerTxn[d]
    BY DEF CommitTerms, OfferInv
  <1>3. UNCHANGED <<about, specialties, told, tangled>>
    BY DEF CommitTerms
  <1>4. /\ DOMAIN terms' = Services /\ DOMAIN agreed' = Services
        /\ \A s \in Services \ {t.of} : terms'[s] = terms[s] /\ agreed'[s] = agreed[s]
        /\ agreed'[t.of] = t.body
        /\ terms'[t.of] = IF t.loaded = NoTerms THEN t.body
                          ELSE [k \in DOMAIN t.body |-> IF t.body[k] # t.loaded[k]
                                  THEN t.body[k] ELSE terms[t.of][k]]
    BY <1>1 DEF CommitTerms, OfferInv
  <1>5. t.of \notin tangled => terms'[t.of] = t.body
    <2> SUFFICES ASSUME t.of \notin tangled PROVE terms'[t.of] = t.body
      OBVIOUS
    <2>1. t.loaded = terms[t.of]
      BY <1>1 DEF OfferInv, OfferSafe
    <2>2. t.body = [k \in DOMAIN t.body |-> t.body[k]]
      BY <1>1, OfferAssumption
    <2>3. QED
      BY <1>4, <2>1, <2>2
  <1>6. OfferAsTold'
    BY <1>3, <1>4, <1>5 DEF OfferInv, OfferAsTold
  <1>7. Resting.pc = "idle"
    BY DEF Resting
  <1>8. \A d \in OfferCalls \ {c} : OfferSafe(offerTxn[d])'
    BY <1>1, <1>2, <1>3, <1>4 DEF OfferInv, OfferSafe, OffersApart
  <1>9. \A d \in OfferCalls : OfferSafe(offerTxn[d])'
    BY <1>2, <1>7, <1>8 DEF OfferSafe
  <1>10. \A d \in OfferCalls : \A e \in OfferCalls \ {d} : OffersApart(offerTxn[d], offerTxn[e])'
    BY <1>2, <1>3, <1>7 DEF OfferInv, OffersApart
  <1>11. QED
    BY <1>2, <1>4, <1>6, <1>9, <1>10 DEF OfferInv

\* The invariant holds at the start and after every step.
THEOREM OfferInvariant == OfferSpec => []OfferInv
  <1>1. OfferInit => OfferInv
    BY DEF OfferInit, OfferInv, OfferAsTold, OfferSafe, OffersApart, Resting
  <1>2. ASSUME OfferInv, PutNext PROVE OfferInv'
    BY <1>2, PutSteps, CommitOfferStep DEF PutNext
  <1>3. ASSUME OfferInv, TermsNext PROVE OfferInv'
    BY <1>3, PutSteps, ReadTermsStep, FlushTermsStep, CommitTermsStep DEF TermsNext
  <1>4. ASSUME OfferInv, UNCHANGED offerVars PROVE OfferInv'
    BY <1>4 DEF offerVars, OfferInv, OfferAsTold, OfferSafe, OffersApart
  <1>5. QED
    BY <1>1, <1>2, <1>3, <1>4, PTL DEF OfferSpec

\* However PUTs overlap and fail, the profile and its specialties are those of
\* the last one committed, and so are a service's terms where no PATCHes met.
THEOREM LastPutStands == OfferSpec => []OfferAsTold
  <1>1. OfferInv => OfferAsTold
    BY DEF OfferInv
  <1>2. QED
    BY <1>1, OfferInvariant, PTL

-----------------------------------------------------------------------------
(* LedgerSeals *)

\* What a past day's seal may hold does not depend on what is written, becomes
\* visible or passes midnight afterwards: an entry that commits on the day of
\* its stamp has today's stamp.
LEMMA PastDaysStand ==
  ASSUME SealInv, NEW d \in Days, d < today, NEW set, Covers(set, d),
         visible \subseteq visible',
         \A e \in visible : entryDay'[e] = entryDay[e],
         \A e \in onTime' \ onTime : entryDay'[e] = today,
         onTime' \ onTime \subseteq visible'
  PROVE  Covers(set, d)'
  <1>1. \A e \in onTime' : entryDay'[e] = d => e \in onTime
    BY DEF SealInv, SealTypeOK, Days
  <1>2. { e \in onTime' : entryDay'[e] = d } \subseteq set
    BY <1>1 DEF Covers, SealInv, SealTypeOK
  <1>3. set \subseteq { e \in visible' : entryDay'[e] = d }
    BY DEF Covers, EntriesOf
  <1>4. QED
    BY <1>2, <1>3 DEF Covers, EntriesOf

\* The ledger and the clock: the workers' records and the seals stay.
LEMMA LedgerStep ==
  ASSUME SealInv, SealTypeOK', today' >= today,
         UNCHANGED <<seals, sealer, sealed>>,
         visible \subseteq visible',
         \A e \in visible : entryDay'[e] = entryDay[e],
         \A e \in onTime' \ onTime : entryDay'[e] = today,
         \A e \in Entries : entryDay'[e] # NoDay => entryDay'[e] <= today',
         \A e \in visible' : entryDay'[e] # NoDay
  PROVE  SealInv'
  <1>1. today \in Nat /\ today' \in Nat
    BY DEF SealInv, SealTypeOK, Days
  <1>2. ASSUME NEW d \in Days, NEW set, d < today, Covers(set, d)
        PROVE  d < today' /\ Covers(set, d)'
    <2>1. onTime' \ onTime \subseteq visible'
      BY DEF SealTypeOK
    <2>2. Covers(set, d)'
      BY <1>2, <2>1, PastDaysStand
    <2>3. QED
      BY <1>1, <1>2, <2>2 DEF Days
  <1>3. ASSUME NEW w \in Sealers
        PROVE  /\ sealer'[w].at # "asleep" => sealer'[w].day < today'
               /\ sealer'[w].at = "read" => Covers(sealer[w].covers, sealer[w].day)'
    <2>1. sealer[w].day \in Days
      BY DEF SealInv, SealTypeOK
    <2>2. sealer[w].at # "asleep" => sealer[w].day < today'
      BY <1>1, <2>1 DEF SealInv, Days
    <2>3. sealer[w].at = "read" => Covers(sealer[w].covers, sealer[w].day)'
      <3>1. SUFFICES ASSUME sealer[w].at = "read"
                     PROVE  Covers(sealer[w].covers, sealer[w].day)'
        OBVIOUS
      <3>2. sealer[w].day < today /\ Covers(sealer[w].covers, sealer[w].day)
        BY <3>1 DEF SealInv
      <3>3. \A set : Covers(set, sealer[w].day) => Covers(set, sealer[w].day)'
        <4> DEFINE that == sealer[w].day
        <4>1. that \in Days /\ that < today /\ sealer'[w].day = that
          BY <2>1, <3>2
        <4> HIDE DEF that
        <4>2. \A set : Covers(set, that) => { e \in onTime' : entryDay'[e] = that } \subseteq set
                                             /\ set \subseteq { e \in visible' : entryDay'[e] = that }
          BY <4>1, <1>2 DEF Covers, EntriesOf
        <4>3. QED
          BY <4>1, <4>2 DEF Covers, EntriesOf, that
      <3>4. QED
        BY <3>2, <3>3
    <2>4. QED
      BY <2>2, <2>3
  <1>4. ASSUME NEW d \in sealed \union { x \in Days : seals[x] # NoSeal }
        PROVE  d < today' /\ Covers(IF seals[d] = NoSeal THEN {} ELSE seals[d], d)'
    <2>1. /\ d \in Days /\ d < today
          /\ Covers(IF seals[d] = NoSeal THEN {} ELSE seals[d], d)
      BY DEF SealInv, SealTypeOK, SealCoversDay
    <2>2. \A set : Covers(set, d) => { e \in onTime' : entryDay'[e] = d } \subseteq set
                                    /\ set \subseteq { e \in visible' : entryDay'[e] = d }
      BY <2>1, <1>2 DEF Covers, EntriesOf
    <2>3. d < today'
      BY <1>1, <2>1 DEF Days
    <2>4. QED
      BY <2>1, <2>2, <2>3 DEF Covers, EntriesOf
  <1>5. SealCoversDay'
    BY <1>4 DEF SealCoversDay
  <1>6. QED
    BY <1>3, <1>5 DEF SealInv

\* The ledger itself, and midnight.
LEMMA EntriesStep ==
  ASSUME SealInv, \/ Midnight
                  \/ \E e \in Entries : WriteEntry(e) \/ CommitEntry(e)
  PROVE  SealInv'
  <1>1. today \in Nat /\ LastDay \in Nat /\ NoDay \notin Days
    BY SealsAssumption DEF SealInv, SealTypeOK, Days
  <1>2. CASE Midnight
    <2>1. today' = today + 1 /\ today' \in Days
      BY <1>1, <1>2 DEF Midnight, Days
    <2>2. SealTypeOK' /\ today' >= today
      BY <1>1, <1>2, <2>1 DEF Midnight, SealInv, SealTypeOK
    <2>3. \A e \in Entries : entryDay'[e] # NoDay => entryDay'[e] <= today'
      BY <1>1, <1>2, <2>1 DEF Midnight, SealInv, SealTypeOK, Days
    <2>4. QED
      BY <1>2, <2>1, <2>2, <2>3, LedgerStep DEF Midnight, SealInv
  <1>3. CASE \E e \in Entries : WriteEntry(e)
    <2>1. PICK e \in Entries : WriteEntry(e)
      BY <1>3
    <2>2. entryDay' \in [Entries -> Days \union {NoDay}]
          /\ entryDay'[e] = today /\ \A f \in Entries \ {e} : entryDay'[f] = entryDay[f]
      BY <2>1 DEF WriteEntry, SealInv, SealTypeOK
    <2>3. SealTypeOK' /\ today' >= today
      BY <1>1, <2>1, <2>2 DEF WriteEntry, SealInv, SealTypeOK
    <2>4. e \notin visible /\ today # NoDay
      BY <1>1, <2>1 DEF WriteEntry, SealInv, SealTypeOK
    <2>5. \A f \in visible : entryDay'[f] = entryDay[f] /\ entryDay'[f] # NoDay
      BY <2>2, <2>4 DEF SealInv, SealTypeOK
    <2>6. \A f \in Entries : entryDay'[f] # NoDay => entryDay'[f] <= today
      BY <1>1, <2>2 DEF SealInv
    <2>7. QED
      BY <2>1, <2>3, <2>5, <2>6, LedgerStep DEF WriteEntry
  <1>4. CASE \E e \in Entries : CommitEntry(e)
    <2>1. PICK e \in Entries : CommitEntry(e)
      BY <1>4
    <2>2. SealTypeOK' /\ today' >= today
      BY <1>1, <2>1 DEF CommitEntry, SealInv, SealTypeOK
    <2>3. \A f \in onTime' \ onTime : entryDay'[f] = today
      BY <2>1 DEF CommitEntry
    <2>4. QED
      BY <2>1, <2>2, <2>3, LedgerStep DEF CommitEntry, SealInv
  <1>5. QED
    BY <1>2, <1>3, <1>4

\* A step of one worker: the ledger stays.
LEMMA WorkerStep ==
  ASSUME SealInv, NEW w \in Sealers, WakeUp(w) \/ ReadDay(w) \/ CommitSeal(w) \/ SealFails(w)
  PROVE  SealInv'
  <1> DEFINE d == sealer[w].day
             Covered(x) == IF seals[x] = NoSeal THEN {} ELSE seals[x]
             SealedDays == sealed \union { x \in Days : seals[x] # NoSeal }
  <1>1. /\ today \in Days /\ d \in Days /\ today \in Nat
        /\ UNCHANGED <<today, entryDay, visible, onTime>>
        /\ \A set, x : Covers(set, x)' <=> Covers(set, x)
    BY DEF WakeUp, ReadDay, CommitSeal, SealFails, SealInv, SealTypeOK, Covers, EntriesOf, Days
  <1>2. \A x \in SealedDays : x < today /\ Covers(Covered(x), x)
    BY DEF SealInv, SealCoversDay
  <1>3. ASSUME NEW m, m \in [at : {"asleep", "woken"}, day : Days]
                            \union [at : {"read"}, day : Days, covers : SUBSET Entries],
               sealer' = [sealer EXCEPT ![w] = m],
               m.at # "asleep" => m.day < today,
               m.at = "read" => Covers(m.covers, m.day),
               seals' \in [Days -> (SUBSET Entries) \union {NoSeal}], sealed' \subseteq Days,
               \A x \in SealedDays' : x < today /\ Covers(Covered(x)', x)
        PROVE  SealInv'
    <2>1. SealTypeOK'
      BY <1>1, <1>3 DEF SealInv, SealTypeOK
    <2>2. \A v \in Sealers :
            /\ sealer'[v].at # "asleep" => sealer'[v].day < today
            /\ sealer'[v].at = "read" => Covers(sealer'[v].covers, sealer'[v].day)
      BY <1>3 DEF SealInv, SealTypeOK
    <2>3. SealCoversDay'
      BY <1>1, <1>3 DEF SealCoversDay, Covers, EntriesOf
    <2>4. QED
      BY <1>1, <2>1, <2>2, <2>3 DEF SealInv, Covers, EntriesOf
  <1>4. CASE WakeUp(w)
    <2> DEFINE m == [at |-> "woken", day |-> today - 1]
    <2>1. d \in Days /\ d < today /\ today - 1 \in Days
      BY <1>1, <1>4, SealsAssumption DEF WakeUp, Days
    <2>2. sealer' = [sealer EXCEPT ![w] = m] /\ UNCHANGED <<seals, sealed>>
      BY <1>4 DEF WakeUp
    <2>3. m.at = "woken" /\ m.day < today
      BY <1>1
    <2>4. QED
      BY <1>2, <1>3, <2>1, <2>2, <2>3 DEF SealInv, SealTypeOK
  <1>5. CASE ReadDay(w)
    <2>1. d < today /\ sealer[w].at = "woken" /\ seals' = seals
      BY <1>5 DEF ReadDay, SealInv
    <2>2. Covers(EntriesOf(d), d)
      BY DEF Covers, EntriesOf, SealInv, SealTypeOK
    <2>3. CASE seals[d] = NoSeal /\ EntriesOf(d) # {}
      <3> DEFINE m == [at |-> "read", day |-> d, covers |-> EntriesOf(d)]
      <3>1. sealer' = [sealer EXCEPT ![w] = m] /\ sealed' = sealed
        BY <1>5, <2>3 DEF ReadDay
      <3>2. m \in [at : {"read"}, day : Days, covers : SUBSET Entries]
        BY <1>1 DEF EntriesOf, SealInv, SealTypeOK
      <3>3. QED
        BY <1>2, <1>3, <2>1, <2>2, <3>1, <3>2 DEF SealInv, SealTypeOK
    <2>4. CASE ~ (seals[d] = NoSeal /\ EntriesOf(d) # {})
      <3> DEFINE m == Asleep(today)
      <3>1. sealer' = [sealer EXCEPT ![w] = m] /\ sealed' = sealed \union {d}
        BY <1>5, <2>4 DEF ReadDay
      <3>2. m \in [at : {"asleep", "woken"}, day : Days] /\ m.at = "asleep"
        BY <1>1 DEF Asleep
      <3>3. Covers(Covered(d), d)
        BY <1>1, <1>2, <2>2, <2>4
      <3>4. \A x \in SealedDays' : x < today /\ Covers(Covered(x)', x)
        BY <1>2, <2>1, <3>1, <3>3
      <3>5. sealed' \subseteq Days /\ seals' \in [Days -> (SUBSET Entries) \union {NoSeal}]
        BY <1>1, <2>1, <3>1 DEF SealInv, SealTypeOK
      <3> HIDE DEF m
      <3>6. QED
        BY <1>3, <3>1, <3>2, <3>4, <3>5
    <2>5. QED
      BY <2>3, <2>4
  <1>6. CASE CommitSeal(w)
    <2> DEFINE m == Asleep(today)
               set == sealer[w].covers
    <2>1. sealer[w].at = "read" /\ d < today /\ Covers(set, d)
      BY <1>6 DEF CommitSeal, SealInv
    <2>2. set \in SUBSET Entries /\ set # NoSeal
      BY <2>1, SealsAssumption DEF SealInv, SealTypeOK
    <2>3. /\ sealer' = [sealer EXCEPT ![w] = m]
          /\ seals' = [seals EXCEPT ![d] = set]
          /\ sealed' = sealed \union {d}
      BY <1>6 DEF CommitSeal
    <2>4. m \in [at : {"asleep", "woken"}, day : Days] /\ m.at = "asleep"
      BY <1>1 DEF Asleep
    <2>5. /\ seals' \in [Days -> (SUBSET Entries) \union {NoSeal}] /\ sealed' \subseteq Days
          /\ seals'[d] = set /\ \A x \in Days \ {d} : seals'[x] = seals[x]
      BY <1>1, <2>2, <2>3 DEF SealInv, SealTypeOK
    <2>6. \A x \in SealedDays' : x < today /\ Covers(Covered(x)', x)
      <3>1. ASSUME NEW x \in SealedDays', x # d
            PROVE  x < today /\ Covers(Covered(x)', x)
        <4>1. x \in Days /\ x \in SealedDays /\ seals'[x] = seals[x]
          BY <2>3, <2>5, <3>1
        <4>2. QED
          BY <1>2, <4>1
      <3>2. QED
        BY <2>1, <2>2, <2>5, <3>1
    <2> HIDE DEF m
    <2>7. QED
      BY <1>3, <2>3, <2>4, <2>5, <2>6
  <1>7. CASE SealFails(w)
    <2> DEFINE m == Asleep(today)
    <2>1. sealer' = [sealer EXCEPT ![w] = m] /\ UNCHANGED <<seals, sealed>>
      BY <1>7 DEF SealFails
    <2>2. m \in [at : {"asleep", "woken"}, day : Days] /\ m.at = "asleep"
      BY <1>1 DEF Asleep
    <2> HIDE DEF m
    <2>3. QED
      BY <1>2, <1>3, <2>1, <2>2 DEF SealInv, SealTypeOK
  <1>8. QED
    BY <1>4, <1>5, <1>6, <1>7

\* The invariant holds at the start and after every step.
THEOREM SealInvariant == SealSpec => []SealInv
  <1>1. SealInit => SealInv
    <2> SUFFICES ASSUME SealInit PROVE SealInv
      OBVIOUS
    <2>1. 0 \in Days /\ \A w \in Sealers : sealer[w] = [at |-> "asleep", day |-> 0]
      BY SealsAssumption DEF SealInit, Asleep, Days
    <2>2. SealTypeOK
      BY <2>1 DEF SealInit, SealTypeOK, Asleep
    <2>3. SealCoversDay
      BY DEF SealInit, SealCoversDay
    <2>4. QED
      BY <2>1, <2>2, <2>3 DEF SealInit, SealInv
  <1>2. SealInv /\ [SealNext]_sealVars => SealInv'
    <2>1. CASE UNCHANGED sealVars
      BY <2>1 DEF sealVars, SealInv, SealTypeOK, SealCoversDay, Covers, EntriesOf
    <2>2. QED
      BY <2>1, EntriesStep, WorkerStep DEF SealNext
  <1>3. QED
    BY <1>1, <1>2, PTL DEF SealSpec

\* A sealed day is over, and its hash covers the entries that were committed on
\* it and none of another day: for any number of processes, days and entries.
THEOREM DaysAreCovered == SealSpec => []SealCoversDay
  <1>1. SealInv => SealCoversDay
    BY DEF SealInv
  <1>2. QED
    BY <1>1, SealInvariant, PTL

-----------------------------------------------------------------------------
(* Addresses *)

BookKept == /\ Book!FlagInv'
            /\ ~ addressesOverlap' => Book!DefaultHeld'

\* A statement of one caller: it may take a row nobody creates, and write rows of
\* the table or its own new one.
LEMMA StatementKeepsBook ==
  ASSUME BookInv, BookKept, NEW c \in AddressCallers, UNCHANGED <<addresses, place>>,
         DOMAIN edit' = AddressCallers, mixed \subseteq mixed',
         \A d \in AddressCallers \ {c} : addressTxn'[d] = addressTxn[d] /\ edit'[d] = edit[d],
         Fresh(c)', Editing(c)',
         \A a \in Book!Held(c)' : \/ a \in Book!Held(c) \/ addresses[a] # NoAddress
                                  \/ a = addressTxn[c].row,
         \/ addressTxn'[c].row = addressTxn[c].row
         \/ \A d \in AddressCallers \ {c} :
              addressTxn[d].pc \in {"clear", "count"} => addressTxn[d].row # addressTxn'[c].row,
         \/ edit'[c] = NoAddress
         \/ edit'[c] = edit[c] /\ addressTxn'[c].row = addressTxn[c].row
         \/ \A d \in AddressCallers \ {c} :
              edit[d] # NoAddress /\ addressTxn[d].row = addressTxn'[c].row
                => addressTxn[d].row \in mixed'
  PROVE  BookInv'
  <1>1. ASSUME NEW d \in AddressCallers \ {c} PROVE Fresh(d)' /\ Editing(d)'
    <2>1. Fresh(d) /\ Editing(d) /\ Fresh(c) /\ Editing(c)
      BY DEF BookInv
    <2>2. addressTxn'[d] = addressTxn[d] /\ edit'[d] = edit[d]
      OBVIOUS
    <2>3. \A b \in AddressCallers \ {c} : Book!Held(b)' = Book!Held(b)
      BY DEF Book!Held
    <2>4. ASSUME addressTxn[d].pc \in {"clear", "count"}
          PROVE  /\ \A b \in AddressCallers : addressTxn[d].row \notin Book!Held(b)'
                 /\ \A b \in AddressCallers \ {d} : addressTxn'[b].row # addressTxn[d].row
      <3>1. addressTxn[d].row \notin Book!Held(c)'
        BY <2>1, <2>4 DEF Fresh
      <3>2. addressTxn'[c].row # addressTxn[d].row
        BY <2>1, <2>4 DEF Fresh
      <3>3. QED
        BY <2>1, <2>3, <2>4, <3>1, <3>2 DEF Fresh
    <2>5. Fresh(d)'
      BY <2>1, <2>2, <2>3, <2>4 DEF Fresh
    <2>6. ASSUME edit[d] # NoAddress, addressTxn[d].row \notin mixed', edit'[c] # NoAddress
          PROVE  addressTxn'[c].row # addressTxn[d].row
      BY <2>1, <2>6 DEF Editing
    <2>7. Editing(d)'
      BY <2>1, <2>2, <2>6 DEF Editing, Left
    <2>8. QED
      BY <2>5, <2>7
  <1>2. \A a \in AddressIds : Pinned(a)'
    BY DEF BookInv, Pinned
  <1>3. \A d \in AddressCallers : Fresh(d)' /\ Editing(d)'
    BY <1>1
  <1>4. DOMAIN place' = AddressIds
    BY DEF BookInv
  <1>5. QED
    BY <1>2, <1>3, <1>4 DEF BookInv, BookKept

\* The transaction ends, and its edit with it or before.
LEMMA EndKeepsBook ==
  ASSUME BookInv, BookKept, NEW c \in AddressCallers, UNCHANGED <<addresses, place>>, mixed' = mixed,
         addressTxn' = [addressTxn EXCEPT ![c] = Book!Idle],
         edit' = [edit EXCEPT ![c] = NoAddress] \/ (edit' = edit /\ edit[c] = NoAddress)
  PROVE  BookInv'
  <1>1. /\ addressTxn'[c] = Book!Idle /\ addressTxn'[c].pc = "idle" /\ addressTxn'[c].row = NoAddress
        /\ edit'[c] = NoAddress /\ DOMAIN edit' = AddressCallers
        /\ \A d \in AddressCallers \ {c} : addressTxn'[d] = addressTxn[d] /\ edit'[d] = edit[d]
    BY DEF BookInv, Book!FlagInv, Book!Idle
  <1>2. Book!Held(c)' = {}
    BY <1>1 DEF Book!Held, Book!Idle
  <1>3. Fresh(c)' /\ Editing(c)'
    BY <1>1, <1>2 DEF Fresh, Editing
  <1>4. \A d \in AddressCallers : addressTxn[d].pc \in {"clear", "count"} => addressTxn[d].row # NoAddress
    BY AddressAssumption DEF BookInv, Fresh
  <1>5. QED
    BY <1>1, <1>2, <1>3, <1>4, StatementKeepsBook

\* A rollback, for whatever reason.
LEMMA RollbackKeepsBook ==
  ASSUME BookInv, NEW c \in AddressCallers, UNCHANGED place, mixed' = mixed, Book!Rollback(c),
         edit' = [edit EXCEPT ![c] = NoAddress] \/ (edit' = edit /\ edit[c] = NoAddress)
  PROVE  BookInv'
  <1>1. /\ addresses' = addresses /\ addressesOverlap' = addressesOverlap
        /\ addressTxn' = [addressTxn EXCEPT ![c] = Book!Idle]
    BY DEF Book!Rollback
  <1>2. BookKept
    BY <1>1, AddressAssumption, Book!RollbackKeepsFlagInv, Book!RollbackKeepsDefault
       DEF BookInv, BookKept
  <1>3. QED
    BY <1>1, <1>2, EndKeepsBook

\* The first step of a request on row a.
LEMMA BeginKeepsBook ==
  ASSUME BookInv, BookKept, NEW c \in AddressCallers, NEW pc, NEW a \in AddressIds, NEW flag,
         Book!Begin(c, pc, a, flag), UNCHANGED place, mixed \subseteq mixed',
         DOMAIN edit' = AddressCallers,
         \A d \in AddressCallers \ {c} : edit'[d] = edit[d],
         pc = "clear" => flag,
         IF pc \in {"clear", "count"}
           THEN /\ addresses[a] = NoAddress /\ \A d \in AddressCallers : addressTxn[d].row # a
                /\ edit'[c] # NoAddress
           ELSE addresses[a] # NoAddress,
         edit'[c] # NoAddress =>
           /\ pc \in {"clear", "count", "edited"}
           /\ Left(c, "line")' \in Lines /\ Left(c, "city")' \in Cities
           /\ a \notin mixed' => /\ Left(c, "pin")' \in {NoPin, <<Left(c, "line")', Left(c, "city")'>>}
                                 /\ \A d \in AddressCallers \ {c} :
                                      edit[d] # NoAddress => addressTxn[d].row # a
  PROVE  BookInv'
  <1> DEFINE t == [Book!Idle EXCEPT !.pc = pc, !.row = a, !.flag = flag, !.deleting = (pc = "found")]
  <1>1. /\ t.pc = pc /\ t.row = a /\ t.flag = flag /\ t.writes = [r \in AddressIds |-> Untouched]
    BY DEF Book!Idle
  <1>2. addressTxn' = [addressTxn EXCEPT ![c] = t] /\ addresses' = addresses
    BY DEF Book!Begin
  <1> HIDE DEF t
  <1>3. /\ addressTxn'[c] = t
        /\ \A d \in AddressCallers \ {c} : addressTxn'[d] = addressTxn[d]
    BY <1>2 DEF BookInv, Book!FlagInv
  <1>4. Book!Held(c)' = {} /\ \A d \in AddressCallers \ {c} : Book!Held(d)' = Book!Held(d)
    BY <1>1, <1>3 DEF Book!Held
  <1>5. ASSUME pc \in {"clear", "count"}
        PROVE  \A d \in AddressCallers : a \notin Book!Held(d)'
    <2>1. \A d \in AddressCallers \ {c} : a \notin Book!Held(d)
      BY <1>5 DEF BookInv, Fresh
    <2>2. QED
      BY <1>4, <2>1
  <1>6. Fresh(c)'
    BY <1>1, <1>2, <1>3, <1>4, <1>5 DEF Fresh
  <1>7. Editing(c)'
    BY <1>1, <1>3 DEF Editing
  <1>8. \A d \in AddressCallers \ {c} :
          addressTxn[d].pc \in {"clear", "count"} => addressTxn[d].row # a
    BY DEF BookInv, Fresh
  <1>9. addressTxn'[c].row = a /\ (edit'[c] = NoAddress \/ \A d \in AddressCallers \ {c} :
              edit[d] # NoAddress /\ addressTxn[d].row = addressTxn'[c].row
                => addressTxn[d].row \in mixed')
    BY <1>1, <1>3
  <1>10. QED
    BY <1>2, <1>3, <1>4, <1>6, <1>7, <1>8, <1>9, StatementKeepsBook

\* A creation starts on a row nobody has.
LEMMA CreatesKeepBook == ASSUME BookInv, NEW c \in AddressCallers, BeginCreate(c) PROVE BookInv'
  <1>1. PICK a \in AddressIds, wanted \in BOOLEAN, p \in NewPlaces :
          /\ addresses[a] = NoAddress
          /\ \A d \in AddressCallers : addressTxn[d].row # a
          /\ \E pin \in Geocode(p[1], p[2]) :
               edit' = [edit EXCEPT ![c] = [line |-> p[1], city |-> p[2], pin |-> pin]]
          /\ Book!Begin(c, IF wanted THEN "clear" ELSE "count", a, wanted)
    BY DEF BeginCreate
  <1>2. PICK pin \in Geocode(p[1], p[2]) :
          edit' = [edit EXCEPT ![c] = [line |-> p[1], city |-> p[2], pin |-> pin]]
    BY <1>1
  <1> DEFINE pc == IF wanted THEN "clear" ELSE "count"
             e == [line |-> p[1], city |-> p[2], pin |-> pin]
  <1>3. /\ p[1] \in Lines /\ p[2] \in Cities /\ pin \in {<<p[1], p[2]>>, NoPin}
        /\ e.line = p[1] /\ e.city = p[2] /\ e.pin = pin
    BY <1>2, AddressAssumption DEF Geocode
  <1>4. e.line # Untouched /\ e.city # Untouched /\ e.pin # Untouched /\ e # NoAddress
    BY <1>3, AddressAssumption DEF Edits
  <1> HIDE DEF e
  <1>5. /\ edit'[c] = e /\ DOMAIN edit' = AddressCallers
        /\ \A d \in AddressCallers \ {c} : edit'[d] = edit[d]
        /\ UNCHANGED place /\ mixed' = mixed
    BY <1>2 DEF e, BookInv, BeginCreate
  <1>6. pc \in Book!Points /\ pc \in {"clear", "count"} /\ (pc = "clear" <=> wanted)
    BY DEF Book!Points
  <1> HIDE DEF pc
  <1>7. Book!Begin(c, pc, a, wanted)
    BY <1>1 DEF pc
  <1>8. BookKept
    <2>1. Book!FlagInv'
      BY <1>6, <1>7, AddressAssumption, Book!BeginKeepsFlagInv DEF BookInv
    <2>2. ASSUME ~ addressesOverlap' PROVE Book!DefaultHeld'
      <3>1. Book!DefaultHeld
        BY <1>7, <2>2 DEF BookInv, Book!Begin
      <3>2. QED
        BY <1>6, <1>7, <2>2, <3>1, AddressAssumption, Book!BeginKeepsDefault DEF BookInv
    <2>3. QED
      BY <2>1, <2>2 DEF BookKept
  <1>9. /\ Left(c, "pin")' \in {NoPin, <<Left(c, "line")', Left(c, "city")'>>}
        /\ Left(c, "line")' \in Lines /\ Left(c, "city")' \in Cities
    BY <1>3, <1>4, <1>5 DEF Left
  <1>10. QED
    BY <1>1, <1>4, <1>5, <1>6, <1>7, <1>8, <1>9, BeginKeepsBook

\* An update reads an active row and computes its pin from what it will be.
LEMMA UpdatesKeepBook == ASSUME BookInv, NEW c \in AddressCallers, BeginUpdate(c) PROVE BookInv'
  <1>1. PICK a \in Book!Active(c) \intersect Moving :
          \/ \E line \in Lines \ {place[a].line} : \E pin \in Geocode(line, place[a].city) :
               BeginMove(c, a, [line |-> line, city |-> Untouched, pin |-> pin])
          \/ \E city \in Cities \ {place[a].city} : \E pin \in Geocode(place[a].line, city) :
               BeginMove(c, a, [line |-> Untouched, city |-> city, pin |-> pin])
    BY DEF BeginUpdate
  <1>2. /\ a \in AddressIds /\ addresses[a] # NoAddress
        /\ place[a].line \in Lines /\ place[a].city \in Cities
    <2>1. a \in AddressIds /\ addressTxn[c].pc = "idle" /\ Book!View(c, a) # NoAddress
      BY <1>1 DEF BeginUpdate, Book!Active
    <2>2. QED
      BY <2>1, Book!IdleWritesNothing DEF BookInv, Pinned
  <1>3. ASSUME NEW e, BeginMove(c, a, e),
               \/ e.line \in Lines /\ e.city = Untouched /\ e.pin \in {<<e.line, place[a].city>>, NoPin}
               \/ e.line = Untouched /\ e.city \in Cities /\ e.pin \in {<<place[a].line, e.city>>, NoPin}
        PROVE  BookInv'
    <2>1. /\ edit'[c] = e /\ DOMAIN edit' = AddressCallers
          /\ \A d \in AddressCallers \ {c} : edit'[d] = edit[d]
          /\ UNCHANGED place /\ Book!Begin(c, "edited", a, FALSE)
          /\ mixed' = IF \E d \in AddressCallers \ {c} : addressTxn[d].row = a /\ edit[d] # NoAddress
                      THEN mixed \union {a} ELSE mixed
      BY <1>3 DEF BookInv, BeginMove, BeginUpdate
    <2>2. "edited" \in Book!Points
      BY DEF Book!Points
    <2>3. BookKept
      <3>1. Book!FlagInv'
        BY <1>2, <2>1, <2>2, AddressAssumption, Book!BeginKeepsFlagInv DEF BookInv
      <3>2. ASSUME ~ addressesOverlap' PROVE Book!DefaultHeld'
        <4>1. Book!DefaultHeld
          BY <2>1, <3>2 DEF BookInv, Book!Begin
        <4>2. QED
          BY <1>2, <2>1, <2>2, <3>2, <4>1, AddressAssumption, Book!BeginKeepsDefault DEF BookInv
      <3>3. QED
        BY <3>1, <3>2 DEF BookKept
    <2>4. addressTxn'[c].row = a
      BY <2>1 DEF Book!Begin, Book!Idle, BookInv, Book!FlagInv
    <2>5. /\ Left(c, "pin")' \in {NoPin, <<Left(c, "line")', Left(c, "city")'>>}
          /\ Left(c, "line")' \in Lines /\ Left(c, "city")' \in Cities
      BY <1>2, <1>3, <2>1, <2>4, AddressAssumption DEF Left
    <2>6. mixed \subseteq mixed' /\ (a \notin mixed' => \A d \in AddressCallers \ {c} :
                                       edit[d] # NoAddress => addressTxn[d].row # a)
      BY <2>1
    <2>7. QED
      BY <1>2, <2>1, <2>3, <2>5, <2>6, BeginKeepsBook
  <1>4. ASSUME NEW line \in Lines, NEW pin \in Geocode(line, place[a].city),
               BeginMove(c, a, [line |-> line, city |-> Untouched, pin |-> pin])
        PROVE  BookInv'
    <2> DEFINE e == [line |-> line, city |-> Untouched, pin |-> pin]
    <2>1. e.line = line /\ e.city = Untouched /\ e.pin = pin
      OBVIOUS
    <2>2. BeginMove(c, a, e)
      BY <1>4
    <2> HIDE DEF e
    <2>3. QED
      BY <1>2, <1>3, <2>1, <2>2 DEF Geocode
  <1>5. ASSUME NEW city \in Cities, NEW pin \in Geocode(place[a].line, city),
               BeginMove(c, a, [line |-> Untouched, city |-> city, pin |-> pin])
        PROVE  BookInv'
    <2> DEFINE e == [line |-> Untouched, city |-> city, pin |-> pin]
    <2>1. e.line = Untouched /\ e.city = city /\ e.pin = pin
      OBVIOUS
    <2>2. BeginMove(c, a, e)
      BY <1>5
    <2> HIDE DEF e
    <2>3. QED
      BY <1>2, <1>3, <2>1, <2>2 DEF Geocode
  <1>6. QED
    BY <1>1, <1>4, <1>5

\* A statement that leaves the row and the edit of its transaction as they were.
LEMMA MoveKeepsBook ==
  ASSUME BookInv, BookKept, NEW c \in AddressCallers, NEW t, UNCHANGED <<addresses, place, edit>>,
         mixed' = mixed, addressTxn' = [addressTxn EXCEPT ![c] = t],
         t.row = addressTxn[c].row, t.pc # "clear",
         t.pc = "count" => addressTxn[c].pc = "clear",
         edit[c] # NoAddress => t.pc \in {"count", "done"},
         \A a \in AddressIds : \/ t.writes[a] = addressTxn[c].writes[a]
                               \/ addresses[a] # NoAddress
                               \/ a = t.row /\ addressTxn[c].pc = "count"
  PROVE  BookInv'
  <1>1. /\ addressTxn'[c] = t /\ Fresh(c) /\ Editing(c) /\ DOMAIN edit' = AddressCallers
        /\ \A d \in AddressCallers \ {c} : addressTxn'[d] = addressTxn[d] /\ edit'[d] = edit[d]
    BY DEF BookInv, Book!FlagInv
  <1>2. \A a \in Book!Held(c)' : \/ a \in Book!Held(c) \/ addresses[a] # NoAddress
                                 \/ a = t.row /\ addressTxn[c].pc = "count"
    BY <1>1 DEF Book!Held
  <1>3. \A d \in AddressCallers \ {c} : Book!Held(d)' = Book!Held(d)
    BY <1>1 DEF Book!Held
  <1>4. Fresh(c)'
    <2>1. ASSUME NEW a \in Book!Held(c)', addresses[a] = NoAddress
          PROVE  a = t.row /\ edit[c] # NoAddress
      BY <1>1, <1>2, <2>1 DEF Fresh
    <2>2. ASSUME t.pc = "count"
          PROVE  /\ t.row \in AddressIds /\ addresses[t.row] = NoAddress /\ edit[c] # NoAddress
                 /\ \A d \in AddressCallers : t.row \notin Book!Held(d)'
                 /\ \A d \in AddressCallers \ {c} : addressTxn'[d].row # t.row
      BY <1>1, <1>2, <1>3, <2>2 DEF Fresh
    <2>3. QED
      BY <1>1, <2>1, <2>2 DEF Fresh
  <1>5. Editing(c)'
    BY <1>1 DEF Editing, Left
  <1>6. QED
    BY <1>1, <1>2, <1>4, <1>5, StatementKeepsBook

\* A write of one row that the table has, or of the new one.
LEMMA WriteKeepsBook ==
  ASSUME BookInv, BookKept, NEW c \in AddressCallers, NEW r \in AddressIds, NEW v \in Book!Flags,
         NEW pc \in {"removed", "done"}, Book!Write(c, r, v, pc),
         edit[c] # NoAddress => pc = "done",
         addresses[r] # NoAddress \/ (r = addressTxn[c].row /\ addressTxn[c].pc = "count"),
         UNCHANGED place, mixed' = mixed,
         EndsEdit(c) \/ (edit' = edit /\ edit[c] = NoAddress)
  PROVE  BookInv'
  <1>1. /\ addresses' = addresses /\ addressesOverlap' = addressesOverlap
        /\ \/ addressTxn' = [addressTxn EXCEPT ![c] = Book!Idle]
           \/ \E t \in Book!Txns :
                /\ addressTxn' = [addressTxn EXCEPT ![c] = t]
                /\ addressTxn'[c] = t /\ t.pc = pc
                /\ t.row = addressTxn[c].row /\ t.flag = addressTxn[c].flag
                /\ t.pick = addressTxn[c].pick /\ t.deleting = addressTxn[c].deleting
                /\ t.writes[r] = v /\ \A q \in AddressIds \ {r} : t.writes[q] = addressTxn[c].writes[q]
                /\ Book!View(c, r)' = v
                /\ \A q \in AddressIds \ {r} : Book!View(c, q)' = Book!View(c, q)
                /\ Book!Held(c)' = Book!Held(c) \union {r}
    <2>1. pc \in Book!Points
      BY DEF Book!Points
    <2>2. QED
      BY <2>1, AddressAssumption, Book!WriteKeepsFlagInv DEF BookInv
  <1>2. CASE addressTxn' = [addressTxn EXCEPT ![c] = Book!Idle]
    <2>1. addressTxn'[c].pc = "idle"
      BY <1>2 DEF BookInv, Book!FlagInv, Book!Idle
    <2>2. edit' = [edit EXCEPT ![c] = NoAddress] \/ (edit' = edit /\ edit[c] = NoAddress)
      BY <2>1 DEF EndsEdit
    <2>3. QED
      BY <1>1, <1>2, <2>2, EndKeepsBook
  <1>3. ASSUME NEW t \in Book!Txns, addressTxn' = [addressTxn EXCEPT ![c] = t],
               addressTxn'[c] = t, t.pc = pc, t.row = addressTxn[c].row,
               \A q \in AddressIds \ {r} : t.writes[q] = addressTxn[c].writes[q]
        PROVE  BookInv'
    <2>1. /\ edit' = edit /\ t.pc # "clear" /\ t.pc # "count"
          /\ edit[c] # NoAddress => t.pc \in {"count", "done"}
      BY <1>3 DEF EndsEdit
    <2>2. \A a \in AddressIds : \/ t.writes[a] = addressTxn[c].writes[a]
                                \/ addresses[a] # NoAddress
                                \/ a = t.row /\ addressTxn[c].pc = "count"
      BY <1>3
    <2>3. UNCHANGED <<addresses, place, edit>>
      BY <1>1, <2>1
    <2>4. QED
      BY <1>3, <2>1, <2>2, <2>3, MoveKeepsBook
  <1>4. QED
    BY <1>1, <1>2, <1>3

\* The default is cleared before a new one is inserted.
LEMMA ClearsKeepBook == ASSUME BookInv, NEW c \in AddressCallers, ClearDefault(c) PROVE BookInv'
  <1> DEFINE defaults == { a \in AddressIds : Book!IsDefault(Book!View(c, a)) }
             w == [a \in AddressIds |-> IF a \in defaults THEN [deleted |-> FALSE, default |-> FALSE]
                                        ELSE addressTxn[c].writes[a]]
             t == [addressTxn[c] EXCEPT !.pc = "count", !.writes = w]
  <1>1. /\ addressTxn[c].pc = "clear" /\ Book!Unlocked(c, defaults)
        /\ addressTxn' = [addressTxn EXCEPT ![c] = t]
        /\ UNCHANGED <<addresses, addressesOverlap, place, edit, mixed>>
    BY DEF ClearDefault
  <1>2. \A a \in AddressIds : addressTxn[c].writes[a] \in Book!Flags \union {Untouched}
    BY Book!ViewTypes DEF BookInv
  <1>3. /\ w \in [AddressIds -> Book!Flags \union {Untouched}]
        /\ \A a \in defaults : w[a] \in Book!Flags /\ ~ w[a].deleted /\ ~ w[a].default
        /\ \A a \in AddressIds \ defaults : w[a] = addressTxn[c].writes[a]
    BY <1>2 DEF Book!Flags
  <1> HIDE DEF w
  <1>4. /\ t \in Book!Txns /\ t.pc = "count" /\ t.writes = w /\ t.row = addressTxn[c].row
        /\ t.flag = addressTxn[c].flag /\ t.deleting = addressTxn[c].deleting
    <2>1. addressTxn[c] \in Book!Txns
      BY DEF BookInv, Book!FlagInv
    <2>2. QED
      BY <1>3, <2>1 DEF Book!Txns, Book!Points
  <1> HIDE DEF t
  <1>5. addressTxn'[c] = t /\ addressTxn[c].flag /\ edit[c] # NoAddress
    BY <1>1 DEF BookInv, Book!FlagInv, Fresh
  <1>6. \A a \in defaults : a \in AddressIds /\ addresses[a] # NoAddress
    <2>1. SUFFICES ASSUME NEW a \in defaults, addresses[a] = NoAddress PROVE FALSE
      OBVIOUS
    <2>2. Book!View(c, a) # NoAddress
      BY AddressAssumption DEF Book!IsDefault, Book!Marks
    <2>3. a \in Book!Held(c)
      BY <2>1, <2>2 DEF Book!View, Book!Held
    <2>4. QED
      BY <1>1, <2>1, <2>3 DEF BookInv, Fresh
  <1>7. /\ \A a \in defaults : Book!View(c, a)' = w[a]
        /\ \A a \in AddressIds \ defaults : Book!View(c, a)' = Book!View(c, a)
    BY <1>1, <1>3, <1>4, <1>5, AddressAssumption DEF Book!View, Book!Marks
  <1>8. \A a \in AddressIds : ~ Book!IsDefault(Book!View(c, a)')
    BY <1>3, <1>7 DEF Book!IsDefault
  <1>9. \A a \in AddressIds :
          Book!IsDefault(t.writes[a]) /\ ~ Book!IsDefault(Book!View(c, a)) => Book!IndexFree(c)
    <2>1. SUFFICES ASSUME NEW a \in AddressIds, Book!IsDefault(t.writes[a]),
                          ~ Book!IsDefault(Book!View(c, a))
                   PROVE  FALSE
      OBVIOUS
    <2>2. t.writes[a] = addressTxn[c].writes[a] /\ t.writes[a] # Untouched
      BY <1>3, <1>4, <2>1, AddressAssumption DEF Book!IsDefault, Book!Marks
    <2>3. QED
      BY <2>1, <2>2 DEF Book!View
  <1>10. Book!Standing(c)'
    BY <1>4, <1>5 DEF Book!Standing
  <1>11. \A a \in AddressIds : \/ t.writes[a] = addressTxn[c].writes[a]
                               \/ t.writes[a] \in Book!Flags /\ Book!Unlocked(c, {a})
    BY <1>1, <1>3, <1>4 DEF Book!Unlocked
  <1>12. Book!FlagInv'
    BY <1>1, <1>4, <1>8, <1>9, <1>10, <1>11, AddressAssumption, Book!StatementKeepsFlagInv DEF BookInv
  <1>13. ASSUME ~ addressesOverlap PROVE Book!DefaultHeld'
    <2>1. Book!DefaultHeld /\ Book!Provided(c)
      BY <1>13 DEF BookInv, Book!DefaultHeld
    <2>2. ASSUME ~ t.deleting, NEW a \in Book!Held(c)', Book!IsDefault(addresses'[a])
          PROVE  ~ t.writes[a].deleted
      BY <1>1, <1>3, <1>4, <1>5, <2>1, <2>2 DEF Book!Provided, Book!Held
    <2>3. Book!Provided(c)'
      BY <1>4, <1>5, <2>2 DEF Book!Provided, Book!Owes
    <2>4. QED
      BY <1>1, <1>4, <2>1, <2>3, Book!StatementKeepsDefault DEF BookInv
  <1>14. BookKept
    BY <1>1, <1>12, <1>13 DEF BookKept
  <1>15. \A a \in AddressIds : t.writes[a] = addressTxn[c].writes[a] \/ addresses[a] # NoAddress
    BY <1>3, <1>4, <1>6
  <1>16. QED
    BY <1>1, <1>4, <1>14, <1>15, MoveKeepsBook

\* The insertion: of the default, if asked for or if there was no address.
LEMMA InsertKeepsBook == ASSUME BookInv, NEW c \in AddressCallers, InsertAddress(c) PROVE BookInv'
  <1> DEFINE r == addressTxn[c].row
             v == [deleted |-> FALSE, default |-> addressTxn[c].flag \/ Book!Active(c) = {}]
  <1>1. /\ r \in AddressIds /\ addresses[r] = NoAddress /\ r \notin Book!Held(c)
        /\ addressTxn[c].pc = "count" /\ addressTxn[c].flag \in BOOLEAN
    BY DEF BookInv, InsertAddress, Fresh, Book!FlagInv, Book!Txns
  <1>2. /\ v \in Book!Flags /\ ~ v.deleted
        /\ v.default <=> addressTxn[c].flag \/ Book!Active(c) = {}
    BY <1>1 DEF Book!Flags
  <1>3. Book!Write(c, r, v, "done") /\ EndsEdit(c) /\ UNCHANGED <<place, mixed>>
    BY DEF InsertAddress
  <1> HIDE DEF r, v
  <1>4. ~ Book!IsDefault(addresses[r]) /\ ~ Book!IsDefault(Book!View(c, r))
    <2>1. Book!View(c, r) = addresses[r]
      BY <1>1, Book!ViewTypes DEF BookInv
    <2>2. QED
      BY <1>1, <2>1, AddressAssumption DEF Book!IsDefault, Book!Marks
  <1>5. Book!FlagInv' /\ addressesOverlap' = addressesOverlap
    BY <1>1, <1>2, <1>3, AddressAssumption, Book!WriteKeepsFlagInv DEF BookInv, Book!Points
  <1>6. ASSUME ~ addressesOverlap PROVE Book!DefaultHeld'
    <2>1. Book!DefaultHeld /\ Book!Provided(c)
      BY <1>6 DEF BookInv, Book!DefaultHeld
    <2>2. CASE Book!IsDefault(v)
      BY <1>1, <1>2, <1>3, <1>4, <2>1, <2>2, AddressAssumption, Book!LastWriteKeepsDefault
         DEF BookInv
    <2>3. CASE ~ Book!IsDefault(v)
      <3>1. ~ addressTxn[c].flag /\ Book!Active(c) # {}
        BY <1>2, <2>3 DEF Book!IsDefault
      <3>2. Book!SeesDefault(c)
        BY <1>1, <2>1, <3>1 DEF Book!Provided, Book!Owes
      <3>3. QED
        BY <1>1, <1>2, <1>3, <1>4, <2>1, <3>1, <3>2, AddressAssumption, Book!LastWriteKeepsDefault
           DEF BookInv
    <2>4. QED
      BY <2>2, <2>3
  <1>7. BookKept
    BY <1>5, <1>6 DEF BookKept
  <1>8. r = addressTxn[c].row
    BY DEF r
  <1>9. QED
    BY <1>1, <1>2, <1>3, <1>7, <1>8, WriteKeepsBook

\* The flush of an update writes the flags of the row as it finds them.
LEMMA FlushKeepsBook == ASSUME BookInv, NEW c \in AddressCallers, FlushUpdate(c) PROVE BookInv'
  <1> DEFINE r == addressTxn[c].row
             v == Book!View(c, r)
  <1>1. /\ r \in AddressIds /\ v # NoAddress /\ Book!Held(c) = {} /\ addressTxn[c].pc = "edited"
        /\ Book!Write(c, r, v, "done") /\ EndsEdit(c) /\ UNCHANGED <<place, mixed>>
    BY DEF FlushUpdate, BookInv, Book!FlagInv, Book!Standing
  <1>2. v = addresses[r] /\ v \in Book!Flags
    BY <1>1, Book!ViewTypes DEF BookInv
  <1>3. Book!FlagInv' /\ addressesOverlap' = addressesOverlap
    BY <1>1, <1>2, AddressAssumption, Book!WriteKeepsFlagInv DEF BookInv, Book!Points
  <1>4. ASSUME ~ addressesOverlap PROVE Book!DefaultHeld'
    <2>1. Book!DefaultHeld /\ Book!SeesDefault(c)
      BY <1>1, <1>4 DEF BookInv, Book!DefaultHeld, Book!Provided, Book!Owes
    <2>2. Book!IsDefault(addresses[r]) => ~ v.deleted
      BY <1>2 DEF Book!IsDefault
    <2>3. QED
      BY <1>1, <1>2, <2>1, <2>2, AddressAssumption, Book!LastWriteKeepsDefault DEF BookInv
  <1>5. BookKept
    BY <1>3, <1>4 DEF BookKept
  <1>6. addresses[r] # NoAddress
    BY <1>1, <1>2
  <1>7. QED
    BY <1>1, <1>2, <1>5, <1>6, WriteKeepsBook

\* Reading a row for a new default or a deletion.
LEMMA ReadersKeepBook ==
  ASSUME BookInv, NEW c \in AddressCallers, NEW a \in AddressIds,
         Book!ReadForDefault(c, a) \/ Book!ReadForDelete(c, a), UNCHANGED <<place, edit, mixed>>
  PROVE  BookInv'
  <1>1. /\ addressTxn[c].pc = "idle" /\ Book!View(c, a) # NoAddress
        /\ \E pc \in {"target", "found"} : \E flag : Book!Begin(c, pc, a, flag)
    BY DEF Book!ReadForDefault, Book!ReadForDelete, Book!Begin, Book!Active
  <1>2. addresses[a] # NoAddress
    BY <1>1, Book!IdleWritesNothing DEF BookInv
  <1>3. /\ edit'[c] = NoAddress /\ DOMAIN edit' = AddressCallers
        /\ \A d \in AddressCallers \ {c} : edit'[d] = edit[d]
    BY <1>1 DEF BookInv, Editing
  <1>4. BookKept
    <2>1. Book!FlagInv' /\ (Book!DefaultHeld /\ ~ addressesOverlap' => Book!DefaultHeld')
      BY AddressAssumption, Book!ReadersKeep DEF BookInv
    <2>2. ~ addressesOverlap' => ~ addressesOverlap
      BY <1>1 DEF Book!Begin
    <2>3. QED
      BY <2>1, <2>2 DEF BookInv, BookKept
  <1>5. PICK pc \in {"target", "found"} : \E flag : Book!Begin(c, pc, a, flag)
    BY <1>1
  <1>6. UNCHANGED place /\ mixed \subseteq mixed' /\ pc # "clear" /\ pc # "count"
    BY <1>5
  <1>7. QED
    BY <1>2, <1>3, <1>4, <1>5, <1>6, BeginKeepsBook

\* One UPDATE moves the default: among active rows, and those it sees are in the table.
LEMMA PivotKeepsBook ==
  ASSUME BookInv, NEW c \in AddressCallers, Book!Pivot(c), UNCHANGED <<place, edit, mixed>>
  PROVE  BookInv'
  <1> DEFINE target == addressTxn[c].row
             w == [a \in AddressIds |->
                     IF a \in Book!Active(c) THEN [deleted |-> FALSE, default |-> a = target]
                                             ELSE addressTxn[c].writes[a]]
             t == [addressTxn[c] EXCEPT !.pc = "done", !.writes = w]
  <1>1. addressTxn[c].pc = "target" /\ Book!Held(c) = {} /\ edit[c] = NoAddress
    BY DEF Book!Pivot, BookInv, Book!FlagInv, Book!Standing, Editing
  <1>2. BookKept /\ addresses' = addresses
    <2>1. Book!FlagInv' /\ (Book!DefaultHeld => Book!DefaultHeld')
      BY AddressAssumption, Book!PivotKeeps DEF BookInv
    <2>2. addressesOverlap' = addressesOverlap /\ addresses' = addresses
      BY DEF Book!Pivot, Book!Rollback
    <2>3. QED
      BY <2>1, <2>2 DEF BookInv, BookKept
  <1>3. CASE Book!Rollback(c)
    BY <1>1, <1>3, RollbackKeepsBook
  <1>4. CASE addressTxn' = [addressTxn EXCEPT ![c] = t]
    <2>1. /\ t.pc = "done" /\ t.row = addressTxn[c].row
          /\ \A a \in AddressIds : a \notin Book!Active(c) => t.writes[a] = addressTxn[c].writes[a]
      BY DEF BookInv, Book!FlagInv, Book!Txns
    <2> HIDE DEF t
    <2>2. \A a \in AddressIds : a \in Book!Active(c) => addresses[a] # NoAddress
      BY <1>1, Book!ViewTypes DEF Book!Active, BookInv
    <2>3. /\ \A a \in AddressIds : \/ t.writes[a] = addressTxn[c].writes[a]
                                   \/ addresses[a] # NoAddress
                                   \/ a = t.row /\ addressTxn[c].pc = "count"
          /\ UNCHANGED <<addresses, place, edit>> /\ mixed' = mixed
          /\ t.pc # "clear" /\ (t.pc = "count" => addressTxn[c].pc = "clear")
          /\ edit[c] # NoAddress => t.pc \in {"count", "done"}
      BY <1>2, <2>1, <2>2
    <2>4. addressTxn' = [addressTxn EXCEPT ![c] = t]
      BY <1>4 DEF t
    <2>5. QED
      BY <1>2, <2>1, <2>3, <2>4, MoveKeepsBook
  <1>5. QED
    BY <1>3, <1>4 DEF Book!Pivot

\* The steps of a deletion after its read.
LEMMA DeletionKeepsBook ==
  ASSUME BookInv, NEW c \in AddressCallers, UNCHANGED <<place, edit, mixed>>,
         Book!SoftDelete(c) \/ Book!PickReplacement(c) \/ Book!Promote(c)
  PROVE  BookInv'
  <1>1. /\ addressTxn[c].pc \in {"found", "removed", "picked"} /\ edit[c] = NoAddress
        /\ addressTxn[c] \in Book!Txns
    BY DEF Book!SoftDelete, Book!PickReplacement, Book!Promote, BookInv, Book!FlagInv, Editing
  <1>2. /\ Book!FlagInv' /\ (Book!DefaultHeld => Book!DefaultHeld')
        /\ addressesOverlap' = addressesOverlap /\ addresses' = addresses
    <2>1. Book!FlagInv' /\ (Book!DefaultHeld => Book!DefaultHeld')
      BY AddressAssumption, Book!SoftDeleteKeeps, Book!PickReplacementKeeps, Book!PromoteKeeps
         DEF BookInv
    <2>2. QED
      BY <2>1 DEF Book!SoftDelete, Book!PickReplacement, Book!Promote, Book!Write, Book!Goto,
                  Book!Rollback
  <1>3. BookKept
    BY <1>2 DEF BookInv, BookKept
  <1>4. ASSUME NEW a \in Book!Active(c) PROVE a \in AddressIds /\ addresses[a] # NoAddress
    <2>1. a \in AddressIds /\ Book!View(c, a) # NoAddress
      BY DEF Book!Active
    <2>2. a \notin Book!Held(c) => addresses[a] # NoAddress
      BY <2>1, Book!ViewTypes DEF BookInv
    <2>3. QED
      BY <1>1, <2>1, <2>2 DEF BookInv, Fresh
  <1>5. ASSUME NEW t, addressTxn' = [addressTxn EXCEPT ![c] = t], t.writes = addressTxn[c].writes,
               t.row = addressTxn[c].row, t.pc \in {"removed", "picked", "done"}
        PROVE  BookInv'
    BY <1>1, <1>2, <1>3, <1>5, MoveKeepsBook
  <1>6. ASSUME NEW pc \in {"removed", "done"}, Book!Goto(c, pc) PROVE BookInv'
    <2> DEFINE t == [addressTxn[c] EXCEPT !.pc = pc]
    <2>1. /\ t.writes = addressTxn[c].writes /\ t.row = addressTxn[c].row /\ t.pc = pc
          /\ addressTxn' = [addressTxn EXCEPT ![c] = t]
      BY <1>1, <1>6 DEF Book!Goto, Book!Txns, BookInv, Book!FlagInv
    <2> HIDE DEF t
    <2>2. QED
      BY <1>5, <1>6, <2>1
  <1>7. CASE Book!SoftDelete(c)
    <2> DEFINE v == [deleted |-> TRUE, default |-> FALSE]
    <2>1. v \in Book!Flags
      BY DEF Book!Flags
    <2>2. CASE Book!Goto(c, "removed")
      BY <1>6, <2>2
    <2>3. CASE /\ addressTxn[c].row \in Book!Active(c)
               /\ Book!Write(c, addressTxn[c].row, v, "removed")
      <3> HIDE DEF v
      <3>1. QED
        BY <1>1, <1>3, <1>4, <2>1, <2>3, WriteKeepsBook
    <2>4. QED
      BY <1>7, <2>2, <2>3 DEF Book!SoftDelete
  <1>8. CASE Book!PickReplacement(c)
    <2>1. CASE Book!Goto(c, "done")
      BY <1>6, <2>1
    <2>2. ASSUME NEW r \in Book!Active(c),
                 addressTxn' = [addressTxn EXCEPT ![c].pick = r,
                   ![c].pc = IF Book!View(c, r).default THEN "done" ELSE "picked"]
          PROVE  BookInv'
      <3> DEFINE pc == IF Book!View(c, r).default THEN "done" ELSE "picked"
                 t == [addressTxn[c] EXCEPT !.pick = r, !.pc = pc]
      <3>1. /\ t.writes = addressTxn[c].writes /\ t.row = addressTxn[c].row /\ t.pc = pc
            /\ addressTxn' = [addressTxn EXCEPT ![c] = t]
        BY <1>1, <2>2 DEF Book!Txns, BookInv, Book!FlagInv
      <3>2. pc \in {"removed", "picked", "done"}
        OBVIOUS
      <3> HIDE DEF t, pc
      <3>3. QED
        BY <1>5, <3>1, <3>2
    <2>3. QED
      BY <1>8, <2>1, <2>2 DEF Book!PickReplacement
  <1>9. CASE Book!Promote(c)
    <2> DEFINE r == addressTxn[c].pick
               v == [Book!View(c, r) EXCEPT !.default = TRUE]
    <2>1. /\ r \in AddressIds /\ Book!View(c, r) \in Book!Flags
          /\ Book!Write(c, r, v, "done")
      BY <1>9, Book!ViewTypes DEF Book!Promote, BookInv, Book!FlagInv, Book!Standing
    <2>2. v \in Book!Flags
      BY <2>1 DEF Book!Flags
    <2>3. addresses[r] # NoAddress
      <3>1. addressTxn[c].pc = "picked"
        BY <1>9 DEF Book!Promote
      <3>2. r \notin Book!Held(c) => addresses[r] # NoAddress
        BY <2>1, Book!ViewTypes, AddressAssumption DEF BookInv, Book!Marks
      <3>3. QED
        BY <1>1, <2>1, <3>2 DEF BookInv, Fresh
    <2> HIDE DEF r, v
    <2>4. QED
      BY <1>1, <1>3, <2>1, <2>2, <2>3, WriteKeepsBook
  <1>10. QED
    BY <1>7, <1>8, <1>9

\* The commit publishes the rows, and of an edited row its place.
LEMMA CommitKeepsBook == ASSUME BookInv, NEW c \in AddressCallers, CommitAddress(c) PROVE BookInv'
  <1> DEFINE r == addressTxn[c].row
             p == [line |-> Left(c, "line"), city |-> Left(c, "city"), pin |-> Left(c, "pin")]
  <1>1. /\ Book!Commit(c) /\ mixed' = mixed
        /\ place' = IF edit[c] = NoAddress THEN place ELSE [place EXCEPT ![r] = p]
        /\ edit'[c] = NoAddress /\ DOMAIN edit' = AddressCallers
        /\ \A d \in AddressCallers \ {c} : edit'[d] = edit[d]
    BY DEF CommitAddress, BookInv, Left
  <1>2. /\ addressTxn'[c] = Book!Idle
        /\ \A d \in AddressCallers \ {c} : addressTxn'[d] = addressTxn[d]
        /\ \A a \in AddressIds : addresses'[a] = Book!View(c, a)
        /\ Book!Held(c)' = {}
        /\ \A d \in AddressCallers \ {c} : Book!Held(d)' = Book!Held(d)
    BY <1>1, Book!CommitEffect DEF BookInv
  <1>3. addressTxn'[c].pc = "idle" /\ addressTxn'[c].row = NoAddress
    BY <1>2 DEF Book!Idle
  <1>4. \A a \in AddressIds : a \notin Book!Held(c) => addresses'[a] = addresses[a]
    BY <1>2, Book!ViewTypes DEF BookInv
  <1>5. /\ DOMAIN place' = AddressIds
        /\ \A a \in AddressIds : a # r \/ edit[c] = NoAddress => place'[a] = place[a]
        /\ edit[c] # NoAddress => /\ place'[r] = p /\ r \in AddressIds
                                  /\ p.line \in Lines /\ p.city \in Cities
                                  /\ r \notin mixed => p.pin \in {NoPin, <<p.line, p.city>>}
    BY <1>1 DEF BookInv, Editing
  <1>6. p.line = Left(c, "line") /\ p.city = Left(c, "city") /\ p.pin = Left(c, "pin")
    OBVIOUS
  <1> HIDE DEF p
  <1>7. Book!FlagInv' /\ (~ addressesOverlap' => Book!DefaultHeld')
    BY <1>1, AddressAssumption, Book!CommitKeepsFlagInv, Book!CommitKeepsDefault
       DEF BookInv, Book!Commit
  <1>8. Fresh(c)' /\ Editing(c)'
    BY <1>1, <1>2, <1>3 DEF Fresh, Editing
  <1>9. ASSUME NEW d \in AddressCallers \ {c} PROVE Fresh(d)' /\ Editing(d)'
    <2>1. /\ addressTxn'[d] = addressTxn[d] /\ edit'[d] = edit[d] /\ Book!Held(d)' = Book!Held(d)
          /\ Fresh(d) /\ Editing(d)
      BY <1>1, <1>2 DEF BookInv
    <2>2. ASSUME addressTxn[d].pc \in {"clear", "count"}
          PROVE  /\ addressTxn[d].row \in AddressIds /\ addresses'[addressTxn[d].row] = NoAddress
                 /\ \A b \in AddressCallers : addressTxn[d].row \notin Book!Held(b)'
                 /\ \A b \in AddressCallers \ {d} : addressTxn'[b].row # addressTxn[d].row
      <3>1. /\ addressTxn[d].row \in AddressIds /\ addresses[addressTxn[d].row] = NoAddress
            /\ \A b \in AddressCallers : addressTxn[d].row \notin Book!Held(b)
            /\ \A b \in AddressCallers \ {d} : addressTxn[b].row # addressTxn[d].row
        BY <2>1, <2>2 DEF Fresh
      <3>2. addressTxn[d].row # NoAddress
        BY <3>1, AddressAssumption
      <3>3. QED
        BY <1>2, <1>3, <1>4, <3>1, <3>2
    <2>3. ASSUME NEW a \in Book!Held(d), addresses'[a] = NoAddress PROVE addresses[a] = NoAddress
      <3>1. a \in AddressIds /\ a \notin Book!Held(c)
        BY Book!OneHolder DEF BookInv, Book!Held
      <3>2. QED
        BY <1>4, <2>3, <3>1
    <2>4. Fresh(d)'
      BY <2>1, <2>2, <2>3 DEF Fresh
    <2>5. ASSUME edit[d] # NoAddress
          PROVE  /\ Left(d, "line")' \in Lines /\ Left(d, "city")' \in Cities
                 /\ addressTxn[d].row \notin mixed =>
                      Left(d, "pin")' \in {NoPin, <<Left(d, "line")', Left(d, "city")'>>}
      <3>1. addressTxn[d].row \in AddressIds
        BY <2>1, <2>5 DEF Editing
      <3>2. CASE addressTxn[d].row # r \/ edit[c] = NoAddress
        <4>1. place'[addressTxn[d].row] = place[addressTxn[d].row]
          BY <1>5, <3>1, <3>2
        <4>2. QED
          BY <2>1, <2>5, <4>1 DEF Editing, Left
      <3>3. CASE addressTxn[d].row = r /\ edit[c] # NoAddress
        <4>1. addressTxn[d].row \in mixed
          BY <2>1, <2>5, <3>3 DEF Editing
        <4>2. edit[d]["line"] \in Lines \/ edit[d]["line"] = Untouched
          BY <2>1, <2>5, <3>3 DEF Editing, Left
        <4>3. QED
          BY <1>5, <2>1, <2>5, <3>3, <4>1 DEF Editing, Left
      <3>4. QED
        BY <3>2, <3>3
    <2>6. \A b \in AddressCallers \ {d} : edit'[b] # NoAddress =>
            edit[b] # NoAddress /\ addressTxn'[b].row = addressTxn[b].row
      BY <1>1, <1>2
    <2>7. Editing(d)'
      BY <1>1, <2>1, <2>5, <2>6 DEF Editing
    <2>8. QED
      BY <2>4, <2>7
  <1>10. ASSUME NEW a \in AddressIds PROVE Pinned(a)'
    <2>1. CASE a # r \/ edit[c] = NoAddress
      <3>1. addresses'[a] # NoAddress => addresses[a] # NoAddress
        BY <1>4, <2>1 DEF BookInv, Fresh
      <3>2. place'[a] = place[a] /\ Pinned(a)
        BY <1>5, <2>1 DEF BookInv
      <3>3. QED
        BY <1>1, <3>1, <3>2 DEF Pinned
    <2>2. CASE a = r /\ edit[c] # NoAddress
      BY <1>1, <1>5, <2>2 DEF Pinned
    <2>3. QED
      BY <2>1, <2>2
  <1>11. QED
    BY <1>1, <1>5, <1>7, <1>8, <1>9, <1>10 DEF BookInv

\* Every step of the address book keeps the invariant.
LEMMA BookInductive == BookInv /\ [AddressNext]_addressVars => BookInv'
  <1> SUFFICES ASSUME BookInv, [AddressNext]_addressVars PROVE BookInv'
    OBVIOUS
  <1>1. ASSUME NEW c \in AddressCallers, SetDefaultAddress(c) PROVE BookInv'
    BY <1>1, ReadersKeepBook, PivotKeepsBook DEF SetDefaultAddress
  <1>2. ASSUME NEW c \in AddressCallers, DeleteAddress(c) PROVE BookInv'
    BY <1>2, ReadersKeepBook, DeletionKeepsBook DEF DeleteAddress
  <1>3. ASSUME NEW c \in AddressCallers, AbortAddress(c) PROVE BookInv'
    BY <1>3, RollbackKeepsBook DEF AbortAddress
  <1>4. CASE UNCHANGED addressVars
    BY <1>4 DEF addressVars, BookInv, Book!FlagInv, Book!Standing, Book!RowLocks, Book!SingleDefault,
                Book!IndexFree, Book!View, Book!Held, Book!DefaultHeld, Book!HasDefault,
                Book!Provided, Book!Owes, Book!SeesDefault, Book!Active, Fresh, Editing, Left, Pinned
  <1>5. QED
    BY <1>1, <1>2, <1>3, <1>4, CreatesKeepBook, ClearsKeepBook, InsertKeepsBook, UpdatesKeepBook,
       FlushKeepsBook, CommitKeepsBook DEF AddressNext

\* AddressInit is a state of it: no address, no request.
LEMMA BookInitial == AddressInit => BookInv
  <1> SUFFICES ASSUME AddressInit PROVE BookInv
    OBVIOUS
  <1>1. /\ addresses = [a \in AddressIds |-> NoAddress] /\ addressesOverlap = FALSE
        /\ addressTxn = [c \in AddressCallers |-> Book!Idle]
        /\ place = [a \in AddressIds |-> NoAddress] /\ edit = [c \in AddressCallers |-> NoAddress]
    BY DEF AddressInit, Book!Init
  <1>2. /\ Book!Idle \in Book!Txns /\ Book!Idle.pc = "idle" /\ Book!Idle.deleting = FALSE
        /\ Book!Idle.writes = [a \in AddressIds |-> Untouched]
    BY DEF Book!Idle, Book!Txns, Book!Points
  <1>3. \A c \in AddressCallers :
          /\ addressTxn[c].pc = "idle" /\ Book!Held(c) = {} /\ edit[c] = NoAddress
          /\ \A a \in AddressIds : Book!View(c, a) = NoAddress /\ addressTxn[c].writes[a] = Untouched
    BY <1>1, <1>2 DEF Book!Held, Book!View
  <1>4. ~ Book!IsDefault(NoAddress) /\ ~ Book!IsDefault(Untouched)
    BY AddressAssumption DEF Book!Marks, Book!IsDefault
  <1>5. Book!FlagInv
    <2>1. Book!SingleDefault
      BY <1>1, <1>3, <1>4 DEF Book!SingleDefault
    <2>2. Book!RowLocks /\ \A c \in AddressCallers : Book!Standing(c)
      BY <1>3 DEF Book!RowLocks, Book!Standing
    <2>3. QED
      BY <1>1, <1>2, <2>1, <2>2 DEF Book!FlagInv
  <1>6. Book!DefaultHeld
    BY <1>1, <1>2, <1>3 DEF Book!DefaultHeld, Book!HasDefault, Book!Provided
  <1>7. \A c \in AddressCallers : Fresh(c) /\ Editing(c)
    BY <1>1, <1>2, <1>3 DEF Fresh, Editing
  <1>8. \A a \in AddressIds : Pinned(a)
    BY <1>1 DEF Pinned
  <1>9. QED
    BY <1>1, <1>5, <1>6, <1>7, <1>8 DEF BookInv

\* The flags, the rows the transactions hold and the edits they are about to write stay
\* as described: address_service.py, address_repository.py and their callers' commits.
THEOREM BookInvariant == AddressSpec => []BookInv
  <1>1. QED
    BY BookInitial, BookInductive, PTL DEF AddressSpec

\* AddressBookConsistent: a user who has an address has a default one, unless a deletion
\* met another call, and every pin is the one of its street and city, unless two updates
\* changed them at once.
THEOREM AddressBookIsConsistent == AddressSpec => []AddressBookConsistent
  <1>1. BookInv => AddressBookConsistent
    BY DEF BookInv, Book!DefaultHeld, Pinned, AddressBookConsistent
  <1>2. QED
    BY <1>1, BookInvariant, PTL

-----------------------------------------------------------------------------
(* StatusFeed *)

\* NoChange is not at any of the points of a request under way.
LEMMA AtRestOrUnderWay ==
  ASSUME FeedTypes, NEW c \in Changes
  PROVE  /\ change[c] # NoChange => change[c] \in ChangeRow /\ change[c].to \in Statuses
         /\ change[c].at \in {"read", "same", "flushed", "pushed", "published",
                              "accepting", "accepted"} <=> change[c] # NoChange
         /\ NoChange.at = "rest" /\ change \in [Changes -> {NoChange} \union ChangeRow]
  BY DEF FeedTypes, ChangeRow, NoChange

\* A request moves on, or ends, and says nothing to a screen; what is pushed is
\* pushed by it, to whom its status is for.
LEMMA ChangeKeepsFeed ==
  ASSUME FeedInv, NEW c \in Changes, NEW x \in {NoChange} \union ChangeRow,
         change' = [change EXCEPT ![c] = x], UNCHANGED <<status, reached, screen>>,
         astray => astray',
         \/ pushed' = pushed
         \/ /\ pushed' = [pushed EXCEPT ![Addressee(x.to)] = @ \union {x.to}]
            /\ x.at = "pushed",
         ~ astray' =>
           /\ x # NoChange => \A d \in Changes \ {c} : change[d] = NoChange
           /\ x.at = "published" <=> change[c].at = "published"
           /\ x.at = "accepted" <=> change[c].at = "accepted"
           /\ x.at \in {"same", "accepted"} => x.to = status
           /\ change[c].at \in {"pushed", "published"} => x = change[c]
  PROVE  FeedInv'
  <1>1. FeedTypes'
    <2>1. change' \in [Changes -> {NoChange} \union ChangeRow]
      BY DEF FeedInv, FeedTypes
    <2>2. pushed' \in [Parties -> SUBSET Statuses]
      <3>1. CASE pushed' = pushed
        BY <3>1 DEF FeedInv, FeedTypes
      <3>2. CASE /\ pushed' = [pushed EXCEPT ![Addressee(x.to)] = @ \union {x.to}]
                 /\ x.at = "pushed"
        <4>1. x.to \in Statuses
          BY <3>2 DEF NoChange, ChangeRow
        <4>2. QED
          BY <3>2, <4>1 DEF FeedInv, FeedTypes
      <3>3. QED
        BY <3>1, <3>2
    <2>3. QED
      BY <2>1, <2>2 DEF FeedInv, FeedTypes
  <1>2. SUFFICES ASSUME ~ astray'
                 PROVE  /\ \A a, b \in Changes : change'[a] # NoChange /\ change'[b] # NoChange => a = b
                        /\ \A d \in Changes :
                             change'[d].at \in {"same", "accepted"} => change'[d].to = status'
                        /\ \A v \in Screens : Follows(screen[v])'
                        /\ \A p \in Parties : PushFollows(p)'
    BY <1>1 DEF FeedInv
  <1>3. change'[c] = x /\ \A d \in Changes \ {c} : change'[d] = change[d]
    BY DEF FeedInv, FeedTypes
  <1>4. \A a, b \in Changes : change'[a] # NoChange /\ change'[b] # NoChange => a = b
    BY <1>2, <1>3 DEF FeedInv
  <1>5. \A d \in Changes : /\ change'[d].at = "published" <=> change[d].at = "published"
                           /\ change'[d].at = "accepted" <=> change[d].at = "accepted"
                           /\ change'[d].at = "published" => change'[d] = change[d]
    BY <1>2, <1>3
  <1>6. \A d \in Changes : change'[d].at \in {"same", "accepted"} => change'[d].to = status'
    BY <1>2, <1>3 DEF FeedInv
  <1>7. ASSUME NEW v \in Screens PROVE Follows(screen[v])'
    <2>1. Follows(screen[v]) /\ screen'[v] = screen[v] /\ status' = status
      BY <1>2 DEF FeedInv
    <2>2. QED
      BY <1>5, <2>1 DEF Follows, News
  <1>8. ASSUME NEW p \in Parties, NEW s \in pushed'[p]
        PROVE  /\ Addressee(s) = p
               /\ \/ s \in reached'
                  \/ \E d \in Changes : change'[d].at \in {"pushed", "published"} /\ change'[d].to = s
    <2>1. CASE s \in pushed[p]
      <3>1. PushFollows(p)
        BY <1>2 DEF FeedInv
      <3>2. QED
        BY <1>2, <1>3, <2>1, <3>1 DEF PushFollows
    <2>2. CASE s \notin pushed[p]
      <3>1. /\ pushed' = [pushed EXCEPT ![Addressee(x.to)] = @ \union {x.to}]
            /\ x.at = "pushed"
        BY <1>8, <2>2
      <3>2. p = Addressee(x.to) /\ s = x.to
        BY <1>8, <2>2, <3>1 DEF FeedInv, FeedTypes
      <3>3. QED
        BY <1>3, <3>1, <3>2
    <2>3. QED
      BY <2>1, <2>2
  <1>9. \A p \in Parties : PushFollows(p)'
    BY <1>8 DEF PushFollows
  <1>10. QED
    BY <1>4, <1>6, <1>7, <1>9

\* The steps of a request up to its message or its commit.
LEMMA RequestKeepsFeed ==
  ASSUME FeedInv, NEW c \in Changes,
         \/ \E to \in Statuses : ReadStatus(c, to)
         \/ FlushStatus(c) \/ PushStatus(c) \/ ReadRide(c) \/ ChangeFails(c)
  PROVE  FeedInv'
  <1>1. /\ change[c] # NoChange => change[c] \in ChangeRow /\ change[c].to \in Statuses
        /\ change[c].at \in {"read", "same", "flushed", "pushed", "published",
                             "accepting", "accepted"} <=> change[c] # NoChange
        /\ NoChange.at = "rest" /\ change \in [Changes -> {NoChange} \union ChangeRow]
    BY AtRestOrUnderWay DEF FeedInv
  <1>2. ASSUME NEW to \in Statuses, ReadStatus(c, to) PROVE FeedInv'
    <2> DEFINE x == [at |-> IF status = to THEN "same" ELSE "read", to |-> to]
    <2>1. /\ x \in ChangeRow /\ x.at \notin {"published", "accepted", "pushed"}
          /\ x.at = "same" => x.to = status
      BY DEF ChangeRow
    <2>2. /\ change' = [change EXCEPT ![c] = x] /\ change[c] = NoChange
          /\ UNCHANGED <<status, reached, screen>> /\ pushed' = pushed
          /\ astray => astray'
          /\ ~ astray' => \A d \in Changes \ {c} : change[d] = NoChange
      BY <1>2 DEF ReadStatus, Quiet
    <2> HIDE DEF x
    <2>3. QED
      BY <1>1, <2>1, <2>2, ChangeKeepsFeed
  <1>3. CASE ReadRide(c)
    <2> DEFINE x == [at |-> "accepting", to |-> "confirmed"]
    <2>1. /\ x \in ChangeRow /\ x.at = "accepting"
      BY DEF ChangeRow, Statuses
    <2>2. /\ change' = [change EXCEPT ![c] = x] /\ change[c] = NoChange
          /\ UNCHANGED <<status, reached, screen>> /\ pushed' = pushed
          /\ astray => astray'
          /\ ~ astray' => \A d \in Changes \ {c} : change[d] = NoChange
      BY <1>3 DEF ReadRide, Quiet
    <2> HIDE DEF x
    <2>3. QED
      BY <1>1, <2>1, <2>2, ChangeKeepsFeed
  <1>4. CASE FlushStatus(c) \/ PushStatus(c)
    <2> DEFINE at == IF FlushStatus(c) THEN "flushed" ELSE "pushed"
               x == [change[c] EXCEPT !.at = at]
    <2>1. change[c] \in ChangeRow /\ change[c].at \in {"read", "flushed"} /\ change[c] # NoChange
      BY <1>1, <1>4 DEF FlushStatus, PushStatus
    <2>2. /\ x \in ChangeRow /\ x.at = at /\ x.to = change[c].to
      BY <2>1 DEF ChangeRow
    <2>3. /\ change' = [change EXCEPT ![c] = x]
          /\ UNCHANGED <<status, reached, screen>> /\ astray' = astray
          /\ \/ pushed' = pushed
             \/ /\ pushed' = [pushed EXCEPT ![Addressee(x.to)] = @ \union {x.to}]
                /\ x.at = "pushed"
      BY <1>1, <1>4, <2>1, <2>2 DEF FlushStatus, PushStatus
    <2>4. ~ astray => \A d \in Changes \ {c} : change[d] = NoChange
      BY <2>1 DEF FeedInv
    <2>5. x.at \in {"flushed", "pushed"}
      BY <2>2
    <2> HIDE DEF x, at
    <2>6. QED
      BY <2>1, <2>2, <2>3, <2>4, <2>5, ChangeKeepsFeed
  <1>5. CASE ChangeFails(c)
    BY <1>1, <1>5, ChangeKeepsFeed DEF ChangeFails
  <1>6. QED
    BY <1>2, <1>3, <1>4, <1>5

\* The message is on its way to whoever is subscribed, and is the news.
LEMMA PublishKeepsFeed ==
  ASSUME FeedInv, NEW c \in Changes, PublishStatus(c)
  PROVE  FeedInv'
  <1> DEFINE x == AfterPublish(c)
             mailed == [v \in Screens |-> IF screen[v].subscribed
                         THEN [screen[v] EXCEPT !.pending = Append(@, change[c].to)] ELSE screen[v]]
  <1>1. /\ change[c] \in ChangeRow /\ change[c] # NoChange /\ change[c].to \in Statuses
        /\ NoChange.at = "rest" /\ change \in [Changes -> {NoChange} \union ChangeRow]
        /\ screen \in [Screens -> ScreenRow]
    BY AtRestOrUnderWay DEF FeedInv, FeedTypes, PublishStatus
  <1>2. ~ astray => /\ \A d \in Changes \ {c} : change[d] = NoChange
                    /\ change[c].at \in {"same", "accepted"} => change[c].to = status
    BY <1>1 DEF FeedInv
  <1>3. /\ x \in {NoChange} \union ChangeRow
        /\ IF change[c].at = "pushed" THEN x.at = "published" /\ x.to = change[c].to ELSE x = NoChange
    BY <1>1 DEF AfterPublish, ChangeRow
  <1>4. /\ change' = [change EXCEPT ![c] = x] /\ change[c].at \in {"pushed", "same", "accepted"}
        /\ UNCHANGED <<status, reached, pushed, astray>> /\ screen' = mailed
    BY DEF PublishStatus, SentToAll
  <1> HIDE DEF x
  <1>5. change'[c] = x /\ \A d \in Changes \ {c} : change'[d] = change[d]
    BY <1>1, <1>4
  <1>6. ASSUME NEW v \in Screens
        PROVE  /\ screen'[v] \in ScreenRow
               /\ ~ screen[v].subscribed => screen'[v] = screen[v]
               /\ screen[v].subscribed =>
                    /\ screen'[v].pending # << >> /\ screen'[v].subscribed
                    /\ screen'[v].pending[Len(screen'[v].pending)] = change[c].to
                    /\ screen'[v].fresh = screen[v].fresh /\ screen'[v].reading = screen[v].reading
    <2>1. screen[v] \in ScreenRow
      BY <1>1
    <2>2. CASE screen[v].subscribed
      <3> DEFINE q == Append(screen[v].pending, change[c].to)
      <3>1. screen[v].pending \in Seq(Statuses)
        BY <2>1 DEF ScreenRow
      <3>2. q \in Seq(Statuses) /\ q # << >> /\ q[Len(q)] = change[c].to
        BY <1>1, <3>1
      <3>3. screen'[v] = [screen[v] EXCEPT !.pending = q]
        BY <1>4, <2>2
      <3> HIDE DEF q
      <3>4. QED
        BY <2>1, <2>2, <3>2, <3>3 DEF ScreenRow
    <2>3. QED
      BY <1>4, <2>1, <2>2
  <1>7. FeedTypes'
    <2>1. change' \in [Changes -> {NoChange} \union ChangeRow]
      BY <1>1, <1>3, <1>4
    <2>2. screen' \in [Screens -> ScreenRow]
      BY <1>4, <1>6
    <2>3. QED
      BY <1>4, <2>1, <2>2 DEF FeedInv, FeedTypes
  <1>8. ASSUME ~ astray
        PROVE  /\ \/ \E d \in Changes : change'[d].at = "published" /\ change'[d].to = change[c].to
                  \/ (\A d \in Changes : change'[d].at # "published") /\ change[c].to = status'
               /\ \A d \in Changes : change'[d].at # "accepted"
    <2>1. \A d \in Changes \ {c} : change'[d].at = "rest"
      BY <1>1, <1>2, <1>5, <1>8
    <2>2. \A d \in Changes : change'[d].at # "accepted"
      BY <1>1, <1>3, <1>5, <2>1
    <2>3. \/ \E d \in Changes : change'[d].at = "published" /\ change'[d].to = change[c].to
          \/ (\A d \in Changes : change'[d].at # "published") /\ change[c].to = status'
      BY <1>1, <1>2, <1>3, <1>4, <1>5, <1>8, <2>1
    <2>4. QED
      BY <2>2, <2>3
  <1>9. ASSUME ~ astray, NEW v \in Screens PROVE Follows(screen[v])'
    <2>1. CASE screen[v].subscribed
      BY <1>6, <1>8, <1>9, <2>1 DEF FeedInv, Follows, News
    <2>2. CASE ~ screen[v].subscribed
      BY <1>6, <1>9, <2>2 DEF FeedInv, Follows
    <2>3. QED
      BY <2>1, <2>2
  <1>10. ASSUME ~ astray, NEW p \in Parties PROVE PushFollows(p)'
    BY <1>3, <1>4, <1>5, <1>10 DEF FeedInv, PushFollows
  <1>11. ~ astray => /\ \A a, b \in Changes : change'[a] # NoChange /\ change'[b] # NoChange => a = b
                     /\ \A d \in Changes :
                          change'[d].at \in {"same", "accepted"} => change'[d].to = status'
    BY <1>1, <1>2, <1>3, <1>5
  <1>12. QED
    BY <1>4, <1>7, <1>9, <1>10, <1>11 DEF FeedInv

\* A commit makes the message true, or owes one.
LEMMA CommitKeepsFeed ==
  ASSUME FeedInv, NEW c \in Changes, CommitStatus(c) \/ CommitRide(c)
  PROVE  FeedInv'
  <1> DEFINE x == IF CommitStatus(c) THEN NoChange ELSE [change[c] EXCEPT !.at = "accepted"]
  <1>1. /\ change[c] \in ChangeRow /\ change[c] # NoChange /\ change[c].to \in Statuses
        /\ NoChange.at = "rest" /\ change \in [Changes -> {NoChange} \union ChangeRow]
        /\ change[c].at = IF CommitStatus(c) THEN "published" ELSE "accepting"
    BY AtRestOrUnderWay DEF FeedInv, CommitStatus, CommitRide
  <1>2. ~ astray => \A d \in Changes \ {c} : change[d] = NoChange
    BY <1>1 DEF FeedInv
  <1>3. IF CommitStatus(c) THEN x = NoChange
        ELSE x \in ChangeRow /\ x.at = "accepted" /\ x.to = change[c].to
    BY <1>1 DEF ChangeRow
  <1>4. /\ change' = [change EXCEPT ![c] = x] /\ UNCHANGED <<pushed, screen, astray>>
        /\ status' = change[c].to /\ reached' = reached \union {change[c].to}
    BY DEF CommitStatus, CommitRide
  <1> HIDE DEF x
  <1>5. change'[c] = x /\ \A d \in Changes \ {c} : change'[d] = change[d]
    BY <1>1, <1>4
  <1>6. FeedTypes'
    <2>1. change' \in [Changes -> {NoChange} \union ChangeRow]
      BY <1>1, <1>3, <1>4
    <2>2. QED
      BY <1>1, <1>4, <2>1 DEF FeedInv, FeedTypes
  <1>7. ASSUME ~ astray, NEW v \in Screens PROVE Follows(screen[v])'
    <2>1. Follows(screen[v]) /\ screen'[v] = screen[v]
      BY <1>4, <1>7 DEF FeedInv
    <2>2. CASE CommitStatus(c)
      <3>1. \A d \in Changes : /\ change'[d].at = "rest"
                               /\ change[d].at = "published" <=> d = c
                               /\ change[d].at # "accepted"
        BY <1>1, <1>2, <1>3, <1>5, <1>7, <2>2
      <3>2. QED
        BY <1>4, <2>1, <3>1 DEF Follows, News
    <2>3. CASE ~ CommitStatus(c)
      <3>1. change'[c].at = "accepted"
        BY <1>3, <1>5, <2>3
      <3>2. QED
        BY <2>1, <3>1 DEF Follows
    <2>4. QED
      BY <2>2, <2>3
  <1>8. ASSUME ~ astray, NEW p \in Parties PROVE PushFollows(p)'
    <2>1. PushFollows(p) /\ pushed'[p] = pushed[p]
      BY <1>4, <1>8 DEF FeedInv
    <2>2. QED
      BY <1>1, <1>4, <1>5, <2>1 DEF PushFollows
  <1>9. ~ astray => /\ \A a, b \in Changes : change'[a] # NoChange /\ change'[b] # NoChange => a = b
                    /\ \A d \in Changes :
                         change'[d].at \in {"same", "accepted"} => change'[d].to = status'
    BY <1>1, <1>2, <1>3, <1>4, <1>5
  <1>10. QED
    BY <1>4, <1>6, <1>7, <1>8, <1>9 DEF FeedInv

\* The writers that tell nobody.
LEMMA QuietWritersKeepFeed ==
  ASSUME FeedInv, \/ MarkNoDetailer \/ ReviveRide \/ \E to \in Statuses : ForceStatus(to)
  PROVE  FeedInv'
  <1>1. /\ status' \in Statuses /\ astray' /\ UNCHANGED <<change, pushed, screen>>
    BY DEF MarkNoDetailer, ReviveRide, ForceStatus, WrittenQuietly, Statuses
  <1>2. QED
    BY <1>1 DEF FeedInv, FeedTypes

\* One screen changes, and follows.
LEMMA ScreenKeepsFeed ==
  ASSUME FeedInv, NEW v \in Screens, NEW x \in ScreenRow, screen' = [screen EXCEPT ![v] = x],
         UNCHANGED <<status, reached, change, pushed, astray>>,
         ~ astray => Follows(x)
  PROVE  FeedInv'
  <1>1. screen'[v] = x /\ \A w \in Screens \ {v} : screen'[w] = screen[w]
    BY DEF FeedInv, FeedTypes
  <1>2. FeedTypes'
    BY DEF FeedInv, FeedTypes
  <1>3. ASSUME ~ astray, NEW w \in Screens PROVE Follows(screen[w])'
    <2>1. Follows(screen'[w])
      BY <1>1, <1>3 DEF FeedInv
    <2>2. QED
      BY <2>1 DEF Follows, News
  <1>4. ASSUME ~ astray, NEW p \in Parties PROVE PushFollows(p)'
    BY <1>4 DEF FeedInv, PushFollows
  <1>5. QED
    BY <1>2, <1>3, <1>4 DEF FeedInv

\* Screens join and leave the room, read and show their list.
LEMMA ScreensKeepFeed ==
  ASSUME FeedInv, NEW v \in Screens,
         Subscribe(v) \/ ReadList(v) \/ ShowList(v) \/ Disconnect(v) \/ LoseMessages(v)
  PROVE  FeedInv'
  <1> DEFINE s == screen[v]
  <1>1. /\ s \in ScreenRow /\ status \in Statuses /\ (~ astray => Follows(s))
        /\ NoStatus \notin Statuses
    BY FeedAssumption DEF FeedInv, FeedTypes
  <1>2. CASE Subscribe(v)
    <2> DEFINE x == [s EXCEPT !.subscribed = TRUE]
    <2>1. /\ screen' = [screen EXCEPT ![v] = x] /\ ~ s.subscribed
          /\ UNCHANGED <<status, reached, change, pushed, astray>>
      BY <1>2 DEF Subscribe
    <2>2. /\ x \in ScreenRow /\ x.subscribed = TRUE /\ x.pending = s.pending
          /\ x.current = s.current /\ x.fresh = s.fresh /\ x.reading = s.reading
      BY <1>1 DEF ScreenRow
    <2> HIDE DEF x, s
    <2>3. ~ astray => Follows(x)
      BY <1>1, <2>1, <2>2 DEF Follows
    <2>4. QED
      BY <2>1, <2>2, <2>3, ScreenKeepsFeed
  <1>3. CASE ReadList(v)
    <2> DEFINE now == s.subscribed /\ \A c \in Changes : change[c].at # "published"
               x == [s EXCEPT !.reading = status, !.fresh = now]
    <2>1. /\ screen' = [screen EXCEPT ![v] = x]
          /\ UNCHANGED <<status, reached, change, pushed, astray>>
      BY <1>3 DEF ReadList
    <2>2. /\ now \in BOOLEAN /\ (now => s.subscribed /\ News(status))
      BY DEF News
    <2> HIDE DEF now
    <2>3. /\ x \in ScreenRow /\ x.subscribed = s.subscribed /\ x.pending = s.pending
          /\ x.current = s.current /\ x.fresh = now /\ x.reading = status /\ x.shows = s.shows
      BY <1>1, <2>2 DEF ScreenRow
    <2> HIDE DEF x, s
    <2>4. ~ astray => Follows(x)
      BY <1>1, <2>2, <2>3 DEF Follows
    <2>5. QED
      BY <2>1, <2>3, <2>4, ScreenKeepsFeed
  <1>4. CASE ShowList(v)
    <2> DEFINE x == [s EXCEPT !.shows = s.reading, !.current = s.fresh,
                              !.reading = NoStatus, !.fresh = FALSE]
    <2>1. /\ screen' = [screen EXCEPT ![v] = x]
          /\ UNCHANGED <<status, reached, change, pushed, astray>>
      BY <1>4 DEF ShowList
    <2>2. /\ x \in ScreenRow /\ x.subscribed = s.subscribed /\ x.pending = s.pending
          /\ x.current = s.fresh /\ x.fresh = FALSE /\ x.shows = s.reading
      BY <1>1 DEF ScreenRow
    <2> HIDE DEF x, s
    <2>3. ~ astray => Follows(x)
      BY <1>1, <2>2 DEF Follows
    <2>4. QED
      BY <2>1, <2>2, <2>3, ScreenKeepsFeed
  <1>5. CASE Disconnect(v) \/ LoseMessages(v)
    <2> DEFINE b == IF Disconnect(v) THEN FALSE ELSE TRUE
               none == << >>
               x == [s EXCEPT !.subscribed = b, !.pending = none, !.current = FALSE, !.fresh = FALSE]
    <2>1. /\ screen' = [screen EXCEPT ![v] = x]
          /\ UNCHANGED <<status, reached, change, pushed, astray>>
      BY <1>5 DEF Disconnect, LoseMessages, Deafened
    <2>2. b \in BOOLEAN /\ none \in Seq(Statuses) /\ none = << >>
      OBVIOUS
    <2> HIDE DEF b, none
    <2>3. /\ x \in ScreenRow /\ x.pending = none /\ x.current = FALSE /\ x.fresh = FALSE
      BY <1>1, <2>2 DEF ScreenRow
    <2> HIDE DEF x, s
    <2>4. Follows(x)
      BY <2>2, <2>3 DEF Follows
    <2>5. QED
      BY <2>1, <2>3, <2>4, ScreenKeepsFeed
  <1>6. QED
    BY <1>2, <1>3, <1>4, <1>5

\* A message that is forwarded is the news if no other is behind it.
LEMMA ForwardKeepsFeed ==
  ASSUME FeedInv, NEW v \in Screens, Forward(v)
  PROVE  FeedInv'
  <1> DEFINE s == screen[v]
             x == [s EXCEPT !.shows = Head(s.pending), !.current = TRUE,
                            !.pending = Tail(s.pending), !.fresh = FALSE]
  <1>1. /\ s \in ScreenRow /\ s.pending \in Seq(Statuses) /\ s.pending # << >>
        /\ ~ astray => Follows(s)
    BY DEF FeedInv, FeedTypes, ScreenRow, Forward
  <1>2. /\ screen' = [screen EXCEPT ![v] = x]
        /\ UNCHANGED <<status, reached, change, pushed, astray>>
    BY DEF Forward
  <1>3. /\ Head(s.pending) \in Statuses /\ Tail(s.pending) \in Seq(Statuses)
        /\ IF Tail(s.pending) = << >> THEN Head(s.pending) = s.pending[Len(s.pending)]
           ELSE Tail(s.pending)[Len(Tail(s.pending))] = s.pending[Len(s.pending)]
    <2>1. PICK q \in Seq(Statuses) : q = s.pending /\ q # << >>
      BY <1>1
    <2>2. Len(q) \in Nat /\ Len(q) > 0 /\ Len(Tail(q)) = Len(q) - 1 /\ Head(q) = q[1]
      BY <2>1
    <2>3. Tail(q) \in Seq(Statuses) /\ Head(q) \in Statuses
      BY <2>1, <2>2
    <2>4. \A i \in 1..Len(Tail(q)) : Tail(q)[i] = q[i + 1]
      BY <2>1, <2>2
    <2>5. CASE Tail(q) = << >>
      <3>1. Len(Tail(q)) = Len(<< >>) /\ Len(<< >>) = 0
        BY <2>5
      <3>2. QED
        BY <2>1, <2>2, <2>3, <2>5, <3>1
    <2>6. CASE Tail(q) # << >>
      <3>1. Len(Tail(q)) \in 1..Len(Tail(q))
        BY <2>2, <2>3, <2>6
      <3>2. QED
        BY <2>1, <2>2, <2>3, <2>4, <2>6, <3>1
    <2>7. QED
      BY <2>5, <2>6
  <1>4. /\ x \in ScreenRow /\ x.subscribed = s.subscribed /\ x.fresh = FALSE
        /\ x.pending = Tail(s.pending) /\ x.shows = Head(s.pending)
    BY <1>1, <1>3 DEF ScreenRow
  <1> HIDE DEF x, s
  <1>5. ~ astray => Follows(x)
    BY <1>1, <1>3, <1>4 DEF Follows
  <1>6. QED
    BY <1>2, <1>4, <1>5, ScreenKeepsFeed

\* Every step of the feed keeps the invariant.
LEMMA FeedInductive == FeedInv /\ [FeedNext]_feedVars => FeedInv'
  <1> SUFFICES ASSUME FeedInv, [FeedNext]_feedVars PROVE FeedInv'
    OBVIOUS
  <1>1. CASE UNCHANGED <<status, reached, change, pushed, screen, astray>>
    BY <1>1 DEF FeedInv, FeedTypes, Follows, News, PushFollows
  <1>2. ASSUME NEW p \in Parties, RegisterDevice(p) \/ UnregisterDevice(p) PROVE FeedInv'
    BY <1>1, <1>2 DEF RegisterDevice, UnregisterDevice
  <1>3. CASE UNCHANGED feedVars
    BY <1>1, <1>3 DEF feedVars
  <1>4. QED
    BY <1>2, <1>3, RequestKeepsFeed, PublishKeepsFeed, CommitKeepsFeed, QuietWritersKeepFeed,
       ScreensKeepFeed, ForwardKeepsFeed DEF FeedNext

\* The invariant of the feed, for any requests, screens and messages on their way: at
\* most one request is under way until one overtakes another, the last message to a
\* screen is the news, and pushes are the history.
THEOREM FeedInvariant == FeedSpec => []FeedInv
  <1>1. FeedInit => FeedInv
    <2> SUFFICES ASSUME FeedInit PROVE FeedInv
      OBVIOUS
    <2>1. Closed \in ScreenRow /\ Follows(Closed)
      BY DEF Closed, ScreenRow, Follows
    <2>2. \A c \in Changes : change[c] = NoChange /\ change[c].at = "rest"
      BY DEF FeedInit, NoChange
    <2>3. FeedTypes
      BY <2>1, <2>2 DEF FeedInit, FeedTypes, Statuses
    <2>4. \A p \in Parties : PushFollows(p)
      BY DEF FeedInit, PushFollows
    <2>5. \A v \in Screens : Follows(screen[v])
      BY <2>1 DEF FeedInit
    <2>6. QED
      BY <2>2, <2>3, <2>4, <2>5 DEF FeedInv
  <1>2. QED
    BY <1>1, FeedInductive, PTL DEF FeedSpec

\* ToldWhatHappened: between two changes a subscribed screen with no message on its way
\* shows the row's status, unless an old answer has replaced it, and nobody was pushed a
\* status the appointment never had.
THEOREM FeedIsTold == FeedSpec => []ToldWhatHappened
  <1>1. FeedInv => ToldWhatHappened
    <2> SUFFICES ASSUME FeedInv, Quiet, ~ astray
                 PROVE  /\ \A v \in Screens : screen[v].current /\ screen[v].pending = << >>
                                                => screen[v].shows = status
                        /\ \A p \in Parties : pushed[p] \subseteq Told(p)
      BY DEF ToldWhatHappened
    <2>1. \A c \in Changes : change[c].at = "rest"
      BY DEF Quiet, NoChange
    <2>2. \A v \in Screens : screen[v].current /\ screen[v].pending = << >>
                               => screen[v].shows = status
      BY <2>1 DEF FeedInv, Follows, News
    <2>3. \A p \in Parties : pushed[p] \subseteq Told(p)
      BY <2>1 DEF FeedInv, PushFollows, Told
    <2>4. QED
      BY <2>2, <2>3
  <1>2. QED
    BY <1>1, FeedInvariant, PTL

-----------------------------------------------------------------------------
(* Choices *)

ChoiceRows == [op : {"checked", "reread"}, of : Pinnable]
                \union [op : {"add", "remove"}, of : Pinnable, landed : BOOLEAN]
                \union [op : {"read", "put"}, body : PreferenceRows, loaded : PreferenceRows]

\* What an open transaction is made of, by its operation.
LEMMA ChoiceKinds ==
  ASSUME ChoiceTypes, NEW c \in ChoiceCalls
  PROVE  /\ Free.op = "idle" /\ choiceTxn \in [ChoiceCalls -> {Free} \union ChoiceRows]
         /\ choiceTxn[c].op \in {"idle", "checked", "reread", "add", "remove", "read", "put"}
         /\ choiceTxn[c] = Free <=> choiceTxn[c].op = "idle"
         /\ choiceTxn[c].op = "checked" => choiceTxn[c].of \in Pinnable
         /\ choiceTxn[c].op \in {"add", "remove"} =>
              choiceTxn[c].of \in Pinnable /\ choiceTxn[c].landed \in BOOLEAN
         /\ choiceTxn[c].op \in {"read", "put"} =>
              /\ choiceTxn[c] \in [op : {"read", "put"}, body : PreferenceRows, loaded : PreferenceRows]
              /\ choiceTxn[c].body \in PreferenceRows /\ choiceTxn[c].loaded \in PreferenceRows
  <1>1. choiceTxn \in [ChoiceCalls -> {Free} \union ChoiceRows]
    BY DEF ChoiceTypes, ChoiceRows
  <1>2. choiceTxn[c] \in {Free} \union ChoiceRows
    BY <1>1
  <1>3. QED
    BY <1>1, <1>2 DEF ChoiceRows, Free

\* A transaction moves on without writing anything that is committed.
LEMMA MoveKeepsChoices ==
  ASSUME ChoiceInv, NEW c \in ChoiceCalls, NEW t \in {Free} \union ChoiceRows,
         choiceTxn' = [choiceTxn EXCEPT ![c] = t],
         UNCHANGED <<pins, pinAudit, vehicles, preferences, trail>>,
         crossed => crossed', PinLanded(c)',
         \/ t.op \notin {"add", "remove"} \/ ~ t.landed
         \/ \A d \in ChoiceCalls \ {c} :
              choiceTxn[d].op \in {"add", "remove"} /\ choiceTxn[d].landed
                => choiceTxn[d].of # t.of,
         t.op \in {"read", "put"} =>
           /\ Known(t.body.vehicle)
           /\ ~ crossed' =>
                /\ t.loaded = preferences
                /\ \A d \in ChoiceCalls \ {c} : choiceTxn[d].op \notin {"read", "put"}
  PROVE  ChoiceInv'
  <1>1. /\ choiceTxn'[c] = t /\ \A d \in ChoiceCalls \ {c} : choiceTxn'[d] = choiceTxn[d]
        /\ choiceTxn' \in [ChoiceCalls -> {Free} \union ChoiceRows]
    BY DEF ChoiceInv, ChoiceTypes, ChoiceRows
  <1>2. ChoiceTypes'
    BY <1>1 DEF ChoiceInv, ChoiceTypes, ChoiceRows, PreferenceRows
  <1>3. ASSUME NEW d \in ChoiceCalls \ {c} PROVE PinLanded(d)' /\ PutFollows(d)'
    <2>1. PinLanded(d) /\ PutFollows(d) /\ choiceTxn'[d] = choiceTxn[d]
      BY <1>1 DEF ChoiceInv
    <2>2. PinLanded(d)'
      BY <1>1, <2>1 DEF PinLanded, PinHeld
    <2>3. PutFollows(d)'
      BY <1>1, <2>1 DEF PutFollows, Known
    <2>4. QED
      BY <2>2, <2>3
  <1>4. PutFollows(c)'
    BY <1>1 DEF PutFollows, Known
  <1>5. ChoicesAudited'
    BY DEF ChoiceInv, ChoicesAudited
  <1>6. QED
    BY <1>2, <1>3, <1>4, <1>5 DEF ChoiceInv

\* A transaction ends without a trace.
LEMMA FreeKeepsChoices ==
  ASSUME ChoiceInv, NEW c \in ChoiceCalls, choiceTxn' = [choiceTxn EXCEPT ![c] = Free],
         UNCHANGED <<pins, pinAudit, vehicles, preferences, trail, crossed>>
  PROVE  ChoiceInv'
  <1>1. Free.op = "idle" /\ choiceTxn'[c] = Free
    BY ChoiceKinds DEF ChoiceInv
  <1>2. PinLanded(c)'
    BY <1>1 DEF PinLanded
  <1>3. QED
    BY <1>1, <1>2, MoveKeepsChoices

\* The statements on pins.
LEMMA PinsKeepChoices ==
  ASSUME ChoiceInv, NEW c \in ChoiceCalls,
         InsertPin(c) \/ \E p \in Pinnable : CheckProvider(c, p) \/ RemovePin(c, p)
  PROVE  ChoiceInv'
  <1>1. ASSUME NEW p \in Pinnable, CheckProvider(c, p) PROVE ChoiceInv'
    <2> DEFINE t == [op |-> "checked", of |-> p]
    <2>1. t \in ChoiceRows /\ t.op = "checked"
      BY DEF ChoiceRows
    <2>2. choiceTxn' = [choiceTxn EXCEPT ![c] = t]
          /\ UNCHANGED <<pins, pinAudit, vehicles, preferences, trail, crossed>>
      BY <1>1 DEF CheckProvider
    <2> HIDE DEF t
    <2>3. PinLanded(c)'
      BY <2>1, <2>2 DEF PinLanded, ChoiceInv, ChoiceTypes
    <2>4. QED
      BY <2>1, <2>2, <2>3, MoveKeepsChoices
  <1>2. ASSUME NEW p \in Pinnable, NEW op \in {"add", "remove"}, NEW landed \in BOOLEAN,
               choiceTxn' = [choiceTxn EXCEPT ![c] = [op |-> op, of |-> p, landed |-> landed]],
               UNCHANGED <<pins, pinAudit, vehicles, preferences, trail, crossed>>,
               landed => (p \in pins <=> op = "remove"),
               landed => ~ PinHeld(c, p, {"add", "remove"})
        PROVE  ChoiceInv'
    <2> DEFINE t == [op |-> op, of |-> p, landed |-> landed]
    <2>1. t \in ChoiceRows /\ t.op = op /\ t.of = p /\ t.landed = landed
      BY DEF ChoiceRows
    <2>2. choiceTxn' = [choiceTxn EXCEPT ![c] = t]
      BY <1>2
    <2> HIDE DEF t
    <2>3. choiceTxn'[c] = t /\ \A d \in ChoiceCalls \ {c} : choiceTxn'[d] = choiceTxn[d]
      BY <2>2 DEF ChoiceInv, ChoiceTypes
    <2>4. landed => \A d \in ChoiceCalls \ {c} :
            choiceTxn[d].op \in {"add", "remove"} /\ choiceTxn[d].landed => choiceTxn[d].of # p
      BY <1>2 DEF PinHeld
    <2>5. PinLanded(c)'
      BY <1>2, <2>1, <2>3, <2>4 DEF PinLanded, PinHeld
    <2>6. QED
      BY <1>2, <2>1, <2>2, <2>4, <2>5, MoveKeepsChoices
  <1>3. CASE InsertPin(c)
    <2>1. choiceTxn[c].of \in Pinnable
      BY <1>3, ChoiceKinds DEF InsertPin, ChoiceInv
    <2>2. QED
      BY <1>2, <1>3, <2>1 DEF InsertPin
  <1>4. ASSUME NEW p \in Pinnable, RemovePin(c, p) PROVE ChoiceInv'
    <2>1. p \in pins => ~ PinHeld(c, p, {"add", "remove"})
      BY <1>4 DEF RemovePin, PinHeld, ChoiceInv, PinLanded
    <2> DEFINE landed == p \in pins
    <2>2. /\ landed \in BOOLEAN /\ (landed => (p \in pins <=> "remove" = "remove"))
          /\ landed => ~ PinHeld(c, p, {"add", "remove"})
          /\ choiceTxn' = [choiceTxn EXCEPT ![c] = [op |-> "remove", of |-> p, landed |-> landed]]
          /\ UNCHANGED <<pins, pinAudit, vehicles, preferences, trail, crossed>>
      BY <1>4, <2>1 DEF RemovePin
    <2> HIDE DEF landed
    <2>3. QED
      BY <1>2, <2>2
  <1>5. QED
    BY <1>1, <1>3, <1>4

\* The commit of a pin leaves an audit entry exactly when it moved one.
LEMMA CommitPinKeepsChoices ==
  ASSUME ChoiceInv, NEW c \in ChoiceCalls, CommitPin(c)
  PROVE  ChoiceInv'
  <1> DEFINE t == choiceTxn[c]
             n == IF t.landed THEN 1 ELSE 0
             x == IF t.op = "add" THEN [op |-> "reread", of |-> t.of] ELSE Free
             log == IF t.op = "add"
                      THEN [pinAudit EXCEPT ![t.of].added = @ + n]
                      ELSE [pinAudit EXCEPT ![t.of].removed = @ + n]
  <1>1. /\ t.op \in {"add", "remove"} /\ t.of \in Pinnable /\ t.landed \in BOOLEAN /\ Free.op = "idle"
    BY ChoiceKinds DEF CommitPin, ChoiceInv
  <1>2. /\ choiceTxn' = [choiceTxn EXCEPT ![c] = x] /\ pinAudit' = log
        /\ pins' = IF t.landed THEN (IF t.op = "add" THEN pins \union {t.of} ELSE pins \ {t.of})
                   ELSE pins
        /\ UNCHANGED <<vehicles, preferences, trail, crossed>>
    BY <1>1 DEF CommitPin, CountPin, Logged
  <1>3. x \in {Free} \union ChoiceRows /\ x.op \in {"reread", "idle"}
    BY <1>1 DEF ChoiceRows
  <1>4. /\ log \in [Pinnable -> [added : Nat, removed : Nat]]
        /\ \A p \in Pinnable \ {t.of} : log[p] = pinAudit[p]
        /\ log[t.of].added - log[t.of].removed =
             pinAudit[t.of].added - pinAudit[t.of].removed + (IF t.op = "add" THEN n ELSE 0 - n)
    <2>1. n \in Nat /\ pinAudit \in [Pinnable -> [added : Nat, removed : Nat]]
      BY DEF ChoiceInv, ChoiceTypes
    <2> HIDE DEF n, t
    <2>2. QED
      BY <1>1, <2>1
  <1> HIDE DEF x, log
  <1>5. choiceTxn'[c] = x /\ \A d \in ChoiceCalls \ {c} : choiceTxn'[d] = choiceTxn[d]
    BY <1>2 DEF ChoiceInv, ChoiceTypes
  <1>6. ChoiceTypes'
    <2>1. choiceTxn' \in [ChoiceCalls -> {Free} \union ChoiceRows]
      BY <1>2, <1>3, ChoiceKinds DEF ChoiceInv
    <2>2. pins' \subseteq Pinnable
      BY <1>1, <1>2 DEF ChoiceInv, ChoiceTypes
    <2>3. QED
      BY <1>2, <1>4, <2>1, <2>2 DEF ChoiceInv, ChoiceTypes, ChoiceRows
  <1>7. t.landed => /\ t.of \in pins <=> t.op = "remove"
                    /\ \A d \in ChoiceCalls \ {c} :
                         choiceTxn[d].op \in {"add", "remove"} /\ choiceTxn[d].landed
                           => choiceTxn[d].of # t.of
    BY <1>1 DEF ChoiceInv, PinLanded, PinHeld
  <1>8. \A d \in ChoiceCalls \ {c} : PinLanded(d)' /\ PutFollows(d)'
    <2>1. SUFFICES ASSUME NEW d \in ChoiceCalls \ {c} PROVE PinLanded(d)' /\ PutFollows(d)'
      OBVIOUS
    <2>2. PinLanded(d) /\ PutFollows(d) /\ choiceTxn'[d] = choiceTxn[d]
      BY <1>5 DEF ChoiceInv
    <2>3. PinLanded(d)'
      BY <1>2, <1>3, <1>5, <1>7, <2>2 DEF PinLanded, PinHeld
    <2>4. PutFollows(d)'
      BY <1>2, <1>3, <1>5, <2>2 DEF PutFollows, Known
    <2>5. QED
      BY <2>3, <2>4
  <1>9. PinLanded(c)' /\ PutFollows(c)'
    BY <1>3, <1>5 DEF PinLanded, PutFollows
  <1>10. ASSUME NEW p \in Pinnable
         PROVE  pinAudit'[p].added - pinAudit'[p].removed = IF p \in pins' THEN 1 ELSE 0
    <2>1. pinAudit[p].added - pinAudit[p].removed = IF p \in pins THEN 1 ELSE 0
      BY DEF ChoiceInv, ChoicesAudited
    <2>2. CASE p = t.of
      BY <1>1, <1>2, <1>4, <1>7, <2>1, <2>2
    <2>3. CASE p # t.of
      BY <1>2, <1>4, <2>1, <2>3
    <2>4. QED
      BY <2>2, <2>3
  <1>11. ChoicesAudited'
    BY <1>2, <1>10 DEF ChoiceInv, ChoicesAudited
  <1>12. QED
    BY <1>6, <1>8, <1>9, <1>11 DEF ChoiceInv

\* Vehicles are never taken out of the table.
LEMMA VehiclesKeepChoices ==
  ASSUME ChoiceInv, NEW v \in VehicleIds,
         DeleteVehicle(v) \/ \E plate \in Plates : CreateVehicle(v, plate) \/ UpdateVehicle(v, plate)
  PROVE  ChoiceInv'
  <1>1. /\ vehicles \in [VehicleIds -> {NoVehicle} \union [plate : Plates, deleted : BOOLEAN]]
        /\ UNCHANGED <<profiles, pins, pinAudit, preferences, trail, crossed, choiceTxn>>
    BY DEF ChoiceInv, ChoiceTypes, DeleteVehicle, CreateVehicle, UpdateVehicle
  <1>2. /\ vehicles' \in [VehicleIds -> {NoVehicle} \union [plate : Plates, deleted : BOOLEAN]]
        /\ \A w \in VehicleIds : vehicles[w] # NoVehicle => vehicles'[w] # NoVehicle
    <2>1. ASSUME NEW x \in [plate : Plates, deleted : BOOLEAN], vehicles' = [vehicles EXCEPT ![v] = x]
          PROVE  /\ vehicles' \in [VehicleIds -> {NoVehicle} \union [plate : Plates, deleted : BOOLEAN]]
                 /\ \A w \in VehicleIds : vehicles[w] # NoVehicle => vehicles'[w] # NoVehicle
      BY <1>1, <2>1, ChoicesAssumption
    <2>2. \E x \in [plate : Plates, deleted : BOOLEAN] : vehicles' = [vehicles EXCEPT ![v] = x]
      <3>1. v \in Live => vehicles[v] \in [plate : Plates, deleted : BOOLEAN]
        BY <1>1 DEF Live
      <3>2. CASE DeleteVehicle(v)
        <4> DEFINE x == [vehicles[v] EXCEPT !.deleted = TRUE]
        <4>1. x \in [plate : Plates, deleted : BOOLEAN]
          BY <3>1, <3>2 DEF DeleteVehicle
        <4>2. vehicles' = [vehicles EXCEPT ![v] = x]
          BY <1>1, <3>2 DEF DeleteVehicle
        <4> HIDE DEF x
        <4>3. QED
          BY <4>1, <4>2
      <3>3. ASSUME NEW plate \in Plates, CreateVehicle(v, plate)
            PROVE  \E x \in [plate : Plates, deleted : BOOLEAN] : vehicles' = [vehicles EXCEPT ![v] = x]
        BY <3>3 DEF CreateVehicle
      <3>4. ASSUME NEW plate \in Plates, UpdateVehicle(v, plate)
            PROVE  \E x \in [plate : Plates, deleted : BOOLEAN] : vehicles' = [vehicles EXCEPT ![v] = x]
        <4> DEFINE x == [vehicles[v] EXCEPT !.plate = plate]
        <4>1. x \in [plate : Plates, deleted : BOOLEAN]
          BY <3>1, <3>4 DEF UpdateVehicle
        <4>2. vehicles' = [vehicles EXCEPT ![v] = x]
          BY <1>1, <3>4 DEF UpdateVehicle
        <4> HIDE DEF x
        <4>3. QED
          BY <4>1, <4>2
      <3>5. QED
        BY <3>2, <3>3, <3>4
    <2>3. QED
      BY <2>1, <2>2
  <1>3. \A x \in VehicleIds \union {NoVehicle} : Known(x) => Known(x)'
    BY <1>2 DEF Known
  <1>4. ChoiceTypes'
    BY <1>1, <1>2 DEF ChoiceInv, ChoiceTypes, PreferenceRows
  <1>5. ASSUME NEW c \in ChoiceCalls PROVE PinLanded(c)' /\ PutFollows(c)'
    <2>1. PinLanded(c) /\ PutFollows(c)
      BY DEF ChoiceInv
    <2>2. choiceTxn[c].op \in {"read", "put"} => choiceTxn[c].body.vehicle \in VehicleIds \union {NoVehicle}
      BY ChoiceKinds DEF ChoiceInv, PreferenceRows
    <2>3. PutFollows(c)'
      BY <1>1, <1>3, <2>1, <2>2 DEF PutFollows
    <2>4. PinLanded(c)'
      BY <1>1, <2>1 DEF PinLanded, PinHeld
    <2>5. QED
      BY <2>3, <2>4
  <1>6. ChoicesAudited'
    BY <1>1, <1>2 DEF ChoiceInv, ChoiceTypes, PreferenceRows, ChoicesAudited
  <1>7. QED
    BY <1>4, <1>5, <1>6 DEF ChoiceInv

\* PUT: the row, the check of the vehicle and the flush.
LEMMA PutKeepsChoices ==
  ASSUME ChoiceInv, NEW c \in ChoiceCalls,
         FlushPreferences(c) \/ \E body \in PreferenceRows : ReadPreferences(c, body)
  PROVE  ChoiceInv'
  <1>1. ASSUME NEW body \in PreferenceRows, ReadPreferences(c, body) PROVE ChoiceInv'
    <2> DEFINE t == [op |-> "read", body |-> body, loaded |-> preferences]
    <2>1. t \in ChoiceRows /\ t.op = "read" /\ t.body = body /\ t.loaded = preferences
      BY DEF ChoiceRows, ChoiceInv, ChoiceTypes
    <2>2. /\ choiceTxn' = [choiceTxn EXCEPT ![c] = t]
          /\ UNCHANGED <<profiles, pins, pinAudit, vehicles, preferences, trail>>
          /\ crossed' = (crossed \/ \E d \in ChoiceCalls \ {c} : choiceTxn[d].op \in {"read", "put"})
          /\ Known(body.vehicle)
      BY <1>1 DEF ReadPreferences, Known, Live
    <2> HIDE DEF t
    <2>3. PinLanded(c)'
      BY <2>1, <2>2 DEF PinLanded, ChoiceInv, ChoiceTypes
    <2>4. ~ crossed' => \A d \in ChoiceCalls \ {c} : choiceTxn[d].op \notin {"read", "put"}
      BY <2>2
    <2>5. crossed => crossed'
      BY <2>2
    <2>6. QED
      BY <2>1, <2>2, <2>3, <2>4, <2>5, MoveKeepsChoices
  <1>2. CASE FlushPreferences(c)
    <2> DEFINE t == [choiceTxn[c] EXCEPT !.op = "put"]
    <2>1. /\ choiceTxn[c] \in [op : {"read", "put"}, body : PreferenceRows, loaded : PreferenceRows]
          /\ choiceTxn[c].op = "read" /\ PutFollows(c)
      BY <1>2, ChoiceKinds DEF FlushPreferences, ChoiceInv
    <2>2. t \in ChoiceRows /\ t.op = "put" /\ t.body = choiceTxn[c].body /\ t.loaded = choiceTxn[c].loaded
      BY <2>1 DEF ChoiceRows
    <2>3. /\ choiceTxn' = [choiceTxn EXCEPT ![c] = t]
          /\ UNCHANGED <<profiles, pins, pinAudit, vehicles, preferences, trail, crossed>>
      BY <1>2, <2>1 DEF FlushPreferences, ChoiceInv, ChoiceTypes
    <2> HIDE DEF t
    <2>4. PinLanded(c)'
      BY <2>2, <2>3 DEF PinLanded, ChoiceInv, ChoiceTypes
    <2>5. Known(t.body.vehicle) /\ (~ crossed' => t.loaded = preferences
            /\ \A d \in ChoiceCalls \ {c} : choiceTxn[d].op \notin {"read", "put"})
      BY <2>1, <2>2, <2>3 DEF PutFollows
    <2>6. QED
      BY <2>2, <2>3, <2>4, <2>5, MoveKeepsChoices
  <1>3. QED
    BY <1>1, <1>2

\* The commit of a PUT that met no other one is the row it logs.
LEMMA CommitPutKeepsChoices ==
  ASSUME ChoiceInv, NEW c \in ChoiceCalls, CommitPreferences(c)
  PROVE  ChoiceInv'
  <1> DEFINE t == choiceTxn[c]
  <1>1. /\ t.op = "put" /\ t.body \in PreferenceRows /\ t.loaded \in PreferenceRows
        /\ preferences \in PreferenceRows /\ Free.op = "idle" /\ PutFollows(c)
    BY ChoiceKinds DEF CommitPreferences, ChoiceInv, ChoiceTypes
  <1>2. /\ preferences' = [k \in DOMAIN preferences |->
                             IF t.body[k] # t.loaded[k] THEN t.body[k] ELSE preferences[k]]
        /\ trail' = t.body /\ choiceTxn' = [choiceTxn EXCEPT ![c] = Free]
        /\ UNCHANGED <<profiles, pins, pinAudit, vehicles, crossed>>
    BY DEF CommitPreferences
  <1>3. choiceTxn'[c] = Free /\ \A d \in ChoiceCalls \ {c} : choiceTxn'[d] = choiceTxn[d]
    BY <1>2 DEF ChoiceInv, ChoiceTypes
  <1>4. /\ DOMAIN preferences = {"vehicle", "frequency"}
        /\ preferences'.vehicle \in {t.body.vehicle, preferences.vehicle}
        /\ preferences'.frequency \in {t.body.frequency, preferences.frequency}
        /\ t.loaded = preferences => /\ preferences'.vehicle = t.body.vehicle
                                     /\ preferences'.frequency = t.body.frequency
    BY <1>1, <1>2 DEF PreferenceRows
  <1>5. preferences' = [vehicle |-> preferences'.vehicle, frequency |-> preferences'.frequency]
    BY <1>2, <1>4
  <1>6. preferences' \in PreferenceRows /\ (t.loaded = preferences => preferences' = t.body)
    BY <1>1, <1>4, <1>5 DEF PreferenceRows
  <1> HIDE DEF t
  <1>7. ChoiceTypes'
    <2>1. choiceTxn' \in [ChoiceCalls -> {Free} \union ChoiceRows]
      BY <1>2, ChoiceKinds DEF ChoiceInv
    <2>2. QED
      BY <1>2, <1>6, <2>1 DEF ChoiceInv, ChoiceTypes, ChoiceRows, PreferenceRows
  <1>8. ASSUME NEW d \in ChoiceCalls \ {c} PROVE PinLanded(d)' /\ PutFollows(d)'
    <2>1. PinLanded(d) /\ PutFollows(d) /\ choiceTxn'[d] = choiceTxn[d]
      BY <1>3 DEF ChoiceInv
    <2>2. PinLanded(d)'
      BY <1>1, <1>2, <1>3, <2>1 DEF PinLanded, PinHeld
    <2>3. PutFollows(d)'
      BY <1>1, <1>2, <1>3, <2>1 DEF PutFollows, Known, t
    <2>4. QED
      BY <2>2, <2>3
  <1>9. PinLanded(c)' /\ PutFollows(c)'
    BY <1>1, <1>3 DEF PinLanded, PutFollows
  <1>10. Known(t.body.vehicle) /\ (~ crossed => t.loaded = preferences)
    BY <1>1 DEF PutFollows, t
  <1>11. ChoicesAudited'
    BY <1>2, <1>4, <1>6, <1>10 DEF ChoiceInv, ChoicesAudited, Known
  <1>12. QED
    BY <1>7, <1>8, <1>9, <1>11 DEF ChoiceInv

\* Every step keeps the invariant.
LEMMA ChoiceInductive == ChoiceInv /\ [PinNext \/ PreferenceNext]_choiceVars => ChoiceInv'
  <1> SUFFICES ASSUME ChoiceInv, [PinNext \/ PreferenceNext]_choiceVars PROVE ChoiceInv'
    OBVIOUS
  <1>1. ASSUME NEW c \in ChoiceCalls, AnswerPin(c) \/ AbortChoice(c) PROVE ChoiceInv'
    BY <1>1, FreeKeepsChoices DEF AnswerPin, AbortChoice
  <1>2. CASE UNCHANGED <<pins, pinAudit, vehicles, preferences, trail, crossed, choiceTxn>>
    BY <1>2 DEF ChoiceInv, ChoiceTypes, PinLanded, PutFollows, PinHeld, Known, ChoicesAudited,
                PreferenceRows
  <1>3. ASSUME NEW p \in Pinnable, OpenSecondProfile(p) PROVE ChoiceInv'
    BY <1>2, <1>3 DEF OpenSecondProfile
  <1>4. CASE UNCHANGED choiceVars
    BY <1>2, <1>4 DEF choiceVars
  <1>5. ASSUME NEW c \in ChoiceCalls, NEW v \in VehicleIds \union {NoVehicle}, NEW f \in Frequencies,
               ReadPreferences(c, [vehicle |-> v, frequency |-> f])
        PROVE  ChoiceInv'
    <2>1. [vehicle |-> v, frequency |-> f] \in PreferenceRows
      BY DEF PreferenceRows
    <2>2. QED
      BY <1>5, <2>1, PutKeepsChoices
  <1>6. CASE PinNext
    BY <1>1, <1>3, <1>6, PinsKeepChoices, CommitPinKeepsChoices DEF PinNext
  <1>7. CASE PreferenceNext
    BY <1>1, <1>5, <1>7, PutKeepsChoices, CommitPutKeepsChoices, VehiclesKeepChoices DEF PreferenceNext
  <1>8. QED
    BY <1>4, <1>6, <1>7

\* ChoicesAudited: the audit entries of a provider tell whether it is pinned, the last
\* preferences entry is the row unless two PUTs overlapped, and a default is a vehicle
\* that the client has or had.
THEOREM ChoicesAreAudited == ChoiceSpec => []ChoicesAudited
  <1>1. ChoiceInit => ChoiceInv
    <2> SUFFICES ASSUME ChoiceInit PROVE ChoiceInv
      OBVIOUS
    <2>1. \A c \in ChoiceCalls : choiceTxn[c] = Free /\ choiceTxn[c].op = "idle"
      BY DEF ChoiceInit, Free
    <2>2. preferences \in PreferenceRows /\ preferences.vehicle = NoVehicle
      BY DEF ChoiceInit, PreferenceRows
    <2>3. ChoiceTypes
      BY <2>2 DEF ChoiceInit, ChoiceTypes
    <2>4. \A c \in ChoiceCalls : PinLanded(c) /\ PutFollows(c)
      BY <2>1 DEF PinLanded, PutFollows
    <2>5. ChoicesAudited
      BY <2>2 DEF ChoiceInit, ChoicesAudited
    <2>6. QED
      BY <2>3, <2>4, <2>5 DEF ChoiceInv
  <1>2. ChoiceInv => ChoicesAudited
    BY DEF ChoiceInv
  <1>3. QED
    BY <1>1, <1>2, ChoiceInductive, PTL DEF ChoiceSpec

-----------------------------------------------------------------------------
(* Locations *)

\* What a worker does, by where it stands.
LEMMA WorkKinds ==
  ASSUME LocationTypes, NEW w \in LocationWorkers
  PROVE  /\ AtRest.at = "rest" /\ work[w] \in {AtRest} \union WorkRows
         /\ work[w].at \in {"rest", "push", "leave", "enter", "save"}
         /\ work[w].at = "rest" <=> work[w] = AtRest
         /\ work[w] # AtRest => /\ work[w] \in WorkRows /\ work[w].to \in Positions
                                /\ work[w].from \in Positions \union {Nowhere}
  BY DEF LocationTypes, AtRest, WorkRows

\* A step of one worker: it may start, alone, go on or stop.
LEMMA StepKeepsLocation ==
  ASSUME LocationInv, NEW w \in LocationWorkers, NEW u \in {AtRest} \union WorkRows,
         work' = [work EXCEPT ![w] = u], unread' \in [LocationWorkers -> Seq(Positions)],
         lastPush' \in Positions \union {Nowhere},
         column' \in [place : Positions \union {Nowhere},
                      cell : { CellOf[p] : p \in Positions } \union {Nowhere}],
         parallel => parallel', cutShort => cutShort',
         ~ parallel' /\ u # AtRest => \A v \in LocationWorkers \ {w} : work[v] = AtRest,
         ~ parallel' /\ ~ cutShort' =>
           /\ Underway(w)'
           /\ UNCHANGED <<cells, lastPush, column>> \/ \A v \in LocationWorkers \ {w} : work[v] = AtRest
           /\ (u.at \in {"rest", "push"} /\ \A v \in LocationWorkers \ {w} : work[v].at \in {"rest", "push"})
                => Settled'
  PROVE  LocationInv'
  <1>1. /\ work'[w] = u /\ \A v \in LocationWorkers \ {w} : work'[v] = work[v]
        /\ LocationTypes'
    BY DEF LocationInv, LocationTypes
  <1>2. AtRest.at = "rest"
    BY DEF AtRest
  <1>3. ~ parallel' => \A v, x \in LocationWorkers : work'[v] # AtRest /\ work'[x] # AtRest => v = x
    BY <1>1 DEF LocationInv
  <1>4. ASSUME ~ parallel', ~ cutShort', NEW v \in LocationWorkers \ {w} PROVE Underway(v)'
    <2>1. CASE work[v] = AtRest
      BY <1>1, <1>2, <2>1 DEF Underway
    <2>2. CASE UNCHANGED <<cells, lastPush, column>>
      BY <1>1, <1>4, <2>2 DEF LocationInv, Underway
    <2>3. QED
      BY <1>4, <2>1, <2>2
  <1>5. ASSUME ~ parallel', ~ cutShort', \A v \in LocationWorkers : work'[v].at \in {"rest", "push"}
        PROVE  Settled'
    BY <1>1, <1>5
  <1>6. QED
    BY <1>1, <1>3, <1>4, <1>5 DEF LocationInv

\* Messages, profile positions and expiries change nothing that the update protocol uses.
LEMMA MessagesKeepLocation ==
  ASSUME LocationInv,
         ActiveExpires \/ \E p \in Positions : PostLocation(p) \/ PersistSocketLocation(p)
  PROVE  LocationInv'
  <1>1. /\ UNCHANGED <<lastPush, cells, work, cutShort, parallel>>
        /\ unread' \in [LocationWorkers -> Seq(Positions)]
    <2>1. unread \in [LocationWorkers -> Seq(Positions)]
      BY DEF LocationInv, LocationTypes
    <2>2. ASSUME NEW p \in Positions, PostLocation(p)
          PROVE  unread' \in [LocationWorkers -> Seq(Positions)]
      <3>1. \A w \in LocationWorkers : Append(unread[w], p) \in Seq(Positions)
        BY <2>1
      <3>2. QED
        BY <2>2, <3>1 DEF PostLocation
    <2>3. QED
      BY <2>1, <2>2 DEF ActiveExpires, PostLocation, PersistSocketLocation
  <1>2. /\ column' \in [place : Positions \union {Nowhere},
                        cell : { CellOf[p] : p \in Positions } \union {Nowhere}]
        /\ column'.cell = column.cell
    <2>1. column \in [place : Positions \union {Nowhere},
                      cell : { CellOf[p] : p \in Positions } \union {Nowhere}]
      BY DEF LocationInv, LocationTypes
    <2> DEFINE C == { CellOf[p] : p \in Positions } \union {Nowhere}
    <2> HIDE DEF C
    <2>2. column \in [place : Positions \union {Nowhere}, cell : C]
      BY <2>1 DEF C
    <2>3. /\ column' \in [place : Positions \union {Nowhere}, cell : C]
          /\ column'.cell = column.cell
      BY <2>2 DEF ActiveExpires, PostLocation, PersistSocketLocation
    <2>4. QED
      BY <2>3 DEF C
  <1>3. LocationTypes'
    BY <1>1, <1>2 DEF LocationInv, LocationTypes
  <1>4. QED
    BY <1>1, <1>2, <1>3 DEF LocationInv, Underway, Settled

\* A message is taken; a small move only refreshes the active key.
LEMMA TakeKeepsLocation ==
  ASSUME LocationInv, NEW w \in LocationWorkers, TakeUpdate(w)
  PROVE  LocationInv'
  <1> DEFINE p == Head(unread[w])
             u == IF work' = work THEN AtRest ELSE [at |-> "push", to |-> p, from |-> lastPush]
  <1>1. /\ work[w] = AtRest /\ unread[w] \in Seq(Positions) /\ unread[w] # <<>>
        /\ work \in [LocationWorkers -> {AtRest} \union WorkRows]
        /\ lastPush \in Positions \union {Nowhere}
    BY DEF TakeUpdate, LocationInv, LocationTypes
  <1>2. p \in Positions /\ Tail(unread[w]) \in Seq(Positions)
    BY <1>1
  <1>3. unread' \in [LocationWorkers -> Seq(Positions)]
    BY <1>2 DEF TakeUpdate, LocationInv, LocationTypes
  <1>4. u \in {AtRest} \union WorkRows /\ u.at \in {"rest", "push"} /\ (u.at = "push" => u.from = lastPush)
    BY <1>1, <1>2 DEF WorkRows, AtRest
  <1>5. work' = [work EXCEPT ![w] = u]
    <2>1. \/ work' = work
          \/ work' = [work EXCEPT ![w] = [at |-> "push", to |-> p, from |-> lastPush]]
      BY DEF TakeUpdate
    <2>2. QED
      BY <1>1, <2>1
  <1> HIDE DEF u
  <1>6. /\ UNCHANGED <<posted, lastPush, cells, column, cutShort>>
        /\ parallel' = (parallel \/ \E v \in LocationWorkers \ {w} : work[v] # AtRest)
    BY DEF TakeUpdate
  <1>7. work'[w] = u
    BY <1>1, <1>5
  <1>8. Underway(w)'
    BY <1>4, <1>6, <1>7 DEF Underway
  <1>9. ASSUME ~ parallel', ~ cutShort',
               \A v \in LocationWorkers \ {w} : work[v].at \in {"rest", "push"}
        PROVE  Settled'
    <2>1. AtRest.at = "rest"
      BY DEF AtRest
    <2>2. Settled
      BY <1>1, <1>6, <1>9, <2>1 DEF LocationInv
    <2>3. QED
      BY <1>6, <2>2 DEF Settled
  <1>10. QED
    BY <1>3, <1>4, <1>5, <1>6, <1>8, <1>9, StepKeepsLocation DEF LocationInv, LocationTypes

\* The steps of an update, each of which leaves the sets as the next one expects them.
LEMMA UpdateKeepsLocation ==
  ASSUME LocationInv, NEW w \in LocationWorkers,
         PushPosition(w) \/ LeaveOldCell(w) \/ EnterNewCell(w) \/ SavePosition(w)
  PROVE  LocationInv'
  <1>1. /\ work[w] # AtRest /\ work[w] \in WorkRows /\ work[w].to \in Positions
        /\ work[w].from \in Positions \union {Nowhere}
        /\ work \in [LocationWorkers -> {AtRest} \union WorkRows] /\ AtRest.at = "rest"
        /\ lastPush \in Positions \union {Nowhere} /\ unread \in [LocationWorkers -> Seq(Positions)]
        /\ column \in [place : Positions \union {Nowhere},
                       cell : { CellOf[p] : p \in Positions } \union {Nowhere}]
    BY WorkKinds DEF LocationInv, LocationTypes, PushPosition, LeaveOldCell, EnterNewCell, SavePosition
  <1>2. UNCHANGED <<unread, posted, cutShort, parallel>>
    BY DEF PushPosition, LeaveOldCell, EnterNewCell, SavePosition
  <1>3. ~ parallel => \A v \in LocationWorkers \ {w} : work[v] = AtRest
    BY <1>1 DEF LocationInv
  <1>4. ~ parallel /\ ~ cutShort => Underway(w) /\ (work[w].at = "push" => Settled)
    BY <1>1, <1>3 DEF LocationInv
  <1>5. ASSUME NEW u \in {AtRest} \union WorkRows, work' = [work EXCEPT ![w] = u],
               lastPush' \in Positions \union {Nowhere},
               column' \in [place : Positions \union {Nowhere},
                            cell : { CellOf[p] : p \in Positions } \union {Nowhere}],
               ~ parallel /\ ~ cutShort => Underway(w)' /\ (u.at \in {"rest", "push"} => Settled')
        PROVE  LocationInv'
    BY <1>1, <1>2, <1>3, <1>5, StepKeepsLocation
  <1>6. ASSUME NEW at \in {"leave", "enter", "save"}, work' = [work EXCEPT ![w].at = at]
        PROVE  \E u \in WorkRows : /\ work' = [work EXCEPT ![w] = u] /\ work'[w] = u
                                   /\ u.at = at /\ u.to = work[w].to /\ u.from = work[w].from
    <2> DEFINE u == [work[w] EXCEPT !.at = at]
    <2>1. u \in WorkRows /\ u.at = at /\ u.to = work[w].to /\ u.from = work[w].from
      BY <1>1 DEF WorkRows
    <2>2. work' = [work EXCEPT ![w] = u]
      BY <1>6
    <2> HIDE DEF u
    <2>3. QED
      BY <1>1, <2>1, <2>2
  <1>7. CASE PushPosition(w)
    <2>1. PICK u \in WorkRows : /\ work' = [work EXCEPT ![w] = u] /\ work'[w] = u
                                /\ u.at = "leave" /\ u.to = work[w].to /\ u.from = work[w].from
      BY <1>6, <1>7 DEF PushPosition
    <2>2. work[w].at = "push" /\ lastPush' = work[w].to /\ cells' = cells /\ column' = column
      BY <1>7 DEF PushPosition
    <2>3. ~ parallel /\ ~ cutShort => Underway(w)'
      BY <1>4, <2>1, <2>2 DEF Underway, Settled
    <2>4. QED
      BY <1>1, <1>5, <2>1, <2>2, <2>3
  <1>8. CASE LeaveOldCell(w)
    <2>1. PICK u \in WorkRows : /\ work' = [work EXCEPT ![w] = u] /\ work'[w] = u
                                /\ u.at = "enter" /\ u.to = work[w].to /\ u.from = work[w].from
      BY <1>6, <1>8 DEF LeaveOldCell
    <2>2. /\ work[w].at = "leave" /\ lastPush' = lastPush /\ column' = column
          /\ cells' = IF work[w].from # Nowhere /\ CellOf[work[w].from] # CellOf[work[w].to]
                      THEN cells \ {CellOf[work[w].from]} ELSE cells
      BY <1>8 DEF LeaveOldCell
    <2>3. ~ parallel /\ ~ cutShort => Underway(w)'
      BY <1>4, <2>1, <2>2 DEF Underway, CellsOf
    <2>4. QED
      BY <1>1, <1>5, <2>1, <2>2, <2>3
  <1>9. CASE EnterNewCell(w)
    <2>1. PICK u \in WorkRows : /\ work' = [work EXCEPT ![w] = u] /\ work'[w] = u
                                /\ u.at = "save" /\ u.to = work[w].to /\ u.from = work[w].from
      BY <1>6, <1>9 DEF EnterNewCell
    <2>2. /\ work[w].at = "enter" /\ lastPush' = lastPush /\ column' = column
          /\ cells' = cells \union {CellOf[work[w].to]}
      BY <1>9 DEF EnterNewCell
    <2>3. ~ parallel /\ ~ cutShort => Underway(w)'
      BY <1>4, <2>1, <2>2 DEF Underway
    <2>4. QED
      BY <1>1, <1>5, <2>1, <2>2, <2>3
  <1>10. CASE SavePosition(w)
    <2>1. /\ work[w].at = "save" /\ lastPush' = lastPush /\ cells' = cells
          /\ column' = [place |-> work[w].to, cell |-> CellOf[work[w].to]]
          /\ work' = [work EXCEPT ![w] = AtRest]
      BY <1>10 DEF SavePosition
    <2>2. work'[w] = AtRest
      BY <1>1, <2>1
    <2>3. ~ parallel /\ ~ cutShort => Underway(w)' /\ Settled'
      BY <1>1, <1>4, <2>1, <2>2, LocationsAssumption DEF Underway, Settled, CellsOf
    <2>4. column' \in [place : Positions \union {Nowhere},
                       cell : { CellOf[p] : p \in Positions } \union {Nowhere}]
      BY <1>1, <2>1
    <2>5. QED
      BY <1>1, <1>5, <2>1, <2>3, <2>4
  <1>11. QED
    BY <1>7, <1>8, <1>9, <1>10

\* An update that stops before its push has done nothing yet.
LEMMA StopsKeepLocation ==
  ASSUME LocationInv, NEW w \in LocationWorkers, UpdateFails(w) \/ WorkerRestarts(w)
  PROVE  LocationInv'
  <1>1. /\ AtRest.at = "rest" /\ work[w].at \in {"rest", "push", "leave", "enter", "save"}
        /\ work[w].at = "rest" <=> work[w] = AtRest
        /\ work \in [LocationWorkers -> {AtRest} \union WorkRows]
    BY WorkKinds DEF LocationInv, LocationTypes
  <1>2. /\ work' = [work EXCEPT ![w] = AtRest]
        /\ UNCHANGED <<posted, lastPush, cells, column, parallel>>
        /\ cutShort' = (cutShort \/ work[w].at \notin {"rest", "push"})
        /\ unread' \in [LocationWorkers -> Seq(Positions)]
    <2>1. unread \in [LocationWorkers -> Seq(Positions)] /\ <<>> \in Seq(Positions)
      BY DEF LocationInv, LocationTypes
    <2>2. unread' = unread \/ unread' = [unread EXCEPT ![w] = <<>>]
      BY DEF UpdateFails, WorkerRestarts
    <2>3. unread' \in [LocationWorkers -> Seq(Positions)]
      BY <2>1, <2>2
    <2>4. QED
      BY <1>1, <2>3 DEF UpdateFails, WorkerRestarts
  <1>3. work'[w] = AtRest /\ Underway(w)'
    BY <1>1, <1>2 DEF Underway
  <1>4. ASSUME ~ parallel, ~ cutShort',
               \A v \in LocationWorkers \ {w} : work[v].at \in {"rest", "push"}
        PROVE  Settled'
    <2>1. Settled
      BY <1>1, <1>2, <1>4 DEF LocationInv
    <2>2. QED
      BY <1>2, <2>1 DEF Settled
  <1>5. QED
    BY <1>2, <1>3, <1>4, StepKeepsLocation DEF LocationInv, LocationTypes

\* Every step keeps the invariant.
LEMMA LocationInductive == LocationInv /\ [LocationNext]_locationVars => LocationInv'
  <1> SUFFICES ASSUME LocationInv, [LocationNext]_locationVars PROVE LocationInv'
    OBVIOUS
  <1>1. CASE UNCHANGED locationVars
    BY <1>1 DEF locationVars, LocationInv, LocationTypes, Underway, Settled
  <1>2. QED
    BY <1>1, MessagesKeepLocation, TakeKeepsLocation, UpdateKeepsLocation, StopsKeepLocation
       DEF LocationNext

\* FoundWhereItIs: between two updates the detailer is in the cell of the position last
\* pushed and in no other, and the profile says so too, unless an update was cut short
\* or two processes worked at one time.
THEOREM DetailerFoundWhereItIs == LocationSpec => []FoundWhereItIs
  <1>1. LocationInit => LocationInv
    BY DEF LocationInit, LocationInv, LocationTypes, Underway, Settled, CellsOf, AtRest
  <1>2. LocationInv => FoundWhereItIs
    <2> SUFFICES ASSUME LocationInv, \A w \in LocationWorkers : work[w] = AtRest,
                        ~ cutShort, ~ parallel
                 PROVE  /\ cells = CellsOf(lastPush)
                        /\ lastPush # Nowhere => column.cell = CellOf[lastPush]
      BY DEF FoundWhereItIs, Found, CellsOf
    <2>1. Settled
      BY DEF LocationInv, AtRest
    <2>2. QED
      BY <2>1 DEF Settled
  <1>3. QED
    BY <1>1, <1>2, LocationInductive, PTL DEF LocationSpec

-----------------------------------------------------------------------------
(* Uploads *)

UploadRows == [op : {"idle", "found", "insert", "delete", "avatar"}, key : ObjectKeys \union {NoKey},
               was : ObjectKeys \union {NoKey} \union PhotoIds]

\* An idle request has no key; NoKey is no key.
LEMMA UploadKinds ==
  ASSUME UploadTypes, NEW c \in Uploaders
  PROVE  /\ uploadTxn \in [Uploaders -> UploadRows] /\ uploadTxn[c] \in UploadRows
         /\ NoUpload \in UploadRows /\ NoUpload.op = "idle" /\ NoUpload.key = NoKey
         /\ uploadTxn[c] = NoUpload <=> uploadTxn[c].op = "idle"
         /\ uploadTxn[c].op \in {"idle", "found", "insert", "delete", "avatar"}
         /\ NoKey \notin ObjectKeys
  BY UploadsAssumption DEF UploadTypes, UploadRows, NoUpload, ObjectKeys

\* The gallery is a finite set of rows.
LEMMA ShownIsFinite == IsFiniteSet(Shown) /\ Cardinality(Shown) \in Nat
  <1>1. Shown \subseteq PhotoIds
    BY DEF Shown
  <1>2. QED
    BY <1>1, UploadsAssumption, FS_Subset, FS_CardinalityType

\* A request begins: it confirms a key that is nobody's, or takes away one that is shown.
LEMMA BeginKeepsUploads ==
  ASSUME UploadInv, NEW c \in Uploaders, uploadTxn[c] = NoUpload,
         NEW t \in UploadRows, t.op # "idle", uploadTxn' = [uploadTxn EXCEPT ![c] = t],
         UNCHANGED <<photos, avatar, undone>>, twice \subseteq twice',
         \A k \in objects \ objects' : \/ t.op = "delete" /\ k = t.key
                                       \/ t.op = "avatar" /\ k = t.was
         , t.op = "delete" =>
           /\ t.was \in PhotoIds /\ t.key # NoKey /\ photos[t.was] = t.key
           /\ \A d \in Uploaders \ {c} : uploadTxn[d].op = "delete" => uploadTxn[d].was # t.was,
         t.op = "avatar" => t.was = avatar /\ (t.key # t.was \/ t.key \in twice'),
         t.op # "insert", t.op = "found" => t.key # NoKey,
         t.op \in {"found", "avatar"} /\ t.key # NoKey =>
           t.key \in twice' \/ (t.key \in objects' /\ ~ Taken(c, t.key)),
         ~ crowded' => ~ crowded
  PROVE  UploadInv'
  <1>1. /\ uploadTxn'[c] = t /\ \A d \in Uploaders \ {c} : uploadTxn'[d] = uploadTxn[d]
        /\ uploadTxn' \in [Uploaders -> UploadRows]
    BY UploadKinds DEF UploadInv
  <1>2. UploadTypes'
    BY <1>1 DEF UploadInv, UploadTypes, UploadRows
  <1>3. \A k : ~ Taken(c, k) => /\ avatar # k
                                /\ \A i \in PhotoIds : k # NoKey => photos[i] # k
                                /\ \A d \in Uploaders \ {c} : uploadTxn[d].key # k
    BY DEF Taken, Shown
  <1>4. \A d \in Uploaders \ {c} : BroughtOnce(d) /\ Taking(d) /\ (Brings(d)' <=> Brings(d))
    BY <1>1 DEF UploadInv, Brings
  <1>5. \A i \in PhotoIds : PhotoKept(i)
    BY DEF UploadInv
  <1>6. ASSUME NEW d \in Uploaders \ {c} PROVE BroughtOnce(d)'
    <2>1. SUFFICES ASSUME Brings(d), uploadTxn[d].key \notin twice'
                   PROVE  /\ uploadTxn[d].key \in objects' /\ avatar # uploadTxn[d].key
                          /\ \A i \in PhotoIds : photos[i] # uploadTxn[d].key
                          /\ \A b \in Uploaders \ {d} : Brings(b)' => uploadTxn'[b].key # uploadTxn[d].key
      BY <1>1, <1>4 DEF BroughtOnce
    <2>2. /\ uploadTxn[d].key \in objects /\ avatar # uploadTxn[d].key
          /\ \A i \in PhotoIds : photos[i] # uploadTxn[d].key
          /\ \A b \in Uploaders \ {d} : Brings(b) => uploadTxn[b].key # uploadTxn[d].key
      BY <1>4, <2>1 DEF BroughtOnce
    <2>3. uploadTxn[d].key \in objects'
      BY <2>2
    <2>4. Brings(c)' => t.key # uploadTxn[d].key
      <3>1. SUFFICES ASSUME t.op \in {"found", "avatar"}, t.key # NoKey, t.key = uploadTxn[d].key
                     PROVE  FALSE
        BY <1>1 DEF Brings
      <3>2. ~ Taken(c, t.key)
        BY <2>1, <3>1
      <3>3. QED
        BY <1>3, <3>1, <3>2
    <2>5. QED
      BY <1>1, <1>4, <2>2, <2>3, <2>4
  <1>7. BroughtOnce(c)'
    <2>1. SUFFICES ASSUME t.op \in {"found", "avatar"}, t.key # NoKey, t.key \notin twice'
                   PROVE  /\ t.key \in objects' /\ avatar # t.key
                          /\ \A i \in PhotoIds : photos[i] # t.key
                          /\ \A d \in Uploaders \ {c} : Brings(d)' => uploadTxn'[d].key # t.key
      BY <1>1 DEF BroughtOnce, Brings
    <2>2. t.key \in objects' /\ ~ Taken(c, t.key)
      BY <2>1
    <2>3. QED
      BY <1>1, <1>3, <2>1, <2>2
  <1>8. \A d \in Uploaders : Taking(d)'
    <2>1. Taking(c)'
      BY <1>1 DEF Taking
    <2>2. ASSUME NEW d \in Uploaders \ {c} PROVE Taking(d)'
      BY <1>1, <1>4 DEF Taking
    <2>3. QED
      BY <2>1, <2>2
  <1>9. ASSUME NEW i \in PhotoIds PROVE PhotoKept(i)'
    <2>1. SUFFICES ASSUME photos[i] # NoKey, photos[i] \notin twice'
                   PROVE  /\ avatar # photos[i] /\ \A j \in PhotoIds \ {i} : photos[j] # photos[i]
                          /\ \/ photos[i] \in objects' \union undone
                             \/ \E b \in Uploaders : uploadTxn'[b].op = "delete" /\ uploadTxn'[b].was = i
      BY DEF PhotoKept
    <2>2. /\ avatar # photos[i] /\ \A j \in PhotoIds \ {i} : photos[j] # photos[i]
          /\ \/ photos[i] \in objects \union undone
             \/ \E b \in Uploaders : uploadTxn[b].op = "delete" /\ uploadTxn[b].was = i
      BY <1>5, <2>1 DEF PhotoKept
    <2>3. CASE \E b \in Uploaders : uploadTxn[b].op = "delete" /\ uploadTxn[b].was = i
      <3>1. NoUpload.op # "delete"
        BY DEF NoUpload
      <3>2. QED
        BY <1>1, <2>2, <2>3, <3>1
    <2>4. CASE photos[i] \in objects' \union undone
      BY <2>2, <2>4
    <2>5. CASE photos[i] \in objects \ objects'
      <3>1. t.op = "delete" /\ photos[i] = t.key
        BY <2>2, <2>5
      <3>2. t.was = i
        BY <2>2, <3>1
      <3>3. QED
        BY <1>1, <2>2, <3>1, <3>2
    <2>6. QED
      BY <2>2, <2>3, <2>4, <2>5
  <1>10. AvatarKept'
    <2>1. SUFFICES ASSUME avatar # NoKey, avatar \notin twice', avatar \notin objects', avatar \notin undone
                   PROVE  \E b \in Uploaders : uploadTxn'[b].op = "avatar" /\ uploadTxn'[b].was = avatar
      BY DEF AvatarKept
    <2>2. CASE \E b \in Uploaders : uploadTxn[b].op = "avatar" /\ uploadTxn[b].was = avatar
      <3>1. NoUpload.op # "avatar"
        BY DEF NoUpload
      <3>2. QED
        BY <1>1, <2>2, <3>1
    <2>3. CASE avatar \in objects
      <3>1. t.op = "avatar" \/ (t.op = "delete" /\ avatar = photos[t.was])
        BY <2>1, <2>3
      <3>2. ~ (t.op = "delete" /\ avatar = photos[t.was])
        BY <1>5, <2>1 DEF PhotoKept
      <3>3. QED
        BY <1>1, <3>1, <3>2
    <2>4. QED
      BY <2>1, <2>2, <2>3 DEF UploadInv, AvatarKept
  <1>11. ~ crowded' => Capped'
    <2>1. Shown' = Shown
      BY DEF Shown
    <2>2. NoUpload.op # "insert"
      BY DEF NoUpload
    <2>3. QED
      BY <1>1, <2>1, <2>2 DEF UploadInv, Capped
  <1>12. QED
    BY <1>2, <1>6, <1>7, <1>8, <1>9, <1>10, <1>11 DEF UploadInv

\* The confirmations find their object.
LEMMA FindsKeepUploads ==
  ASSUME UploadInv, NEW c \in Uploaders,
         \/ \E k \in GalleryKeys : FindPhoto(c, k)
         \/ \E k \in AvatarKeys : ConfirmAvatar(c, k)
  PROVE  UploadInv'
  <1>1. NoKey \notin ObjectKeys /\ UploadTypes
    BY UploadKinds DEF UploadInv
  <1>2. ASSUME NEW k \in GalleryKeys, FindPhoto(c, k) PROVE UploadInv'
    <2> DEFINE t == [op |-> "found", key |-> k, was |-> NoKey]
    <2>1. /\ uploadTxn[c] = NoUpload /\ k \in objects /\ k \in ObjectKeys /\ k # NoKey
          /\ twice' = IF Taken(c, k) THEN twice \union {k} ELSE twice
          /\ UNCHANGED <<signed, objects, photos, avatar, undone, crowded>>
      BY <1>1, <1>2 DEF FindPhoto, ObjectKeys
    <2>2. /\ t \in UploadRows /\ t.op = "found" /\ t.key = k
          /\ uploadTxn' = [uploadTxn EXCEPT ![c] = t]
      BY <1>2, <2>1 DEF FindPhoto, UploadRows
    <2> HIDE DEF t
    <2>3. k \in twice' \/ (k \in objects' /\ ~ Taken(c, k))
      BY <2>1
    <2>4. twice \subseteq twice' /\ objects \ objects' = {} /\ (~ crowded' => ~ crowded)
      BY <2>1
    <2>5. QED
      BY <2>1, <2>2, <2>3, <2>4, BeginKeepsUploads
  <1>3. ASSUME NEW k \in AvatarKeys, ConfirmAvatar(c, k) PROVE UploadInv'
    <2> DEFINE t == [op |-> "avatar", key |-> k, was |-> avatar]
    <2>1. /\ uploadTxn[c] = NoUpload /\ k \in objects /\ k \in ObjectKeys /\ k # NoKey
          /\ twice' = IF Taken(c, k) THEN twice \union {k} ELSE twice
          /\ UNCHANGED <<signed, photos, avatar, undone, crowded>>
      BY <1>1, <1>3 DEF ConfirmAvatar, ObjectKeys
    <2>2. /\ t \in UploadRows /\ t.op = "avatar" /\ t.key = k /\ t.was = avatar
          /\ uploadTxn' = [uploadTxn EXCEPT ![c] = t]
      BY <1>1, <1>3, <2>1 DEF ConfirmAvatar, UploadRows, UploadTypes
    <2> HIDE DEF t
    <2>3. objects' = objects \/ (objects' = objects \ {avatar} /\ avatar # k)
      BY <1>3 DEF ConfirmAvatar, Dropped
    <2>4. k \in twice' \/ (k \in objects' /\ ~ Taken(c, k))
      BY <2>1, <2>3
    <2>5. k # avatar \/ k \in twice'
      BY <2>1 DEF Taken
    <2>6. twice \subseteq twice' /\ \A j \in objects \ objects' : j = avatar
      BY <2>1, <2>3
    <2>7. ~ crowded' => ~ crowded
      BY <2>1
    <2>8. QED
      BY <2>1, <2>2, <2>4, <2>5, <2>6, <2>7, BeginKeepsUploads
  <1>4. QED
    BY <1>2, <1>3

\* The deletions up to their commit.
LEMMA DeletionsKeepUploads ==
  ASSUME UploadInv, NEW c \in Uploaders,
         DeleteAvatar(c) \/ \E i \in PhotoIds : DeletePhoto(c, i)
  PROVE  UploadInv'
  <1>1. NoKey \notin ObjectKeys /\ UploadTypes
    BY UploadKinds DEF UploadInv
  <1>2. ASSUME NEW i \in PhotoIds, DeletePhoto(c, i) PROVE UploadInv'
    <2> DEFINE t == [op |-> "delete", key |-> photos[i], was |-> i]
    <2>1. /\ uploadTxn[c] = NoUpload /\ photos[i] # NoKey
          /\ \A d \in Open(c, "delete") : uploadTxn[d].was # i
          /\ UNCHANGED <<signed, photos, avatar, twice, undone, crowded>>
          /\ objects' = objects \/ objects' = objects \ {photos[i]}
      BY <1>2 DEF DeletePhoto, Shown, Dropped
    <2>2. /\ t \in UploadRows /\ t.op = "delete" /\ t.key = photos[i] /\ t.was = i
          /\ uploadTxn' = [uploadTxn EXCEPT ![c] = t]
      BY <1>1, <1>2 DEF DeletePhoto, UploadRows, UploadTypes
    <2> HIDE DEF t
    <2>3. \A d \in Uploaders \ {c} : uploadTxn[d].op = "delete" => uploadTxn[d].was # i
      BY <2>1 DEF Open
    <2>4. twice \subseteq twice' /\ (\A j \in objects \ objects' : j = photos[i]) /\ (~ crowded' => ~ crowded)
      BY <2>1
    <2>5. QED
      BY <2>1, <2>2, <2>3, <2>4, BeginKeepsUploads
  <1>3. CASE DeleteAvatar(c)
    <2> DEFINE t == [op |-> "avatar", key |-> NoKey, was |-> avatar]
    <2>1. /\ uploadTxn[c] = NoUpload /\ avatar # NoKey
          /\ UNCHANGED <<signed, photos, avatar, twice, undone, crowded>>
          /\ objects' = objects \/ objects' = objects \ {avatar}
      BY <1>3 DEF DeleteAvatar, Dropped
    <2>2. /\ t \in UploadRows /\ t.op = "avatar" /\ t.key = NoKey /\ t.was = avatar
          /\ uploadTxn' = [uploadTxn EXCEPT ![c] = t]
      BY <1>1, <1>3 DEF DeleteAvatar, UploadRows, UploadTypes
    <2> HIDE DEF t
    <2>3. twice \subseteq twice' /\ (\A j \in objects \ objects' : j = avatar) /\ (~ crowded' => ~ crowded)
      BY <2>1
    <2>4. QED
      BY <2>1, <2>2, <2>3, BeginKeepsUploads
  <1>4. QED
    BY <1>2, <1>3

\* What an end does to the transactions.
LEMMA EndEffect ==
  ASSUME UploadInv, NEW c \in Uploaders, uploadTxn' = [uploadTxn EXCEPT ![c] = NoUpload]
  PROVE  /\ uploadTxn'[c].op = "idle" /\ uploadTxn' \in [Uploaders -> UploadRows]
         /\ \A d \in Uploaders \ {c} : uploadTxn'[d] = uploadTxn[d]
         /\ \A d \in Uploaders : uploadTxn'[d].op = "idle" => uploadTxn'[d] = NoUpload
         /\ ~ Brings(c)' /\ \A d \in Uploaders \ {c} : Brings(d)' <=> Brings(d)
         /\ BroughtOnce(c)' /\ Taking(c)'
  <1>1. /\ uploadTxn'[c] = NoUpload /\ \A d \in Uploaders \ {c} : uploadTxn'[d] = uploadTxn[d]
        /\ uploadTxn' \in [Uploaders -> UploadRows] /\ NoUpload.op = "idle"
    BY UploadKinds DEF UploadInv
  <1>2. ~ Brings(c)' /\ \A d \in Uploaders \ {c} : Brings(d)' <=> Brings(d)
    BY <1>1 DEF Brings
  <1>3. \A d \in Uploaders : uploadTxn'[d].op = "idle" => uploadTxn'[d] = NoUpload
    BY <1>1 DEF UploadInv, UploadTypes
  <1>4. BroughtOnce(c)' /\ Taking(c)'
    BY <1>1, <1>2 DEF BroughtOnce, Taking
  <1>5. QED
    BY <1>1, <1>2, <1>3, <1>4

\* The count that a confirmation inserts after, or is refused by.
LEMMA CountKeepsUploads ==
  ASSUME UploadInv, NEW c \in Uploaders, ConfirmPhoto(c)
  PROVE  UploadInv'
  <1> DEFINE k == uploadTxn[c].key
  <1>1. /\ uploadTxn[c].op = "found" /\ UploadTypes /\ k \in ObjectKeys \union {NoKey} /\ k # NoKey
        /\ NoKey \notin ObjectKeys /\ Brings(c) /\ NoUpload.op = "idle"
        /\ \A d \in Uploaders : BroughtOnce(d) /\ Taking(d)
        /\ \A i \in PhotoIds : PhotoKept(i)
        /\ UNCHANGED <<signed, photos, avatar, twice, undone>>
    BY UploadKinds DEF UploadInv, UploadRows, ConfirmPhoto, Brings, Taking
  <1>2. CASE Cardinality(Shown) < MAX_PHOTOS_PER_VEHICLE /\ InsertPhoto(c)
    <2> DEFINE t == [op |-> "insert", key |-> k, was |-> NoKey]
    <2>1. /\ t \in UploadRows /\ t.op = "insert" /\ t.key = k /\ objects' = objects
          /\ uploadTxn' = [uploadTxn EXCEPT ![c] = t]
          /\ crowded' = (crowded \/ Open(c, "insert") # {})
      BY <1>1, <1>2 DEF InsertPhoto, UploadRows
    <2> HIDE DEF t
    <2>2. /\ uploadTxn'[c] = t /\ \A d \in Uploaders \ {c} : uploadTxn'[d] = uploadTxn[d]
          /\ uploadTxn' \in [Uploaders -> UploadRows]
      BY <1>1, <2>1, UploadKinds
    <2>3. UploadTypes'
      BY <1>1, <2>1, <2>2 DEF UploadTypes, UploadRows
    <2>4. \A d \in Uploaders : (Brings(d)' <=> Brings(d)) /\ uploadTxn'[d].key = uploadTxn[d].key
      BY <1>1, <2>1, <2>2 DEF Brings
    <2>5. \A d \in Uploaders : BroughtOnce(d)' /\ Taking(d)'
      <3>1. ASSUME NEW d \in Uploaders PROVE BroughtOnce(d)'
        BY <1>1, <2>1, <2>4 DEF BroughtOnce
      <3>2. ASSUME NEW d \in Uploaders PROVE Taking(d)'
        BY <1>1, <2>1, <2>2 DEF Taking
      <3>3. QED
        BY <3>1, <3>2
    <2>6. \A d \in Uploaders : uploadTxn'[d].op \in {"delete", "avatar"} <=>
                               uploadTxn[d].op \in {"delete", "avatar"} /\ uploadTxn'[d] = uploadTxn[d]
      BY <1>1, <2>1, <2>2
    <2>7. (\A i \in PhotoIds : PhotoKept(i)') /\ AvatarKept'
      BY <1>1, <2>1, <2>6 DEF UploadInv, PhotoKept, AvatarKept
    <2>8. ~ crowded' => Capped'
      BY <1>1, <1>2, <2>1, <2>2 DEF UploadInv, Capped, Open, Shown
    <2>9. QED
      BY <2>3, <2>5, <2>7, <2>8 DEF UploadInv
  <1>3. CASE /\ objects' = objects \ {k} /\ uploadTxn' = [uploadTxn EXCEPT ![c] = NoUpload]
             /\ UNCHANGED crowded
    <2>1. /\ uploadTxn'[c].op = "idle" /\ uploadTxn' \in [Uploaders -> UploadRows]
          /\ \A d \in Uploaders \ {c} : uploadTxn'[d] = uploadTxn[d]
          /\ \A d \in Uploaders : uploadTxn'[d].op = "idle" => uploadTxn'[d] = NoUpload
          /\ ~ Brings(c)' /\ \A d \in Uploaders \ {c} : Brings(d)' <=> Brings(d)
          /\ BroughtOnce(c)' /\ Taking(c)'
      BY <1>3, EndEffect
    <2>2. UploadTypes'
      BY <1>1, <2>1 DEF UploadTypes, UploadRows
    <2>3. k \notin twice =>
            /\ avatar # k /\ \A i \in PhotoIds : photos[i] # k
            /\ \A d \in Uploaders \ {c} : Brings(d) => uploadTxn[d].key # k
      BY <1>1 DEF BroughtOnce
    <2>4. ASSUME NEW d \in Uploaders \ {c} PROVE BroughtOnce(d)' /\ Taking(d)'
      <3>1. BroughtOnce(d) /\ Taking(d) /\ uploadTxn'[d] = uploadTxn[d]
        BY <1>1, <2>1
      <3>2. BroughtOnce(d)'
        BY <1>1, <1>3, <2>1, <2>3, <3>1 DEF BroughtOnce
      <3>3. Taking(d)'
        BY <1>1, <2>1, <3>1 DEF Taking
      <3>4. QED
        BY <3>2, <3>3
    <2>5. \A d \in Uploaders : uploadTxn[d].op \in {"delete", "avatar"} => uploadTxn'[d] = uploadTxn[d]
      BY <1>1, <2>1
    <2>6. ASSUME NEW i \in PhotoIds PROVE PhotoKept(i)'
      BY <1>1, <1>3, <2>3, <2>5 DEF PhotoKept
    <2>7. AvatarKept'
      BY <1>1, <1>3, <2>3, <2>5 DEF UploadInv, AvatarKept
    <2>8. ~ crowded' => Capped'
      BY <1>1, <1>3, <2>1 DEF UploadInv, Capped, Shown
    <2>9. QED
      BY <2>1, <2>2, <2>4, <2>6, <2>7, <2>8 DEF UploadInv
  <1>4. QED
    BY <1>2, <1>3 DEF ConfirmPhoto

\* A transaction that fails leaves the rows with what it took from them.
LEMMA AbortKeepsUploads ==
  ASSUME UploadInv, NEW c \in Uploaders, AbortUpload(c)
  PROVE  UploadInv'
  <1> DEFINE u == uploadTxn[c]
  <1>1. /\ uploadTxn' = [uploadTxn EXCEPT ![c] = NoUpload]
        /\ UNCHANGED <<signed, objects, photos, avatar, twice, crowded>>
        /\ undone' = IF u.op \in {"found", "insert"} THEN undone
                     ELSE undone \union {IF u.op = "delete" THEN u.key ELSE u.was}
    BY DEF AbortUpload
  <1>2. /\ uploadTxn'[c].op = "idle" /\ uploadTxn' \in [Uploaders -> UploadRows]
        /\ \A d \in Uploaders \ {c} : uploadTxn'[d] = uploadTxn[d]
        /\ \A d \in Uploaders : uploadTxn'[d].op = "idle" => uploadTxn'[d] = NoUpload
        /\ ~ Brings(c)' /\ \A d \in Uploaders \ {c} : Brings(d)' <=> Brings(d)
        /\ BroughtOnce(c)' /\ Taking(c)'
    BY <1>1, EndEffect
  <1>3. UploadTypes'
    BY <1>1, <1>2 DEF UploadInv, UploadTypes, UploadRows
  <1>4. ASSUME NEW d \in Uploaders \ {c} PROVE BroughtOnce(d)' /\ Taking(d)'
    <2>1. BroughtOnce(d) /\ Taking(d)
      BY DEF UploadInv
    <2>2. QED
      BY <1>1, <1>2, <2>1 DEF BroughtOnce, Taking
  <1>5. ASSUME NEW i \in PhotoIds PROVE PhotoKept(i)'
    <2>1. PhotoKept(i) /\ Taking(c) /\ undone \subseteq undone'
      BY <1>1 DEF UploadInv
    <2>2. u.op = "delete" /\ u.was = i => photos[i] \in undone'
      BY <1>1, <2>1 DEF Taking
    <2>3. QED
      BY <1>1, <1>2, <2>1, <2>2 DEF PhotoKept
  <1>6. AvatarKept'
    <2>1. AvatarKept /\ undone \subseteq undone'
      BY <1>1 DEF UploadInv
    <2>2. u.op = "avatar" /\ u.was = avatar => avatar \in undone'
      BY <1>1
    <2>3. QED
      BY <1>1, <1>2, <2>1, <2>2 DEF AvatarKept
  <1>7. ~ crowded' => Capped'
    <2>1. Shown' = Shown
      BY <1>1 DEF Shown
    <2>2. QED
      BY <1>1, <1>2, <2>1 DEF UploadInv, Capped
  <1>8. QED
    BY <1>2, <1>3, <1>4, <1>5, <1>6, <1>7 DEF UploadInv

\* The commit shows or hides a photo, or changes the avatar.
LEMMA CommitKeepsUploads ==
  ASSUME UploadInv, NEW c \in Uploaders, CommitUpload(c)
  PROVE  UploadInv'
  <1> DEFINE u == uploadTxn[c]
  <1>1. /\ uploadTxn' = [uploadTxn EXCEPT ![c] = NoUpload]
        /\ UNCHANGED <<signed, objects, twice, undone, crowded>>
    BY DEF CommitUpload
  <1>2. /\ uploadTxn'[c].op = "idle" /\ uploadTxn' \in [Uploaders -> UploadRows]
        /\ \A d \in Uploaders \ {c} : uploadTxn'[d] = uploadTxn[d]
        /\ \A d \in Uploaders : uploadTxn'[d].op = "idle" => uploadTxn'[d] = NoUpload
        /\ ~ Brings(c)' /\ \A d \in Uploaders \ {c} : Brings(d)' <=> Brings(d)
        /\ BroughtOnce(c)' /\ Taking(c)'
    BY <1>1, EndEffect
  <1>3. /\ UploadTypes /\ NoKey \notin ObjectKeys /\ u \in UploadRows
        /\ \A d \in Uploaders : BroughtOnce(d) /\ Taking(d)
        /\ \A i \in PhotoIds : PhotoKept(i)
    BY UploadKinds DEF UploadInv
  <1>4. \A d \in Uploaders \ {c} : Brings(c) /\ Brings(d) /\ u.key \notin twice => uploadTxn[d].key # u.key
    BY <1>3 DEF BroughtOnce
  <1>5. ASSUME NEW i \in PhotoIds \ Shown, u.op = "insert", photos' = [photos EXCEPT ![i] = u.key],
               avatar' = avatar
        PROVE  UploadInv'
    <2>1. /\ photos[i] = NoKey /\ photos'[i] = u.key /\ \A j \in PhotoIds \ {i} : photos'[j] = photos[j]
          /\ u.key # NoKey /\ u.key \in ObjectKeys /\ Brings(c)
      BY <1>3, <1>5 DEF Shown, UploadTypes, Taking, UploadRows, Brings
    <2>2. u.key \in twice \/ /\ u.key \in objects /\ avatar # u.key
                             /\ \A j \in PhotoIds : photos[j] # u.key
      BY <1>3, <2>1 DEF BroughtOnce
    <2>3. UploadTypes'
      BY <1>2, <1>3, <1>5, <2>1 DEF UploadTypes, UploadRows
    <2>4. ASSUME NEW d \in Uploaders \ {c} PROVE BroughtOnce(d)' /\ Taking(d)'
      <3>1. BroughtOnce(d)'
        BY <1>1, <1>2, <1>3, <1>4, <1>5, <2>1 DEF BroughtOnce
      <3>2. Taking(d)'
        BY <1>1, <1>2, <1>3, <2>1 DEF Taking
      <3>3. QED
        BY <3>1, <3>2
    <2>5. ASSUME NEW j \in PhotoIds PROVE PhotoKept(j)'
      <3>1. CASE j = i
        BY <1>1, <1>5, <2>1, <2>2, <3>1 DEF PhotoKept
      <3>2. CASE j # i
        BY <1>1, <1>2, <1>3, <1>5, <2>1, <2>2, <3>2 DEF PhotoKept
      <3>3. QED
        BY <3>1, <3>2
    <2>6. AvatarKept'
      BY <1>1, <1>2, <1>5 DEF UploadInv, AvatarKept
    <2>7. ~ crowded' => Capped'
      <3>1. Shown' = Shown \union {i}
        BY <2>1 DEF Shown
      <3>2. Cardinality(Shown') = Cardinality(Shown) + 1
        BY <1>5, <3>1, ShownIsFinite, FS_AddElement
      <3>3. QED
        BY <1>1, <1>2, <1>5, <3>2, ShownIsFinite, UploadsAssumption DEF UploadInv, Capped
    <2>8. QED
      BY <1>2, <2>3, <2>4, <2>5, <2>6, <2>7 DEF UploadInv
  <1>6. CASE u.op = "delete" /\ photos' = [photos EXCEPT ![u.was] = NoKey] /\ avatar' = avatar
    <2>1. u.was \in PhotoIds /\ photos[u.was] = u.key /\ u.key # NoKey
      BY <1>3, <1>6 DEF Taking
    <2>2. photos'[u.was] = NoKey /\ \A j \in PhotoIds \ {u.was} : photos'[j] = photos[j]
      BY <1>3, <1>6, <2>1 DEF UploadTypes
    <2>3. UploadTypes'
      BY <1>2, <1>3, <1>6 DEF UploadTypes, UploadRows
    <2>4. ASSUME NEW d \in Uploaders \ {c} PROVE BroughtOnce(d)' /\ Taking(d)'
      <3>1. BroughtOnce(d)'
        <4>1. ASSUME Brings(d) PROVE uploadTxn[d].key # NoKey
          BY <4>1 DEF Brings
        <4>2. QED
          BY <1>1, <1>2, <1>3, <1>6, <2>2, <4>1 DEF BroughtOnce
      <3>2. Taking(d)'
        BY <1>1, <1>2, <1>3, <1>6, <2>1, <2>2 DEF Taking
      <3>3. QED
        BY <3>1, <3>2
    <2>5. ASSUME NEW j \in PhotoIds PROVE PhotoKept(j)'
      BY <1>1, <1>2, <1>3, <1>6, <2>2 DEF PhotoKept
    <2>6. AvatarKept'
      BY <1>1, <1>2, <1>6 DEF UploadInv, AvatarKept
    <2>7. ~ crowded' => Capped'
      <3>1. Shown' = Shown \ {u.was}
        BY <2>1, <2>2 DEF Shown
      <3>2. Cardinality(Shown') <= Cardinality(Shown) /\ Cardinality(Shown') \in Int
        BY <3>1, ShownIsFinite, FS_RemoveElement
      <3>3. QED
        BY <1>1, <1>2, <3>2, ShownIsFinite, UploadsAssumption DEF UploadInv, Capped
    <2>8. QED
      BY <1>2, <2>3, <2>4, <2>5, <2>6, <2>7 DEF UploadInv
  <1>7. CASE u.op = "avatar" /\ avatar' = (IF u.key = u.was THEN avatar ELSE u.key) /\ photos' = photos
    <2>1. UploadTypes' /\ (u.key = u.was => u.key \in twice)
      BY <1>2, <1>3, <1>7 DEF UploadTypes, UploadRows, Taking
    <2>2. u.key # NoKey => Brings(c)
      BY <1>7 DEF Brings
    <2>3. u.key # NoKey /\ u.key \notin twice =>
            /\ u.key \in objects /\ \A j \in PhotoIds : photos[j] # u.key
            /\ \A d \in Uploaders \ {c} : Brings(d) => uploadTxn[d].key # u.key
      BY <1>3, <2>2 DEF BroughtOnce
    <2>4. ASSUME NEW d \in Uploaders \ {c} PROVE BroughtOnce(d)' /\ Taking(d)'
      <3>1. BroughtOnce(d)'
        <4>1. Brings(d) => uploadTxn[d].key # NoKey
          BY DEF Brings
        <4>2. QED
          BY <1>1, <1>2, <1>3, <1>7, <2>3, <4>1 DEF BroughtOnce
      <3>2. Taking(d)'
        BY <1>1, <1>2, <1>3, <1>7 DEF Taking
      <3>3. QED
        BY <3>1, <3>2
    <2>5. ASSUME NEW j \in PhotoIds PROVE PhotoKept(j)'
      BY <1>1, <1>2, <1>3, <1>7, <2>3 DEF PhotoKept
    <2>6. AvatarKept'
      BY <1>1, <1>2, <1>7, <2>1, <2>3 DEF UploadInv, AvatarKept
    <2>7. ~ crowded' => Capped'
      <3>1. Shown' = Shown
        BY <1>7 DEF Shown
      <3>2. QED
        BY <1>1, <1>2, <3>1 DEF UploadInv, Capped
    <2>8. QED
      BY <1>2, <2>1, <2>4, <2>5, <2>6, <2>7 DEF UploadInv
  <1>8. QED
    BY <1>5, <1>6, <1>7 DEF CommitUpload

\* Every step keeps the invariant.
LEMMA UploadInductive == UploadInv /\ [UploadNext]_uploadVars => UploadInv'
  <1> SUFFICES ASSUME UploadInv, [UploadNext]_uploadVars PROVE UploadInv'
    OBVIOUS
  <1>1. CASE objects \subseteq objects' /\ UNCHANGED <<photos, avatar, uploadTxn, twice, undone, crowded>>
    <2>1. \A c \in Uploaders : Brings(c)' <=> Brings(c)
      BY <1>1 DEF Brings
    <2>2. \A c \in Uploaders : BroughtOnce(c)'
      BY <1>1, <2>1 DEF UploadInv, BroughtOnce
    <2>3. \A i \in PhotoIds : PhotoKept(i)'
      BY <1>1 DEF UploadInv, PhotoKept
    <2>4. AvatarKept' /\ \A c \in Uploaders : Taking(c)'
      BY <1>1 DEF UploadInv, AvatarKept, Taking
    <2>5. QED
      BY <1>1, <2>2, <2>3, <2>4 DEF UploadInv, UploadTypes, Capped, Shown
  <1>2. ASSUME NEW k \in GalleryKeys \union AvatarKeys, PrepareUpload(k) \/ PutObject(k) PROVE UploadInv'
    BY <1>1, <1>2 DEF PrepareUpload, PutObject
  <1>3. CASE UNCHANGED uploadVars
    BY <1>1, <1>3 DEF uploadVars
  <1>4. QED
    BY <1>2, <1>3, FindsKeepUploads, CountKeepsUploads, DeletionsKeepUploads, CommitKeepsUploads,
       AbortKeepsUploads
       DEF UploadNext

\* PicturesHaveBytes: what a profile shows has its object, unless it is being replaced,
\* was confirmed twice or comes back from a rollback; and the gallery keeps its cap
\* unless two confirmations ran at one time.
THEOREM PicturesKeepBytes == UploadSpec => []PicturesHaveBytes
  <1>1. UploadInit => UploadInv
    <2> SUFFICES ASSUME UploadInit PROVE UploadInv
      OBVIOUS
    <2>1. UploadTypes /\ \A c \in Uploaders : uploadTxn[c].op = "idle"
      BY DEF UploadInit, UploadTypes, NoUpload
    <2>2. Shown = {} /\ Cardinality(Shown) = 0
      <3>1. Shown = {}
        BY DEF UploadInit, Shown
      <3>2. QED
        BY <3>1, FS_EmptySet
    <2>3. \A c \in Uploaders : BroughtOnce(c) /\ Taking(c)
      BY <2>1 DEF BroughtOnce, Taking, Brings
    <2>4. AvatarKept /\ \A i \in PhotoIds : PhotoKept(i)
      BY DEF UploadInit, AvatarKept, PhotoKept
    <2>5. Capped
      BY <2>1, <2>2, UploadsAssumption DEF Capped
    <2>6. QED
      BY <2>1, <2>3, <2>4, <2>5 DEF UploadInv
  <1>2. UploadInv => PicturesHaveBytes
    <2> SUFFICES ASSUME UploadInv PROVE PicturesHaveBytes
      OBVIOUS
    <2>1. ASSUME NEW i \in Shown PROVE photos[i] \in objects \union Leaving \union twice \union undone
      <3>1. i \in PhotoIds /\ photos[i] # NoKey /\ PhotoKept(i)
        BY DEF UploadInv, Shown
      <3>2. ASSUME NEW c \in Uploaders, uploadTxn[c].op = "delete", uploadTxn[c].was = i
            PROVE  photos[i] \in Leaving
        <4>1. uploadTxn[c].key = photos[i]
          BY <3>2 DEF UploadInv, Taking
        <4>2. QED
          BY <3>2, <4>1 DEF Leaving
      <3>3. QED
        BY <3>1, <3>2 DEF PhotoKept
    <2>2. ASSUME avatar # NoKey PROVE avatar \in objects \union Leaving \union twice \union undone
      <3>1. ASSUME NEW c \in Uploaders, uploadTxn[c].op = "avatar", uploadTxn[c].was = avatar
            PROVE  avatar \in Leaving
        BY <3>1 DEF Leaving
      <3>2. QED
        BY <2>2, <3>1 DEF UploadInv, AvatarKept
    <2>3. crowded \/ Cardinality(Shown) <= MAX_PHOTOS_PER_VEHICLE
      BY DEF UploadInv, Capped
    <2>4. QED
      BY <2>1, <2>2, <2>3 DEF PicturesHaveBytes
  <1>3. QED
    BY <1>1, <1>2, UploadInductive, PTL DEF UploadSpec

-----------------------------------------------------------------------------
(* Reminders *)

\* A set of subsets of a finite set has a smallest one.
LEMMA SmallestSet ==
  ASSUME NEW S, IsFiniteSet(S), NEW Bad, Bad \subseteq SUBSET S, Bad # {}
  PROVE  \E X \in Bad : \A Y \in Bad : <<Y, X>> \notin StrictSubsetOrdering(S)
  <1> DEFINE R == StrictSubsetOrdering(S)
             F == FiniteSubsetsOf(S)
  <1>1. IsWellFoundedOn(R, F)
    BY FS_StrictSubsetOrderingWellFounded
  <1>2. Bad \subseteq F
    BY FS_FiniteSubsetsOfFinite
  <1> HIDE DEF F, R
  <1>3. \E X \in Bad : \A Y \in Bad : ~ (<<Y, X>> \in R)
    BY <1>1, <1>2, WFMin, Zenon
  <1>4. QED
    BY <1>3 DEF R

\* A nonempty set of natural numbers has a smallest element.
LEMMA MinIsThere ==
  ASSUME NEW S, S \subseteq Nat, S # {}
  PROVE  Min(S) \in S /\ \A y \in S : Min(S) <= y
  <1>1. PICK m \in S : \A k \in S : <<k, m>> \notin OpToRel(<, Nat)
    BY WFMin, NatLessThanWellFounded, Zenon
  <1>2. \A k \in S : ~ (k < m)
    BY <1>1, Zenon DEF OpToRel
  <1>3. \A k \in S : m <= k
    BY <1>2
  <1>4. QED
    BY <1>3 DEF Min

\* A nonempty finite set of natural numbers has a largest element: a smallest
\* subset without one would lose it with any element.
LEMMA MaxIsThere ==
  ASSUME NEW S, S \subseteq Nat, S # {}, IsFiniteSet(S)
  PROVE  Max(S) \in S /\ \A y \in S : Max(S) >= y
  <1> DEFINE HasMax(X) == \E m \in X : \A y \in X : m >= y
             Bad == {X \in SUBSET S : X # {} /\ ~ HasMax(X)}
  <1>1. Bad = {}
    <2> SUFFICES ASSUME Bad # {} PROVE FALSE
      OBVIOUS
    <2>2. PICK X \in Bad : \A Y \in Bad : <<Y, X>> \notin StrictSubsetOrdering(S)
      BY SmallestSet
    <2>3. PICK x \in X : TRUE
      OBVIOUS
    <2>4. X \ {x} \notin Bad
      BY <2>2, <2>3 DEF StrictSubsetOrdering
    <2>5. CASE X \ {x} = {}
      BY <2>3, <2>5
    <2>6. CASE HasMax(X \ {x})
      <3>1. PICK m \in X \ {x} : \A y \in X \ {x} : m >= y
        BY <2>6
      <3>2. m \in Nat /\ x \in Nat
        BY <2>3
      <3>3. CASE m >= x
        BY <3>1, <3>3
      <3>4. CASE x >= m
        <4>1. \A y \in X : x >= y
          BY <3>1, <3>2, <3>4
        <4>2. QED
          BY <4>1, <2>3
      <3>5. QED
        BY <3>2, <3>3, <3>4
    <2>7. QED
      BY <2>4, <2>5, <2>6
  <1>2. HasMax(S)
    BY <1>1
  <1>3. QED
    BY <1>2 DEF Max

\* Within the widest threshold, the bucket is a threshold.
LEMMA BucketIsThreshold ==
  ASSUME NEW remaining \in Int, remaining <= Max(THRESHOLD_DAYS)
  PROVE  Bucket(remaining) \in THRESHOLD_DAYS
  <1> DEFINE wider == {t \in THRESHOLD_DAYS : remaining <= t}
  <1>1. Max(THRESHOLD_DAYS) \in THRESHOLD_DAYS
    <2>1. THRESHOLD_DAYS \subseteq Nat /\ THRESHOLD_DAYS # {} /\ IsFiniteSet(THRESHOLD_DAYS)
      BY RemindersAssumption
    <2>2. QED
      BY <2>1, MaxIsThere
  <1>2. wider # {} /\ wider \subseteq Nat
    BY <1>1, RemindersAssumption
  <1> HIDE DEF wider
  <1>3. Min(wider) \in wider
    BY <1>2, MinIsThere
  <1>4. QED
    BY <1>3 DEF wider, Bucket

\* One more of what was sent 0, 1 or 2 times, counted up to 2.
LEMMA OneMore ==
  ASSUME NEW n \in Nat
  PROVE  /\ Min({n + 1, 2}) \in Nat /\ Min({n + 1, 2}) >= 1
         /\ n = 0 => Min({n + 1, 2}) = 1
         /\ Min({n + 1, 2}) >= n \/ Min({n + 1, 2}) = 2
  <1> DEFINE m == Min({n + 1, 2})
  <1>1. m \in {n + 1, 2} /\ \A y \in {n + 1, 2} : m <= y
    BY MinIsThere
  <1> HIDE DEF m
  <1>2. m \in Nat /\ m >= 1 /\ (n = 0 => m = 1) /\ (m >= n \/ m = 2)
    BY <1>1
  <1>3. QED
    BY <1>2 DEF m

\* What is due on a day are reminders to be sent.
LEMMA DueArePairs == ReminderTypes => Due \subseteq Pairs
  <1> SUFFICES ASSUME ReminderTypes, NEW x \in Due PROVE x \in Pairs
    OBVIOUS
  <1>1. PICK d \in Documents :
          /\ x = <<d, Bucket(documents[d].expires - day)>> /\ documents[d].expires # NoDate
          /\ documents[d].expires - day <= Max(THRESHOLD_DAYS)
    BY DEF Due
  <1>2. documents[d].expires - day \in Int
    BY <1>1 DEF ReminderTypes, DocumentRow
  <1>3. QED
    BY <1>1, <1>2, BucketIsThreshold DEF Pairs

\* A run is closed, or has found some reminders on some day.
LEMMA RunKinds ==
  ASSUME ReminderTypes, NEW w \in Checkers
  PROVE  /\ NoRun.found = {}
         /\ checker[w] # NoRun => /\ checker[w].on \in 0 .. day
                                 /\ checker[w].found \subseteq Pairs
         /\ checker[w].found \subseteq Pairs
  BY DEF ReminderTypes, NoRun

\* What a run reminded of stays so: more is sent, documents go, and those that come
\* come on its day or later.
LEMMA RemindedStands ==
  ASSUME ReminderInv, ReminderTypes', NEW on \in 0 .. day, Reminded(on),
         \A x \in Pairs : sent'[x] >= sent[x] \/ sent'[x] >= 1,
         \A d \in Documents :
           \/ documents'[d] = documents[d]
           \/ ~ documents'[d].there
           \/ documents'[d].since = day
  PROVE  Reminded(on)'
  <1> SUFFICES ASSUME NEW d \in Documents, documents'[d].there, documents'[d].expires # NoDate,
                      documents'[d].since < on,
                      documents'[d].expires - on <= Max(THRESHOLD_DAYS)
               PROVE  sent'[<<d, Bucket(documents'[d].expires - on)>>] >= 1
    BY DEF Reminded
  <1> DEFINE bucket == Bucket(documents[d].expires - on)
  <1>1. day \in Nat /\ on \in Nat /\ on <= day
    BY DEF ReminderInv, ReminderTypes
  <1>2. documents'[d] = documents[d]
    BY <1>1
  <1>3. sent[<<d, bucket>>] >= 1
    BY <1>2 DEF Reminded
  <1>4. documents[d].expires - on \in Int
    BY <1>1, <1>2 DEF ReminderInv, ReminderTypes, DocumentRow
  <1>5. <<d, bucket>> \in Pairs
    BY <1>2, <1>4, BucketIsThreshold DEF Pairs
  <1> HIDE DEF bucket
  <1>6. sent[<<d, bucket>>] \in Nat /\ sent'[<<d, bucket>>] \in Nat
    BY <1>5 DEF ReminderInv, ReminderTypes
  <1>7. sent'[<<d, bucket>>] >= 1
    BY <1>3, <1>5, <1>6
  <1>8. QED
    BY <1>2, <1>7 DEF bucket

\* Days pass, documents come and go.
LEMMA DocumentsKeepReminders ==
  ASSUME ReminderInv, UNCHANGED <<stamps, sent, checker, checkedOn, repeated>>,
         \/ day' = day + 1 /\ UNCHANGED documents
         \/ /\ UNCHANGED day
            /\ \/ \E d \in Documents, e \in ExpiryDays \union {NoDate} : UploadDocument(d, e)
               \/ \E d \in Documents : DeleteDocument(d)
  PROVE  ReminderInv'
  <1>1. day \in Nat /\ day' \in Nat /\ day <= day'
    BY DEF ReminderInv, ReminderTypes
  <1>2. /\ documents' \in [Documents -> DocumentRow]
        /\ \A d \in Documents :
             \/ documents'[d] = documents[d]
             \/ ~ documents'[d].there
             \/ documents'[d].since = day
    <2>1. documents \in [Documents -> DocumentRow]
      BY DEF ReminderInv, ReminderTypes
    <2>2. CASE UNCHANGED documents
      BY <2>1, <2>2
    <2>3. ASSUME NEW d \in Documents, NEW e \in ExpiryDays \union {NoDate}, UploadDocument(d, e)
          PROVE  <1>2
      <3> DEFINE row == [there |-> TRUE, since |-> day, expires |-> e]
      <3>1. row \in DocumentRow /\ row.since = day
        BY <1>1, RemindersAssumption DEF DocumentRow
      <3>2. documents' = [documents EXCEPT ![d] = row]
        BY <2>3 DEF UploadDocument
      <3> HIDE DEF row
      <3>3. QED
        BY <2>1, <3>1, <3>2
    <2>4. ASSUME NEW d \in Documents, DeleteDocument(d) PROVE <1>2
      <3> DEFINE row == [documents[d] EXCEPT !.there = FALSE]
      <3>1. documents[d] \in DocumentRow
        BY <2>1
      <3>2. row \in DocumentRow /\ ~ row.there
        BY <3>1 DEF DocumentRow
      <3>3. documents' = [documents EXCEPT ![d] = row]
        BY <2>4 DEF DeleteDocument
      <3> HIDE DEF row
      <3>4. QED
        BY <2>1, <3>2, <3>3
    <2>5. QED
      BY <2>2, <2>3, <2>4
  <1>3. ReminderTypes'
    BY <1>1, <1>2 DEF ReminderInv, ReminderTypes
  <1>4. ASSUME NEW on \in 0 .. day, Reminded(on) PROVE Reminded(on)'
    <2>1. \A x \in Pairs : sent'[x] >= sent[x] \/ sent'[x] >= 1
      BY DEF ReminderInv, ReminderTypes
    <2>2. QED
      BY <1>2, <1>3, <1>4, <2>1, RemindedStands
  <1>5. \A on \in checkedOn' : Reminded(on)'
    BY <1>4 DEF ReminderInv, ReminderTypes
  <1>6. ASSUME NEW w \in Checkers, checker[w] # NoRun PROVE Reminded(checker[w].on)'
    <2>1. checker[w].on \in 0 .. day /\ Reminded(checker[w].on) /\ checker'[w] = checker[w]
      BY <1>6, RunKinds DEF ReminderInv
    <2>2. QED
      BY <2>1, <1>4
  <1>7. QED
    BY <1>3, <1>5, <1>6 DEF ReminderInv, SentOnce


\* A run sends what is due and not stamped; unless another one is open, nothing of
\* that was sent before.
LEMMA CheckKeepsReminders ==
  ASSUME ReminderInv, NEW w \in Checkers, CheckExpiry(w)
  PROVE  ReminderInv'
  <1> DEFINE found == Due \ stamps
             run == [on |-> day, found |-> found]
  <1>1. /\ checker[w] = NoRun /\ checker' = [checker EXCEPT ![w] = run]
        /\ sent' = [x \in Pairs |-> IF x \in found THEN Min({sent[x] + 1, 2}) ELSE sent[x]]
        /\ repeated' = (repeated \/ \E v \in Checkers \ {w} : checker[v] # NoRun)
        /\ UNCHANGED <<day, documents, stamps, checkedOn>>
    BY DEF CheckExpiry
  <1>2. found \subseteq Pairs
    BY DueArePairs DEF ReminderInv
  <1>3. run.on = day /\ run.found = found /\ run \in [on : 0 .. day, found : SUBSET Pairs]
    BY <1>2 DEF ReminderInv, ReminderTypes
  <1>4. \A x \in Due : x \in found \/ x \in stamps
    OBVIOUS
  <1> HIDE DEF found, run
  <1>5. /\ sent' \in [Pairs -> Nat]
        /\ \A x \in Pairs : sent'[x] >= sent[x] \/ sent'[x] >= 1
        /\ \A x \in found : sent'[x] >= 1 /\ (sent[x] = 0 => sent'[x] = 1)
        /\ \A x \in Pairs \ found : sent'[x] = sent[x]
    <2>1. sent \in [Pairs -> Nat]
      BY DEF ReminderInv, ReminderTypes
    <2>2. ASSUME NEW x \in Pairs
          PROVE  /\ sent'[x] \in Nat
                 /\ sent'[x] >= sent[x] \/ sent'[x] >= 1
                 /\ x \in found => sent'[x] >= 1 /\ (sent[x] = 0 => sent'[x] = 1)
                 /\ x \notin found => sent'[x] = sent[x]
      <3>1. sent[x] \in Nat
        BY <2>1
      <3>2. sent'[x] = IF x \in found THEN Min({sent[x] + 1, 2}) ELSE sent[x]
        BY <1>1
      <3>3. QED
        BY <3>1, <3>2, OneMore
    <2>3. QED
      BY <1>1, <1>2, <2>2
  <1>6. /\ checker \in [Checkers -> {NoRun} \union [on : 0 .. day, found : SUBSET Pairs]]
        /\ checker'[w] = run /\ \A v \in Checkers \ {w} : checker'[v] = checker[v]
    BY <1>1 DEF ReminderInv, ReminderTypes
  <1>7. ReminderTypes'
    BY <1>1, <1>3, <1>5, <1>6 DEF ReminderInv, ReminderTypes
  <1>8. \A x \in Pairs : sent[x] >= 1 => sent'[x] >= 1
    BY <1>5 DEF ReminderInv, ReminderTypes
  <1>9. ASSUME NEW on \in 0 .. day, Reminded(on) PROVE Reminded(on)'
    BY <1>1, <1>5, <1>7, <1>9, RemindedStands
  <1>10. \A x \in stamps' : sent'[x] >= 1
    BY <1>1, <1>8 DEF ReminderInv, ReminderTypes
  <1>11. ASSUME NEW v \in Checkers, NEW x \in checker'[v].found PROVE sent'[x] >= 1
    BY <1>3, <1>5, <1>6, <1>8, <1>11, RunKinds DEF ReminderInv
  <1>12. Reminded(day)'
    <2> SUFFICES ASSUME NEW d \in Documents, documents'[d].there, documents'[d].expires # NoDate,
                        documents'[d].since < day',
                        documents'[d].expires - day' <= Max(THRESHOLD_DAYS)
                 PROVE  sent'[<<d, Bucket(documents'[d].expires - day')>>] >= 1
      BY DEF Reminded
    <2> DEFINE x == <<d, Bucket(documents[d].expires - day)>>
    <2>1. x \in Due
      BY <1>1 DEF Due
    <2>2. x \in Pairs
      BY <2>1, DueArePairs DEF ReminderInv
    <2> HIDE DEF x
    <2>3. sent'[x] >= 1
      BY <1>1, <1>4, <1>5, <1>10, <2>1, <2>2
    <2>4. QED
      BY <1>1, <2>3 DEF x
  <1>13. ASSUME NEW v \in Checkers, checker'[v] # NoRun PROVE (Reminded(checker[v].on))'
    <2>1. CASE v = w
      BY <1>1, <1>3, <1>6, <1>12, <2>1
    <2>2. CASE v # w
      <3>1. checker[v] = checker'[v] /\ checker[v].on \in 0 .. day /\ Reminded(checker[v].on)
        BY <1>6, <1>13, <2>2, RunKinds DEF ReminderInv
      <3>2. QED
        BY <3>1, <1>9
    <2>3. QED
      BY <2>1, <2>2
  <1>14. \A on \in checkedOn' : Reminded(on)'
    BY <1>1, <1>9 DEF ReminderInv, ReminderTypes
  <1>15. ASSUME ~ repeated' PROVE SentOnce'
    <2>1. SentOnce /\ \A v \in Checkers \ {w} : checker[v] = NoRun
      BY <1>1, <1>15 DEF ReminderInv
    <2>2. \A v \in Checkers : checker[v].found = {}
      BY <1>1, <2>1 DEF NoRun
    <2>3. \A x \in Pairs : sent[x] <= 1 /\ (sent[x] = 1 => x \in stamps) /\ sent[x] \in Nat
      BY <2>1, <2>2, <1>7 DEF SentOnce, ReminderInv, ReminderTypes
    <2>4. \A x \in found : sent[x] = 0
      <3>1. \A x \in found : x \notin stamps
        BY DEF found
      <3>2. QED
        BY <1>2, <2>3, <3>1
    <2>5. \A x \in Pairs : /\ sent'[x] <= 1
                           /\ sent'[x] = 1 => x \in stamps \/ x \in checker'[w].found
      BY <1>3, <1>5, <1>6, <2>3, <2>4
    <2>6. \A v, u \in Checkers : checker'[v] # NoRun /\ checker'[u] # NoRun => v = u
      BY <1>6, <2>1
    <2>7. QED
      BY <1>1, <2>5, <2>6 DEF SentOnce
  <1>16. QED
    BY <1>7, <1>10, <1>11, <1>13, <1>14, <1>15 DEF ReminderInv

\* A run ends: what it found is stamped, or, when it fails, will be sent again.
LEMMA EndKeepsReminders ==
  ASSUME ReminderInv, NEW w \in Checkers, CommitStamps(w) \/ CheckFails(w)
  PROVE  ReminderInv'
  <1>1. /\ checker[w] # NoRun /\ checker' = [checker EXCEPT ![w] = NoRun]
        /\ UNCHANGED <<day, documents, sent>>
        /\ checkedOn' \subseteq checkedOn \union {checker[w].on}
        /\ \/ stamps' = stamps \union checker[w].found /\ repeated' = repeated
           \/ stamps' = stamps /\ repeated' = TRUE
    BY DEF CommitStamps, CheckFails
  <1>2. /\ checker \in [Checkers -> {NoRun} \union [on : 0 .. day, found : SUBSET Pairs]]
        /\ checker'[w] = NoRun /\ \A v \in Checkers \ {w} : checker'[v] = checker[v]
        /\ checker[w].on \in 0 .. day /\ checker[w].found \subseteq Pairs /\ NoRun.found = {}
    BY <1>1, RunKinds DEF ReminderInv, ReminderTypes
  <1>3. ReminderTypes'
    BY <1>1, <1>2 DEF ReminderInv, ReminderTypes
  <1>4. ASSUME NEW on, Reminded(on) PROVE Reminded(on)'
    BY <1>1, <1>4 DEF Reminded
  <1>5. \A on \in checkedOn' : Reminded(on)'
    BY <1>1, <1>4 DEF ReminderInv
  <1>6. ASSUME NEW v \in Checkers, checker'[v] # NoRun PROVE (Reminded(checker[v].on))'
    <2>1. checker[v] = checker'[v] /\ Reminded(checker[v].on)
      BY <1>2, <1>6 DEF ReminderInv
    <2>2. QED
      BY <2>1, <1>4
  <1>7. \A x \in stamps' : sent'[x] >= 1
    BY <1>1 DEF ReminderInv
  <1>8. \A v \in Checkers : \A x \in checker'[v].found : sent'[x] >= 1
    BY <1>1, <1>2 DEF ReminderInv
  <1>9. ASSUME ~ repeated' PROVE SentOnce'
    <2>1. SentOnce /\ stamps' = stamps \union checker[w].found
      BY <1>1, <1>9 DEF ReminderInv
    <2>2. \A v \in Checkers : checker'[v] = NoRun
      BY <1>1, <1>2, <2>1 DEF SentOnce
    <2>3. ASSUME NEW x \in Pairs, sent'[x] = 1 PROVE x \in stamps'
      <3>1. x \in stamps \/ \E v \in Checkers : x \in checker[v].found
        BY <1>1, <2>1, <2>3 DEF SentOnce
      <3>2. CASE \E v \in Checkers : x \in checker[v].found
        <4>1. PICK v \in Checkers : x \in checker[v].found
          BY <3>2
        <4>2. checker[v] # NoRun
          BY <4>1, <1>2
        <4>3. v = w
          BY <4>2, <1>1, <2>1 DEF SentOnce
        <4>4. QED
          BY <4>1, <4>3, <2>1
      <3>3. QED
        BY <3>1, <3>2, <2>1
    <2>4. \A x \in Pairs : sent'[x] <= 1
      BY <1>1, <2>1 DEF SentOnce
    <2>5. QED
      BY <2>2, <2>3, <2>4 DEF SentOnce
  <1>10. QED
    BY <1>3, <1>5, <1>6, <1>7, <1>8, <1>9 DEF ReminderInv

\* Any step of the clock, of a document or of a run.
LEMMA ReminderInductive == ReminderInv /\ [ReminderNext]_reminderVars => ReminderInv'
  <1>1. ASSUME ReminderInv, UNCHANGED reminderVars PROVE ReminderInv'
    BY <1>1 DEF reminderVars, ReminderInv, ReminderTypes, Reminded, SentOnce
  <1>2. ASSUME ReminderInv, NextDay PROVE ReminderInv'
    BY <1>2, DocumentsKeepReminders DEF NextDay
  <1>3. ASSUME ReminderInv, NEW d \in Documents,
               DeleteDocument(d) \/ \E e \in ExpiryDays \union {NoDate} : UploadDocument(d, e)
        PROVE  ReminderInv'
    <2>1. UNCHANGED <<day, stamps, sent, checker, checkedOn, repeated>>
      BY <1>3 DEF DeleteDocument, UploadDocument
    <2>2. QED
      BY <1>3, <2>1, DocumentsKeepReminders
  <1>4. QED
    BY <1>1, <1>2, <1>3, CheckKeepsReminders, EndKeepsReminders DEF ReminderNext

\* RemindedOncePerThreshold: whatever day a run ended well on, each document that was
\* there before that day has been reminded of, once, unless a run failed or overlapped.
THEOREM RemindersGoOutOnce == ReminderSpec => []RemindedOncePerThreshold
  <1>1. ReminderInit => ReminderInv
    <2> SUFFICES ASSUME ReminderInit PROVE ReminderInv
      OBVIOUS
    <2>1. NeverThere \in DocumentRow
      BY DEF NeverThere, DocumentRow
    <2>2. ReminderTypes
      BY <2>1 DEF ReminderInit, ReminderTypes
    <2>3. \A w \in Checkers : checker[w] = NoRun /\ checker[w].found = {}
      BY DEF ReminderInit, NoRun
    <2>4. \A x \in Pairs : sent[x] = 0
      BY DEF ReminderInit
    <2>5. QED
      BY <2>2, <2>3, <2>4 DEF ReminderInit, ReminderInv, SentOnce
  <1>2. ReminderInv => RemindedOncePerThreshold
    BY DEF ReminderInv, RemindedOncePerThreshold, SentOnce, Reminded
  <1>3. QED
    BY <1>1, <1>2, ReminderInductive, PTL DEF ReminderSpec

-----------------------------------------------------------------------------
(* Reviews *)

\* Functions that add up the values of w over every set of elements of S.
Additive(w, S) ==
  { g \in [SUBSET S -> Nat] :
      g[{}] = 0 /\ \A T \in SUBSET S : \A x \in T : g[T] = w[x] + g[T \ {x}] }

\* There is one for each finite set: the smallest set without one would get it from
\* the set with one element less.
LEMMA AdditiveExists ==
  ASSUME NEW S, IsFiniteSet(S), NEW w, \A x \in S : w[x] \in Nat
  PROVE  \E g : g \in Additive(w, S)
  <1> DEFINE Bad == {X \in SUBSET S : ~ \E g : g \in Additive(w, X)}
  <1>1. Bad = {}
    <2> SUFFICES ASSUME Bad # {} PROVE FALSE
      OBVIOUS
    <2>1. PICK X \in Bad : \A Y \in Bad : <<Y, X>> \notin StrictSubsetOrdering(S)
      BY SmallestSet
    <2>2. X # {}
      <3>1. ASSUME X = {} PROVE FALSE
        <4> DEFINE none == [T \in SUBSET X |-> 0]
        <4>1. none \in Additive(w, X)
          BY <3>1 DEF Additive
        <4>2. QED
          BY <2>1, <4>1
      <3>2. QED
        BY <3>1
    <2>3. PICK x \in X : TRUE
      BY <2>2
    <2>4. PICK g : g \in Additive(w, X \ {x})
      <3>1. X \ {x} \notin Bad
        BY <2>1, <2>3 DEF StrictSubsetOrdering
      <3>2. QED
        BY <3>1
    <2> DEFINE next == [T \in SUBSET X |-> IF x \in T THEN g[T \ {x}] + w[x] ELSE g[T]]
    <2>5. /\ g \in [SUBSET (X \ {x}) -> Nat] /\ g[{}] = 0
          /\ \A T \in SUBSET (X \ {x}) : \A y \in T : g[T] = w[y] + g[T \ {y}]
      BY <2>4 DEF Additive
    <2>6. \A y \in X : w[y] \in Nat
      OBVIOUS
    <2>7. next \in [SUBSET X -> Nat] /\ next[{}] = 0
      BY <2>3, <2>5, <2>6
    <2>8. ASSUME NEW T \in SUBSET X, NEW y \in T PROVE next[T] = w[y] + next[T \ {y}]
      <3>1. CASE y = x
        BY <2>5, <2>6, <3>1
      <3>2. CASE y # x /\ x \in T
        <4>1. (T \ {x}) \ {y} = (T \ {y}) \ {x}
          OBVIOUS
        <4>2. g[T \ {x}] = w[y] + g[(T \ {y}) \ {x}]
          BY <2>5, <3>2, <4>1
        <4>3. next[T] = g[T \ {x}] + w[x] /\ next[T \ {y}] = g[(T \ {y}) \ {x}] + w[x]
          BY <3>2
        <4>4. g[(T \ {y}) \ {x}] \in Nat /\ w[x] \in Nat /\ w[y] \in Nat
          BY <2>3, <2>5, <2>6
        <4>5. QED
          BY <4>2, <4>3, <4>4
      <3>3. CASE x \notin T
        BY <2>5, <3>3
      <3>4. QED
        BY <3>1, <3>2, <3>3
    <2>9. next \in Additive(w, X)
      BY <2>7, <2>8 DEF Additive
    <2>10. QED
      BY <2>1, <2>9
  <1>2. QED
    BY <1>1

\* What the library's sum over a finite set is.
LEMMA SumIsAdditive ==
  ASSUME NEW S, IsFiniteSet(S), NEW rated, NEW w, \A x \in S : rated[x].rating = w[x],
         NEW g \in Additive(w, S)
  PROVE  Stars(rated, S) = g[S]
  <1> DEFINE one(s)   == CHOOSE x \in s : TRUE
             Step(f)  == [s \in SUBSET S |-> IF s = {} THEN 0
                                             ELSE rated[one(s)].rating + f[s \ {one(s)}]]
             sum      == CHOOSE f : f = Step(f)
             Bad      == {X \in SUBSET S : sum[X] # g[X]}
  <1>1. Stars(rated, S) = sum[S]
    BY DEF Stars, MapThenSumSet, MapThenFoldSet
  <1>2. g \in [SUBSET S -> Nat] /\ g[{}] = 0
        /\ \A T \in SUBSET S : \A x \in T : g[T] = w[x] + g[T \ {x}]
    BY DEF Additive
  <1>3. \A s \in SUBSET S : s # {} => one(s) \in s
    OBVIOUS
  <1>4. g = Step(g)
    <2> HIDE DEF one
    <2>1. ASSUME NEW s \in SUBSET S, s # {}
          PROVE  g[s] = rated[one(s)].rating + g[s \ {one(s)}]
      BY <1>2, <1>3, <2>1
    <2>2. QED
      BY <1>2, <2>1
  <1>5. sum = Step(sum)
    <2> HIDE DEF Step
    <2>1. QED
      BY <1>4
  <1>6. Bad = {}
    <2> SUFFICES ASSUME Bad # {} PROVE FALSE
      OBVIOUS
    <2>1. PICK X \in Bad : \A Y \in Bad : <<Y, X>> \notin StrictSubsetOrdering(S)
      BY SmallestSet
    <2>2. X # {}
      <3> HIDE DEF sum
      <3>1. sum[{}] = 0
        BY <1>5
      <3>2. QED
        BY <1>2, <2>1, <3>1
    <2>3. one(X) \in X
      BY <1>3, <2>2
    <2> HIDE DEF one, sum
    <2>4. sum[X] = rated[one(X)].rating + sum[X \ {one(X)}]
      BY <1>5, <2>2
    <2>5. sum[X \ {one(X)}] = g[X \ {one(X)}]
      <3> DEFINE Y == X \ {one(X)}
      <3>1. Y \in SUBSET S /\ <<Y, X>> \in StrictSubsetOrdering(S)
        BY <2>1, <2>3 DEF StrictSubsetOrdering
      <3>2. Y \notin Bad
        BY <2>1, <3>1
      <3>3. QED
        BY <3>1, <3>2
    <2>6. QED
      BY <1>2, <2>1, <2>3, <2>4, <2>5
  <1>7. QED
    BY <1>1, <1>6

\* What division leaves is less than the divisor.
LEMMA Quotient ==
  ASSUME NEW a \in Nat, NEW m \in Nat \ {0}
  PROVE  a \div m \in Nat /\ m * (a \div m) <= a /\ a < m * (a \div m) + m
  OBVIOUS

\* The sum is the same for rows that agree on the set.
LEMMA SumOfSameRows ==
  ASSUME NEW S, IsFiniteSet(S), NEW rated, NEW next,
         \A x \in S : rated[x].rating \in Nat /\ next[x].rating = rated[x].rating
  PROVE  /\ Stars(rated, S) \in Nat
         /\ Stars(next, S) = Stars(rated, S)
  <1> DEFINE w == [x \in S |-> rated[x].rating]
  <1>1. \A x \in S : w[x] \in Nat /\ rated[x].rating = w[x] /\ next[x].rating = w[x]
    OBVIOUS
  <1> HIDE DEF w
  <1>2. PICK g : g \in Additive(w, S)
    BY <1>1, AdditiveExists
  <1>3. /\ Stars(rated, S) = g[S]
        /\ Stars(next, S) = g[S]
    BY <1>1, <1>2, SumIsAdditive
  <1>4. g[S] \in Nat
    BY <1>2 DEF Additive
  <1>5. QED
    BY <1>3, <1>4

\* A sum over a set with one more element is the sum over the set and that element.
LEMMA SumWithOneMore ==
  ASSUME NEW S, IsFiniteSet(S), NEW rated, NEW b, b \notin S,
         \A x \in S \union {b} : rated[x].rating \in Nat
  PROVE  Stars(rated, S \union {b}) = Stars(rated, S) + rated[b].rating
  <1> DEFINE Z == S \union {b}
             w == [x \in Z |-> rated[x].rating]
  <1>1. IsFiniteSet(Z) /\ \A x \in Z : w[x] \in Nat /\ rated[x].rating = w[x]
    BY FS_AddElement
  <1>2. b \in Z /\ Z \ {b} = S /\ S \subseteq Z
    OBVIOUS
  <1> HIDE DEF w, Z
  <1>3. PICK g : g \in Additive(w, Z)
    BY <1>1, AdditiveExists
  <1>4. g[Z] = w[b] + g[S] /\ g[S] \in Nat /\ w[b] \in Nat
    BY <1>1, <1>2, <1>3 DEF Additive
  <1>5. Stars(rated, Z) = g[Z]
    BY <1>1, <1>3, SumIsAdditive
  <1>6. Stars(rated, S) = g[S]
    <2> DEFINE k == [T \in SUBSET S |-> g[T]]
    <2>1. k \in Additive(w, S)
      BY <1>2, <1>3 DEF Additive
    <2>2. \A x \in S : rated[x].rating = w[x]
      BY <1>1, <1>2
    <2>3. k[S] = g[S]
      OBVIOUS
    <2> HIDE DEF k
    <2>4. QED
      BY <2>1, <2>2, <2>3, SumIsAdditive
  <1>7. QED
    BY <1>1, <1>2, <1>4, <1>5, <1>6 DEF Z

\* The mean as update_detailer_aggregate computes it, rounded once more, is at most
\* one hundredth per review further off.
LEMMA MeanStep ==
  ASSUME NEW a \in Aggregate, NEW rating \in Ratings, a.average # NoAverage,
         NEW mean \in Int, NEW k \in Nat, Distance(a.average * a.total, mean) <= a.total * k,
         Including(a, rating).average # NoAverage
  PROVE  Distance(Including(a, rating).average * Including(a, rating).total, mean + 100 * rating)
           <= Including(a, rating).total * (k + 1)
  <1> DEFINE n == a.total + 1
             p == a.average * a.total
             q == (2 * (p + 100 * rating) + n) \div (2 * n)
             r == q * n
             s == a.total * k
  <1>1. rating \in Nat /\ a.total \in Nat /\ a.average \in Nat
    BY ReviewsAssumption DEF Aggregate
  <1>2. n \in Nat \ {0} /\ p \in Nat /\ s \in Nat
    BY <1>1
  <1>3. Including(a, rating).total = n /\ Including(a, rating).average = q
    BY DEF Including
  <1> HIDE DEF n, p
  <1>4. q \in Nat /\ 2 * n * q <= 2 * (p + 100 * rating) + n
                  /\ 2 * (p + 100 * rating) + n < 2 * n * q + 2 * n
    <2>1. 2 * (p + 100 * rating) + n \in Nat /\ 2 * n \in Nat \ {0}
      BY <1>1, <1>2
    <2>2. QED
      BY <2>1, Quotient
  <1> HIDE DEF q
  <1>5. r \in Nat /\ 2 * n * q = 2 * r
    BY <1>2, <1>4
  <1>6. n * (k + 1) = s + k + n
    BY <1>1 DEF n
  <1>7. Distance(p, mean) <= s
    BY DEF p
  <1> HIDE DEF r, s
  <1>8. Distance(r, mean + 100 * rating) <= s + k + n
    BY <1>1, <1>2, <1>4, <1>5, <1>7 DEF Distance
  <1>9. QED
    BY <1>3, <1>6, <1>8 DEF r

\* A column of numbers stays one.
LEMMA IncludingIsAggregate ==
  ASSUME NEW a \in Aggregate, NEW rating \in Ratings
  PROVE  /\ Including(a, rating) \in Aggregate /\ Including(a, rating).total = a.total + 1
         /\ a.average = NoAverage => Including(a, rating).average = NoAverage
  <1> DEFINE n == a.total + 1
             t == 2 * (a.average * a.total + 100 * rating) + n
  <1>1. n \in Nat \ {0} /\ 2 * n \in Nat \ {0} /\ rating \in Nat /\ a.total \in Nat
    BY ReviewsAssumption DEF Aggregate
  <1>2. ASSUME a.average # NoAverage PROVE t \div (2 * n) \in Nat
    <2>1. a.average * a.total \in Nat
      BY <1>1, <1>2 DEF Aggregate
    <2>2. t \in Nat
      BY <1>1, <2>1
    <2> HIDE DEF n, t
    <2>3. QED
      BY <1>1, <2>2, Quotient
  <1>3. QED
    BY <1>1, <1>2 DEF Including, Aggregate

\* The sum of the stars given.
LEMMA StarsAreNumbers ==
  ASSUME ReviewTypes
  PROVE  /\ Given \subseteq Reviewed /\ IsFiniteSet(Given) /\ Cardinality(Given) \in Nat
         /\ \A b \in Given : reviewRows[b] \in ReviewRow /\ reviewRows[b].rating \in Nat
  <1>1. IsFiniteSet(Given) /\ Given \subseteq Reviewed
    BY DEF ReviewTypes, Given
  <1>2. Cardinality(Given) \in Nat
    BY <1>1, FS_CardinalityType
  <1>3. \A b \in Given : reviewRows[b] \in ReviewRow
    BY DEF ReviewTypes, Given
  <1>4. \A b \in Given : reviewRows[b].rating \in Nat
    <2>1. Ratings \subseteq Nat
      BY ReviewsAssumption
    <2>2. QED
      BY <1>3, <2>1 DEF ReviewRow
  <1>5. QED
    BY <1>1, <1>2, <1>3, <1>4

\* What is counted stays counted while ratings and aggregate stay.
LEMMA CountStays ==
  ASSUME ReviewTypes, EveryReviewCounted, UNCHANGED <<aggregate, inherited>>, Given' = Given,
         \A b \in Given : reviewRows'[b].rating = reviewRows[b].rating
  PROVE  EveryReviewCounted'
  <1> DEFINE before == Stars(reviewRows, Given)
             after  == Stars(reviewRows', Given)
  <1>1. after = before
    <2>1. /\ IsFiniteSet(Given)
          /\ \A b \in Given : reviewRows[b].rating \in Nat /\ reviewRows'[b].rating = reviewRows[b].rating
      BY StarsAreNumbers
    <2>2. QED
      BY <2>1, SumOfSameRows
  <1>2. /\ aggregate.total = inherited.total + Cardinality(Given)
        /\ aggregate.average # NoAverage =>
             Distance(aggregate.average * aggregate.total,
                      inherited.average * inherited.total + 100 * before)
               <= aggregate.total * Cardinality(Given)
    BY DEF EveryReviewCounted
  <1> HIDE DEF before, after
  <1>3. /\ aggregate'.total = inherited'.total + Cardinality(Given)
        /\ aggregate'.average # NoAverage =>
             Distance(aggregate'.average * aggregate'.total,
                      inherited'.average * inherited'.total + 100 * after)
               <= aggregate'.total * Cardinality(Given)
    BY <1>1, <1>2
  <1>4. QED
    BY <1>3 DEF EveryReviewCounted, after

\* A request that commits nothing leaves what its own row says, to be shown.
LEMMA RequestKeepsReviews ==
  ASSUME ReviewInv, NEW c \in ReviewCalls, reviewTxn' = [reviewTxn EXCEPT ![c] = reviewTxn'[c]],
         reviewTxn' \in [ReviewCalls ->
           {IdleReview} \union [op : {"checked", "inserted"}, of : Reviewed, rating : Ratings]
             \union [op : {"added"}, of : Reviewed, rating : Ratings, sum : Aggregate]],
         UNCHANGED <<reviewRows, aggregate, inherited, moderating>>,
         reviewTxn'[c].op = "added" => reviewTxn[c].op = "inserted" /\ reviewTxn'[c].of = reviewTxn[c].of,
         ReviewHeld(c)'
  PROVE  ReviewInv'
  <1>1. \A d \in ReviewCalls \ {c} : reviewTxn'[d] = reviewTxn[d]
    BY DEF ReviewInv, ReviewTypes
  <1>2. ReviewTypes'
    BY DEF ReviewInv, ReviewTypes, Given
  <1>3. ASSUME NEW d \in ReviewCalls \ {c} PROVE ReviewHeld(d)'
    BY <1>1 DEF ReviewInv, ReviewHeld, Inserting, Adding, Given
  <1>4. Given' = Given /\ \A b \in Given : reviewRows'[b].rating = reviewRows[b].rating
    BY DEF Given
  <1>5. EveryReviewCounted'
    BY <1>4, CountStays DEF ReviewInv
  <1>6. \A d \in ReviewCalls : ReviewHeld(d)'
    BY <1>3
  <1>7. inherited'.average = NoAverage => aggregate'.average = NoAverage
    BY DEF ReviewInv
  <1>8. QED
    BY <1>2, <1>5, <1>6, <1>7 DEF ReviewInv

\* The kinds of request, by their op.
LEMMA ReviewKinds ==
  ASSUME ReviewTypes, NEW c \in ReviewCalls
  PROVE  /\ reviewTxn[c].op \in {"checked", "inserted"} =>
              reviewTxn[c] \in [op : {"checked", "inserted"}, of : Reviewed, rating : Ratings]
         /\ reviewTxn[c].op = "added" =>
              reviewTxn[c] \in [op : {"added"}, of : Reviewed, rating : Ratings, sum : Aggregate]
         /\ IdleReview.op = "idle"
  <1>1. reviewTxn[c] \in {IdleReview}
          \union [op : {"checked", "inserted"}, of : Reviewed, rating : Ratings]
          \union [op : {"added"}, of : Reviewed, rating : Ratings, sum : Aggregate]
    BY DEF ReviewTypes
  <1>2. IdleReview.op = "idle"
    BY DEF IdleReview
  <1>3. QED
    BY <1>1, <1>2

\* create_review's check, its INSERT, and an end without a commit.
LEMMA InsertKeepsReviews ==
  ASSUME ReviewInv, NEW c \in ReviewCalls,
         \/ InsertReview(c) \/ AbortReview(c)
         \/ \E b \in Reviewed, rating \in Ratings : CheckReview(c, b, rating)
  PROVE  ReviewInv'
  <1>1. ReviewTypes /\ IdleReview.op = "idle"
    BY ReviewKinds DEF ReviewInv
  <1>2. ASSUME NEW t \in {IdleReview} \union [op : {"checked"}, of : Reviewed, rating : Ratings],
               reviewTxn' = [reviewTxn EXCEPT ![c] = t],
               UNCHANGED <<reviewRows, aggregate, inherited, moderating>>
        PROVE  ReviewInv'
    <2>1. t.op \in {"idle", "checked"}
      BY <1>1
    <2>2. /\ reviewTxn' = [reviewTxn EXCEPT ![c] = reviewTxn'[c]] /\ reviewTxn'[c] = t
          /\ reviewTxn' \in [ReviewCalls ->
               {IdleReview} \union [op : {"checked", "inserted"}, of : Reviewed, rating : Ratings]
                 \union [op : {"added"}, of : Reviewed, rating : Ratings, sum : Aggregate]]
      BY <1>1, <1>2 DEF ReviewTypes
    <2>3. ReviewHeld(c)'
      BY <2>1, <2>2 DEF ReviewHeld
    <2>4. QED
      BY <1>2, <2>1, <2>2, <2>3, RequestKeepsReviews
  <1>3. CASE AbortReview(c)
    BY <1>2, <1>3 DEF AbortReview
  <1>4. ASSUME NEW b \in Reviewed, NEW rating \in Ratings, CheckReview(c, b, rating)
        PROVE  ReviewInv'
    <2> DEFINE t == [op |-> "checked", of |-> b, rating |-> rating]
    <2>1. t \in [op : {"checked"}, of : Reviewed, rating : Ratings]
      OBVIOUS
    <2> HIDE DEF t
    <2>2. reviewTxn' = [reviewTxn EXCEPT ![c] = t]
      BY <1>4 DEF CheckReview, t
    <2>3. QED
      BY <1>2, <1>4, <2>1, <2>2 DEF CheckReview
  <1>5. CASE InsertReview(c)
    <2>1. reviewTxn[c] \in [op : {"checked", "inserted"}, of : Reviewed, rating : Ratings]
      BY <1>1, <1>5, ReviewKinds DEF InsertReview
    <2>2. CASE reviewRows[reviewTxn[c].of] # NoReview
      BY <1>2, <1>5, <2>2 DEF InsertReview
    <2>3. CASE reviewRows[reviewTxn[c].of] = NoReview
      <3> DEFINE t == [reviewTxn[c] EXCEPT !.op = "inserted"]
      <3>1. /\ t \in [op : {"inserted"}, of : Reviewed, rating : Ratings]
            /\ t.op = "inserted" /\ t.of = reviewTxn[c].of
        BY <2>1
      <3>2. reviewTxn' = [reviewTxn EXCEPT ![c] = t]
        BY <1>5, <2>3 DEF InsertReview
      <3> HIDE DEF t
      <3>3. /\ reviewTxn' = [reviewTxn EXCEPT ![c] = reviewTxn'[c]] /\ reviewTxn'[c] = t
            /\ \A d \in ReviewCalls \ {c} : reviewTxn'[d] = reviewTxn[d]
            /\ reviewTxn' \in [ReviewCalls ->
                 {IdleReview} \union [op : {"checked", "inserted"}, of : Reviewed, rating : Ratings]
                   \union [op : {"added"}, of : Reviewed, rating : Ratings, sum : Aggregate]]
        BY <1>1, <3>1, <3>2 DEF ReviewTypes
      <3>4. UNCHANGED <<reviewRows, aggregate, inherited, moderating>>
        BY <1>5 DEF InsertReview
      <3>5. ReviewHeld(c)'
        BY <1>5, <2>3, <3>1, <3>3, <3>4 DEF InsertReview, ReviewHeld, Inserting, Given
      <3>6. QED
        BY <3>1, <3>3, <3>4, <3>5, RequestKeepsReviews
    <2>4. QED
      BY <2>2, <2>3
  <1>6. QED
    BY <1>3, <1>4, <1>5

\* update_detailer_aggregate holds the profile's row from here to the commit.
LEMMA AddKeepsReviews ==
  ASSUME ReviewInv, NEW c \in ReviewCalls, AddToAggregate(c)
  PROVE  ReviewInv'
  <1> DEFINE m == reviewTxn[c]
             t == [op |-> "added", of |-> m.of, rating |-> m.rating,
                   sum |-> Including(aggregate, m.rating)]
  <1>1. ReviewTypes /\ m.op = "inserted" /\ ~ Adding(c)
    BY DEF ReviewInv, AddToAggregate, Add
  <1>2. m \in [op : {"checked", "inserted"}, of : Reviewed, rating : Ratings]
    BY <1>1, ReviewKinds
  <1>3. Including(aggregate, m.rating) \in Aggregate
    BY <1>1, <1>2, IncludingIsAggregate DEF ReviewTypes
  <1>4. /\ t \in [op : {"added"}, of : Reviewed, rating : Ratings, sum : Aggregate]
        /\ t.op = "added" /\ t.of = m.of /\ t.rating = m.rating
        /\ t.sum = Including(aggregate, t.rating)
    BY <1>2, <1>3
  <1>5. /\ reviewTxn' = [reviewTxn EXCEPT ![c] = t]
        /\ UNCHANGED <<reviewRows, aggregate, inherited, moderating>>
    BY DEF AddToAggregate, Add
  <1> HIDE DEF t
  <1>6. /\ reviewTxn' = [reviewTxn EXCEPT ![c] = reviewTxn'[c]] /\ reviewTxn'[c] = t
        /\ \A d \in ReviewCalls \ {c} : reviewTxn'[d] = reviewTxn[d]
        /\ reviewTxn' \in [ReviewCalls ->
             {IdleReview} \union [op : {"checked", "inserted"}, of : Reviewed, rating : Ratings]
               \union [op : {"added"}, of : Reviewed, rating : Ratings, sum : Aggregate]]
    BY <1>1, <1>4, <1>5 DEF ReviewTypes
  <1>7. m.of \notin Given /\ ~ Inserting(c, m.of)
    BY <1>1 DEF ReviewInv, ReviewHeld
  <1>8. Including(aggregate', t.rating) = Including(aggregate, t.rating)
    BY <1>5
  <1>9. /\ t.of \notin Given /\ Given' = Given
        /\ \A d \in ReviewCalls \ {c} :
             /\ reviewTxn'[d].op # "added"
             /\ reviewTxn'[d].op = "inserted" => reviewTxn'[d].of # t.of
    BY <1>1, <1>4, <1>5, <1>6, <1>7 DEF Adding, Inserting, Given
  <1>10. ReviewHeld(c)'
    BY <1>4, <1>5, <1>6, <1>8, <1>9 DEF ReviewHeld, Inserting, Adding
  <1>11. QED
    BY <1>1, <1>4, <1>5, <1>6, <1>10, RequestKeepsReviews

\* The commit of a review: one more is given, and one more counted.
LEMMA CommitKeepsReviews ==
  ASSUME ReviewInv, NEW c \in ReviewCalls, CommitReview(c)
  PROVE  ReviewInv'
  <1> DEFINE m   == reviewTxn[c]
             b   == m.of
             new == [rating |-> m.rating, state |-> "auto_pending"]
  <1>1. ReviewTypes /\ m.op = "added" /\ IdleReview.op = "idle"
    BY ReviewKinds DEF ReviewInv, CommitReview
  <1>2. m \in [op : {"added"}, of : Reviewed, rating : Ratings, sum : Aggregate]
    BY <1>1, ReviewKinds
  <1>3. /\ b \in Reviewed \ Given /\ ~ Inserting(c, b) /\ ~ Adding(c)
        /\ m.sum = Including(aggregate, m.rating)
    BY <1>1, <1>2 DEF ReviewInv, ReviewHeld
  <1>4. new \in ReviewRow /\ new # NoReview /\ new.rating = m.rating
    BY <1>2, ReviewsAssumption DEF ReviewRow, ReviewStates
  <1>5. /\ reviewRows' = [reviewRows EXCEPT ![b] = new] /\ aggregate' = m.sum
        /\ reviewTxn' = [reviewTxn EXCEPT ![c] = IdleReview]
        /\ UNCHANGED <<inherited, moderating>>
    BY DEF CommitReview
  <1> HIDE DEF new
  <1>6. /\ reviewRows' \in [Reviewed -> {NoReview} \union ReviewRow]
        /\ reviewRows'[b] = new /\ \A x \in Given : reviewRows'[x] = reviewRows[x]
        /\ Given' = Given \union {b}
    BY <1>1, <1>3, <1>4, <1>5 DEF ReviewTypes, Given
  <1>7. /\ IsFiniteSet(Given') /\ Cardinality(Given') = Cardinality(Given) + 1
        /\ Cardinality(Given) \in Nat
    BY <1>1, <1>3, <1>6, StarsAreNumbers, FS_AddElement
  <1>8. /\ aggregate' \in Aggregate /\ aggregate'.total = aggregate.total + 1
        /\ aggregate.average = NoAverage => aggregate'.average = NoAverage
    BY <1>1, <1>2, <1>3, <1>5, IncludingIsAggregate DEF ReviewTypes
  <1>9. ReviewTypes'
    BY <1>1, <1>5, <1>6, <1>7, <1>8 DEF ReviewTypes
  <1>10. ASSUME NEW d \in ReviewCalls PROVE ReviewHeld(d)'
    <2>1. CASE d = c
      BY <1>1, <1>5, <2>1 DEF ReviewTypes, ReviewHeld
    <2>2. CASE d # c
      <3>1. reviewTxn'[d] = reviewTxn[d] /\ reviewTxn[d].op # "added" /\ ReviewHeld(d)
        BY <1>1, <1>3, <1>5, <2>2 DEF ReviewTypes, Adding, ReviewInv
      <3>2. reviewTxn[d].op = "inserted" => reviewTxn[d].of # b
        BY <1>3, <2>2 DEF Inserting
      <3>3. \A e \in ReviewCalls : reviewTxn'[e].op \in {"inserted", "added"} =>
              reviewTxn'[e] = reviewTxn[e]
        BY <1>1, <1>5 DEF ReviewTypes
      <3>4. reviewTxn[d].op = "inserted" => ~ Inserting(d, reviewTxn[d].of)'
        BY <3>1, <3>3 DEF ReviewHeld, Inserting
      <3>5. QED
        BY <1>6, <3>1, <3>2, <3>4 DEF ReviewHeld, Inserting
    <2>3. QED
      BY <2>1, <2>2
  <1>11. EveryReviewCounted'
    <2> DEFINE before == Stars(reviewRows, Given)
               mean   == inherited.average * inherited.total + 100 * before
    <2>1. m.rating \in Nat /\ m.rating \in Ratings /\ aggregate \in Aggregate
      <3>1. Ratings \subseteq Nat
        BY ReviewsAssumption
      <3>2. QED
        BY <1>1, <1>2, <3>1 DEF ReviewTypes
    <2>2. before \in Nat /\ Stars(reviewRows', Given) = before
      <3>1. /\ IsFiniteSet(Given)
            /\ \A x \in Given : reviewRows[x].rating \in Nat
                                /\ reviewRows'[x].rating = reviewRows[x].rating
        BY <1>1, <1>6, StarsAreNumbers
      <3>2. QED
        BY <3>1, SumOfSameRows
    <2>3. Stars(reviewRows', Given') = before + m.rating
      <3>1. /\ IsFiniteSet(Given) /\ b \notin Given
            /\ \A x \in Given \union {b} : reviewRows'[x].rating \in Nat
        BY <1>1, <1>3, <1>4, <1>6, <2>1, StarsAreNumbers
      <3>2. Stars(reviewRows', Given \union {b}) = Stars(reviewRows', Given) + reviewRows'[b].rating
        BY <3>1, SumWithOneMore
      <3>3. QED
        BY <1>4, <1>6, <2>2, <3>2
    <2>4. /\ aggregate.total = inherited.total + Cardinality(Given)
          /\ aggregate.average # NoAverage =>
               Distance(aggregate.average * aggregate.total, mean)
                 <= aggregate.total * Cardinality(Given)
      BY DEF ReviewInv, EveryReviewCounted
    <2> HIDE DEF before
    <2>5. aggregate'.total = inherited.total + (Cardinality(Given) + 1)
      BY <1>1, <1>7, <1>8, <2>4 DEF ReviewTypes, Aggregate
    <2>6. ASSUME aggregate'.average # NoAverage
          PROVE  Distance(aggregate'.average * aggregate'.total, mean + 100 * m.rating)
                   <= aggregate'.total * (Cardinality(Given) + 1)
      <3>1. aggregate.average # NoAverage /\ inherited.average # NoAverage
        BY <1>8, <2>6 DEF ReviewInv
      <3>2. inherited.average * inherited.total \in Nat
        BY <1>1, <3>1 DEF ReviewTypes, Aggregate
      <3>3. mean \in Int
        BY <2>2, <3>2
      <3> HIDE DEF mean
      <3>4. QED
        BY <1>3, <1>5, <1>7, <2>1, <2>4, <2>6, <3>1, <3>3, MeanStep
    <2>7. ASSUME aggregate'.average # NoAverage
          PROVE  inherited.average * inherited.total + 100 * (before + m.rating) = mean + 100 * m.rating
      <3>1. inherited.average # NoAverage
        BY <1>8, <2>7 DEF ReviewInv
      <3>2. inherited.average * inherited.total \in Nat
        BY <1>1, <3>1 DEF ReviewTypes, Aggregate
      <3>3. QED
        BY <2>1, <2>2, <3>2
    <2> HIDE DEF mean
    <2>8. QED
      BY <1>5, <1>7, <2>3, <2>5, <2>6, <2>7 DEF EveryReviewCounted
  <1>12. inherited'.average = NoAverage => aggregate'.average = NoAverage
    BY <1>5, <1>8 DEF ReviewInv
  <1>13. QED
    BY <1>9, <1>10, <1>11, <1>12 DEF ReviewInv

\* approve_review and hide_review change the state of a row that stays.
LEMMA ModerationKeepsReviews ==
  ASSUME ReviewInv, NEW x \in Moderators,
         \/ CommitModeration(x)
         \/ \E b \in Reviewed, verdict \in {"approved", "hidden"} : BeginModeration(x, b, verdict)
  PROVE  ReviewInv'
  <1>1. ReviewTypes
    BY DEF ReviewInv
  <1>2. ASSUME reviewRows' \in [Reviewed -> {NoReview} \union ReviewRow], Given' = Given,
               \A b \in Given : reviewRows'[b].rating = reviewRows[b].rating,
               moderating' \in [Moderators -> {IdleReview} \union [op : {"approved", "hidden"}, of : Given]],
               UNCHANGED <<reviewTxn, aggregate, inherited>>
        PROVE  ReviewInv'
    <2>1. ReviewTypes'
      BY <1>1, <1>2 DEF ReviewTypes
    <2>2. EveryReviewCounted'
      BY <1>1, <1>2, CountStays DEF ReviewInv
    <2>3. \A c \in ReviewCalls : ReviewHeld(c)'
      BY <1>2 DEF ReviewInv, ReviewHeld, Inserting, Adding
    <2>4. inherited'.average = NoAverage => aggregate'.average = NoAverage
      BY <1>2 DEF ReviewInv
    <2>5. QED
      BY <2>1, <2>2, <2>3, <2>4 DEF ReviewInv
  <1>3. ASSUME NEW b \in Reviewed, NEW verdict \in {"approved", "hidden"},
               BeginModeration(x, b, verdict)
        PROVE  ReviewInv'
    <2> DEFINE t == [op |-> verdict, of |-> b]
    <2>1. t \in [op : {"approved", "hidden"}, of : Given]
      BY <1>3 DEF BeginModeration
    <2>2. moderating' = [moderating EXCEPT ![x] = t]
      BY <1>3 DEF BeginModeration
    <2> HIDE DEF t
    <2>3. UNCHANGED <<reviewRows, reviewTxn, aggregate, inherited>>
      BY <1>3 DEF BeginModeration
    <2>4. moderating' \in [Moderators -> {IdleReview} \union [op : {"approved", "hidden"}, of : Given]]
      BY <1>1, <2>1, <2>2 DEF ReviewTypes
    <2>5. Given' = Given
      BY <2>3 DEF Given
    <2>6. QED
      BY <1>1, <1>2, <2>3, <2>4, <2>5 DEF ReviewTypes
  <1>4. CASE CommitModeration(x)
    <2> DEFINE b   == moderating[x].of
               row == [reviewRows[b] EXCEPT !.state = moderating[x].op]
    <2>1. moderating[x] \in [op : {"approved", "hidden"}, of : Given]
      BY <1>1, <1>4 DEF ReviewTypes, CommitModeration
    <2>2. b \in Given /\ b \in Reviewed /\ reviewRows[b] \in ReviewRow
      BY <1>1, <2>1, StarsAreNumbers
    <2>3. row \in ReviewRow /\ row.rating = reviewRows[b].rating
      BY <2>1, <2>2 DEF ReviewRow, ReviewStates
    <2>4. reviewRows' = [reviewRows EXCEPT ![b] = row]
      BY <1>4 DEF CommitModeration
    <2>5. /\ moderating' = [moderating EXCEPT ![x] = IdleReview]
          /\ UNCHANGED <<reviewTxn, aggregate, inherited>>
      BY <1>4 DEF CommitModeration
    <2> HIDE DEF row
    <2>6. row # NoReview
      BY <2>3, ReviewsAssumption
    <2>7. /\ reviewRows' \in [Reviewed -> {NoReview} \union ReviewRow] /\ Given' = Given
          /\ \A y \in Given : reviewRows'[y].rating = reviewRows[y].rating
      BY <1>1, <2>2, <2>3, <2>4, <2>6 DEF ReviewTypes, Given
    <2>8. moderating' \in [Moderators -> {IdleReview} \union [op : {"approved", "hidden"}, of : Given]]
      BY <1>1, <2>5 DEF ReviewTypes
    <2>9. QED
      BY <1>2, <2>5, <2>7, <2>8
  <1>5. QED
    BY <1>3, <1>4

\* "No Lost Update race condition": every committed review is counted once, and the
\* average strays a hundredth per review at most, for any reviews and moderators at once.
THEOREM ReviewsAreCounted == ReviewSpec => []EveryReviewCounted
  <1>1. ReviewInit => ReviewInv
    <2> SUFFICES ASSUME ReviewInit PROVE ReviewInv
      OBVIOUS
    <2>1. Given = {} /\ IsFiniteSet(Given) /\ Cardinality(Given) = 0
      BY FS_EmptySet DEF ReviewInit, Given
    <2>2. aggregate = inherited /\ aggregate \in Aggregate
      BY ReviewsAssumption DEF ReviewInit, Aggregate
    <2>3. ReviewTypes
      BY <2>1, <2>2 DEF ReviewInit, ReviewTypes
    <2>4. \A c \in ReviewCalls : ReviewHeld(c)
      BY DEF ReviewInit, ReviewHeld, IdleReview
    <2>5. EveryReviewCounted
      <3>1. Stars(reviewRows, {}) = 0
        <4> DEFINE none == [T \in SUBSET {} |-> 0]
        <4>1. none \in Additive(none, {}) /\ none[{}] = 0
          BY DEF Additive
        <4>2. QED
          BY <2>1, <4>1, SumIsAdditive
      <3>2. ASSUME aggregate.average # NoAverage
            PROVE  Distance(aggregate.average * aggregate.total,
                            inherited.average * inherited.total + 100 * 0)
                     <= aggregate.total * 0
        <4>1. aggregate.average * aggregate.total \in Nat /\ aggregate.total \in Nat
          BY <2>2, <3>2 DEF Aggregate
        <4>2. QED
          BY <2>2, <4>1 DEF Distance
      <3>3. aggregate.total \in Nat
        BY <2>2 DEF Aggregate
      <3>4. QED
        BY <2>1, <2>2, <3>1, <3>2, <3>3 DEF EveryReviewCounted
    <2>6. QED
      BY <2>2, <2>3, <2>4, <2>5 DEF ReviewInv
  <1>2. ReviewInv /\ [ReviewNext]_reviewVars => ReviewInv'
    <2> SUFFICES ASSUME ReviewInv, [ReviewNext]_reviewVars PROVE ReviewInv'
      OBVIOUS
    <2>1. CASE UNCHANGED reviewVars
      <3>1. Given' = Given /\ UNCHANGED <<reviewRows, reviewTxn, aggregate, inherited, moderating>>
        BY <2>1 DEF reviewVars, Given
      <3>2. EveryReviewCounted'
        BY <3>1, CountStays DEF ReviewInv
      <3>3. QED
        BY <3>1, <3>2 DEF ReviewInv, ReviewTypes, ReviewHeld, Inserting, Adding
    <2>2. QED
      BY <2>1, InsertKeepsReviews, AddKeepsReviews, CommitKeepsReviews, ModerationKeepsReviews
         DEF ReviewNext
  <1>3. ReviewInv => EveryReviewCounted
    BY DEF ReviewInv
  <1>4. QED
    BY <1>1, <1>2, <1>3, PTL DEF ReviewSpec

-----------------------------------------------------------------------------
(* Seeding *)

StartRows == {Down, Serving, Failed} \union [at : {"looking", "inserting"}, step : 1 .. 13]

\* The seeds in their order: what the detailers are linked to comes before them.
LEMMA StartUpOrder ==
  /\ Len(StartUp) = 13
  /\ \A i \in 1 .. 13 : StartUp[i] \in Catalogues
  /\ \A c \in Catalogues : \E i \in 1 .. 13 : StartUp[i] = c
  /\ StartUp[4] = "specialties" /\ StartUp[5] = "services"
  /\ \A i \in 1 .. 13 : StartUp[i] = "detailers" => i = 7
  <1>1. Len(StartUp) = 13
    BY DEF StartUp
  <1>2. \A i \in 1 .. 13 : StartUp[i] = "detailers" => i = 7
    BY DEF StartUp
  <1>3. StartUp[4] = "specialties" /\ StartUp[5] = "services"
    BY DEF StartUp
  <1>4. QED
    BY <1>1, <1>2, <1>3 DEF Catalogues

\* A process is down, serves, has failed, or is at one of the seeds.
LEMMA ServerKinds ==
  ASSUME SeedTypes, NEW s \in Servers
  PROVE  /\ server \in [Servers -> StartRows] /\ server[s] \in StartRows
         /\ Down.at = "down" /\ Serving.at = "serving" /\ Failed.at = "failed"
         /\ Starting(s) => server[s].step \in 1 .. 13 /\ Stage(s) = StartUp[server[s].step]
         /\ Starting(s) <=> server[s] \notin {Down, Serving, Failed}
  BY StartUpOrder DEF SeedTypes, StartRows, Down, Serving, Failed, Starting, Stage

\* A process that moves on without writing.
LEMMA MoveKeepsSeedInv ==
  ASSUME SeedInv, NEW s \in Servers, NEW x \in StartRows,
         server' = [server EXCEPT ![s] = x], UNCHANGED <<rows, wiring>>,
         overlapped => overlapped',
         x.at \in {"looking", "inserting"} => \A i \in 1 .. (x.step - 1) : rows[StartUp[i]] > 0,
         x = Serving => \A c \in Catalogues : rows[c] > 0,
         ~ overlapped' => /\ x # Failed
                          /\ x.at = "inserting" => rows[StartUp[x.step]] = 0
                          /\ x.at \in {"looking", "inserting"} =>
                               \A o \in Servers \ {s} : ~ Starting(o)
  PROVE  SeedInv'
  <1>1. SeedTypes /\ server \in [Servers -> StartRows]
    BY ServerKinds DEF SeedInv
  <1>2. SeedTypes' /\ server'[s] = x /\ \A o \in Servers \ {s} : server'[o] = server[o]
    BY <1>1, StartUpOrder DEF SeedTypes, StartRows
  <1>3. \A o \in Servers : PastAreThere(o)'
    BY <1>2 DEF SeedInv, PastAreThere, Starting
  <1>4. ~ overlapped' => OneAtATime'
    BY <1>2 DEF SeedInv, OneAtATime, Starting, Stage
  <1>5. QED
    BY <1>2, <1>3, <1>4 DEF SeedInv

\* A process starts, noticing the others that do.
LEMMA StartKeepsSeedInv ==
  ASSUME SeedInv, NEW s \in Servers, Start(s)
  PROVE  SeedInv'
  <1> DEFINE x == [at |-> "looking", step |-> 1]
  <1>1. /\ x \in StartRows /\ x.at = "looking" /\ x.step = 1 /\ x # Failed /\ x # Serving
        /\ \A i \in 1 .. (x.step - 1) : rows[StartUp[i]] > 0
    BY DEF StartRows, Failed, Serving
  <1>2. /\ server' = [server EXCEPT ![s] = x] /\ UNCHANGED <<rows, wiring>>
        /\ overlapped => overlapped'
        /\ ~ overlapped' => \A o \in Servers \ {s} : ~ Starting(o)
    BY DEF Start
  <1> HIDE DEF x
  <1>3. x = Serving => \A c \in Catalogues : rows[c] > 0
    BY <1>1
  <1>4. ~ overlapped' => /\ x # Failed
                         /\ x.at = "inserting" => rows[StartUp[x.step]] = 0
                         /\ x.at \in {"looking", "inserting"} =>
                              \A o \in Servers \ {s} : ~ Starting(o)
    BY <1>1, <1>2
  <1>5. QED
    BY <1>1, <1>2, <1>3, <1>4, MoveKeepsSeedInv

\* A process ends.
LEMMA StopKeepsSeedInv ==
  ASSUME SeedInv, NEW s \in Servers, Stop(s)
  PROVE  SeedInv'
  <1>1. /\ Down \in StartRows /\ Down.at = "down" /\ Down # Failed /\ Down # Serving
    BY DEF StartRows, Down, Failed, Serving
  <1>2. /\ server' = [server EXCEPT ![s] = Down] /\ UNCHANGED <<rows, wiring>>
        /\ overlapped => overlapped'
    BY DEF Stop
  <1>3. Down.at \in {"looking", "inserting"} => \A i \in 1 .. (Down.step - 1) : rows[StartUp[i]] > 0
    BY <1>1
  <1>4. Down = Serving => \A c \in Catalogues : rows[c] > 0
    BY <1>1
  <1>5. ~ overlapped' => /\ Down # Failed
                         /\ Down.at = "inserting" => rows[StartUp[Down.step]] = 0
                         /\ Down.at \in {"looking", "inserting"} =>
                              \A o \in Servers \ {s} : ~ Starting(o)
    BY <1>1
  <1>6. QED
    BY <1>1, <1>2, <1>3, <1>4, <1>5, MoveKeepsSeedInv

\* Where a process is after a seed whose rows are there: at the next, or serving.
LEMMA PastKeepsOrder ==
  ASSUME SeedInv, NEW s \in Servers, Starting(s), NEW t \in [Catalogues -> Nat],
         \A c \in Catalogues : t[c] >= rows[c], t[Stage(s)] > 0
  PROVE  /\ Past(s) \in StartRows /\ Past(s) # Failed /\ Past(s).at \in {"looking", "serving"}
         /\ Past(s).at = "looking" => \A i \in 1 .. (Past(s).step - 1) : t[StartUp[i]] > 0
         /\ Past(s) = Serving => \A c \in Catalogues : t[c] > 0
  <1> DEFINE n == server[s].step
  <1>1. n \in 1 .. 13 /\ t[StartUp[n]] > 0 /\ \A i \in 1 .. (n - 1) : t[StartUp[i]] > 0
    <2>1. n \in 1 .. 13 /\ Stage(s) = StartUp[n]
      BY ServerKinds DEF SeedInv
    <2>2. rows \in [Catalogues -> Nat] /\ \A i \in 1 .. (n - 1) : rows[StartUp[i]] > 0
      BY DEF SeedInv, SeedTypes, PastAreThere
    <2> HIDE DEF n
    <2>3. ASSUME NEW i \in 1 .. (n - 1) PROVE t[StartUp[i]] > 0
      <3>1. i \in 1 .. 13 /\ StartUp[i] \in Catalogues
        BY <2>1, StartUpOrder
      <3>2. rows[StartUp[i]] \in Nat /\ t[StartUp[i]] \in Nat /\ t[StartUp[i]] >= rows[StartUp[i]]
        BY <3>1, <2>2
      <3>3. QED
        BY <3>2, <2>2
    <2>4. QED
      BY <2>1, <2>3
  <1>2. CASE n = 13
    <2>1. Past(s) = Serving /\ Past(s).at = "serving" /\ Serving \in StartRows /\ Serving # Failed
      BY <1>2, StartUpOrder DEF Past, Serving, StartRows, Failed
    <2>2. ASSUME NEW c \in Catalogues PROVE t[c] > 0
      <3>1. PICK i \in 1 .. 13 : StartUp[i] = c
        BY StartUpOrder
      <3>2. i = n \/ i \in 1 .. (n - 1)
        BY <1>2
      <3>3. QED
        BY <3>1, <3>2, <1>1
    <2>3. QED
      BY <2>1, <2>2
  <1>3. CASE n # 13
    <2>1. Past(s) = [at |-> "looking", step |-> n + 1]
      BY <1>3, StartUpOrder DEF Past
    <2>2. n + 1 \in 1 .. 13
      BY <1>1, <1>3
    <2> HIDE DEF n
    <2>3. /\ Past(s) \in StartRows /\ Past(s).at = "looking" /\ Past(s).step = n + 1
          /\ Past(s) # Failed /\ Past(s) # Serving
      BY <2>1, <2>2 DEF StartRows, Failed, Serving
    <2>4. Past(s).step - 1 = n
      BY <2>3, <1>1
    <2>5. \A i \in 1 .. (Past(s).step - 1) : t[StartUp[i]] > 0
      BY <1>1, <2>4
    <2>6. QED
      BY <2>3, <2>5
  <1>4. QED
    BY <1>2, <1>3

\* A catalogue is looked for.
LEMMA LookForKeepsSeedInv ==
  ASSUME SeedInv, NEW s \in Servers, NEW c \in Catalogues, LookFor(s, c)
  PROVE  SeedInv'
  <1> DEFINE n == server[s].step
             x == IF rows[c] = 0 THEN [at |-> "inserting", step |-> n]
                  ELSE IF rows[c] = 1 THEN Past(s) ELSE Failed
  <1>1. /\ Starting(s) /\ Stage(s) = c /\ server' = [server EXCEPT ![s] = x]
        /\ UNCHANGED <<rows, wiring, overlapped>>
    BY DEF LookFor, Starting
  <1>2. rows \in [Catalogues -> Nat] /\ n \in 1 .. 13 /\ StartUp[n] = c
    BY <1>1, ServerKinds DEF SeedInv, SeedTypes
  <1>3. \A i \in 1 .. (n - 1) : rows[StartUp[i]] > 0
    BY <1>1 DEF SeedInv, PastAreThere
  <1>4. ~ overlapped => rows[c] <= 1 /\ \A o \in Servers \ {s} : ~ Starting(o)
    BY <1>1 DEF SeedInv, OneAtATime
  <1>5. CASE rows[c] = 0
    <2>1. /\ x = [at |-> "inserting", step |-> n] /\ x \in StartRows
          /\ x.at = "inserting" /\ x.step = n /\ x # Failed /\ x # Serving
      BY <1>5, <1>2 DEF StartRows, Failed, Serving
    <2> HIDE DEF x, n
    <2>2. x.at \in {"looking", "inserting"} => \A i \in 1 .. (x.step - 1) : rows[StartUp[i]] > 0
      BY <2>1, <1>3
    <2>3. ~ overlapped' => /\ x # Failed
                           /\ x.at = "inserting" => rows[StartUp[x.step]] = 0
                           /\ x.at \in {"looking", "inserting"} =>
                                \A o \in Servers \ {s} : ~ Starting(o)
      BY <2>1, <1>1, <1>2, <1>4, <1>5
    <2>4. overlapped => overlapped'
      BY <1>1
    <2>5. x = Serving => \A k \in Catalogues : rows[k] > 0
      BY <2>1
    <2>6. QED
      BY <1>1, <2>1, <2>2, <2>3, <2>4, <2>5, MoveKeepsSeedInv
  <1>6. CASE rows[c] = 1
    <2>1. x = Past(s)
      BY <1>6
    <2>2. /\ Past(s) \in StartRows /\ Past(s) # Failed /\ Past(s).at \in {"looking", "serving"}
          /\ Past(s).at = "looking" => \A i \in 1 .. (Past(s).step - 1) : rows[StartUp[i]] > 0
          /\ Past(s) = Serving => \A k \in Catalogues : rows[k] > 0
      <3>1. \A k \in Catalogues : rows[k] >= rows[k]
        BY <1>2
      <3>2. rows[Stage(s)] > 0
        BY <1>1, <1>6
      <3> HIDE DEF x, n
      <3>3. QED
        BY <1>1, <1>2, <3>1, <3>2, PastKeepsOrder
    <2> HIDE DEF x, n
    <2>3. x.at \in {"looking", "inserting"} => \A i \in 1 .. (x.step - 1) : rows[StartUp[i]] > 0
      BY <2>1, <2>2
    <2>4. ~ overlapped' => /\ x # Failed
                           /\ x.at = "inserting" => rows[StartUp[x.step]] = 0
                           /\ x.at \in {"looking", "inserting"} =>
                                \A o \in Servers \ {s} : ~ Starting(o)
      BY <2>1, <2>2, <1>1, <1>4
    <2>5. overlapped => overlapped'
      BY <1>1
    <2>6. QED
      BY <1>1, <2>1, <2>2, <2>3, <2>4, <2>5, MoveKeepsSeedInv
  <1>7. CASE rows[c] # 0 /\ rows[c] # 1
    <2>1. x = Failed /\ Failed \in StartRows /\ Failed.at = "failed" /\ Failed # Serving
      BY <1>7 DEF StartRows, Failed, Serving
    <2>2. overlapped
      BY <1>7, <1>4, <1>2
    <2> HIDE DEF x, n
    <2>3. x \in StartRows /\ overlapped' /\ x # Serving /\ x.at \notin {"looking", "inserting"}
      BY <2>1, <2>2, <1>1
    <2>4. x.at \in {"looking", "inserting"} => \A i \in 1 .. (x.step - 1) : rows[StartUp[i]] > 0
      BY <2>3
    <2>5. ~ overlapped' => /\ x # Failed
                           /\ x.at = "inserting" => rows[StartUp[x.step]] = 0
                           /\ x.at \in {"looking", "inserting"} =>
                                \A o \in Servers \ {s} : ~ Starting(o)
      BY <2>3
    <2>6. x = Serving => \A k \in Catalogues : rows[k] > 0
      BY <2>3
    <2>7. QED
      BY <1>1, <2>3, <2>4, <2>5, <2>6, MoveKeepsSeedInv
  <1>8. QED
    BY <1>5, <1>6, <1>7

\* The missing rows of a catalogue are inserted; the detailers' with their links.
LEMMA InsertKeepsSeedInv ==
  ASSUME SeedInv, NEW s \in Servers, NEW c \in Catalogues, Insert(s, c),
         c # "detailers" => wiring' = wiring,
         c = "detailers" =>
           wiring' = IF rows' = rows THEN wiring ELSE {k \in Linked : rows[k] > 0}
  PROVE  SeedInv'
  <1>1. /\ Starting(s) /\ server[s].at = "inserting" /\ Stage(s) = c /\ overlapped' = overlapped
    BY DEF Insert, Starting
  <1>2. /\ rows \in [Catalogues -> Nat] /\ server \in [Servers -> StartRows]
        /\ server[s].step \in 1 .. 13 /\ StartUp[server[s].step] = c
    BY <1>1, ServerKinds DEF SeedInv, SeedTypes
  <1>3. ~ overlapped => /\ rows[c] = 0 /\ \A o \in Servers \ {s} : ~ Starting(o)
                        /\ \A k \in Catalogues : rows[k] <= 1
    BY <1>1 DEF SeedInv, OneAtATime
  <1>4. CASE c \notin Unkeyed /\ rows[c] > 0
    <2>1. server' = [server EXCEPT ![s] = Failed] /\ UNCHANGED <<rows, wiring>>
      BY <1>4 DEF Insert
    <2>2. /\ Failed \in StartRows /\ Failed.at = "failed" /\ Failed # Serving /\ overlapped'
      BY <1>1, <1>2, <1>3, <1>4 DEF StartRows, Failed, Serving
    <2>3. Failed.at \in {"looking", "inserting"} =>
            \A i \in 1 .. (Failed.step - 1) : rows[StartUp[i]] > 0
      BY <2>2
    <2>4. ~ overlapped' => /\ Failed # Failed
                           /\ Failed.at = "inserting" => rows[StartUp[Failed.step]] = 0
                           /\ Failed.at \in {"looking", "inserting"} =>
                                \A o \in Servers \ {s} : ~ Starting(o)
      BY <2>2
    <2>5. Failed = Serving => \A k \in Catalogues : rows[k] > 0
      BY <2>2
    <2>6. QED
      BY <2>1, <2>2, <2>3, <2>4, <2>5, MoveKeepsSeedInv
  <1>5. CASE ~ (c \notin Unkeyed /\ rows[c] > 0)
    <2>1. server' = [server EXCEPT ![s] = Past(s)] /\ rows' = [rows EXCEPT ![c] = rows[c] + 1]
      BY <1>5 DEF Insert
    <2>2. /\ rows' \in [Catalogues -> Nat] /\ rows'[c] = rows[c] + 1
          /\ \A k \in Catalogues \ {c} : rows'[k] = rows[k]
          /\ \A k \in Catalogues : rows'[k] >= rows[k]
          /\ rows'[Stage(s)] > 0
      BY <2>1, <1>1, <1>2
    <2>3. /\ Past(s) \in StartRows /\ Past(s) # Failed /\ Past(s).at \in {"looking", "serving"}
          /\ Past(s).at = "looking" => \A i \in 1 .. (Past(s).step - 1) : rows'[StartUp[i]] > 0
          /\ Past(s) = Serving => \A k \in Catalogues : rows'[k] > 0
      <3> DEFINE t == rows'
      <3>1. t \in [Catalogues -> Nat] /\ (\A k \in Catalogues : t[k] >= rows[k]) /\ t[Stage(s)] > 0
        BY <2>2
      <3> HIDE DEF t
      <3>2. /\ Past(s) \in StartRows /\ Past(s) # Failed /\ Past(s).at \in {"looking", "serving"}
            /\ Past(s).at = "looking" => \A i \in 1 .. (Past(s).step - 1) : t[StartUp[i]] > 0
            /\ Past(s) = Serving => \A k \in Catalogues : t[k] > 0
        BY <3>1, <1>1, PastKeepsOrder
      <3>3. QED
        BY <3>2 DEF t
    <2>4. server'[s] = Past(s) /\ \A o \in Servers \ {s} : server'[o] = server[o]
      BY <2>1, <1>2
    <2>5. SeedTypes'
      BY <2>1, <2>2, <2>3, <1>2, StartUpOrder DEF SeedTypes, StartRows
    <2>6. ASSUME NEW o \in Servers PROVE PastAreThere(o)'
      <3>1. CASE o = s
        BY <2>3, <2>4, <3>1 DEF PastAreThere, Starting
      <3>2. CASE o # s
        <4>1. server'[o] = server[o] /\ PastAreThere(o)
          BY <2>4, <3>2 DEF SeedInv
        <4>2. ASSUME Starting(o)', NEW i \in 1 .. (server[o].step - 1) PROVE rows'[StartUp[i]] > 0
          <5>1. Starting(o) /\ server[o].step \in 1 .. 13
            BY <4>1, <4>2, ServerKinds DEF SeedInv, Starting
          <5>2. i \in 1 .. 13 /\ StartUp[i] \in Catalogues /\ rows[StartUp[i]] > 0
            BY <5>1, <4>1, <4>2, StartUpOrder DEF PastAreThere
          <5>3. QED
            BY <5>2, <2>2, <1>2
        <4>3. ASSUME server'[o] = Serving, NEW k \in Catalogues PROVE rows'[k] > 0
          BY <4>1, <4>3, <2>2, <1>2 DEF PastAreThere
        <4>4. QED
          BY <4>1, <4>2, <4>3 DEF PastAreThere
      <3>3. QED
        BY <3>1, <3>2
    <2>7. rows'["detailers"] > 0 => wiring' = Linked
      <3>1. CASE c = "detailers"
        <4>1. server[s].step = 7 /\ \A i \in 1 .. 6 : rows[StartUp[i]] > 0
          BY <1>1, <1>2, <3>1, StartUpOrder DEF SeedInv, PastAreThere
        <4>2. \A k \in Linked : rows[k] > 0
          BY <4>1, StartUpOrder DEF Linked
        <4>3. rows' # rows
          BY <2>2, <1>2
        <4>4. QED
          BY <3>1, <4>2, <4>3
      <3>2. CASE c # "detailers"
        <4>1. "detailers" \in Catalogues
          BY DEF Catalogues, StartUp
        <4>2. rows'["detailers"] = rows["detailers"] /\ wiring' = wiring
          BY <3>2, <4>1, <2>2
        <4>3. QED
          BY <4>2 DEF SeedInv
      <3>3. QED
        BY <3>1, <3>2
    <2>8. ~ overlapped' => OneAtATime'
      <3>1. SUFFICES ASSUME ~ overlapped PROVE OneAtATime'
        BY <1>1
      <3>2. /\ \A o \in Servers \ {s} : ~ Starting(o)' /\ server'[o] # Failed
        BY <3>1, <1>3, <2>4 DEF SeedInv, OneAtATime, Starting
      <3>3. \A k \in Catalogues : rows'[k] <= 1
        BY <3>1, <1>3, <2>2
      <3>4. \A o \in Servers : server'[o].at # "inserting"
        BY <3>2, <2>3, <2>4 DEF Starting
      <3>5. QED
        BY <3>2, <3>3, <3>4, <2>3, <2>4 DEF OneAtATime
    <2>9. QED
      BY <2>5, <2>6, <2>7, <2>8 DEF SeedInv
  <1>6. QED
    BY <1>4, <1>5

\* Any step of a process.
LEMMA SeedInductive == SeedInv /\ [SeedNext]_seedVars => SeedInv'
  <1>1. ASSUME SeedInv, UNCHANGED seedVars PROVE SeedInv'
    BY <1>1 DEF seedVars, SeedInv, SeedTypes, PastAreThere, OneAtATime, Starting, Stage
  <1>2. ASSUME SeedInv, NEW s \in Servers, NEW c \in Catalogues \ {"detailers"}, Seed(s, c)
        PROVE  SeedInv'
    BY <1>2, LookForKeepsSeedInv, InsertKeepsSeedInv DEF Seed
  <1>3. ASSUME SeedInv, NEW s \in Servers, SeedDetailers(s) PROVE SeedInv'
    <2>1. "detailers" \in Catalogues
      BY DEF Catalogues, StartUp
    <2>2. QED
      BY <1>3, <2>1, LookForKeepsSeedInv, InsertKeepsSeedInv DEF SeedDetailers
  <1>4. ASSUME SeedInv, SeedNext PROVE SeedInv'
    <2>1. {"rbac", "admin", "categories", "specialties", "services", "addons", "testimonials",
           "faq", "zones", "zips", "cities", "promos"} \subseteq Catalogues \ {"detailers"}
      BY DEF Catalogues, StartUp
    <2>2. PICK s \in Servers :
            \/ Start(s) \/ Stop(s) \/ SeedDetailers(s)
            \/ \E c \in Catalogues \ {"detailers"} : Seed(s, c)
      BY <1>4, <2>1 DEF SeedNext, SeedRoles, SeedAdminUser, SeedCategories, SeedSpecialties,
           SeedServices, SeedAddons, SeedTestimonials, SeedFaq, SeedZones, SeedZips, SeedCities,
           SeedPromos
    <2>3. QED
      BY <1>2, <1>3, <1>4, <2>2, StartKeepsSeedInv, StopKeepsSeedInv
  <1>5. QED
    BY <1>1, <1>4

\* SeedsSettle: a process that serves finds every catalogue, the seeded detailers are
\* linked to what they offer, and starts one after another are harmless.
THEOREM StartUpIsHarmless == SeedSpec => []SeedsSettle
  <1>1. SeedInit => SeedInv
    <2>1. "detailers" \in Catalogues
      BY DEF Catalogues, StartUp
    <2>2. QED
      BY <2>1 DEF SeedInit, SeedInv, SeedTypes, PastAreThere, OneAtATime, Starting, Stage, Down,
                  Serving, Failed
  <1>2. SeedInv => SeedsSettle
    BY DEF SeedInv, SeedsSettle, PastAreThere, OneAtATime
  <1>3. QED
    BY <1>1, <1>2, SeedInductive, PTL DEF SeedSpec

=============================================================================
