------------------------------- MODULE Offer -------------------------------
(***************************************************************************)
(* What one provider offers: PUT /detailers/me with its specialties, and   *)
(* PATCH /detailers/me/services/{id}.  The UPDATE of the profile comes     *)
(* before the specialties are replaced, and its row lock is all that keeps *)
(* two PUTs apart; a service row has no lock between look-up and write.    *)
(***************************************************************************)
EXTENDS FiniteSets

CONSTANTS About,           \* bio, radius, hours ... of a PUT
          Slugs,           \* the specialties that are asked for
          KnownSlugs,      \* the ones in the specialties table
          Services,        \* active services of the platform
          Terms,           \* is_active and custom_price_cents of a PATCH
          OfferCalls,
          NoProfile, NoTerms

ASSUME OfferAssumption ==
  NoTerms \notin Terms /\ \A t \in Terms : t = [k \in DOMAIN t |-> t[k]]

Types == {"detailer", "mechanic"}

VARIABLES about,         \* the profile of each type
          specialties,   \* provider_specialties of the detailer profile
          told,          \* the last PUT that was committed
          terms,         \* provider_services
          agreed,        \* the last PATCH of each service
          tangled,       \* services two open PATCHes read
          offerTxn

offerVars == <<about, specialties, told, terms, agreed, tangled, offerTxn>>

Resting == [pc |-> "idle"]

OfferInit ==
  /\ about \in [Types -> {NoProfile} \union About]
  /\ specialties = {}
  /\ told = [about |-> about["detailer"], slugs |-> {}]
  /\ terms = [s \in Services |-> NoTerms] /\ agreed = terms
  /\ tangled = {}
  /\ offerTxn = [c \in OfferCalls |-> Resting]

-----------------------------------------------------------------------------
(* PUT /detailers/me *)

ReadOffer(c, text, slugs) ==
  /\ offerTxn[c] = Resting
  /\ offerTxn' = [offerTxn EXCEPT ![c] =
       [pc |-> "read", about |-> text, slugs |-> slugs,
        creates |-> about["detailer"] = NoProfile]]
  /\ UNCHANGED <<about, specialties, told, terms, agreed, tangled>>

\* Another PUT holds the profile row, or the key of the new one.
ProfileFree(c) ==
  \A d \in OfferCalls \ {c} : offerTxn[d].pc \notin {"written", "synced"}

WriteProfile(c) ==
  /\ offerTxn[c].pc = "read"
  /\ offerTxn' = [offerTxn EXCEPT ![c] =
       IF @.creates /\ about["detailer"] # NoProfile THEN Resting
       ELSE [pc |-> "written", about |-> @.about, slugs |-> @.slugs, creates |-> @.creates]]
  /\ UNCHANGED <<about, specialties, told, terms, agreed, tangled>>

\* Variant: the specialties come first, before any row is locked.
WriteUnlocked(c) == WriteProfile(c)

\* create_profile, or the UPDATE of update_profile.
UpsertProfile(c) == ProfileFree(c) /\ WriteProfile(c)

\* _sync_specialties deletes what it sees and inserts the slugs it knows.
SyncSpecialties(c) ==
  /\ offerTxn[c].pc = "written"
  /\ offerTxn' = [offerTxn EXCEPT ![c] =
       [pc |-> "synced", about |-> @.about, slugs |-> @.slugs, creates |-> @.creates,
        dropped |-> specialties, added |-> @.slugs \intersect KnownSlugs]]
  /\ UNCHANGED <<about, specialties, told, terms, agreed, tangled>>

\* The WHERE of update_profile names the user: every profile is written.
CommitOffer(c) ==
  LET t == offerTxn[c] IN
  /\ t.pc = "synced"
  /\ about' = [k \in Types |-> IF k = "detailer" \/ (~ t.creates /\ about[k] # NoProfile)
                                 THEN t.about ELSE about[k]]
  /\ specialties' = (specialties \ t.dropped) \union t.added
  /\ told' = [about |-> t.about, slugs |-> t.slugs]
  /\ offerTxn' = [offerTxn EXCEPT ![c] = Resting]
  /\ UNCHANGED <<terms, agreed, tangled>>

-----------------------------------------------------------------------------
(* PATCH /detailers/me/services/{service_id} *)

ReadTerms(c, s, body) ==
  /\ offerTxn[c] = Resting
  /\ about["detailer"] # NoProfile
  /\ offerTxn' = [offerTxn EXCEPT ![c] =
       [pc |-> "looked", of |-> s, body |-> body, loaded |-> terms[s]]]
  /\ tangled' = IF \E d \in OfferCalls \ {c} :
                     offerTxn[d].pc \in {"looked", "priced"} /\ offerTxn[d].of = s
                  THEN tangled \union {s} ELSE tangled
  /\ UNCHANGED <<about, specialties, told, terms, agreed>>

\* The INSERT fails on uq_provider_service if a row has come since; the UPDATE
\* waits for the row.
FlushTerms(c) ==
  LET t == offerTxn[c] IN
  /\ t.pc = "looked"
  /\ t.body # t.loaded =>
       \A d \in OfferCalls \ {c} : ~ (offerTxn[d].pc = "priced" /\ offerTxn[d].of = t.of)
  /\ offerTxn' = [offerTxn EXCEPT ![c] =
       IF t.loaded = NoTerms /\ terms[t.of] # NoTerms THEN Resting
       ELSE [pc |-> "priced", of |-> t.of, body |-> t.body, loaded |-> t.loaded]]
  /\ UNCHANGED <<about, specialties, told, terms, agreed, tangled>>

\* Only the columns that differ from the row as read are written.
CommitTerms(c) ==
  LET t == offerTxn[c] IN
  /\ t.pc = "priced"
  /\ terms' = [terms EXCEPT ![t.of] =
       IF t.loaded = NoTerms THEN t.body
       ELSE [k \in DOMAIN t.body |-> IF t.body[k] # t.loaded[k] THEN t.body[k] ELSE @[k]]]
  /\ agreed' = [agreed EXCEPT ![t.of] = t.body]
  /\ offerTxn' = [offerTxn EXCEPT ![c] = Resting]
  /\ UNCHANGED <<about, specialties, told, tangled>>

AbortOffer(c) ==
  /\ offerTxn[c] # Resting
  /\ offerTxn' = [offerTxn EXCEPT ![c] = Resting]
  /\ UNCHANGED <<about, specialties, told, terms, agreed, tangled>>

-----------------------------------------------------------------------------

PutNext ==
  \E c \in OfferCalls :
    \/ UpsertProfile(c) \/ SyncSpecialties(c) \/ CommitOffer(c) \/ AbortOffer(c)
    \/ \E text \in About, slugs \in SUBSET Slugs : ReadOffer(c, text, slugs)

TermsNext ==
  \E c \in OfferCalls :
    \/ FlushTerms(c) \/ CommitTerms(c) \/ AbortOffer(c)
    \/ \E s \in Services, body \in Terms : ReadTerms(c, s, body)

OfferSpec == OfferInit /\ [][PutNext \/ TermsNext]_offerVars

-----------------------------------------------------------------------------
(* Properties *)

\* "Replace a provider's specialties with the given slug list": the profile
\* and the specialties are those of one PUT, the last one committed, however
\* PUTs overlap; a service is offered on the terms of its last PATCH, unless
\* PATCHes of it overlapped.
OfferAsTold ==
  /\ about["detailer"] = told.about
  /\ specialties = told.slugs \intersect KnownSlugs
  /\ \A s \in Services \ tangled : terms[s] = agreed[s]

\* What an open request relies on.  Once it has replaced the specialties no other
\* PUT has; what it read of a service still stands, unless PATCHes met.
OfferSafe(t) ==
  /\ t.pc = "synced" => t.dropped = specialties /\ t.added = t.slugs \intersect KnownSlugs
  /\ t.pc \in {"looked", "priced"} =>
       /\ t.of \in Services /\ t.body \in Terms
       /\ t.of \notin tangled => t.loaded = terms[t.of]

OffersApart(t, u) ==
  /\ ~ (t.pc \in {"written", "synced"} /\ u.pc \in {"written", "synced"})
  /\ t.pc \in {"looked", "priced"} /\ u.pc \in {"looked", "priced"} /\ t.of = u.of
       => t.of \in tangled

OfferInv ==
  /\ DOMAIN offerTxn = OfferCalls /\ DOMAIN terms = Services /\ DOMAIN agreed = Services
  /\ OfferAsTold
  /\ \A c \in OfferCalls :
       /\ OfferSafe(offerTxn[c])
       /\ \A d \in OfferCalls \ {c} : OffersApart(offerTxn[c], offerTxn[d])

=============================================================================
