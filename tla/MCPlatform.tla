----------------------------- MODULE MCPlatform -----------------------------
(***************************************************************************)
(* The services around bookings and rides share no rows: part says which   *)
(* of them a behaviour exercises, so that one run covers them all.         *)
(***************************************************************************)
EXTENDS Addresses, Accounts, SecondFactors,
        Rbac, Reviews, LedgerSeals, Locations, Idempotency,
        Uploads, Reminders, StatusFeed, Seeding,
        Hub, Choices, SocialAccounts, Offer, TLC

CONSTANTS f1, l1, t1, r1, p1, g1, g2, g3, h1, h2

MovedInto == {<<l1, t1>>}
Seeded    == {<<r1, p1>>}
MCCellOf  == g1 :> h1 @@ g2 :> h1 @@ g3 :> h2
MCClose   == {<<g1, g1>>, <<g2, g2>>, <<g3, g3>>, <<g1, g2>>, <<g2, g1>>}
MCAggregates == {[total |-> 0, average |-> NoAverage], [total |-> 3, average |-> 467]}

\* A client, and a detailer who has opened a mechanic profile.
MCHubUsers ==
  {[roles |-> {"client"}, active |-> "client", profiles |-> {}, client |-> TRUE],
   [roles |-> {"detailer", "mechanic"}, active |-> "mechanic",
    profiles |-> {"detailer"}, client |-> FALSE]}
MCIncludes    == {{"profile", "sessions"}, {"provider", "preferences"}}
MCFirstHalves == {<<"mary">>, <<"mary", "ann">>}
MCLastHalves  == {<<"doe">>}
MCTerms       == [active : BOOLEAN, price : {"base", "own"}]

VARIABLE part

serviceVars == <<addressVars, accountVars, factorVars, rbacVars, reviewVars, sealVars,
                 locationVars, keyVars, uploadVars, reminderVars, feedVars, seedVars>>
profileVars == <<hubVars, choiceVars, socialVars, offerVars>>

vars == <<serviceVars, profileVars, part>>

Init ==
  /\ part \in {"addresses", "lockout", "links", "changes", "totp", "passkeys",
               "rbac", "reviews", "seals", "locations", "keys",
               "gallery", "avatar", "reminders", "feed", "pushes", "seeding",
               "hub", "names", "pins", "preferences", "social", "offer", "terms"}
  /\ AddressInit /\ AccountInit /\ FactorInit /\ RbacInit /\ SealInit /\ LocationInit /\ KeyInit
  /\ UploadInit /\ ReminderInit /\ SeedInit
  /\ FeedInit /\ (part # "pushes" => devices = {})
  /\ (part \notin {"feed", "pushes"} => status = "pending")
  /\ HubInit /\ ChoiceInit /\ (part # "preferences" => preferences.frequency = f1)
  /\ SocialInit /\ OfferInit /\ (part \notin {"offer", "terms"} => about = [k \in Types |-> NoProfile])
  /\ ReviewInit /\ (part # "reviews" => aggregate.total = 0)

\* The three uses of an account are explored one at a time.
AccountPart ==
  /\ AccountNext
  /\ part # "links" => links' = links
  /\ part # "changes" => changes' = changes
  /\ part = "lockout" /\ account' # NoAccount => ~ account'.verified
  /\ part # "lockout" =>
       /\ wrong' = 0
       /\ \A c \in AccountCalls : accountTxn'[c].op # "failed"
       /\ account' # NoAccount => account'.active

FactorPart ==
  /\ FactorNext
  /\ part = "totp" => passkeys' = passkeys /\ challenges' = challenges
  /\ part = "passkeys" => totp' = totp /\ issued' = issued /\ confirmed' = confirmed

\* A vehicle or portfolio gallery, and an avatar: one at a time.
UploadPart ==
  /\ UploadNext
  /\ signed' \subseteq (IF part = "gallery" THEN GalleryKeys ELSE AvatarKeys)

\* What the screens are shown, and what the devices are pushed: one at a time.
FeedPart ==
  /\ FeedNext
  /\ IF part = "feed" THEN devices' = {} ELSE screen' = screen

Next ==
  \/ /\ part = "addresses" /\ AddressNext
     /\ UNCHANGED <<accountVars, factorVars, rbacVars, reviewVars, sealVars, locationVars,
                    keyVars, uploadVars, reminderVars, feedVars, seedVars, profileVars, part>>
  \/ /\ part \in {"lockout", "links", "changes"} /\ AccountPart
     /\ UNCHANGED <<addressVars, factorVars, rbacVars, reviewVars, sealVars, locationVars,
                    keyVars, uploadVars, reminderVars, feedVars, seedVars, profileVars, part>>
  \/ /\ part \in {"totp", "passkeys"} /\ FactorPart
     /\ UNCHANGED <<addressVars, accountVars, rbacVars, reviewVars, sealVars, locationVars,
                    keyVars, uploadVars, reminderVars, feedVars, seedVars, profileVars, part>>
  \/ /\ part = "rbac" /\ RbacNext
     /\ UNCHANGED <<addressVars, accountVars, factorVars, reviewVars, sealVars, locationVars,
                    keyVars, uploadVars, reminderVars, feedVars, seedVars, profileVars, part>>
  \/ /\ part = "reviews" /\ ReviewNext
     /\ UNCHANGED <<addressVars, accountVars, factorVars, rbacVars, sealVars, locationVars,
                    keyVars, uploadVars, reminderVars, feedVars, seedVars, profileVars, part>>
  \/ /\ part = "seals" /\ SealNext
     /\ UNCHANGED <<addressVars, accountVars, factorVars, rbacVars, reviewVars, locationVars,
                    keyVars, uploadVars, reminderVars, feedVars, seedVars, profileVars, part>>
  \/ /\ part = "locations" /\ LocationNext
     /\ UNCHANGED <<addressVars, accountVars, factorVars, rbacVars, reviewVars, sealVars,
                    keyVars, uploadVars, reminderVars, feedVars, seedVars, profileVars, part>>
  \/ /\ part = "keys" /\ KeyNext
     /\ UNCHANGED <<addressVars, accountVars, factorVars, rbacVars, reviewVars, sealVars,
                    locationVars, uploadVars, reminderVars, feedVars, seedVars, profileVars, part>>
  \/ /\ part \in {"gallery", "avatar"} /\ UploadPart
     /\ UNCHANGED <<addressVars, accountVars, factorVars, rbacVars, reviewVars, sealVars,
                    locationVars, keyVars, reminderVars, feedVars, seedVars, profileVars, part>>
  \/ /\ part = "reminders" /\ ReminderNext
     /\ UNCHANGED <<addressVars, accountVars, factorVars, rbacVars, reviewVars, sealVars,
                    locationVars, keyVars, uploadVars, feedVars, seedVars, profileVars, part>>
  \/ /\ part \in {"feed", "pushes"} /\ ~ astray /\ FeedPart
     /\ UNCHANGED <<addressVars, accountVars, factorVars, rbacVars, reviewVars, sealVars,
                    locationVars, keyVars, uploadVars, reminderVars, seedVars, profileVars, part>>
  \/ /\ part = "seeding" /\ SeedNext
     /\ UNCHANGED <<addressVars, accountVars, factorVars, rbacVars, reviewVars, sealVars,
                    locationVars, keyVars, uploadVars, reminderVars, feedVars, profileVars, part>>
  \/ /\ part = "hub" /\ HubNext
     /\ UNCHANGED <<serviceVars, choiceVars, socialVars, offerVars, part>>
  \/ /\ part = "names" /\ ~ unclear /\ NameNext
     /\ UNCHANGED <<serviceVars, choiceVars, socialVars, offerVars, part>>
  \/ /\ part = "pins" /\ PinNext
     /\ UNCHANGED <<serviceVars, hubVars, socialVars, offerVars, part>>
  \/ /\ part = "preferences" /\ PreferenceNext
     /\ UNCHANGED <<serviceVars, hubVars, socialVars, offerVars, part>>
  \/ /\ part = "social" /\ SocialNext
     /\ UNCHANGED <<serviceVars, hubVars, choiceVars, offerVars, part>>
  \/ /\ part = "offer" /\ PutNext
     /\ UNCHANGED <<serviceVars, hubVars, choiceVars, socialVars, part>>
  \/ /\ part = "terms" /\ TermsNext
     /\ UNCHANGED <<serviceVars, hubVars, choiceVars, socialVars, part>>

Spec == Init /\ [][Next]_vars

=============================================================================
