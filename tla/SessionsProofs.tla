---------------------------- MODULE SessionsProofs ----------------------------
(***************************************************************************)
(* Proofs about Sessions, for any number of tokens, logins and requests.   *)
(* SessionsInv is the inductive invariant.                                 *)
(***************************************************************************)
EXTENDS Sessions, TLAPS

Rotations == {"read", "claimed", "touching", "minting"}
Claims    == {"claimed", "touching", "minting"}
Revokes   == {"sessionsLocked", "scanned"}

LEMMA FreshIsCall == Fresh \in Call /\ Fresh.pc = "idle"
  BY DEF Fresh, Call

LEMMA InitSessionsInv == Init => SessionsInv
  <1> SUFFICES ASSUME Init PROVE SessionsInv
    OBVIOUS
  <1>1. TypeOK
    BY FreshIsCall DEF Init, TypeOK
  <1>2. \A c \in Calls : call[c].pc = "idle"
    BY FreshIsCall DEF Init
  <1>3. Lineage /\ SessionRows
    BY DEF Init, Lineage, SessionRows
  <1>4. ASSUME NEW c \in Calls PROVE RotationSafe(c) /\ RevocationSafe(c)
    BY <1>2 DEF RotationSafe, Rotating, RevocationSafe
  <1>5. LocksExclusive
    BY <1>2 DEF LocksExclusive, HoldsToken, HoldsSession
  <1>6. QED
    BY <1>1, <1>3, <1>4, <1>5 DEF SessionsInv

-----------------------------------------------------------------------------
(* Steps that change one call and no committed row *)

\* What has to be shown of such a step of call c.
CallOnly(c) ==
  /\ call' = [call EXCEPT ![c] = call'[c]] /\ call'[c] \in Call
  /\ UNCHANGED <<token, session>>
  /\ cache' \in [Families -> {"none", "active", "revoked"}]
  /\ reused' \subseteq Families
  /\ RotationSafe(c)'
  /\ RevocationSafe(c)'
  /\ \A t \in Tokens : HoldsToken(c, t)' => HoldsToken(c, t) \/ TokenFree(c, t)
  /\ \A f \in Families : HoldsSession(c, f)' => HoldsSession(c, f) \/ SessionFree(c, f)

LEMMA CallOnlyPreserves ==
  ASSUME SessionsInv, NEW c \in Calls, CallOnly(c)
  PROVE  SessionsInv'
  <1>1. /\ call' \in [Calls -> Call]
        /\ \A d \in Calls \ {c} : call'[d] = call[d]
        /\ token' = token /\ session' = session
    BY DEF SessionsInv, TypeOK, CallOnly
  <1>2. TypeOK'
    BY <1>1 DEF SessionsInv, TypeOK, CallOnly
  <1>3. Lineage' /\ SessionRows'
    BY <1>1 DEF SessionsInv, Lineage, SessionRows, Member, Stored
  <1>4. ASSUME NEW d \in Calls PROVE RotationSafe(d)' /\ RevocationSafe(d)'
    <2>1. CASE d = c
      BY <2>1 DEF CallOnly
    <2>2. CASE d # c
      BY <1>1, <2>2
      DEF SessionsInv, RotationSafe, RevocationSafe, Rotating, Member, Stored
    <2>3. QED
      BY <2>1, <2>2
  <1>5. \A d \in Calls \ {c} :
          /\ \A t \in Tokens : HoldsToken(d, t)' <=> HoldsToken(d, t)
          /\ \A f \in Families : HoldsSession(d, f)' <=> HoldsSession(d, f)
    BY <1>1 DEF HoldsToken, HoldsSession
  <1>6. ASSUME NEW d \in Calls \ {c}
        PROVE  /\ \A t \in Tokens : ~ (HoldsToken(c, t)' /\ HoldsToken(d, t)')
               /\ \A f \in Families : ~ (HoldsSession(c, f)' /\ HoldsSession(d, f)')
    BY <1>5 DEF CallOnly, TokenFree, SessionFree, SessionsInv, LocksExclusive
  <1>7. ASSUME NEW d \in Calls, NEW e \in Calls, d # e
        PROVE  /\ \A t \in Tokens : ~ (HoldsToken(d, t)' /\ HoldsToken(e, t)')
               /\ \A f \in Families : ~ (HoldsSession(d, f)' /\ HoldsSession(e, f)')
    <2>1. CASE d = c \/ e = c
      BY <1>6, <1>7, <2>1
    <2>2. CASE d # c /\ e # c
      BY <1>5, <1>7, <2>2 DEF SessionsInv, LocksExclusive
    <2>3. QED
      BY <2>1, <2>2
  <1>8. QED
    BY <1>2, <1>3, <1>4, <1>7 DEF SessionsInv, LocksExclusive

\* A call that holds nothing and goes to a point where nothing is held.
LEMMA Unarmed ==
  ASSUME NEW c \in Calls, call'[c].pc \notin Rotations \union Revokes
  PROVE  /\ RotationSafe(c)' /\ RevocationSafe(c)'
         /\ \A t \in Tokens : ~ HoldsToken(c, t)'
         /\ \A f \in Families : ~ HoldsSession(c, f)'
  BY DEF RotationSafe, RevocationSafe, Rotating, HoldsToken, HoldsSession, Rotations, Revokes

\* The ends of a call, and the steps around the cache: no lock is taken.
LEMMA QuietStep ==
  ASSUME SessionsInv, NEW c \in Calls,
         \/ Authenticate(c) \/ FillCache(c) \/ EvictCache(c) \/ Abort(c) \/ BreakDeadlock(c)
  PROVE  SessionsInv'
  <1>1. /\ call' = [call EXCEPT ![c] = call'[c]]
        /\ call'[c] \in Call
        /\ call'[c].pc \in {"filling", "idle"}
    <2>1. CASE Authenticate(c)
      <3>1. PICK f \in Families :
              call' = [call EXCEPT ![c] = [Fresh EXCEPT !.pc = "filling", !.families = {f},
                                             !.seen = session[f]]]
            /\ session[f] \in {"active", "revoked"}
        BY <2>1 DEF Authenticate, SessionsInv, TypeOK
      <3>2. QED
        BY <3>1 DEF Fresh, Call, SessionsInv, TypeOK
    <2>2. CASE FillCache(c) \/ EvictCache(c) \/ Abort(c) \/ BreakDeadlock(c)
      <3>1. call' = [call EXCEPT ![c] = Fresh]
        BY <2>2 DEF FillCache, EvictCache, Abort, BreakDeadlock
      <3>2. QED
        BY <3>1, FreshIsCall DEF SessionsInv, TypeOK
    <2>3. QED
      BY <2>1, <2>2
  <1>2. UNCHANGED <<token, session, reused>>
    BY DEF Authenticate, FillCache, EvictCache, Abort, BreakDeadlock
  <1>3. cache' \in [Families -> {"none", "active", "revoked"}]
    BY DEF Authenticate, FillCache, EvictCache, Abort, BreakDeadlock, SessionsInv, TypeOK, Call
  <1>4. CallOnly(c)
    BY <1>1, <1>2, <1>3, Unarmed DEF CallOnly, SessionsInv, TypeOK, Rotations, Revokes
  <1>5. QED
    BY <1>4, CallOnlyPreserves

-----------------------------------------------------------------------------
(* Rotation, up to its commit *)

LEMMA PresentTokenStep ==
  ASSUME SessionsInv, NEW c \in Calls, PresentToken(c)
  PROVE  SessionsInv'
  <1>1. call[c].pc = "idle" /\ UNCHANGED <<token, session, cache>>
    BY DEF PresentToken
  <1>2. PICK t \in Tokens :
          /\ Stored(t)
          /\ \/ /\ reused' = reused \union {token[t].family}
                /\ UNCHANGED call
             \/ /\ Live(t)
                /\ call' = [call EXCEPT ![c].pc = "read", ![c].token = t]
                /\ UNCHANGED reused
    BY DEF PresentToken
  <1>3. /\ call' = [call EXCEPT ![c] = call'[c]]
        /\ call'[c] \in Call
        /\ \/ call'[c].pc = "idle"
           \/ call'[c].pc = "read" /\ call'[c].token = t /\ Live(t)
    BY <1>1, <1>2 DEF SessionsInv, TypeOK, Call
  <1>4. reused' \subseteq Families
    BY <1>2 DEF SessionsInv, TypeOK, Token, Stored
  <1>5. CASE call'[c].pc = "idle"
    <2>1. CallOnly(c)
      BY <1>1, <1>3, <1>4, <1>5, Unarmed DEF CallOnly, SessionsInv, TypeOK, Rotations, Revokes
    <2>2. QED
      BY <2>1, CallOnlyPreserves
  <1>6. CASE call'[c].pc = "read" /\ call'[c].token = t /\ Live(t)
    <2>1. RotationSafe(c)'
      BY <1>1, <1>3, <1>6 DEF RotationSafe, Live, Stored
    <2>2. RevocationSafe(c)'
      BY <1>6 DEF RevocationSafe
    <2>3. /\ \A u \in Tokens : ~ HoldsToken(c, u)'
          /\ \A f \in Families : ~ HoldsSession(c, f)'
      BY <1>6 DEF HoldsToken, HoldsSession
    <2>4. CallOnly(c)
      BY <1>1, <1>3, <1>4, <2>1, <2>2, <2>3 DEF CallOnly, SessionsInv, TypeOK
    <2>5. QED
      BY <2>4, CallOnlyPreserves
  <1>7. QED
    BY <1>3, <1>5, <1>6

\* A claim finds the row unspent, so its session cannot have been revoked.
LEMMA ClaimStep ==
  ASSUME SessionsInv, NEW c \in Calls, Claim(c)
  PROVE  SessionsInv'
  <1> DEFINE t == call[c].token
  <1>1. /\ call[c].pc = "read" /\ TokenFree(c, t)
        /\ UNCHANGED <<token, session, cache>>
    BY DEF Claim
  <1>2. /\ t \in Tokens /\ token[t] # None /\ token[t] \in Token
        /\ token[t].age \in {"valid", "expired"} /\ Stored(t)
    BY <1>1 DEF SessionsInv, TypeOK, RotationSafe, Rotating, Stored
  <1>3. /\ call' = [call EXCEPT ![c] = call'[c]]
        /\ call'[c] \in Call
        /\ \/ call'[c].pc = "idle"
           \/ /\ call'[c].pc = "claimed" /\ call'[c].token = t
              /\ ~ token[t].used /\ ~ token[t].revoked
    BY FreshIsCall DEF Claim, SessionsInv, TypeOK, Call
  <1>4. reused' \subseteq Families
    BY <1>2 DEF Claim, SessionsInv, TypeOK, Token
  <1>5. CASE call'[c].pc = "idle"
    <2>1. CallOnly(c)
      BY <1>1, <1>3, <1>4, <1>5, Unarmed DEF CallOnly, SessionsInv, TypeOK, Rotations, Revokes
    <2>2. QED
      BY <2>1, CallOnlyPreserves
  <1>6. CASE /\ call'[c].pc = "claimed" /\ call'[c].token = t
             /\ ~ token[t].used /\ ~ token[t].revoked
    <2>1. token[t].family \in Families /\ t \in Member(token[t].family)
      BY <1>2 DEF Token, Member
    <2>2. session[token[t].family] # "revoked"
      BY <1>2, <1>6, <2>1 DEF SessionsInv, SessionRows
    <2>3. RotationSafe(c)'
      BY <1>1, <1>2, <1>3, <1>6, <2>2 DEF RotationSafe
    <2>4. RevocationSafe(c)' /\ \A f \in Families : ~ HoldsSession(c, f)'
      BY <1>6 DEF RevocationSafe, HoldsSession
    <2>5. \A u \in Tokens : HoldsToken(c, u)' => TokenFree(c, u)
      BY <1>1, <1>6 DEF HoldsToken
    <2>6. CallOnly(c)
      BY <1>1, <1>3, <1>4, <2>3, <2>4, <2>5 DEF CallOnly, SessionsInv, TypeOK
    <2>7. QED
      BY <2>6, CallOnlyPreserves
  <1>7. QED
    BY <1>3, <1>5, <1>6

LEMMA ReadSessionStep ==
  ASSUME SessionsInv, NEW c \in Calls, ReadSession(c)
  PROVE  SessionsInv'
  <1> DEFINE t == call[c].token
  <1>1. /\ call[c].pc = "claimed"
        /\ UNCHANGED <<token, session, cache, reused>>
    BY DEF ReadSession
  <1>2. /\ call' = [call EXCEPT ![c] = call'[c]]
        /\ call'[c] \in Call /\ call'[c].token = t
        /\ \/ call'[c].pc = "touching" /\ call'[c].seen = "active"
           \/ /\ call'[c].pc = "minting" /\ call'[c].seen = "none"
              /\ session[token[t].family] # "active"
    BY DEF ReadSession, SessionsInv, TypeOK, Call
  <1>3. RotationSafe(c)'
    BY <1>1, <1>2 DEF SessionsInv, RotationSafe, Rotating
  <1>4. RevocationSafe(c)' /\ \A f \in Families : ~ HoldsSession(c, f)'
    BY <1>2 DEF RevocationSafe, HoldsSession
  <1>5. \A u \in Tokens : HoldsToken(c, u)' => HoldsToken(c, u)
    BY <1>1, <1>2 DEF HoldsToken
  <1>6. CallOnly(c)
    BY <1>1, <1>2, <1>3, <1>4, <1>5 DEF CallOnly, SessionsInv, TypeOK
  <1>7. QED
    BY <1>6, CallOnlyPreserves

LEMMA TouchSessionStep ==
  ASSUME SessionsInv, NEW c \in Calls, TouchSession(c)
  PROVE  SessionsInv'
  <1> DEFINE t == call[c].token
  <1>1. /\ call[c].pc = "touching" /\ SessionFree(c, token[t].family)
        /\ UNCHANGED <<token, session, cache, reused>>
    BY DEF TouchSession
  <1>2. /\ call' = [call EXCEPT ![c] = call'[c]]
        /\ call'[c] \in Call /\ call'[c].token = t
        /\ call'[c].pc = "minting" /\ call'[c].seen = call[c].seen
    BY DEF TouchSession, SessionsInv, TypeOK, Call
  <1>3. RotationSafe(c)'
    BY <1>1, <1>2 DEF SessionsInv, RotationSafe, Rotating
  <1>4. RevocationSafe(c)'
    BY <1>2 DEF RevocationSafe
  <1>5. \A f \in Families : HoldsSession(c, f)' => SessionFree(c, f)
    BY <1>1, <1>2 DEF HoldsSession
  <1>6. \A u \in Tokens : HoldsToken(c, u)' => HoldsToken(c, u)
    BY <1>1, <1>2 DEF HoldsToken
  <1>7. CallOnly(c)
    BY <1>1, <1>2, <1>3, <1>4, <1>5, <1>6 DEF CallOnly, SessionsInv, TypeOK
  <1>8. QED
    BY <1>7, CallOnlyPreserves

-----------------------------------------------------------------------------
(* Revocation, up to its commit *)

\* A revocation begins: it has scanned nothing and its sessions are free.
LEMMA BeginRevocation ==
  ASSUME SessionsInv, NEW c \in Calls, NEW fs \in SUBSET Families,
         NEW scope \in {"session", "everywhere", "tokens"},
         call' = [call EXCEPT ![c] = [Fresh EXCEPT !.pc = "sessionsLocked", !.families = fs,
                                                   !.scope = scope]],
         scope # "tokens" => \A f \in fs : session[f] = "active" /\ SessionFree(c, f),
         UNCHANGED <<token, session, cache, reused>>
  PROVE  SessionsInv'
  <1>1. /\ call' = [call EXCEPT ![c] = call'[c]]
        /\ call'[c] \in Call
        /\ call'[c].pc = "sessionsLocked" /\ call'[c].families = fs
        /\ call'[c].scope = scope /\ call'[c].scan = {}
    BY DEF Fresh, Call, SessionsInv, TypeOK
  <1>2. RotationSafe(c)' /\ RevocationSafe(c)'
    BY <1>1 DEF RotationSafe, Rotating, RevocationSafe
  <1>3. /\ \A t \in Tokens : ~ HoldsToken(c, t)'
        /\ \A f \in Families : HoldsSession(c, f)' => SessionFree(c, f)
    BY <1>1 DEF HoldsToken, HoldsSession
  <1>4. CallOnly(c)
    BY <1>1, <1>2, <1>3 DEF CallOnly, SessionsInv, TypeOK
  <1>5. QED
    BY <1>4, CallOnlyPreserves

LEMMA BeginRevocationStep ==
  ASSUME SessionsInv, NEW c \in Calls,
         RevokeSession(c) \/ RevokeAll(c) \/ RevokeTokens(c)
  PROVE  SessionsInv'
  <1>1. UNCHANGED <<token, session, cache, reused>>
    BY DEF RevokeSession, RevokeAll, RevokeTokens
  <1>2. CASE RevokeSession(c)
    <2>1. PICK f \in Families :
            /\ session[f] = "active" /\ SessionFree(c, f)
            /\ call' = [call EXCEPT ![c] = [Fresh EXCEPT !.pc = "sessionsLocked",
                                              !.families = {f}, !.scope = "session"]]
      BY <1>2 DEF RevokeSession
    <2>2. /\ {f} \in SUBSET Families
          /\ \A g \in {f} : session[g] = "active" /\ SessionFree(c, g)
      BY <2>1
    <2>3. QED
      BY <1>1, <2>1, <2>2, BeginRevocation
  <1>3. CASE RevokeAll(c)
    <2> DEFINE active == { f \in Families : session[f] = "active" }
    <2>1. /\ \A f \in active : SessionFree(c, f)
          /\ call' = [call EXCEPT ![c] = [Fresh EXCEPT !.pc = "sessionsLocked",
                                            !.families = active, !.scope = "everywhere"]]
      BY <1>3 DEF RevokeAll
    <2>2. active \in SUBSET Families /\ \A f \in active : session[f] = "active"
      OBVIOUS
    <2> HIDE DEF active
    <2>3. QED
      BY <1>1, <2>1, <2>2, BeginRevocation
  <1>4. CASE RevokeTokens(c)
    <2>1. PICK fs \in SUBSET Families :
            call' = [call EXCEPT ![c] = [Fresh EXCEPT !.pc = "sessionsLocked",
                                           !.families = fs, !.scope = "tokens"]]
      BY <1>4 DEF RevokeTokens
    <2>2. QED
      BY <1>1, <2>1, BeginRevocation
  <1>5. QED
    BY <1>2, <1>3, <1>4

\* The scan sees every stored row of the families it is about.
LEMMA ScanTokensStep ==
  ASSUME SessionsInv, NEW c \in Calls, ScanTokens(c)
  PROVE  SessionsInv'
  <1> DEFINE m     == call[c]
             found == { t \in Tokens :
                          Stored(t) /\ (m.scope = "everywhere" \/ token[t].family \in m.families) }
  <1>1. /\ m.pc = "sessionsLocked"
        /\ UNCHANGED <<token, session, cache, reused>>
    BY DEF ScanTokens
  <1>2. /\ call' = [call EXCEPT ![c] = call'[c]]
        /\ call'[c] \in Call
        /\ call'[c].pc = "scanned" /\ call'[c].scan = found
        /\ call'[c].families = m.families /\ call'[c].scope = m.scope
    BY DEF ScanTokens, SessionsInv, TypeOK, Call
  <1>3. RevocationSafe(c)'
    <2>1. \A t \in found : token[t] # None
      BY DEF Stored
    <2>2. m.scope # "tokens" => \A f \in m.families : session[f] = "active"
      BY <1>1 DEF SessionsInv, RevocationSafe
    <2>3. \A f \in m.families : Member(f) \subseteq found
      BY DEF Member
    <2> HIDE DEF found, m
    <2>4. QED
      BY <1>1, <1>2, <2>1, <2>2, <2>3 DEF RevocationSafe, Member, Stored
  <1>4. RotationSafe(c)' /\ \A t \in Tokens : ~ HoldsToken(c, t)'
    BY <1>2 DEF RotationSafe, Rotating, HoldsToken
  <1>5. \A f \in Families : HoldsSession(c, f)' => HoldsSession(c, f)
    BY <1>1, <1>2 DEF HoldsSession
  <1>6. CallOnly(c)
    BY <1>1, <1>2, <1>3, <1>4, <1>5 DEF CallOnly, SessionsInv, TypeOK
  <1>7. QED
    BY <1>6, CallOnlyPreserves

-----------------------------------------------------------------------------
(* Commits and the steps of time *)

\* What has to be shown of a step that ages, spends or deletes rows: it adds
\* none, it keeps each row's family and parent, and spends for good.
SpendOnly ==
  /\ token' \in [Tokens -> Token \union {None}]
  /\ \A t \in Tokens :
       /\ token'[t] = None <=> token[t] = None
       /\ token[t] # None =>
            /\ token'[t].family = token[t].family
            /\ token'[t].parent = token[t].parent
            /\ token[t].used => token'[t].used
            /\ token[t].revoked => token'[t].revoked
            /\ token[t].age = "deleted" => token'[t].age = "deleted"
            /\ token[t].age = "old" => token'[t].age \in {"old", "deleted"}

LEMMA SpendKeepsMembers ==
  ASSUME SessionsInv, SpendOnly
  PROVE  \A f \in Families : /\ Member(f)' \subseteq Member(f)
                             /\ Member(f) \subseteq Tokens
  BY DEF SpendOnly, Member, Stored

LEMMA SpendKeepsLineage ==
  ASSUME SessionsInv, SpendOnly
  PROVE  Lineage'
  <1>1. \A t \in Tokens : token[t] # None => token[t].parent \in Tokens \union {None}
    BY DEF SessionsInv, TypeOK, Token
  <1>2. QED
    BY <1>1 DEF SessionsInv, Lineage, SpendOnly

\* A step that spends rows may end calls and revoke sessions, but touches no row
\* a rotation under way relies on, and no session somebody holds.
SpendStep ==
  /\ SpendOnly
  /\ call' \in [Calls -> Call]
  /\ \A d \in Calls : call'[d] = call[d] \/ call'[d].pc \in {"evicting", "idle"}
  /\ session' \in [Families -> {"none", "active", "revoked"}]
  /\ cache' \in [Families -> {"none", "active", "revoked"}]
  /\ reused' \subseteq Families
  /\ \A d \in Calls :
       /\ call'[d].pc \in Rotations => token'[call[d].token].age \in {"valid", "expired"}
       /\ call'[d].pc \in Claims => /\ ~ token'[call[d].token].used
                                    /\ ~ token'[call[d].token].revoked
  /\ \A f \in Families : session'[f] # session[f] =>
       /\ session[f] = "active" /\ session'[f] = "revoked"
       /\ \A t \in Member(f)' :
            token'[t].used \/ token'[t].revoked \/ token'[t].age = "old"
       /\ \A d \in Calls :
            /\ call'[d].pc \in Claims => token[call[d].token].family # f
            /\ call'[d].pc \in Revokes /\ call[d].scope # "tokens" => f \notin call[d].families

LEMMA SpendRotation ==
  ASSUME SessionsInv, SpendStep, NEW d \in Calls
  PROVE  RotationSafe(d)'
  <1> SUFFICES ASSUME call'[d].pc \in Rotations
               PROVE  RotationSafe(d)'
    BY DEF RotationSafe, Rotating, Rotations
  <1> DEFINE t == call[d].token
  <1>1. call'[d] = call[d]
    BY DEF SpendStep, Rotations
  <1>2. RotationSafe(d) /\ d \in Rotating
    BY <1>1 DEF SessionsInv, Rotating, Rotations
  <1>3. t \in Tokens /\ token[t] # None /\ token'[t] # None
        /\ token'[t].family = token[t].family
        /\ token[t].family \in Families
    BY <1>2 DEF RotationSafe, SpendStep, SpendOnly, SessionsInv, TypeOK, Token
  <1>4. token'[t].age \in {"valid", "expired"}
    BY DEF SpendStep
  <1>5. CASE call[d].pc = "read"
    BY <1>1, <1>3, <1>4, <1>5 DEF RotationSafe
  <1>6. CASE call[d].pc \in Claims
    <2>1. /\ ~ token'[t].used /\ ~ token'[t].revoked
          /\ session'[token[t].family] = session[token[t].family]
      BY <1>1, <1>3, <1>6 DEF SpendStep
    <2>2. QED
      BY <1>1, <1>2, <1>3, <1>4, <1>6, <2>1 DEF RotationSafe, Claims
  <1>7. QED
    BY <1>1, <1>5, <1>6 DEF Rotations, Claims

LEMMA SpendRevocation ==
  ASSUME SessionsInv, SpendStep, NEW d \in Calls
  PROVE  RevocationSafe(d)'
  <1> SUFFICES ASSUME call'[d].pc \in Revokes
               PROVE  RevocationSafe(d)'
    BY DEF RevocationSafe, Revokes
  <1>1. call'[d] = call[d]
    BY DEF SpendStep, Revokes
  <1>2. RevocationSafe(d) /\ call[d] \in Call
    BY DEF SessionsInv, TypeOK
  <1>3. \A t \in call[d].scan : t \in Tokens /\ token'[t] # None
    BY <1>1, <1>2 DEF RevocationSafe, Revokes, Call, SpendStep, SpendOnly
  <1>4. ASSUME call[d].scope # "tokens", NEW f \in call[d].families
        PROVE  session'[f] = "active" /\ (call[d].pc = "scanned" => Member(f)' \subseteq call[d].scan)
    <2>1. f \in Families
      BY <1>2 DEF Call
    <2>2. session[f] = "active" /\ (call[d].pc = "scanned" => Member(f) \subseteq call[d].scan)
      BY <1>1, <1>2, <1>4 DEF RevocationSafe, Revokes
    <2>3. session'[f] = session[f]
      BY <1>1, <1>4, <2>1 DEF SpendStep
    <2>4. QED
      BY <2>1, <2>2, <2>3, SpendKeepsMembers DEF SpendStep
  <1>5. QED
    BY <1>1, <1>3, <1>4 DEF RevocationSafe

LEMMA SpendPreserves ==
  ASSUME SessionsInv, SpendStep
  PROVE  SessionsInv'
  <1>1. TypeOK'
    BY DEF SpendStep, SpendOnly, TypeOK
  <1>2. Lineage'
    BY SpendKeepsLineage DEF SpendStep
  <1>3. SessionRows'
    <2>1. ASSUME NEW f \in Families
          PROVE  /\ session'[f] # "none" =>
                      \E t \in Tokens : token'[t] # None /\ token'[t].family = f
                 /\ session'[f] = "revoked" =>
                      \A t \in Member(f)' :
                        token'[t].used \/ token'[t].revoked \/ token'[t].age = "old"
      <3>1. session'[f] # "none" => session[f] # "none"
        BY DEF SpendStep
      <3>2. session'[f] # "none" =>
              \E t \in Tokens : token'[t] # None /\ token'[t].family = f
        BY <3>1 DEF SessionsInv, SessionRows, SpendStep, SpendOnly
      <3>3. CASE session'[f] # session[f]
        BY <3>2, <3>3 DEF SpendStep
      <3>4. CASE session'[f] = session[f] /\ session[f] = "revoked"
        <4>1. ASSUME NEW t \in Member(f)'
              PROVE  token'[t].used \/ token'[t].revoked \/ token'[t].age = "old"
          <5>1. t \in Tokens /\ token[t] # None /\ t \in Member(f)
            BY SpendKeepsMembers DEF SpendStep, SpendOnly, Member, Stored
          <5>2. token[t].used \/ token[t].revoked \/ token[t].age = "old"
            BY <3>4, <5>1 DEF SessionsInv, SessionRows
          <5>3. token'[t].age # "deleted"
            BY DEF Member, Stored
          <5>4. QED
            BY <5>1, <5>2, <5>3 DEF SpendStep, SpendOnly
        <4>2. QED
          BY <3>2, <4>1
      <3>5. QED
        BY <3>2, <3>3, <3>4
    <2>2. QED
      BY <2>1 DEF SessionRows
  <1>4. \A d \in Calls : RotationSafe(d)' /\ RevocationSafe(d)'
    BY SpendRotation, SpendRevocation
  <1>5. ASSUME NEW d \in Calls
        PROVE  /\ \A t \in Tokens : HoldsToken(d, t)' => HoldsToken(d, t)
               /\ \A f \in Families : HoldsSession(d, f)' => HoldsSession(d, f)
    <2>1. CASE call'[d].pc \in {"evicting", "idle"}
      BY <2>1 DEF HoldsToken, HoldsSession
    <2>2. CASE call'[d] = call[d]
      <3>1. call[d].pc = "minting" => token'[call[d].token].family = token[call[d].token].family
        BY DEF SessionsInv, RotationSafe, Rotating, SpendStep, SpendOnly
      <3>2. QED
        BY <2>2, <3>1 DEF HoldsToken, HoldsSession
    <2>3. QED
      BY <2>1, <2>2 DEF SpendStep
  <1>6. LocksExclusive'
    BY <1>5 DEF SessionsInv, LocksExclusive
  <1>7. QED
    BY <1>1, <1>2, <1>3, <1>4, <1>6 DEF SessionsInv

\* What the invariant says of the rotations under way.
LEMMA RotationFacts ==
  ASSUME SessionsInv, NEW d \in Calls, call[d].pc \in Rotations
  PROVE  /\ call[d].token \in Tokens /\ token[call[d].token] # None
         /\ token[call[d].token] \in Token
         /\ token[call[d].token].age \in {"valid", "expired"}
         /\ call[d].token \in Member(token[call[d].token].family)
         /\ call[d].pc \in Claims => /\ HoldsToken(d, call[d].token)
                                     /\ ~ token[call[d].token].used
                                     /\ ~ token[call[d].token].revoked
  <1>1. d \in Rotating /\ RotationSafe(d)
    BY DEF SessionsInv, Rotating, Rotations
  <1>2. QED
    BY <1>1 DEF RotationSafe, SessionsInv, TypeOK, Rotations, Claims, HoldsToken, Member, Stored

LEMMA LogoutStep ==
  ASSUME SessionsInv, NEW c \in Calls, Logout(c)
  PROVE  SessionsInv'
  <1>1. PICK t \in Tokens :
          /\ Stored(t) /\ TokenFree(c, t)
          /\ token' = [token EXCEPT ![t].revoked = TRUE]
    BY DEF Logout
  <1>2. call[c].pc = "idle" /\ UNCHANGED <<session, cache, call, reused>>
    BY DEF Logout
  <1>3. /\ call' \in [Calls -> Call] /\ call'[c].pc = "idle"
        /\ \A d \in Calls \ {c} : call'[d] = call[d]
    BY <1>2 DEF SessionsInv, TypeOK
  <1>4. SpendOnly
    <2>1. token[t] \in Token
      BY <1>1 DEF SessionsInv, TypeOK, Stored
    <2>2. /\ [token[t] EXCEPT !.revoked = TRUE] \in Token
          /\ [token[t] EXCEPT !.revoked = TRUE] # None
      BY <2>1, NoRowAssumption DEF Token
    <2>3. QED
      BY <1>1, <2>1, <2>2 DEF SessionsInv, TypeOK, Token, SpendOnly, Stored
  <1>5. ASSUME NEW d \in Calls
        PROVE  /\ call'[d].pc \in Rotations => token'[call[d].token].age \in {"valid", "expired"}
               /\ call'[d].pc \in Claims => /\ ~ token'[call[d].token].used
                                            /\ ~ token'[call[d].token].revoked
    <2>1. CASE d = c
      BY <1>3, <2>1 DEF Rotations, Claims
    <2>2. CASE d # c /\ call[d].pc \in Rotations
      <3>1. call'[d] = call[d]
        BY <1>3, <2>2
      <3>2. token'[call[d].token].age = token[call[d].token].age
        BY <1>1, <2>2, RotationFacts DEF SessionsInv, TypeOK, Token, Stored
      <3>3. call[d].pc \in Claims => token'[call[d].token] = token[call[d].token]
        BY <1>1, <2>2, RotationFacts DEF TokenFree, SessionsInv, TypeOK
      <3>4. QED
        BY <2>2, <3>1, <3>2, <3>3, RotationFacts
    <2>3. CASE d # c /\ call[d].pc \notin Rotations
      BY <1>3, <2>3 DEF Rotations, Claims
    <2>4. QED
      BY <2>1, <2>2, <2>3
  <1>6. SpendStep
    BY <1>2, <1>3, <1>4, <1>5 DEF SpendStep, SessionsInv, TypeOK
  <1>7. QED
    BY <1>6, SpendPreserves

\* The revocation commits: every stored row of its families is revoked, and none
\* of them was claimed, because the claim's lock would have made it wait.
LEMMA CommitRevocationStep ==
  ASSUME SessionsInv, NEW c \in Calls, CommitRevocation(c)
  PROVE  SessionsInv'
  <1> DEFINE m == call[c]
  <1>1. /\ m.pc = "scanned" /\ m \in Call
        /\ \A t \in m.scan : TokenFree(c, t)
        /\ token' = [t \in Tokens |-> IF t \in m.scan
                                      THEN [token[t] EXCEPT !.revoked = TRUE] ELSE token[t]]
        /\ session' = [f \in Families |->
             IF m.scope # "tokens" /\ f \in m.families THEN "revoked" ELSE session[f]]
        /\ UNCHANGED <<cache, reused>>
    BY DEF CommitRevocation, SessionsInv, TypeOK
  <1>2. /\ call' \in [Calls -> Call] /\ call'[c].pc \in {"evicting", "idle"}
        /\ \A d \in Calls \ {c} : call'[d] = call[d]
    <2>1. /\ call' = [call EXCEPT ![c] = call'[c]]
          /\ \/ call'[c] = Fresh
             \/ call'[c] = [Fresh EXCEPT !.pc = "evicting", !.families = m.families]
      BY DEF CommitRevocation, SessionsInv, TypeOK
    <2>2. m.families \subseteq Families
      BY <1>1 DEF Call
    <2>3. call'[c] \in Call /\ call'[c].pc \in {"evicting", "idle"}
      BY <2>1, <2>2, FreshIsCall DEF Fresh, Call
    <2>4. QED
      BY <2>1, <2>3 DEF SessionsInv, TypeOK
  <1>3. /\ m.scan \subseteq Tokens /\ \A t \in m.scan : token[t] \in Token
        /\ m.scope # "tokens" => \A f \in m.families :
             session[f] = "active" /\ Member(f) \subseteq m.scan
    BY <1>1 DEF SessionsInv, TypeOK, RevocationSafe, Call
  <1>5. SpendOnly
    <2>1. \A t \in Tokens : token[t] \in Token \union {None}
      BY DEF SessionsInv, TypeOK
    <2>2. \A t \in m.scan : /\ [token[t] EXCEPT !.revoked = TRUE] \in Token
                            /\ [token[t] EXCEPT !.revoked = TRUE].family = token[t].family
                            /\ [token[t] EXCEPT !.revoked = TRUE].parent = token[t].parent
                            /\ [token[t] EXCEPT !.revoked = TRUE].used = token[t].used
                            /\ [token[t] EXCEPT !.revoked = TRUE].revoked
                            /\ [token[t] EXCEPT !.revoked = TRUE].age = token[t].age
      BY <1>3 DEF Token
    <2>3. \A t \in m.scan : /\ token[t] # None
                            /\ [token[t] EXCEPT !.revoked = TRUE] # None
      BY <1>1, <2>2, NoRowAssumption DEF SessionsInv, RevocationSafe
    <2>4. QED
      BY <1>1, <2>1, <2>2, <2>3 DEF SpendOnly
  <1>6. ASSUME NEW d \in Calls, call'[d].pc \in Rotations
        PROVE  /\ call'[d] = call[d] /\ d # c /\ call[d].pc \in Rotations
               /\ token'[call[d].token].age \in {"valid", "expired"}
               /\ call[d].pc \in Claims => /\ call[d].token \notin m.scan
                                           /\ token'[call[d].token] = token[call[d].token]
    <2>1. call'[d] = call[d] /\ d # c /\ call[d].pc \in Rotations
      BY <1>2, <1>6 DEF Rotations
    <2>2. token'[call[d].token].age = token[call[d].token].age
      BY <1>1, <1>3, <2>1, RotationFacts DEF Token
    <2>3. call[d].pc \in Claims => call[d].token \notin m.scan
      BY <1>1, <2>1, RotationFacts DEF TokenFree
    <2>4. QED
      BY <1>1, <2>1, <2>2, <2>3, RotationFacts
  <1>7. ASSUME NEW f \in Families, session'[f] # session[f]
        PROVE  /\ session[f] = "active" /\ session'[f] = "revoked"
               /\ \A t \in Member(f)' : token'[t].revoked
               /\ \A d \in Calls :
                    /\ call'[d].pc \in Claims => token[call[d].token].family # f
                    /\ call'[d].pc \in Revokes /\ call[d].scope # "tokens"
                         => f \notin call[d].families
    <2>1. m.scope # "tokens" /\ f \in m.families /\ session'[f] = "revoked"
      BY <1>1, <1>7
    <2>2. session[f] = "active" /\ Member(f) \subseteq m.scan
      BY <1>3, <2>1
    <2>3. ASSUME NEW t \in Member(f)' PROVE token'[t].revoked
      BY <1>1, <1>3, <1>5, <2>2, SpendKeepsMembers DEF Token
    <2>4. ASSUME NEW d \in Calls, call'[d].pc \in Claims
          PROVE  token[call[d].token].family # f
      <3>1. call[d].token \notin m.scan /\ call[d].pc \in Rotations
        BY <1>6, <2>4 DEF Claims, Rotations
      <3>2. QED
        BY <2>2, <3>1, RotationFacts
    <2>5. ASSUME NEW d \in Calls, call'[d].pc \in Revokes, call[d].scope # "tokens"
          PROVE  f \notin call[d].families
      <3>1. d # c /\ call[d].pc \in Revokes
        BY <1>2, <2>5 DEF Revokes
      <3>2. HoldsSession(c, f)
        BY <1>1, <2>1 DEF HoldsSession
      <3>3. ~ HoldsSession(d, f)
        BY <3>1, <3>2 DEF SessionsInv, LocksExclusive
      <3>4. QED
        BY <2>5, <3>1, <3>3 DEF HoldsSession, Revokes
    <2>6. QED
      BY <2>1, <2>2, <2>3, <2>4, <2>5
  <1>8. SpendStep
    <2>1. session' \in [Families -> {"none", "active", "revoked"}]
      BY <1>1 DEF SessionsInv, TypeOK
    <2>2. \A d \in Calls :
            /\ call'[d].pc \in Rotations => token'[call[d].token].age \in {"valid", "expired"}
            /\ call'[d].pc \in Claims => /\ ~ token'[call[d].token].used
                                         /\ ~ token'[call[d].token].revoked
      BY <1>6, RotationFacts DEF Claims, Rotations
    <2>3. QED
      BY <1>1, <1>2, <1>5, <1>7, <2>1, <2>2 DEF SpendStep, SessionsInv, TypeOK
  <1>9. QED
    BY <1>8, SpendPreserves

\* A row ages, or is deleted, without any call or session taking part.
LEMMA AgeStep ==
  ASSUME SessionsInv, NEW t \in Tokens, GrowOlder(t) \/ DeleteOld(t)
  PROVE  SessionsInv'
  <1>1. /\ token[t] # None
        /\ UNCHANGED <<session, cache, call, reused>>
    BY DEF GrowOlder, DeleteOld, Stored
  <1>2. PICK age \in {"expired", "old", "deleted"} :
          /\ token' = [token EXCEPT ![t].age = age]
          /\ age = "expired" => token[t].age = "valid"
          /\ age = "old" => token[t].age = "expired" /\ \A c \in Rotating : call[c].token # t
          /\ age = "deleted" => token[t].age = "old"
    BY DEF GrowOlder, DeleteOld
  <1>3. token[t] \in Token
    BY <1>1 DEF SessionsInv, TypeOK
  <1>4. SpendOnly
    <2>1. /\ [token[t] EXCEPT !.age = age] \in Token
          /\ [token[t] EXCEPT !.age = age] # None
      BY <1>3, NoRowAssumption DEF Token
    <2>2. QED
      BY <1>1, <1>2, <1>3, <2>1 DEF SessionsInv, TypeOK, Token, SpendOnly
  <1>5. ASSUME NEW d \in Calls, call[d].pc \in Rotations
        PROVE  /\ token'[call[d].token].age \in {"valid", "expired"}
               /\ token'[call[d].token].used = token[call[d].token].used
               /\ token'[call[d].token].revoked = token[call[d].token].revoked
    <2>1. d \in Rotating
      BY <1>5 DEF Rotating, Rotations
    <2>2. CASE call[d].token = t
      <3>1. age = "expired"
        BY <1>2, <1>5, <2>1, <2>2, RotationFacts
      <3>2. QED
        BY <1>2, <1>3, <2>2, <3>1 DEF SessionsInv, TypeOK, Token
    <2>3. CASE call[d].token # t
      BY <1>2, <1>5, <2>3, RotationFacts DEF SessionsInv, TypeOK
    <2>4. QED
      BY <2>2, <2>3
  <1>6. SpendStep
    BY <1>1, <1>4, <1>5, RotationFacts DEF SpendStep, SessionsInv, TypeOK, Claims, Rotations
  <1>7. QED
    BY <1>6, SpendPreserves

LEMMA SweepSessionStep ==
  ASSUME SessionsInv, NEW f \in Families, SweepSession(f)
  PROVE  SessionsInv'
  <1>1. /\ session[f] = "active"
        /\ \A t \in Member(f) : token[t].age = "old"
        /\ \A c \in Calls : ~ HoldsSession(c, f)
        /\ session' = [session EXCEPT ![f] = "revoked"]
        /\ cache' = [cache EXCEPT ![f] = "none"]
        /\ UNCHANGED <<token, call, reused>>
    BY DEF SweepSession
  <1>2. SpendOnly
    BY <1>1 DEF SessionsInv, TypeOK, SpendOnly
  <1>3. \A d \in Calls :
          /\ call[d].pc \in Claims => token[call[d].token].family # f
          /\ call[d].pc \in Revokes /\ call[d].scope # "tokens" => f \notin call[d].families
    <2>1. ASSUME NEW d \in Calls, call[d].pc \in Claims
          PROVE  token[call[d].token].family # f
      BY <1>1, <2>1, RotationFacts DEF Claims, Rotations
    <2>2. QED
      BY <1>1, <2>1 DEF HoldsSession, Revokes
  <1>4. SpendStep
    <2>1. \A d \in Calls :
            /\ call'[d].pc \in Rotations => token'[call[d].token].age \in {"valid", "expired"}
            /\ call'[d].pc \in Claims => /\ ~ token'[call[d].token].used
                                         /\ ~ token'[call[d].token].revoked
      BY <1>1, RotationFacts DEF Claims, Rotations
    <2>2. \A g \in Families : session'[g] # session[g] => g = f
      BY <1>1 DEF SessionsInv, TypeOK
    <2>3. session'[f] = "revoked" /\ \A t \in Member(f)' : token'[t].age = "old"
      BY <1>1 DEF SessionsInv, TypeOK, Member, Stored
    <2>4. QED
      BY <1>1, <1>2, <1>3, <2>1, <2>2, <2>3 DEF SpendStep, SessionsInv, TypeOK
  <1>5. QED
    BY <1>4, SpendPreserves

LEMMA ExpireEntryStep ==
  ASSUME SessionsInv, NEW f \in Families, ExpireEntry(f)
  PROVE  SessionsInv'
  <1>1. /\ cache' = [cache EXCEPT ![f] = "none"]
        /\ UNCHANGED <<token, session, call, reused>>
    BY DEF ExpireEntry
  <1>2. SpendStep
    BY <1>1, RotationFacts DEF SpendStep, SpendOnly, SessionsInv, TypeOK, Claims, Rotations
  <1>3. QED
    BY <1>2, SpendPreserves

-----------------------------------------------------------------------------
(* New rows *)

\* What a step that fills row n of a family leaves alone, and what it may spend.
Inserts(n, t) ==
  /\ n \in Tokens /\ token[n] = None
  /\ token' \in [Tokens -> Token \union {None}]
  /\ token'[n] # None
  /\ token'[n].age = "valid" /\ ~ token'[n].used
  /\ \A u \in Tokens \ {n} :
       /\ token'[u] = None <=> token[u] = None
       /\ u # t => token'[u] = token[u]
       /\ token[u] # None => /\ token'[u].family = token[u].family
                             /\ token'[u].parent = token[u].parent
                             /\ token'[u].revoked = token[u].revoked
                             /\ token'[u].age = token[u].age
                             /\ token[u].used => token'[u].used

\* Members of the other families stay what they were.
LEMMA InsertKeepsMembers ==
  ASSUME SessionsInv, NEW n, NEW t, Inserts(n, t), NEW g \in Families, token'[n].family # g
  PROVE  Member(g)' = Member(g)
  BY DEF Inserts, Member, Stored

\* A login makes the first row of a family, and its session if it has one.
LEMMA LoginStep ==
  ASSUME SessionsInv, NEW f \in Families, NEW withSession \in BOOLEAN, Login(f, withSession)
  PROVE  SessionsInv'
  <1> DEFINE first == [family |-> f, parent |-> None, used |-> FALSE,
                       revoked |-> FALSE, age |-> "valid"]
  <1>1. PICK n \in Tokens : token[n] = None /\ token' = [token EXCEPT ![n] = first]
    BY DEF Login
  <1>2. /\ \A t \in Tokens : token[t] # None => token[t].family # f
        /\ session' = [session EXCEPT ![f] = IF withSession THEN "active" ELSE "none"]
        /\ UNCHANGED <<cache, call, reused>>
    BY DEF Login
  <1>3. first \in Token /\ first # None
    <2>1. first \in Token
      BY DEF Token
    <2> HIDE DEF first
    <2>2. QED
      BY <2>1, NoRowAssumption
  <1>4. /\ token'[n] = first
        /\ \A u \in Tokens \ {n} : token'[u] = token[u]
        /\ token' \in [Tokens -> Token \union {None}]
    BY <1>1, <1>3 DEF SessionsInv, TypeOK
  <1>5. Inserts(n, n)
    <2>1. /\ token'[n] # None
          /\ token'[n].age = "valid" /\ token'[n].used = FALSE
      BY <1>3, <1>4
    <2> HIDE DEF first
    <2>2. QED
      BY <1>1, <1>4, <2>1 DEF Inserts
  <1>6. TypeOK'
    BY <1>2, <1>4 DEF SessionsInv, TypeOK
  <1>7. Lineage'
    <2>1. \A u \in Tokens : token[u] # None =>
            token[u].parent \in Tokens \union {None}
      BY DEF SessionsInv, TypeOK, Token
    <2>2. token'[n].parent = None
      BY <1>4
    <2>3. QED
      BY <1>1, <1>3, <1>4, <2>1, <2>2 DEF SessionsInv, Lineage
  <1>8. \A g \in Families \ {f} : session'[g] = session[g] /\ Member(g)' = Member(g)
    BY <1>2, <1>4, <1>5, InsertKeepsMembers DEF SessionsInv, TypeOK
  <1>9. session'[f] \in {"active", "none"}
    BY <1>2 DEF SessionsInv, TypeOK
  <1>10. SessionRows'
    <2>1. ASSUME NEW g \in Families
          PROVE  /\ session'[g] # "none" =>
                      \E t \in Tokens : token'[t] # None /\ token'[t].family = g
                 /\ session'[g] = "revoked" =>
                      \A t \in Member(g)' :
                        token'[t].used \/ token'[t].revoked \/ token'[t].age = "old"
      <3>1. CASE g = f
        BY <1>3, <1>4, <1>9, <3>1
      <3>2. CASE g # f
        <4>1. session'[g] # "none" =>
                \E t \in Tokens : token'[t] # None /\ token'[t].family = g
          BY <1>1, <1>4, <1>8, <3>2 DEF SessionsInv, SessionRows
        <4>2. \A t \in Member(g) : t \in Tokens \ {n}
          BY <1>1 DEF Member, Stored
        <4>3. QED
          BY <1>4, <1>8, <3>2, <4>1, <4>2 DEF SessionsInv, SessionRows
      <3>3. QED
        BY <3>1, <3>2
    <2>2. QED
      BY <2>1 DEF SessionRows
  <1>11. ASSUME NEW d \in Calls, call[d].pc \in Rotations
         PROVE  LET t == call[d].token
                IN /\ token'[t] = token[t]
                   /\ session'[token[t].family] = session[token[t].family]
    <2>1. call[d].token \in Tokens \ {n} /\ token[call[d].token] # None
          /\ token[call[d].token].family \in Families \ {f}
      BY <1>1, <1>2, <1>11, RotationFacts DEF Token
    <2>2. QED
      BY <1>4, <1>8, <2>1
  <1>12. ASSUME NEW d \in Calls PROVE RotationSafe(d)'
    BY <1>2, <1>11 DEF SessionsInv, RotationSafe, Rotating, Rotations
  <1>13. ASSUME NEW d \in Calls PROVE RevocationSafe(d)'
    <2>1. SUFFICES ASSUME call[d].pc \in Revokes
                   PROVE  RevocationSafe(d)'
      BY <1>2 DEF RevocationSafe, Revokes
    <2>2. RevocationSafe(d) /\ call[d] \in Call
      BY DEF SessionsInv, TypeOK
    <2>3. \A t \in call[d].scan : token'[t] # None
      BY <1>1, <1>4, <2>1, <2>2 DEF RevocationSafe, Revokes, Call
    <2>4. ASSUME call[d].scope # "tokens", NEW g \in call[d].families
          PROVE  session'[g] = session[g] /\ Member(g)' = Member(g)
      <3>1. g \in Families /\ session[g] = "active"
        BY <2>1, <2>2, <2>4 DEF RevocationSafe, Revokes, Call
      <3>2. g # f
        BY <1>2, <3>1 DEF SessionsInv, SessionRows
      <3>3. QED
        BY <1>8, <3>1, <3>2
    <2>5. QED
      BY <1>2, <2>1, <2>2, <2>3, <2>4 DEF RevocationSafe, Revokes
  <1>14. LocksExclusive'
    <2>1. ASSUME NEW d \in Calls
          PROVE  /\ \A t \in Tokens : HoldsToken(d, t)' => HoldsToken(d, t)
                 /\ \A g \in Families : HoldsSession(d, g)' => HoldsSession(d, g)
      BY <1>2, <1>11 DEF HoldsToken, HoldsSession, Rotations
    <2>2. QED
      BY <2>1 DEF SessionsInv, LocksExclusive
  <1>15. QED
    BY <1>6, <1>7, <1>10, <1>12, <1>13, <1>14 DEF SessionsInv

\* The rotation commits: its token is spent and has one successor.  A revocation
\* that has scanned the family holds the session's row, which the rotation holds
\* itself if the family has an active session: the two exclude each other.
LEMMA CommitRotationStep ==
  ASSUME SessionsInv, NEW c \in Calls, CommitRotation(c)
  PROVE  SessionsInv'
  <1> DEFINE t == call[c].token
             f == token[t].family
             spent == [token[t] EXCEPT !.used = TRUE]
             successor == [family |-> f, parent |-> t, used |-> FALSE,
                           revoked |-> FALSE, age |-> "valid"]
  <1>1. call[c].pc = "minting" /\ UNCHANGED <<session, cache, reused>>
    BY DEF CommitRotation
  <1>2. PICK n \in Tokens :
          /\ token[n] = None
          /\ token' = [token EXCEPT ![t].used = TRUE, ![n] = successor]
    BY DEF CommitRotation
  <1>3. /\ t \in Tokens /\ token[t] # None /\ token[t] \in Token /\ f \in Families
        /\ ~ token[t].used /\ t # n
        /\ HoldsToken(c, t)
        /\ session[f] # "revoked"
        /\ call[c].seen # "active" => session[f] # "active"
    <2>1. call[c].pc \in Rotations /\ call[c].pc \in Claims /\ c \in Rotating
      BY <1>1 DEF Rotations, Claims, Rotating
    <2>2. RotationSafe(c)
      BY DEF SessionsInv
    <2>3. QED
      BY <1>1, <1>2, <2>1, <2>2, RotationFacts DEF RotationSafe, Token
  <1>4. /\ spent \in Token /\ spent # None
        /\ spent.used /\ spent.family = f /\ spent.parent = token[t].parent
        /\ spent.revoked = token[t].revoked /\ spent.age = token[t].age
    BY <1>3, NoRowAssumption DEF Token
  <1>5. /\ successor \in Token /\ successor # None
        /\ successor.family = f /\ successor.parent = t
        /\ successor.used = FALSE /\ successor.age = "valid"
    <2>1. successor \in Token
      BY <1>3 DEF Token
    <2>2. QED
      BY <2>1, NoRowAssumption
  <1>6. /\ token'[t] = spent /\ token'[n] = successor
        /\ \A u \in Tokens \ {n, t} : token'[u] = token[u]
        /\ token' \in [Tokens -> Token \union {None}]
    <2> HIDE DEF successor
    <2>1. QED
      BY <1>2, <1>3, <1>4, <1>5 DEF SessionsInv, TypeOK
  <1>7. /\ call' \in [Calls -> Call] /\ call'[c].pc = "idle"
        /\ \A d \in Calls \ {c} : call'[d] = call[d]
    BY FreshIsCall DEF CommitRotation, SessionsInv, TypeOK
  <1> HIDE DEF spent, successor, f
  <1>8. Inserts(n, t)
    BY <1>2, <1>3, <1>4, <1>5, <1>6 DEF Inserts, f
  <1>9. TypeOK'
    BY <1>1, <1>6, <1>7 DEF SessionsInv, TypeOK
  <1>10. Lineage'
    <2>1. \A u \in Tokens : token[u] # None =>
            /\ token[u].parent \in Tokens \union {None}
            /\ token[u].parent # None => /\ token[token[u].parent] # None
                                         /\ token[token[u].parent].used
                                         /\ token[u].parent \in Tokens \ {n, t}
      BY <1>2, <1>3 DEF SessionsInv, TypeOK, Token, Lineage
    <2>2. \A u \in Tokens \ {n} :
            /\ token'[u] # None <=> token[u] # None
            /\ token[u] # None => token'[u].parent = token[u].parent
      BY <1>3, <1>4, <1>6
    <2>3. ASSUME NEW u \in Tokens, token'[u] # None, token'[u].parent # None
          PROVE  token'[token'[u].parent] # None /\ token'[token'[u].parent].used
      <3>1. CASE u = n
        BY <1>4, <1>5, <1>6, <3>1
      <3>2. CASE u # n
        BY <1>6, <2>1, <2>2, <2>3, <3>2
      <3>3. QED
        BY <3>1, <3>2
    <2>4. ASSUME NEW u \in Tokens, NEW v \in Tokens,
                 token'[u] # None, token'[v] # None,
                 token'[u].parent # None, token'[u].parent = token'[v].parent
          PROVE  u = v
      <3>1. token'[n].parent = t
        BY <1>5, <1>6
      <3>2. CASE u # n /\ v # n
        BY <2>2, <2>4, <3>2 DEF SessionsInv, Lineage
      <3>3. CASE u = n /\ v # n
        BY <2>1, <2>2, <2>4, <3>1, <3>3
      <3>4. CASE u # n /\ v = n
        BY <2>1, <2>2, <2>4, <3>1, <3>4
      <3>5. QED
        BY <3>2, <3>3, <3>4
    <2>5. QED
      BY <2>3, <2>4 DEF Lineage
  <1>11. \A g \in Families \ {f} : Member(g)' = Member(g)
    BY <1>5, <1>6, <1>8, InsertKeepsMembers
  <1>12. SessionRows'
    <2>1. ASSUME NEW g \in Families
          PROVE  /\ session'[g] # "none" =>
                      \E u \in Tokens : token'[u] # None /\ token'[u].family = g
                 /\ session'[g] = "revoked" =>
                      \A u \in Member(g)' :
                        token'[u].used \/ token'[u].revoked \/ token'[u].age = "old"
      <3>1. ASSUME session'[g] # "none"
            PROVE  \E u \in Tokens : token'[u] # None /\ token'[u].family = g
        <4>1. PICK u \in Tokens : token[u] # None /\ token[u].family = g
          BY <1>1, <3>1 DEF SessionsInv, SessionRows
        <4>2. token'[u] # None /\ token'[u].family = g
          BY <1>2, <1>8, <4>1 DEF Inserts
        <4>3. QED
          BY <4>2
      <3>2. ASSUME session'[g] = "revoked", NEW u \in Member(g)'
            PROVE  token'[u].used \/ token'[u].revoked \/ token'[u].age = "old"
        <4>1. g # f
          BY <1>1, <1>3, <3>2
        <4>2. u \in Member(g)
          BY <1>11, <4>1, <3>2
        <4>3. u \in Tokens \ {n} /\ token[u] # None
          BY <1>2, <4>2 DEF Member, Stored
        <4>4. token[u].used \/ token[u].revoked \/ token[u].age = "old"
          BY <1>1, <3>2, <4>2 DEF SessionsInv, SessionRows
        <4>5. QED
          BY <1>8, <4>3, <4>4 DEF Inserts
      <3>3. QED
        BY <3>1, <3>2
    <2>2. QED
      BY <2>1 DEF SessionRows
  <1>13. ASSUME NEW d \in Calls \ {c}, call[d].pc \in Rotations
         PROVE  LET u == call[d].token
                IN /\ u \in Tokens /\ token[u] # None /\ token'[u] # None
                   /\ token'[u].family = token[u].family
                   /\ token'[u].age = token[u].age
                   /\ call[d].pc \in Claims => token'[u] = token[u]
    <2>1. call[d].token \in Tokens \ {n} /\ token[call[d].token] # None
      BY <1>2, <1>13, RotationFacts
    <2>2. call[d].pc \in Claims => call[d].token # t
      BY <1>3, <1>13, RotationFacts DEF SessionsInv, LocksExclusive
    <2>3. QED
      BY <1>6, <1>8, <2>1, <2>2 DEF Inserts
  <1>14. ASSUME NEW d \in Calls PROVE RotationSafe(d)'
    <2>1. CASE d = c
      BY <1>7, <2>1 DEF RotationSafe, Rotating
    <2>2. CASE d # c /\ call[d].pc \in Rotations
      BY <1>1, <1>7, <1>13, <2>2 DEF SessionsInv, RotationSafe, Rotating, Rotations, Claims
    <2>3. CASE d # c /\ call[d].pc \notin Rotations
      BY <1>7, <2>3 DEF RotationSafe, Rotating, Rotations
    <2>4. QED
      BY <2>1, <2>2, <2>3
  <1>15. ASSUME NEW d \in Calls PROVE RevocationSafe(d)'
    <2>1. SUFFICES ASSUME d # c, call[d].pc \in Revokes
                   PROVE  RevocationSafe(d)'
      BY <1>7 DEF RevocationSafe, Revokes
    <2>2. RevocationSafe(d) /\ call[d] \in Call /\ call'[d] = call[d]
      BY <1>7, <2>1 DEF SessionsInv, TypeOK
    <2>3. \A u \in call[d].scan : token'[u] # None
      <3>1. \A u \in call[d].scan : u \in Tokens /\ token[u] # None
        BY <2>1, <2>2 DEF RevocationSafe, Revokes, Call
      <3>2. QED
        BY <1>2, <1>8, <3>1 DEF Inserts
    <2>4. ASSUME call[d].scope # "tokens", NEW g \in call[d].families
          PROVE  Member(g)' = Member(g)
      <3>1. g \in Families /\ session[g] = "active" /\ HoldsSession(d, g)
        BY <2>1, <2>2, <2>4 DEF RevocationSafe, Revokes, Call, HoldsSession
      <3>2. ~ HoldsSession(c, g)
        BY <2>1, <3>1 DEF SessionsInv, LocksExclusive
      <3>3. g # f
        BY <1>1, <1>3, <3>1, <3>2 DEF HoldsSession, f
      <3>4. QED
        BY <1>11, <3>1, <3>3
    <2>5. QED
      BY <1>1, <2>1, <2>2, <2>3, <2>4 DEF RevocationSafe, Revokes
  <1>16. LocksExclusive'
    <2>1. ASSUME NEW d \in Calls
          PROVE  /\ \A u \in Tokens : HoldsToken(d, u)' => HoldsToken(d, u)
                 /\ \A g \in Families : HoldsSession(d, g)' => HoldsSession(d, g)
      <3>1. CASE d = c
        BY <1>7, <3>1 DEF HoldsToken, HoldsSession
      <3>2. CASE d # c
        <4>1. call[d].pc = "minting" => token'[call[d].token].family = token[call[d].token].family
          BY <1>13, <3>2 DEF Rotations
        <4>2. QED
          BY <1>7, <3>2, <4>1 DEF HoldsToken, HoldsSession
      <3>3. QED
        BY <3>1, <3>2
    <2>2. QED
      BY <2>1 DEF SessionsInv, LocksExclusive
  <1>17. QED
    BY <1>9, <1>10, <1>12, <1>14, <1>15, <1>16 DEF SessionsInv

-----------------------------------------------------------------------------
(* The theorems *)

LEMMA NextPreserves == SessionsInv /\ [Next]_vars => SessionsInv'
  <1> SUFFICES ASSUME SessionsInv, [Next]_vars
               PROVE  SessionsInv'
    OBVIOUS
  <1>1. CASE \E f \in Families : \/ Login(f, TRUE) \/ Login(f, FALSE)
                                \/ ExpireEntry(f) \/ SweepSession(f)
    BY <1>1, LoginStep, ExpireEntryStep, SweepSessionStep
  <1>2. CASE \E t \in Tokens : GrowOlder(t) \/ DeleteOld(t)
    BY <1>2, AgeStep
  <1>3. ASSUME NEW c \in Calls,
               \/ PresentToken(c) \/ Logout(c) \/ RevokeSession(c) \/ RevokeAll(c)
               \/ RevokeTokens(c) \/ Authenticate(c) \/ Abort(c) \/ CallStep(c)
        PROVE  SessionsInv'
    BY <1>3, PresentTokenStep, LogoutStep, BeginRevocationStep, QuietStep, ClaimStep,
       ReadSessionStep, TouchSessionStep, CommitRotationStep, ScanTokensStep,
       CommitRevocationStep
    DEF CallStep
  <1>4. CASE UNCHANGED vars
    <2>1. /\ TypeOK' /\ Lineage' /\ SessionRows' /\ LocksExclusive'
      BY <1>4 DEF vars, SessionsInv, TypeOK, Lineage, SessionRows, Member, Stored,
                  LocksExclusive, HoldsToken, HoldsSession
    <2>2. \A c \in Calls : RotationSafe(c)' /\ RevocationSafe(c)'
      BY <1>4 DEF vars, SessionsInv, RotationSafe, RevocationSafe, Rotating, Member, Stored
    <2>3. QED
      BY <2>1, <2>2 DEF SessionsInv
  <1>5. QED
    BY <1>1, <1>2, <1>3, <1>4 DEF Next

\* The locks, the lineage of the rows and the calls' knowledge of them stay
\* consistent under every request, worker and failure.
THEOREM SessionsInvariant == Spec => []SessionsInv
  <1>1. Init => SessionsInv
    BY InitSessionsInv
  <1>2. SessionsInv /\ [Next]_vars => SessionsInv'
    BY NextPreserves
  <1>3. QED
    BY <1>1, <1>2, PTL DEF Spec

\* The rows, cache entries and requests keep their kinds.
THEOREM SessionsTypeCorrect == Spec => []TypeOK
  <1>1. SessionsInv => TypeOK
    BY DEF SessionsInv
  <1>2. QED
    BY <1>1, SessionsInvariant, PTL

\* rotate_refresh_token's atomic claim makes every refresh token single-use.
THEOREM SingleUse == Spec => []OneSuccessor
  <1>1. SessionsInv => OneSuccessor
    BY DEF SessionsInv, Lineage, OneSuccessor, Stored
  <1>2. QED
    BY <1>1, SessionsInvariant, PTL

\* Nobody rotates in a revoked session again: revoke_session, the revocation of
\* all sessions and the sweep leave no live token in its family.
THEOREM RevokedStaysDead == Spec => []RevokedSessionIsDead
  <1>1. SessionsInv => RevokedSessionIsDead
    BY DEF SessionsInv, SessionRows, RevokedSessionIsDead, Live
  <1>2. QED
    BY <1>1, SessionsInvariant, PTL

===============================================================================
