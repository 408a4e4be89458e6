------------------------------ MODULE Sessions ------------------------------
(***************************************************************************)
(* Refresh-token rotation, revocation and the session cache of one user.   *)
(*                                                                         *)
(* Every request is one PostgreSQL transaction at READ COMMITTED: an       *)
(* UPDATE locks its rows until the transaction ends, an UPDATE that meets  *)
(* a locked row waits and then looks at the row again, rows inserted after *)
(* a statement began are not seen by it, and an exception rolls everything *)
(* back (get_db).  A call that holds a lock is told by its pc, so locks    *)
(* are derived and a rollback frees them by itself.                        *)
(*                                                                         *)
(* A login makes a family of refresh tokens.  The password login pins a    *)
(* sessions row to it; the social and the passkey login do not.            *)
(***************************************************************************)
EXTENDS Naturals, FiniteSets

CONSTANTS Tokens,     \* refresh_tokens rows
          Families,   \* family_id values, one per login
          Calls,      \* requests
          None

ASSUME SessionsAssumption == None \notin Tokens

VARIABLES token,    \* token[t]: the committed row, or None
          session,  \* the family's sessions row: none, active or revoked
          cache,    \* the Redis entry session:{sid}
          call,     \* progress of each request
          reused    \* families reported "reuse detected" or "race lost"

vars == <<token, session, cache, call, reused>>

Token == [family : Families, parent : Tokens \union {None}, used : BOOLEAN,
          revoked : BOOLEAN, age : {"valid", "expired", "old", "deleted"}]

ASSUME NoRowAssumption == None \notin Token

Call == [pc : {"idle", "read", "claimed", "touching", "minting",
               "sessionsLocked", "scanned", "evicting", "filling"},
         token : Tokens \union {None},    \* the token a rotation presents
         families : SUBSET Families,      \* what a revocation is about
         scope : {"session", "everywhere", "tokens", "none"},
         scan : SUBSET Tokens,            \* rows the revoking UPDATE found
         seen : {"active", "revoked", "none"}]  \* what a cache fill read

\* No request, or the last one has ended: the next one may come.
Fresh == [pc |-> "idle", token |-> None, families |-> {}, scope |-> "none",
          scan |-> {}, seen |-> "none"]

Init ==
  /\ token = [t \in Tokens |-> None]
  /\ session = [f \in Families |-> "none"]
  /\ cache = [f \in Families |-> "none"]
  /\ call = [c \in Calls |-> Fresh]
  /\ reused = {}

Stored(t) == token[t] # None /\ token[t].age # "deleted"
Member(f) == { t \in Tokens : Stored(t) /\ token[t].family = f }
Live(t)   == Stored(t) /\ ~ token[t].used /\ ~ token[t].revoked /\ token[t].age = "valid"

\* Row locks.  A rotation holds its token from the claim on, and the session's
\* row once it has stamped last_active_at; a revocation holds the rows of the
\* sessions it has updated.
HoldsToken(c, t) ==
  call[c].token = t /\ call[c].pc \in {"claimed", "touching", "minting"}

HoldsSession(c, f) ==
  \/ call[c].pc = "minting" /\ call[c].seen = "active" /\ token[call[c].token].family = f
  \/ call[c].pc \in {"sessionsLocked", "scanned"} /\ call[c].scope # "tokens"
       /\ f \in call[c].families

TokenFree(c, t)   == \A o \in Calls \ {c} : ~ HoldsToken(o, t)
SessionFree(c, f) == \A o \in Calls \ {c} : ~ HoldsSession(o, f)

Rotating == { c \in Calls : call[c].pc \in {"read", "claimed", "touching", "minting"} }

\* Bound: a row is left for what the tokens ts and those of the rotations under
\* way may be exchanged for.
Room(ts) ==
  Cardinality(ts \union { call[c].token : c \in Rotating })
    <= Cardinality({ t \in Tokens : token[t] = None })

-----------------------------------------------------------------------------
(* Logins *)

\* create_session_and_tokens, or create_refresh_token alone; one commit.
Login(f, withSession) ==
  /\ \A t \in Tokens : token[t] # None => token[t].family # f
  /\ \E t \in Tokens :
       /\ token[t] = None
       /\ Room({t})
       /\ token' = [token EXCEPT ![t] = [family |-> f, parent |-> None, used |-> FALSE,
                                         revoked |-> FALSE, age |-> "valid"]]
  /\ session' = [session EXCEPT ![f] = IF withSession THEN "active" ELSE "none"]
  /\ UNCHANGED <<cache, call, reused>>

-----------------------------------------------------------------------------
(* POST /auth/refresh: rotate_refresh_token *)

\* get_by_raw.  A used or revoked token is reuse: revoke_family runs, but the
\* 401 raised right after it makes get_db roll the update back.  An expired one
\* is refused and changes nothing.
PresentToken(c) ==
  /\ call[c].pc = "idle"
  /\ \E t \in Tokens :
       /\ Stored(t)
       /\ \/ /\ token[t].used \/ token[t].revoked
             /\ reused' = reused \union {token[t].family}
             /\ UNCHANGED call
          \/ /\ Live(t)
             /\ Room({t})
             /\ call' = [call EXCEPT ![c].pc = "read", ![c].token = t]
             /\ UNCHANGED reused
  /\ UNCHANGED <<token, session, cache>>

\* Variant: mark_used, the deprecated claim without the condition.
ClaimUnconditionally(c) ==
  LET t == call[c].token
  IN /\ call[c].pc = "read"
     /\ TokenFree(c, t)
     /\ call' = [call EXCEPT ![c].pc = "claimed"]
     /\ UNCHANGED <<token, session, cache, reused>>

\* Variant: a lost race is tried again until it is won.
ClaimWithRetry(c) ==
  LET t == call[c].token
  IN /\ call[c].pc = "read"
     /\ TokenFree(c, t)
     /\ ~ token[t].used /\ ~ token[t].revoked
     /\ call' = [call EXCEPT ![c].pc = "claimed"]
     /\ UNCHANGED <<token, session, cache, reused>>

\* mark_used_atomic waits for the row, then claims it if it is still unused and
\* not revoked.  A lost race revokes the family and raises: rolled back too.
Claim(c) ==
  LET t == call[c].token
  IN /\ call[c].pc = "read"
     /\ TokenFree(c, t)
     /\ \/ /\ ~ token[t].used /\ ~ token[t].revoked
           /\ call' = [call EXCEPT ![c].pc = "claimed"]
           /\ UNCHANGED reused
        \/ /\ token[t].used \/ token[t].revoked
           /\ call' = [call EXCEPT ![c] = Fresh]
           /\ reused' = reused \union {token[t].family}
     /\ UNCHANGED <<token, session, cache>>

\* Variant: last_active_at is not stamped on a refresh, the session is only read.
ReadSessionOnly(c) ==
  /\ call[c].pc = "claimed"
  /\ call' = [call EXCEPT ![c].pc = "minting", ![c].seen = "none"]
  /\ UNCHANGED <<token, session, cache, reused>>

\* get_by_family: the active session of the family, if there is one.
ReadSession(c) ==
  LET f == token[call[c].token].family
  IN /\ call[c].pc = "claimed"
     /\ \/ /\ session[f] = "active"
           /\ call' = [call EXCEPT ![c].pc = "touching", ![c].seen = "active"]
        \/ /\ session[f] # "active"
           /\ call' = [call EXCEPT ![c].pc = "minting", ![c].seen = "none"]
     /\ UNCHANGED <<token, session, cache, reused>>

\* update_last_active waits for the session's row and keeps it.
TouchSession(c) ==
  /\ call[c].pc = "touching"
  /\ SessionFree(c, token[call[c].token].family)
  /\ call' = [call EXCEPT ![c].pc = "minting"]
  /\ UNCHANGED <<token, session, cache, reused>>

\* The successor is inserted in the same family, and everything commits.
CommitRotation(c) ==
  LET t == call[c].token
  IN /\ call[c].pc = "minting"
     /\ \E n \in Tokens :
          /\ token[n] = None
          /\ token' = [token EXCEPT
               ![t].used = TRUE,
               ![n] = [family |-> token[t].family, parent |-> t, used |-> FALSE,
                       revoked |-> FALSE, age |-> "valid"]]
     /\ call' = [call EXCEPT ![c] = Fresh]
     /\ UNCHANGED <<session, cache, reused>>

\* POST /auth/logout: revoke_by_raw of one token, waiting for its row.
Logout(c) ==
  /\ call[c].pc = "idle"
  /\ \E t \in Tokens :
       /\ Stored(t)
       /\ TokenFree(c, t)
       /\ token' = [token EXCEPT ![t].revoked = TRUE]
  /\ UNCHANGED <<session, cache, call, reused>>

-----------------------------------------------------------------------------
(* Revocations: the sessions first, then the tokens, then the commit *)

\* POST /auth/sessions/{id}/revoke, and DELETE /auth/sessions/{family_id} of a
\* family with an active session: repo.revoke waits for the row; for a
\* session already revoked it changes nothing (the second route would go on and
\* revoke the same tokens again).
RevokeSession(c) ==
  /\ call[c].pc = "idle"
  /\ \E f \in Families :
       /\ session[f] = "active"
       /\ SessionFree(c, f)
       /\ call' = [call EXCEPT ![c] = [Fresh EXCEPT !.pc = "sessionsLocked",
                                         !.families = {f}, !.scope = "session"]]
  /\ UNCHANGED <<token, session, cache, reused>>

\* DELETE /auth/sessions: every active session of the user.
RevokeAll(c) ==
  LET active == { f \in Families : session[f] = "active" }
  IN /\ call[c].pc = "idle"
     /\ \A f \in active : SessionFree(c, f)
     /\ call' = [call EXCEPT ![c] = [Fresh EXCEPT !.pc = "sessionsLocked",
                                       !.families = active, !.scope = "everywhere"]]
     /\ UNCHANGED <<token, session, cache, reused>>

\* DELETE /auth/sessions/{family_id} of a family without an active session, and
\* the confirmed change of the email or the phone (all families): tokens only.
RevokeTokens(c) ==
  /\ call[c].pc = "idle"
  /\ \E fs \in { {f} : f \in { g \in Families : Member(g) # {} /\ session[g] # "active" } }
                 \union {Families} :
       call' = [call EXCEPT ![c] = [Fresh EXCEPT !.pc = "sessionsLocked",
                                      !.families = fs, !.scope = "tokens"]]
  /\ UNCHANGED <<token, session, cache, reused>>

\* The UPDATE of refresh_tokens starts: it will change the rows it can see now.
ScanTokens(c) ==
  LET m == call[c]
      found == { t \in Tokens : Stored(t) /\ (m.scope = "everywhere" \/ token[t].family \in m.families) }
  IN /\ m.pc = "sessionsLocked"
     /\ call' = [call EXCEPT ![c].pc = "scanned", ![c].scan = found]
     /\ UNCHANGED <<token, session, cache, reused>>

\* It waits for the locked ones among them; then the transaction commits.
CommitRevocation(c) ==
  LET m == call[c]
  IN /\ m.pc = "scanned"
     /\ \A t \in m.scan : TokenFree(c, t)
     /\ token' = [t \in Tokens |-> IF t \in m.scan
                                   THEN [token[t] EXCEPT !.revoked = TRUE] ELSE token[t]]
     /\ session' = [f \in Families |->
          IF m.scope # "tokens" /\ f \in m.families THEN "revoked" ELSE session[f]]
     /\ call' = [call EXCEPT ![c] = IF m.scope = "session"
          THEN [Fresh EXCEPT !.pc = "evicting", !.families = m.families] ELSE Fresh]
     /\ UNCHANGED <<cache, reused>>

\* invalidate_session_cache, after the commit.
EvictCache(c) ==
  /\ call[c].pc = "evicting"
  /\ cache' = [f \in Families |-> IF f \in call[c].families THEN "none" ELSE cache[f]]
  /\ call' = [call EXCEPT ![c] = Fresh]
  /\ UNCHANGED <<token, session, reused>>

-----------------------------------------------------------------------------
(* get_session_cached, under every authenticated request that has a sid *)

\* A cache hit answers the request; a miss reads the row and fills the cache.
Authenticate(c) ==
  /\ call[c].pc = "idle"
  /\ \E f \in Families :
       /\ session[f] # "none"
       /\ cache[f] = "none"
       /\ call' = [call EXCEPT ![c] = [Fresh EXCEPT !.pc = "filling", !.families = {f},
                                         !.seen = session[f]]]
  /\ UNCHANGED <<token, session, cache, reused>>

\* Variant: the entry says revoked=False, as the sessions were when it was written.
FillAsActive(c) ==
  /\ call[c].pc = "filling"
  /\ cache' = [f \in Families |-> IF f \in call[c].families THEN "active" ELSE cache[f]]
  /\ call' = [call EXCEPT ![c] = Fresh]
  /\ UNCHANGED <<token, session, reused>>

FillCache(c) ==
  /\ call[c].pc = "filling"
  /\ cache' = [f \in Families |-> IF f \in call[c].families THEN call[c].seen ELSE cache[f]]
  /\ call' = [call EXCEPT ![c] = Fresh]
  /\ UNCHANGED <<token, session, reused>>

\* AUTH_SESSION_CACHE_TTL_SECONDS after the SETEX.
ExpireEntry(f) ==
  /\ cache[f] # "none"
  /\ cache' = [cache EXCEPT ![f] = "none"]
  /\ UNCHANGED <<token, session, call, reused>>

-----------------------------------------------------------------------------
(* Time, clean-up workers, failures *)

\* expires_at passes, then the grace period of a day, which no request outlives.
\* A successor expires after its predecessor.
GrowOlder(t) ==
  /\ Stored(t)
  /\ \/ /\ token[t].age = "valid"
        /\ token' = [token EXCEPT ![t].age = "expired"]
     \/ /\ token[t].age = "expired"
        /\ \A c \in Rotating : call[c].token # t
        /\ token' = [token EXCEPT ![t].age = "old"]
  /\ token[t].parent # None => token[token[t].parent].age # token[t].age
  /\ UNCHANGED <<session, cache, call, reused>>

\* token_cleanup_worker: delete_expired.
DeleteOld(t) ==
  /\ token[t] # None
  /\ token[t].age = "old"
  /\ token' = [token EXCEPT ![t].age = "deleted"]
  /\ UNCHANGED <<session, cache, call, reused>>

\* session_cleanup_worker: active sessions whose family has only old tokens,
\* at least one of them still stored; the cache entry goes after the commit.
SweepSession(f) ==
  /\ session[f] = "active"
  /\ Member(f) # {}
  /\ \A t \in Member(f) : token[t].age = "old"
  /\ \A c \in Calls : ~ HoldsSession(c, f)
  /\ session' = [session EXCEPT ![f] = "revoked"]
  /\ cache' = [cache EXCEPT ![f] = "none"]
  /\ UNCHANGED <<token, call, reused>>

\* An exception, a client that is gone or the end of the process: rollback.
Abort(c) ==
  /\ call[c].pc # "idle"
  /\ call' = [call EXCEPT ![c] = Fresh]
  /\ UNCHANGED <<token, session, cache, reused>>

\* c waits for a row o holds.
WaitsFor(c, o) ==
  /\ c # o
  /\ \/ call[c].pc = "read" /\ HoldsToken(o, call[c].token)
     \/ call[c].pc = "touching" /\ HoldsSession(o, token[call[c].token].family)
     \/ call[c].pc = "scanned" /\ \E t \in call[c].scan : HoldsToken(o, t)

\* PostgreSQL's deadlock detector aborts one of the transactions of a cycle.
BreakDeadlock(c) ==
  /\ \E ring \in SUBSET Calls :
       /\ c \in ring
       /\ \A o \in ring : \E p \in ring : WaitsFor(o, p)
  /\ call' = [call EXCEPT ![c] = Fresh]
  /\ UNCHANGED <<token, session, cache, reused>>

-----------------------------------------------------------------------------

CallStep(c) ==
  \/ Claim(c) \/ ReadSession(c) \/ TouchSession(c) \/ CommitRotation(c)
  \/ ScanTokens(c) \/ CommitRevocation(c) \/ EvictCache(c) \/ FillCache(c)
  \/ BreakDeadlock(c)

Next ==
  \/ \E f \in Families : \/ Login(f, TRUE) \/ Login(f, FALSE)
                         \/ ExpireEntry(f) \/ SweepSession(f)
  \/ \E t \in Tokens : GrowOlder(t) \/ DeleteOld(t)
  \/ \E c \in Calls : \/ PresentToken(c) \/ Logout(c) \/ RevokeSession(c) \/ RevokeAll(c)
                      \/ RevokeTokens(c) \/ Authenticate(c) \/ Abort(c) \/ CallStep(c)

Spec == Init /\ [][Next]_vars

\* A request that can run runs, and Redis drops what has lived its time.  Strong
\* fairness for the requests: PostgreSQL queues the transactions that wait for a
\* row, so that later ones cannot take it again and again before them.
FairSpec ==
  /\ Spec
  /\ \A c \in Calls : SF_vars(CallStep(c))
  /\ \A f \in Families : WF_vars(ExpireEntry(f))

-----------------------------------------------------------------------------
(* Properties *)

\* Rows, cache entries and requests hold values of their kinds.
TypeOK ==
  /\ token \in [Tokens -> Token \union {None}]
  /\ session \in [Families -> {"none", "active", "revoked"}]
  /\ cache \in [Families -> {"none", "active", "revoked"}]
  /\ call \in [Calls -> Call]
  /\ reused \subseteq Families

\* A refresh token is single-use: however many rotations present it at once, at
\* most one of them ever mints a successor.
OneSuccessor ==
  \A t, u \in Tokens :
    Stored(t) /\ Stored(u) /\ token[t].parent # None /\ token[t].parent = token[u].parent
    => t = u

\* Once a session is revoked nobody can rotate in it any more.  A rotation under
\* way cannot slip a successor past revoke_family, because it stamps
\* last_active_at and so waits for, or is waited for by, the revocation.
RevokedSessionIsDead ==
  \A f \in Families : session[f] = "revoked" => \A t \in Member(f) : ~ Live(t)

\* A predecessor is used up by its one successor.
Lineage ==
  /\ \A n \in Tokens :
       token[n] # None /\ token[n].parent # None
       => token[token[n].parent] # None /\ token[token[n].parent].used
  /\ \A n, m \in Tokens :
       /\ token[n] # None /\ token[m] # None
       /\ token[n].parent # None /\ token[n].parent = token[m].parent
       => n = m

\* A session is never without rows of its family, and what a revoked one has
\* left cannot be claimed, not even by a rotation that read it before.
SessionRows ==
  \A f \in Families :
    /\ session[f] # "none" => \E t \in Tokens : token[t] # None /\ token[t].family = f
    /\ session[f] = "revoked" =>
         \A t \in Member(f) : token[t].used \/ token[t].revoked \/ token[t].age = "old"

\* A rotation's token stays stored, and once claimed unspent, in a family that
\* is not revoked before the rotation ends.
RotationSafe(c) ==
  LET t == call[c].token
  IN c \in Rotating =>
       /\ t \in Tokens /\ token[t] # None /\ token[t].age \in {"valid", "expired"}
       /\ call[c].pc # "read" => /\ ~ token[t].used /\ ~ token[t].revoked
                                 /\ session[token[t].family] # "revoked"
       /\ call[c].pc = "touching" => call[c].seen = "active"
       /\ call[c].pc = "minting" /\ call[c].seen # "active"
            => session[token[t].family] # "active"

\* A revocation's sessions stay active until it commits, and no row is added to
\* their families behind its scan.
RevocationSafe(c) ==
  call[c].pc \in {"sessionsLocked", "scanned"} =>
    /\ \A t \in call[c].scan : token[t] # None
    /\ call[c].scope # "tokens" => \A f \in call[c].families :
         /\ session[f] = "active"
         /\ call[c].pc = "scanned" => Member(f) \subseteq call[c].scan

\* No row is locked by two transactions.
LocksExclusive ==
  \A c, d \in Calls : c # d =>
    /\ \A t \in Tokens : ~ (HoldsToken(c, t) /\ HoldsToken(d, t))
    /\ \A f \in Families : ~ (HoldsSession(c, f) /\ HoldsSession(d, f))

\* The strengthening that makes the two properties above inductive.
SessionsInv ==
  /\ TypeOK
  /\ Lineage
  /\ SessionRows
  /\ \A c \in Calls : RotationSafe(c) /\ RevocationSafe(c)
  /\ LocksExclusive

\* "Raises HTTPException 401 + revokes entire family if reuse is detected."
ReuseRevokesFamily ==
  \A f \in reused : \A t \in Member(f) : ~ Live(t)

\* No request hangs: two transactions that take the token's and the session's
\* rows in opposite orders are torn apart, everybody else gets the rows in turn.
CallsEnd ==
  \A c \in Calls : call[c].pc # "idle" ~> call[c].pc = "idle"

\* A cached revoked=False outlives the revocation by the entry's time to live at
\* most, even if a reader fills the cache after the eviction.
StaleEntryExpires ==
  \A f \in Families : session[f] = "revoked" ~> [](cache[f] # "active")

=============================================================================
