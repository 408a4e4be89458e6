-------------------------------- MODULE Hub --------------------------------
(***************************************************************************)
(* The Profile Hub of one user.  GET /users/me?include=... composes the    *)
(* blocks asked for; security and sessions need an authentication within   *)
(* STEP_UP_TTL, read from Redis and, failing that, from the user row as    *)
(* the request loaded it.  The window is looked at twice, by the route and *)
(* by the builder.  PATCH /users/me rewrites full_name, kept as one column *)
(* (a sequence of words here), from the halves the body carries.           *)
(***************************************************************************)
EXTENDS Integers, Sequences

CONSTANTS Includes,       \* the ?include= sets that are asked for
          HubUsers,       \* the user as loaded: roles, active role, profiles, client profile
          HubReaders, HubPatchers, SignIns,
          FirstHalves, LastHalves,   \* names a PATCH carries, as sequences of words
          STEP_UP_TTL, LastMinute,
          Never, NotSent

\* What names are made of.
Words == {"first", "last"}
           \union UNION { {n[i] : i \in DOMAIN n} : n \in FirstHalves \union LastHalves }

ASSUME HubAssumption ==
  /\ STEP_UP_TTL \in Nat \ {0} /\ LastMinute \in Nat
  /\ \A n \in FirstHalves \union LastHalves : n \in Seq(Words) /\ n # <<>>
  /\ Never \notin Nat

VARIABLES minute,        \* the time
          stamp,         \* auth:stepup:{user} in Redis
          lastStepUp,    \* User.last_step_up_at
          proving,       \* the open authentications
          proved,        \* when the user last showed a credential
          reading,       \* the requests to GET /users/me
          fullName,      \* User.full_name, as words
          patching,      \* the open PATCH /users/me
          asked,         \* the halves as asked for, one PATCH after the other
          unclear        \* PATCHes overlapped, or a first half has several words

hubVars == <<minute, stamp, lastStepUp, proving, proved, reading,
             fullName, patching, asked, unclear>>

SensitiveTokens == {"security", "sessions"}
UniversalTokens == {"profile", "stats", "addresses", "payment_methods", "notifications"}
                     \union SensitiveTokens
ClientTokens    == {"vehicles", "favorites", "preferences"}
DetailerTokens  == {"provider"}

\* IncludeSpec.parse: what another role would be needed for is dropped.
Parse(include, roles) ==
  { t \in include : \/ t \in UniversalTokens
                    \/ t \in ClientTokens /\ "client" \in roles
                    \/ t \in DetailerTokens /\ roles \intersect {"detailer", "admin"} # {} }

\* The profile the provider block shows.
Surfaced(u) == IF u.active \in {"detailer", "mechanic"} THEN u.active ELSE "detailer"

\* Blocks that are present but null.
NullBlocks(u) ==
  { t \in {"preferences", "provider"} :
      IF t = "preferences" THEN ~ u.client ELSE Surfaced(u) \notin u.profiles }

Recent(t) == t # Never /\ t > minute - STEP_UP_TTL

\* What a read of the Redis key can return: a failure, an eviction and an
\* expiry look alike.
CachedStamps == {stamp, Never}

IsStepUpRecent(cached, loaded) == Recent(cached) \/ Recent(loaded)

Waiting == [pc |-> "idle"]

HubInit ==
  /\ minute = 0
  /\ stamp = Never /\ lastStepUp = Never /\ proved = Never
  /\ proving = [a \in SignIns |-> Never]
  /\ reading = [c \in HubReaders |-> Waiting]
  /\ fullName = <<"first", "last">>
  /\ asked = [first |-> <<"first">>, last |-> <<"last">>]
  /\ patching = [c \in HubPatchers |-> Waiting]
  /\ unclear = FALSE

NameVars == <<fullName, patching, asked, unclear>>

-----------------------------------------------------------------------------
(* Authentication and the passing of time *)

Minute ==
  /\ minute < LastMinute
  /\ minute' = minute + 1
  /\ UNCHANGED <<stamp, lastStepUp, proving, proved, reading, NameVars>>

\* mark_step_up writes Redis, if that works, and then the row ...
Authenticate(a) ==
  /\ proving[a] = Never
  /\ proving' = [proving EXCEPT ![a] = minute]
  /\ proved' = minute
  /\ stamp' \in {minute, stamp}
  /\ UNCHANGED <<minute, lastStepUp, reading, NameVars>>

\* ... and the login commits the row, or fails.
EndAuthentication(a) ==
  /\ proving[a] # Never
  /\ lastStepUp' \in {proving[a], lastStepUp}
  /\ proving' = [proving EXCEPT ![a] = Never]
  /\ UNCHANGED <<minute, stamp, proved, reading, NameVars>>

-----------------------------------------------------------------------------
(* GET /users/me *)

\* get_current_user loads the row the whole request works with.
LoadMe(c, u, include, skip) ==
  /\ reading[c].pc \in {"idle", "done"}
  /\ reading' = [reading EXCEPT ![c] =
       [pc |-> "loaded", user |-> u, effective |-> Parse(include, u.roles),
        skip |-> skip, row |-> lastStepUp]]
  /\ UNCHANGED <<minute, stamp, lastStepUp, proving, proved, NameVars>>

\* The route: sensitive tokens, no skip and no step-up is a 401.
GateMe(c) ==
  LET r == reading[c]
      guarded == r.effective \intersect SensitiveTokens # {} /\ ~ r.skip
  IN /\ r.pc = "loaded"
     /\ \E cached \in CachedStamps :
          reading' = [reading EXCEPT ![c] =
            IF guarded /\ ~ IsStepUpRecent(cached, r.row)
              THEN Waiting
              ELSE [pc |-> "gated", user |-> r.user, effective |-> r.effective,
                    skip |-> r.skip, row |-> r.row, gate |-> minute]]
     /\ UNCHANGED <<minute, stamp, lastStepUp, proving, proved, NameVars>>

\* ProfileHubService.build looks again; without step-up a sensitive token is
\* left out, and named only under skip.
Composed(r, allowed) ==
  LET sensitive == r.effective \intersect SensitiveTokens
      populated == IF allowed THEN r.effective ELSE r.effective \ sensitive
  IN [pc |-> "done", effective |-> r.effective, skip |-> r.skip, row |-> r.row,
      gate |-> r.gate, at |-> minute, proved |-> proved, populated |-> populated,
      null |-> populated \intersect NullBlocks(r.user),
      skipped |-> IF ~ allowed /\ r.skip THEN sensitive ELSE {}]

\* Variant: what is left out is not named.
ComposedSilently(r, allowed) == [Composed(r, allowed) EXCEPT !.skipped = {}]

Answer(r, allowed) == Composed(r, allowed)

BuildHub(c) ==
  /\ reading[c].pc = "gated"
  /\ \E cached \in CachedStamps :
       reading' = [reading EXCEPT ![c] = Answer(@, IsStepUpRecent(cached, @.row))]
  /\ UNCHANGED <<minute, stamp, lastStepUp, proving, proved, NameVars>>

-----------------------------------------------------------------------------
(* PATCH /users/me *)

\* _split_full_name.
SplitFullName(name) ==
  [first |-> SubSeq(name, 1, 1), last |-> SubSeq(name, 2, Len(name))]

Sent(half, otherwise) == IF half = NotSent THEN otherwise ELSE half

\* The half that was not sent is taken from the row as loaded.
Recomposed(loaded, first, last) ==
  LET current == SplitFullName(loaded)
  IN Sent(first, current.first) \o Sent(last, current.last)

LoadForPatch(c, first, last) ==
  /\ patching[c] = Waiting
  /\ patching' = [patching EXCEPT ![c] =
       [pc |-> "loaded", first |-> first, last |-> last, name |-> fullName]]
  /\ unclear' = (unclear \/ \E d \in HubPatchers \ {c} : patching[d] # Waiting)
  /\ UNCHANGED <<minute, stamp, lastStepUp, proving, proved, reading, fullName, asked>>

\* last_active_at changes every time: the flush always takes the row lock.
FlushPatch(c) ==
  LET p == patching[c] IN
  /\ p.pc = "loaded"
  /\ \A d \in HubPatchers : patching[d].pc # "flushed"
  /\ patching' = [patching EXCEPT ![c].pc = "flushed",
                                 ![c].name = Recomposed(p.name, p.first, p.last)]
  /\ UNCHANGED <<minute, stamp, lastStepUp, proving, proved, reading,
                 fullName, asked, unclear>>

\* An unchanged full_name is not among the columns written.
CommitPatch(c) ==
  LET p == patching[c] IN
  /\ p.pc = "flushed"
  /\ fullName' = IF p.first = NotSent /\ p.last = NotSent THEN fullName ELSE p.name
  /\ asked' = [first |-> Sent(p.first, asked.first), last |-> Sent(p.last, asked.last)]
  /\ unclear' = (unclear \/ Len(asked'.first) # 1)
  /\ patching' = [patching EXCEPT ![c] = Waiting]
  /\ UNCHANGED <<minute, stamp, lastStepUp, proving, proved, reading>>

AbortPatch(c) ==
  /\ patching[c] # Waiting
  /\ patching' = [patching EXCEPT ![c] = Waiting]
  /\ UNCHANGED <<minute, stamp, lastStepUp, proving, proved, reading,
                 fullName, asked, unclear>>

-----------------------------------------------------------------------------

HubNext ==
  \/ Minute
  \/ \E a \in SignIns : Authenticate(a) \/ EndAuthentication(a)
  \/ \E c \in HubReaders :
       \/ GateMe(c) \/ BuildHub(c)
       \/ \E u \in HubUsers, include \in Includes, skip \in BOOLEAN : LoadMe(c, u, include, skip)

NameNext ==
  \E c \in HubPatchers :
    \/ FlushPatch(c) \/ CommitPatch(c) \/ AbortPatch(c)
    \/ \E first \in FirstHalves \union {NotSent}, last \in LastHalves \union {NotSent} :
         LoadForPatch(c, first, last)

HubSpec == HubInit /\ [][HubNext \/ NameNext]_hubVars

-----------------------------------------------------------------------------
(* Properties *)

Within(t, now) == t # Never /\ t > now - STEP_UP_TTL

\* A 200 says what became of every block that was asked for and granted.  One
\* gap is left: no skip was asked for, a credential was recent at the first
\* look, and by the second the window closed or Redis failed over a stale row.
EveryBlockAccountedFor(r) ==
  \/ r.effective = r.populated \union r.skipped
  \/ ~ r.skip /\ Within(r.proved, r.gate) /\ ~ Within(r.row, r.at)

\* Sensitive blocks follow a credential shown within the window, even when
\* Redis and the row disagree; and a login that was committed before the
\* request is enough for them, whatever happens to Redis.
SensitiveWhenProved(r) ==
  /\ r.populated \intersect SensitiveTokens # {} => Within(r.proved, r.at)
  /\ Within(r.row, r.at) => r.skipped = {}

\* build: "the set of include tokens that landed in the response" and the
\* ones "omitted because the caller has no recent step-up".  For the name: a
\* PATCH changes the halves it carries and no other, unless PATCHes overlapped
\* or a first half of several words was split elsewhere than it was joined.
HubHonest ==
  /\ \A c \in HubReaders : reading[c].pc = "done" =>
       EveryBlockAccountedFor(reading[c]) /\ SensitiveWhenProved(reading[c])
  /\ unclear \/ SplitFullName(fullName) = asked

-----------------------------------------------------------------------------
(* The inductive invariant behind it *)

\* The credential seen at t was shown by the time u, if at all.
NotAfter(t, u) == t # Never => u # Never /\ t <= u

StampTypes ==
  /\ minute \in Nat
  /\ {stamp, lastStepUp, proved} \subseteq Nat \union {Never}
  /\ proving \in [SignIns -> Nat \union {Never}]
  /\ DOMAIN reading = HubReaders

\* Neither Redis, nor the row, nor an open login knows of a later credential.
StampsOrdered ==
  /\ NotAfter(proved, minute)
  /\ NotAfter(stamp, proved) /\ NotAfter(lastStepUp, proved)
  /\ \A a \in SignIns : NotAfter(proving[a], proved)

\* What a request knows at each of its points.
ReadingSound(r) ==
  /\ r.pc \in {"idle", "loaded", "gated", "done"}
  /\ r.pc \in {"loaded", "gated"} => r.row \in Nat \union {Never} /\ NotAfter(r.row, proved)
  /\ r.pc = "gated" =>
       /\ r.gate \in Nat
       /\ r.effective \intersect SensitiveTokens = {} \/ r.skip \/ Within(proved, r.gate)
  /\ r.pc = "done" => EveryBlockAccountedFor(r) /\ SensitiveWhenProved(r)

Names == Seq(Words) \ {<<>>}

PatchRow == [pc : {"loaded", "flushed"}, first : FirstHalves \union {NotSent},
             last : LastHalves \union {NotSent}, name : Names]

NameTypes ==
  /\ fullName \in Names
  /\ asked \in [first : Seq(Words), last : Seq(Words)]
  /\ patching \in [HubPatchers -> {Waiting} \union PatchRow]

\* The column is the halves joined, and the one open PATCH read it as it is.
NameJoined ==
  /\ Len(asked.first) = 1 /\ fullName = asked.first \o asked.last
  /\ \A c, d \in HubPatchers : patching[c] # Waiting /\ patching[d] # Waiting => c = d
  /\ \A c \in HubPatchers :
       LET p == patching[c]
       IN /\ p.pc = "loaded"  => p.name = fullName
          /\ p.pc = "flushed" => p.name = Recomposed(fullName, p.first, p.last)

HubInv ==
  /\ StampTypes /\ StampsOrdered
  /\ \A c \in HubReaders : ReadingSound(reading[c])
  /\ NameTypes
  /\ ~ unclear => NameJoined

=============================================================================
