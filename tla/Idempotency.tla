---------------------------- MODULE Idempotency ----------------------------
(***************************************************************************)
(* The Idempotency-Key of a mutating request, on a route that depends on   *)
(* resolve_idempotency: the dependency looks for a cached response after   *)
(* authentication, the middleware stores the response of a 2xx after the   *)
(* handler's transaction has committed.  Nothing marks a key as being      *)
(* worked on.                                                              *)
(***************************************************************************)
EXTENDS Integers, FiniteSets

CONSTANTS KeyUsers, Keys, Bodies,
          KeyedCalls,      \* requests that may run at one time
          MaxExecutions,   \* bound on the handlers that run
          NoResponse

ASSUME IdempotencyAssumption == MaxExecutions \in Nat

Operations == [user : KeyUsers, key : Keys, body : Bodies]

ASSUME NoResponseAssumption == NoResponse \notin Operations

VARIABLES responses,    \* idemp:v2 entries: the operation whose response is stored
          keyed,        \* the requests under way
          executed,     \* how often each operation has taken effect
          replayed,     \* pairs of a request and the operation whose response it got
          unprotected   \* operations for which a second execution is possible

keyVars == <<responses, keyed, executed, replayed, unprotected>>

\* build_idempotency_v2_cache_key; method and path are the route's.
AnonymousKey(q) == <<"anon", q.key, q.body>>   \* Variant: the legacy key.
CacheKey(q)     == <<q.user, q.key, q.body>>

NoCall == [at |-> "idle"]

KeyInit ==
  /\ responses = [k \in { CacheKey(q) : q \in Operations } |-> NoResponse]
  /\ keyed = [c \in KeyedCalls |-> NoCall]
  /\ executed = [q \in Operations |-> 0]
  /\ replayed = {} /\ unprotected = {}

RunningFor(q) == \E d \in KeyedCalls : keyed[d].at # "idle" /\ keyed[d].of = q

\* _resolve_idempotency_impl: a hit is replayed, a miss goes on to the handler;
\* so does a Redis that does not answer.
Resolve(c, q, answers) ==
  /\ keyed[c] = NoCall
  /\ IF answers /\ responses[CacheKey(q)] # NoResponse
     THEN /\ replayed' = replayed \union {<<q, responses[CacheKey(q)]>>}
          /\ UNCHANGED <<keyed, unprotected>>
     ELSE /\ keyed' = [keyed EXCEPT ![c] = [at |-> "handler", of |-> q]]
          /\ unprotected' = IF RunningFor(q) \/ ~ answers THEN unprotected \union {q} ELSE unprotected
          /\ UNCHANGED replayed
  /\ UNCHANGED <<responses, executed>>

\* The handler's transaction commits: a 2xx.
Execute(c) ==
  /\ keyed[c].at = "handler"
  /\ executed[keyed[c].of] < MaxExecutions
  /\ executed' = [executed EXCEPT ![keyed[c].of] = @ + 1]
  /\ keyed' = [keyed EXCEPT ![c].at = "done"]
  /\ UNCHANGED <<responses, replayed, unprotected>>

\* An error response is not cached: the client may try again.
Reject(c) ==
  /\ keyed[c].at = "handler"
  /\ keyed' = [keyed EXCEPT ![c] = NoCall]
  /\ UNCHANGED <<responses, executed, replayed, unprotected>>

\* HSET and EXPIRE of a response that is not too long.
StoreResponse(c) ==
  /\ keyed[c].at = "done"
  /\ responses' = [responses EXCEPT ![CacheKey(keyed[c].of)] = keyed[c].of]
  /\ keyed' = [keyed EXCEPT ![c] = NoCall]
  /\ UNCHANGED <<executed, replayed, unprotected>>

\* Redis fails, the body is over 256 KB, or the process stops.
StoreFails(c) ==
  /\ keyed[c].at = "done"
  /\ keyed' = [keyed EXCEPT ![c] = NoCall]
  /\ unprotected' = unprotected \union {keyed[c].of}
  /\ UNCHANGED <<responses, executed, replayed>>

\* 24 hours.
ResponseExpires(q) ==
  /\ responses[CacheKey(q)] # NoResponse
  /\ unprotected' = unprotected \union {responses[CacheKey(q)]}
  /\ responses' = [responses EXCEPT ![CacheKey(q)] = NoResponse]
  /\ UNCHANGED <<keyed, executed, replayed>>

KeyNext ==
  \/ \E c \in KeyedCalls :
       \/ Execute(c) \/ Reject(c) \/ StoreResponse(c) \/ StoreFails(c)
       \/ \E q \in Operations, answers \in BOOLEAN : Resolve(c, q, answers)
  \/ \E q \in Operations : ResponseExpires(q)

KeySpec == KeyInit /\ [][KeyNext]_keyVars

-----------------------------------------------------------------------------
(* Properties *)

\* A retry is answered with the response of the same user's same request and
\* does not run again, unless the first one was still running, its response was
\* not stored or has expired, or Redis did not answer.
RetriesReplay ==
  /\ \A r \in replayed : r[1] = r[2]
  /\ \A q \in Operations \ unprotected : executed[q] <= 1

\* What makes it so: a stored response is the operation's own, and an operation
\* nothing has happened to runs in one call at most.  While its handler runs it has
\* not taken effect and nothing is stored; once it has, the response is stored or
\* the call is about to store it.
RunsOnce(q) ==
  /\ \A c, d \in KeyedCalls :
       /\ keyed[c].at # "idle" /\ keyed[c].of = q
       /\ keyed[d].at # "idle" /\ keyed[d].of = q
       => c = d
  /\ \A c \in KeyedCalls :
       keyed[c].at = "handler" /\ keyed[c].of = q
         => executed[q] = 0 /\ responses[CacheKey(q)] = NoResponse
  /\ executed[q] <= 1
  /\ executed[q] = 1 => \/ responses[CacheKey(q)] = q
                        \/ \E c \in KeyedCalls : keyed[c].at = "done" /\ keyed[c].of = q

KeyInv ==
  /\ keyed \in [KeyedCalls -> {NoCall} \union [at : {"handler", "done"}, of : Operations]]
  /\ executed \in [Operations -> Nat]
  /\ DOMAIN responses = { CacheKey(q) : q \in Operations }
  /\ \A q \in Operations : responses[CacheKey(q)] \in {NoResponse, q}
  /\ \A r \in replayed : r[1] = r[2]
  /\ \A q \in Operations \ unprotected : RunsOnce(q)

=============================================================================
