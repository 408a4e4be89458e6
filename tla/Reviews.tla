------------------------------- MODULE Reviews -------------------------------
(***************************************************************************)
(* The reviews of one detailer, their moderation and the aggregate kept in *)
(* the provider profile.  A review and its share of the aggregate are one  *)
(* transaction; the unique appointment_id and the row lock of the UPDATE   *)
(* order the transactions, the moderation routes read first and write      *)
(* later.  Averages are in hundredths: the column is NUMERIC(3,2).         *)
(***************************************************************************)
EXTENDS Integers, FiniteSets, FiniteSetsExt

CONSTANTS Reviewed,        \* completed appointments with the detailer
          Ratings,         \* the ratings that are given
          ReviewCalls, Moderators,
          KnownAggregates, \* aggregates of a profile before the first review here
          NoReview, NoAverage

ReviewStates == {"auto_pending", "approved", "hidden"}
ReviewRow    == [rating : Ratings, state : ReviewStates]

ASSUME ReviewsAssumption ==
  /\ Ratings \subseteq 1..5 /\ NoReview \notin ReviewRow
  /\ KnownAggregates \subseteq [total : Nat, average : (0..500) \union {NoAverage}]

VARIABLES reviewRows,      \* the committed review of each appointment
          reviewTxn,       \* the open reviews
          aggregate,       \* average_rating and total_reviews of the profile
          inherited,       \* the aggregate at the start
          moderating       \* what each moderator has read

reviewVars == <<reviewRows, reviewTxn, aggregate, inherited, moderating>>

IdleReview == [op |-> "idle"]

ReviewInit ==
  /\ reviewRows = [b \in Reviewed |-> NoReview]
  /\ reviewTxn = [c \in ReviewCalls |-> IdleReview]
  /\ aggregate \in KnownAggregates /\ inherited = aggregate
  /\ moderating = [m \in Moderators |-> IdleReview]

Given == { b \in Reviewed : reviewRows[b] # NoReview }

\* Other open transactions that hold the key of b, or the profile's row.
Inserting(c, b) ==
  \E d \in ReviewCalls \ {c} : reviewTxn[d].op \in {"inserted", "added"} /\ reviewTxn[d].of = b
Adding(c) == \E d \in ReviewCalls \ {c} : reviewTxn[d].op = "added"

-----------------------------------------------------------------------------

\* create_review: completed, the client's, and no review yet.
CheckReview(c, b, rating) ==
  /\ reviewTxn[c] = IdleReview
  /\ reviewRows[b] = NoReview
  /\ reviewTxn' = [reviewTxn EXCEPT ![c] = [op |-> "checked", of |-> b, rating |-> rating]]
  /\ UNCHANGED <<reviewRows, aggregate, inherited, moderating>>

\* The INSERT waits for another one of the same appointment.
InsertReview(c) ==
  /\ reviewTxn[c].op = "checked" /\ ~ Inserting(c, reviewTxn[c].of)
  /\ reviewTxn' = [reviewTxn EXCEPT ![c] =
       IF reviewRows[reviewTxn[c].of] = NoReview THEN [@ EXCEPT !.op = "inserted"] ELSE IdleReview]
  /\ UNCHANGED <<reviewRows, aggregate, inherited, moderating>>

\* NULL * 0 is NULL: a profile that starts without an average never gets one.
Including(a, rating) ==
  LET n == a.total + 1
  IN [total |-> n,
      average |-> IF a.average = NoAverage THEN NoAverage
                  ELSE (2 * (a.average * a.total + 100 * rating) + n) \div (2 * n)]

Add(c) ==
  /\ reviewTxn[c].op = "inserted"
  /\ reviewTxn' = [reviewTxn EXCEPT ![c] =
       [op |-> "added", of |-> @.of, rating |-> @.rating,
        sum |-> Including(aggregate, reviewTxn[c].rating)]]
  /\ UNCHANGED <<reviewRows, aggregate, inherited, moderating>>

\* Variant: computed in the service and written back.
AddToWhatWasRead(c) == Add(c)

\* update_detailer_aggregate waits for the row and computes from what it finds.
AddToAggregate(c) == ~ Adding(c) /\ Add(c)

CommitReview(c) ==
  /\ reviewTxn[c].op = "added"
  /\ reviewRows' = [reviewRows EXCEPT ![reviewTxn[c].of] =
       [rating |-> reviewTxn[c].rating, state |-> "auto_pending"]]
  /\ aggregate' = reviewTxn[c].sum
  /\ reviewTxn' = [reviewTxn EXCEPT ![c] = IdleReview]
  /\ UNCHANGED <<inherited, moderating>>

AbortReview(c) ==
  /\ reviewTxn[c] # IdleReview
  /\ reviewTxn' = [reviewTxn EXCEPT ![c] = IdleReview]
  /\ UNCHANGED <<reviewRows, aggregate, inherited, moderating>>

-----------------------------------------------------------------------------

\* approve_review and hide_review read the state they start from ...
BeginModeration(m, b, verdict) ==
  /\ moderating[m] = IdleReview
  /\ b \in Given
  /\ reviewRows[b].state \in (IF verdict = "approved" THEN {"auto_pending"}
                                                    ELSE {"auto_pending", "approved"})
  /\ moderating' = [moderating EXCEPT ![m] = [op |-> verdict, of |-> b]]
  /\ UNCHANGED <<reviewRows, reviewTxn, aggregate, inherited>>

\* ... and write the verdict by primary key.  The aggregate stays.
CommitModeration(m) ==
  /\ moderating[m] # IdleReview
  /\ reviewRows' = [reviewRows EXCEPT ![moderating[m].of].state = moderating[m].op]
  /\ moderating' = [moderating EXCEPT ![m] = IdleReview]
  /\ UNCHANGED <<reviewTxn, aggregate, inherited>>

-----------------------------------------------------------------------------

ReviewNext ==
  \/ \E c \in ReviewCalls :
       \/ InsertReview(c) \/ AddToAggregate(c) \/ CommitReview(c) \/ AbortReview(c)
       \/ \E b \in Reviewed, rating \in Ratings : CheckReview(c, b, rating)
  \/ \E m \in Moderators :
       \/ CommitModeration(m)
       \/ \E b \in Reviewed, verdict \in {"approved", "hidden"} : BeginModeration(m, b, verdict)

ReviewSpec == ReviewInit /\ [][ReviewNext]_reviewVars

-----------------------------------------------------------------------------
(* Properties *)

Distance(x, y) == IF x > y THEN x - y ELSE y - x

\* The stars of a set of reviews.
Stars(rated, set) == MapThenSumSet(LAMBDA b : rated[b].rating, set)

\* "No Lost Update race condition": the profile counts every committed review
\* once, and an average it has stays within a hundredth per review of the mean
\* of what went into it.
EveryReviewCounted ==
  /\ aggregate.total = inherited.total + Cardinality(Given)
  /\ aggregate.average # NoAverage =>
       Distance(aggregate.average * aggregate.total,
                inherited.average * inherited.total + 100 * Stars(reviewRows, Given))
         <= aggregate.total * Cardinality(Given)

-----------------------------------------------------------------------------
(* The inductive invariant behind it *)

Aggregate == [total : Nat, average : Nat \union {NoAverage}]

ReviewTypes ==
  /\ reviewRows \in [Reviewed -> {NoReview} \union ReviewRow] /\ IsFiniteSet(Given)
  /\ reviewTxn \in [ReviewCalls ->
       {IdleReview} \union [op : {"checked", "inserted"}, of : Reviewed, rating : Ratings]
         \union [op : {"added"}, of : Reviewed, rating : Ratings, sum : Aggregate]]
  /\ aggregate \in Aggregate /\ inherited \in Aggregate
  /\ moderating \in [Moderators -> {IdleReview} \union [op : {"approved", "hidden"}, of : Given]]

\* Who has inserted holds the appointment's key, and who has added its rating
\* holds the profile's row and has counted everything that is committed.
ReviewHeld(c) ==
  /\ reviewTxn[c].op \in {"inserted", "added"} =>
       reviewTxn[c].of \notin Given /\ ~ Inserting(c, reviewTxn[c].of)
  /\ reviewTxn[c].op = "added" =>
       reviewTxn[c].sum = Including(aggregate, reviewTxn[c].rating) /\ ~ Adding(c)

ReviewInv ==
  /\ ReviewTypes
  /\ \A c \in ReviewCalls : ReviewHeld(c)
  /\ inherited.average = NoAverage => aggregate.average = NoAverage
  /\ EveryReviewCounted

=============================================================================
