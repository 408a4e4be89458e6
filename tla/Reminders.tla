------------------------------ MODULE Reminders ------------------------------
(***************************************************************************)
(* Documents of a detailer and the daily job that reminds of their expiry. *)
(* A run reads the documents that expire within the widest threshold and   *)
(* the reminders already stamped in the audit log, sends what is missing,  *)
(* and commits the stamps in one transaction at its end.                   *)
(***************************************************************************)
EXTENDS Integers, FiniteSets, FiniteSetsExt

CONSTANTS Documents,
          ExpiryDays,       \* days on which a document may expire
          THRESHOLD_DAYS,
          Checkers,         \* runs of document_expiry_checker at one time
          FinalDay,         \* bound on the days of a behaviour
          NoDate

ASSUME RemindersAssumption ==
  /\ THRESHOLD_DAYS \subseteq Nat \ {0} /\ THRESHOLD_DAYS # {} /\ IsFiniteSet(THRESHOLD_DAYS)
  /\ ExpiryDays \subseteq Nat /\ FinalDay \in Nat /\ NoDate \notin Nat

VARIABLES day,
          documents,    \* live or not, the day it came and the day it expires (or NoDate)
          stamps,       \* audit rows with a reminder_bucket: <<document, bucket>>
          sent,         \* reminders sent of each document and bucket: 0, 1, or 2 for more
          checker,      \* the open run: the stamps it is about to commit
          checkedOn,    \* days on which a run has ended well
          repeated      \* a run failed after sending, or ran beside another one

reminderVars == <<day, documents, stamps, sent, checker, checkedOn, repeated>>

NeverThere == [there |-> FALSE, since |-> NoDate, expires |-> NoDate]
Pairs == Documents \X THRESHOLD_DAYS
NoRun == [on |-> NoDate, found |-> {}]

ReminderInit ==
  /\ day = 0 /\ stamps = {} /\ checkedOn = {} /\ repeated = FALSE
  /\ documents = [d \in Documents |-> NeverThere]
  /\ sent = [x \in Pairs |-> 0]
  /\ checker = [w \in Checkers |-> NoRun]

\* _bucket_for_days_remaining: the narrowest threshold that is crossed.
Bucket(remaining) == Min({ t \in THRESHOLD_DAYS : remaining <= t })

\* The candidates of a run and the bucket each is in today.
Due ==
  { <<d, Bucket(documents[d].expires - day)>> :
      d \in { e \in Documents :
                /\ documents[e].there /\ documents[e].expires # NoDate
                /\ documents[e].expires - day <= Max(THRESHOLD_DAYS) } }

-----------------------------------------------------------------------------

NextDay ==
  /\ day < FinalDay
  /\ day' = day + 1
  /\ UNCHANGED <<documents, stamps, sent, checker, checkedOn, repeated>>

\* confirm_upload of a document, and its commit.
UploadDocument(d, expires) ==
  /\ documents[d] = NeverThere
  /\ documents' = [documents EXCEPT ![d] = [there |-> TRUE, since |-> day, expires |-> expires]]
  /\ UNCHANGED <<day, stamps, sent, checker, checkedOn, repeated>>

\* A soft delete: the row keeps its date.
DeleteDocument(d) ==
  /\ documents[d].there
  /\ documents' = [documents EXCEPT ![d].there = FALSE]
  /\ UNCHANGED <<day, stamps, sent, checker, checkedOn, repeated>>

\* Variant: only the document is looked up in the log.
CheckAnyStamp(w) ==
  LET found == { x \in Due : \A s \in stamps : s[1] # x[1] }
  IN /\ checker[w] = NoRun
     /\ checker' = [checker EXCEPT ![w] = [on |-> day, found |-> found]]
     /\ sent' = [x \in Pairs |-> IF x \in found THEN Min({sent[x] + 1, 2}) ELSE sent[x]]
     /\ repeated' = (repeated \/ \E v \in Checkers \ {w} : checker[v] # NoRun)
     /\ UNCHANGED <<day, documents, stamps, checkedOn>>

\* _check_with_session: what is due and not stamped is sent at once.
CheckExpiry(w) ==
  LET found == Due \ stamps
  IN /\ checker[w] = NoRun
     /\ checker' = [checker EXCEPT ![w] = [on |-> day, found |-> found]]
     /\ sent' = [x \in Pairs |-> IF x \in found THEN Min({sent[x] + 1, 2}) ELSE sent[x]]
     /\ repeated' = (repeated \/ \E v \in Checkers \ {w} : checker[v] # NoRun)
     /\ UNCHANGED <<day, documents, stamps, checkedOn>>

\* session.begin() ends.
CommitStamps(w) ==
  /\ checker[w] # NoRun
  /\ stamps' = stamps \union checker[w].found
  /\ checkedOn' = checkedOn \union {checker[w].on}
  /\ checker' = [checker EXCEPT ![w] = NoRun]
  /\ UNCHANGED <<day, documents, sent, repeated>>

\* The run stops after it has sent: the next one sends again.
CheckFails(w) ==
  /\ checker[w] # NoRun
  /\ checker' = [checker EXCEPT ![w] = NoRun]
  /\ repeated' = TRUE
  /\ UNCHANGED <<day, documents, stamps, sent, checkedOn>>

ReminderNext ==
  \/ NextDay
  \/ \E d \in Documents :
       DeleteDocument(d) \/ \E e \in ExpiryDays \union {NoDate} : UploadDocument(d, e)
  \/ \E w \in Checkers : CheckExpiry(w) \/ CommitStamps(w) \/ CheckFails(w)

ReminderSpec == ReminderInit /\ [][ReminderNext]_reminderVars

-----------------------------------------------------------------------------
(* Properties *)

\* A run that ends well has sent each document that had come before that day the
\* reminder of the threshold it was within, once, whatever the runs before and
\* after it did: a second one only if a run failed after sending or two overlapped.
RemindedOncePerThreshold ==
  /\ repeated \/ \A x \in Pairs : sent[x] <= 1
  /\ \A d \in Documents, on \in checkedOn :
       LET remaining == documents[d].expires - on
       IN /\ documents[d].there /\ documents[d].expires # NoDate
          /\ documents[d].since < on /\ remaining <= Max(THRESHOLD_DAYS)
          => sent[<<d, Bucket(remaining)>>] >= 1

-----------------------------------------------------------------------------
(* The inductive invariant behind it *)

DocumentRow == [there : BOOLEAN, since : Nat \union {NoDate}, expires : Nat \union {NoDate}]

ReminderTypes ==
  /\ day \in Nat
  /\ documents \in [Documents -> DocumentRow]
  /\ stamps \subseteq Pairs
  /\ sent \in [Pairs -> Nat]
  /\ checker \in [Checkers -> {NoRun} \union [on : 0 .. day, found : SUBSET Pairs]]
  /\ checkedOn \subseteq 0 .. day

\* What a run of that day had to remind of has been sent.
Reminded(on) ==
  \A d \in Documents :
    LET remaining == documents[d].expires - on
    IN /\ documents[d].there /\ documents[d].expires # NoDate
       /\ documents[d].since < on /\ remaining <= Max(THRESHOLD_DAYS)
       => sent[<<d, Bucket(remaining)>>] >= 1

\* Every reminder of a stamp was sent, and what was sent is stamped or about to be.
SentOnce ==
  /\ \A v, w \in Checkers : checker[v] # NoRun /\ checker[w] # NoRun => v = w
  /\ \A x \in Pairs :
       /\ sent[x] <= 1
       /\ sent[x] = 1 => x \in stamps \/ \E w \in Checkers : x \in checker[w].found

ReminderInv ==
  /\ ReminderTypes
  /\ \A x \in stamps : sent[x] >= 1
  /\ \A w \in Checkers : \A x \in checker[w].found : sent[x] >= 1
  /\ \A on \in checkedOn : Reminded(on)
  /\ \A w \in Checkers : checker[w] # NoRun => Reminded(checker[w].on)
  /\ ~ repeated => SentOnce

=============================================================================
