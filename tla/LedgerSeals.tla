----------------------------- MODULE LedgerSeals -----------------------------
(***************************************************************************)
(* The nightly seals of the payment ledger.  An entry is stamped when it   *)
(* is written and becomes visible when its transaction commits; in every   *)
(* process a worker sleeps until the next midnight (UTC) and then seals    *)
(* the day before the one on which it wakes.                               *)
(***************************************************************************)
EXTENDS Integers, FiniteSets

CONSTANTS Entries,     \* rows of payment_ledger
          Sealers,     \* processes with a ledger_seal_worker
          LastDay,     \* bound on the days of a behaviour
          NoSeal, NoDay

Days == 0..LastDay

ASSUME SealsAssumption ==
  /\ LastDay \in Nat
  /\ NoDay \notin Days
  /\ \A set \in SUBSET Entries : NoSeal # set

VARIABLES today,
          entryDay,    \* the day an entry is stamped with, or NoDay
          visible,     \* entries that are committed
          onTime,      \* those committed on the day of their stamp
          seals,       \* ledger_seals: the entries a day's hash covers
          sealer,      \* where each worker is
          sealed       \* days for which a _seal_day has ended

sealVars == <<today, entryDay, visible, onTime, seals, sealer, sealed>>

EntriesOf(d) == { e \in visible : entryDay[e] = d }
Asleep(d)    == [at |-> "asleep", day |-> d]

SealInit ==
  /\ today = 0
  /\ entryDay = [e \in Entries |-> NoDay]
  /\ visible = {} /\ onTime = {} /\ sealed = {}
  /\ seals = [d \in Days |-> NoSeal]
  /\ sealer = [w \in Sealers |-> Asleep(0)]

-----------------------------------------------------------------------------
(* The ledger: LedgerRepository.create, called by authorize and capture *)

WriteEntry(e) ==
  /\ entryDay[e] = NoDay
  /\ entryDay' = [entryDay EXCEPT ![e] = today]
  /\ UNCHANGED <<today, visible, onTime, seals, sealer, sealed>>

CommitEntry(e) ==
  /\ entryDay[e] # NoDay /\ e \notin visible
  /\ visible' = visible \union {e}
  /\ onTime' = IF entryDay[e] = today THEN onTime \union {e} ELSE onTime
  /\ UNCHANGED <<today, entryDay, seals, sealer, sealed>>

Midnight ==
  /\ today < LastDay
  /\ today' = today + 1
  /\ UNCHANGED <<entryDay, visible, onTime, seals, sealer, sealed>>

-----------------------------------------------------------------------------
(* ledger_seal_worker *)

\* Variant: the day on which it wakes.
WakeForToday(w) ==
  /\ sealer[w].at = "asleep" /\ sealer[w].day < today
  /\ sealer' = [sealer EXCEPT ![w] = [at |-> "woken", day |-> today]]
  /\ UNCHANGED <<today, entryDay, visible, onTime, seals, sealed>>

\* The worker wakes after midnight, however late, and takes yesterday.
WakeUp(w) ==
  /\ sealer[w].at = "asleep" /\ sealer[w].day < today
  /\ sealer' = [sealer EXCEPT ![w] = [at |-> "woken", day |-> today - 1]]
  /\ UNCHANGED <<today, entryDay, visible, onTime, seals, sealed>>

\* A sealed day and a day without entries are left alone.
ReadDay(w) ==
  LET d == sealer[w].day
  IN /\ sealer[w].at = "woken"
     /\ IF seals[d] = NoSeal /\ EntriesOf(d) # {}
        THEN /\ sealer' = [sealer EXCEPT ![w] = [at |-> "read", day |-> d, covers |-> EntriesOf(d)]]
             /\ UNCHANGED sealed
        ELSE /\ sealer' = [sealer EXCEPT ![w] = Asleep(today)]
             /\ sealed' = sealed \union {d}
     /\ UNCHANGED <<today, entryDay, visible, onTime, seals>>

\* seal_date is unique: the second of two workers fails.
CommitSeal(w) ==
  LET d == sealer[w].day
  IN /\ sealer[w].at = "read" /\ seals[d] = NoSeal
     /\ seals' = [seals EXCEPT ![d] = sealer[w].covers]
     /\ sealer' = [sealer EXCEPT ![w] = Asleep(today)]
     /\ sealed' = sealed \union {d}
     /\ UNCHANGED <<today, entryDay, visible, onTime>>

\* An error is logged, and the day is never tried again; a process that stops
\* comes back with a worker that waits for the next midnight.
SealFails(w) ==
  /\ sealer' = [sealer EXCEPT ![w] = Asleep(today)]
  /\ UNCHANGED <<today, entryDay, visible, onTime, seals, sealed>>

-----------------------------------------------------------------------------

SealNext ==
  \/ Midnight
  \/ \E e \in Entries : WriteEntry(e) \/ CommitEntry(e)
  \/ \E w \in Sealers : WakeUp(w) \/ ReadDay(w) \/ CommitSeal(w) \/ SealFails(w)

SealSpec == SealInit /\ [][SealNext]_sealVars

-----------------------------------------------------------------------------
(* Properties *)

SealTypeOK ==
  /\ today \in Days
  /\ entryDay \in [Entries -> Days \union {NoDay}]
  /\ visible \subseteq Entries /\ onTime \subseteq visible
  /\ seals \in [Days -> (SUBSET Entries) \union {NoSeal}]
  /\ sealer \in [Sealers -> [at : {"asleep", "woken"}, day : Days]
                          \union [at : {"read"}, day : Days, covers : SUBSET Entries]]
  /\ sealed \subseteq Days

\* What a seal of day d may hold.
Covers(set, d) ==
  /\ { e \in onTime : entryDay[e] = d } \subseteq set
  /\ set \subseteq EntriesOf(d)

\* A day is sealed once it is over, and the hash covers every entry that was
\* stamped and committed on that day and no entry of another one, whichever
\* process seals it and however late it wakes; only an entry that was still
\* uncommitted at midnight can be missing.
SealCoversDay ==
  \A d \in sealed \union { d \in Days : seals[d] # NoSeal } :
    LET covered == IF seals[d] = NoSeal THEN {} ELSE seals[d]
    IN d < today /\ Covers(covered, d)

\* What keeps SealCoversDay: no stamp is ahead of the clock, and what a worker
\* has in hand is a past day and, once read, a set that may seal it.
SealInv ==
  /\ SealTypeOK
  /\ \A e \in Entries : entryDay[e] # NoDay => entryDay[e] <= today
  /\ \A e \in visible : entryDay[e] # NoDay
  /\ \A w \in Sealers :
       /\ sealer[w].at # "asleep" => sealer[w].day < today
       /\ sealer[w].at = "read" => Covers(sealer[w].covers, sealer[w].day)
  /\ SealCoversDay

=============================================================================
