--------------------------- MODULE SocialAccounts ---------------------------
(***************************************************************************)
(* Login and registration with Google and Apple, next to registration by   *)
(* password: an identity (provider and uid) is linked to an account in the *)
(* transaction of its first login, found by e-mail or created.  uq_users_  *)
(* email and uq_auth_providers_provider_uid decide between logins that run *)
(* at once.                                                                *)
(***************************************************************************)
EXTENDS FiniteSets

CONSTANTS Accounts, Identities, Emails, SocialCalls,
          NoOne, NoEmail

Person == [email : Emails, active : BOOLEAN, verified : BOOLEAN]

ASSUME SocialAssumption == NoOne \notin Accounts \union Person

VARIABLES people,        \* the users rows
          linked,         \* auth_providers: the account of each identity
          socialTxn,     \* the logins in flight
          served         \* the accounts each identity was let in to

socialVars == <<people, linked, socialTxn, served>>

Out == [pc |-> "idle"]

SocialInit ==
  /\ people = [a \in Accounts |-> NoOne]
  /\ linked = [i \in Identities |-> NoOne]
  /\ socialTxn = [c \in SocialCalls |-> Out]
  /\ served = [i \in Identities |-> {}]

Existing == { a \in Accounts : people[a] # NoOne }

Others(c) == { socialTxn[d] : d \in SocialCalls \ {c} }

\* A row nobody has yet, not even in an open transaction.
Unused(c, a) ==
  a \notin Existing /\ \A t \in Others(c) : t.pc # "idle" => t.account # a

\* is_active of a row as a login reads it; a new row has it set.
Admits(a) == a = NoOne \/ a \notin Existing \/ people[a].active

WithEmail(e) == { a \in Existing : people[a].email = e }

-----------------------------------------------------------------------------
(* POST /auth/google and /auth/apple *)

\* exchange_google_code and verify_apple_token end in a uid and an e-mail
\* address, which the provider may change or, after the first time, withhold;
\* then get_by_provider.
FindIdentity(c, i, e) ==
  /\ socialTxn[c] = Out
  /\ socialTxn' = [socialTxn EXCEPT ![c] =
       [pc |-> IF linked[i] # NoOne THEN "entering" ELSE "unlinked",
        of |-> i, email |-> e, account |-> linked[i], active |-> Admits(linked[i]),
        creates |-> FALSE, writes |-> FALSE]]
  /\ UNCHANGED <<people, linked, served>>

\* Variant: the address decides, the link only when nobody has it.
FindAddress(c, i, e) ==
  LET known == WithEmail(e)
      found == IF known # {} THEN CHOOSE a \in known : TRUE ELSE linked[i]
  IN
  /\ socialTxn[c] = Out
  /\ socialTxn' = [socialTxn EXCEPT ![c] =
       [pc |-> IF found # NoOne THEN "entering" ELSE "unlinked",
        of |-> i, email |-> e, account |-> found, active |-> Admits(found),
        creates |-> FALSE, writes |-> FALSE]]
  /\ UNCHANGED <<people, linked, served>>

BeginSocial(c, i, e) == FindIdentity(c, i, e)

\* get_by_email; without an address there is a 400.
FindAccount(c, a) ==
  LET t == socialTxn[c]
      known == WithEmail(t.email)
  IN /\ t.pc = "unlinked"
     /\ IF t.email = NoEmail
          THEN socialTxn' = [socialTxn EXCEPT ![c] = Out]
          ELSE /\ IF known # {} THEN a \in known ELSE Unused(c, a)
               /\ socialTxn' = [socialTxn EXCEPT ![c] =
                    [@ EXCEPT !.pc = IF known # {} THEN "linking" ELSE "creating",
                              !.account = a, !.active = Admits(a), !.creates = (known = {})]]
     /\ UNCHANGED <<people, linked, served>>

\* The INSERT of the user waits for another one of the same address, and
\* fails if that one is there.
CreateAccount(c) ==
  LET t == socialTxn[c] IN
  /\ t.pc = "creating"
  /\ \A u \in Others(c) : ~ (u.pc \in {"linking", "entering"} /\ u.creates /\ u.email = t.email)
  /\ socialTxn' = [socialTxn EXCEPT ![c] =
       IF WithEmail(t.email) = {} THEN [@ EXCEPT !.pc = "linking"] ELSE Out]
  /\ UNCHANGED <<people, linked, served>>

\* So does the INSERT of the link.
LinkIdentity(c) ==
  LET t == socialTxn[c] IN
  /\ t.pc = "linking"
  /\ \A u \in Others(c) : ~ (u.pc = "entering" /\ u.writes /\ u.of = t.of)
  /\ socialTxn' = [socialTxn EXCEPT ![c] =
       IF linked[t.of] = NoOne THEN [@ EXCEPT !.pc = "entering", !.writes = TRUE] ELSE Out]
  /\ UNCHANGED <<people, linked, served>>

\* An account that was deactivated when the login read it is turned away, its
\* new link with it; the others get tokens, or an onboarding token.
EnterAccount(c) ==
  LET t == socialTxn[c] IN
  /\ t.pc = "entering"
  /\ IF t.active
       THEN /\ people' = [people EXCEPT ![t.account] =
                 IF t.creates THEN [email |-> t.email, active |-> TRUE, verified |-> TRUE]
                 ELSE IF t.writes THEN [@ EXCEPT !.verified = TRUE] ELSE @]
            /\ linked' = IF t.writes THEN [linked EXCEPT ![t.of] = t.account] ELSE linked
            /\ served' = [served EXCEPT ![t.of] = @ \union {t.account}]
       ELSE UNCHANGED <<people, linked, served>>
  /\ socialTxn' = [socialTxn EXCEPT ![c] = Out]

FailSocial(c) ==
  /\ socialTxn[c] # Out
  /\ socialTxn' = [socialTxn EXCEPT ![c] = Out]
  /\ UNCHANGED <<people, linked, served>>

-----------------------------------------------------------------------------
(* What else changes the rows, each in a transaction of its own *)

EmailTaken(e) ==
  \/ WithEmail(e) # {}
  \/ \E c \in SocialCalls : LET t == socialTxn[c] IN
       t.pc \in {"linking", "entering"} /\ t.creates /\ t.email = e

\* register, by password.
RegisterByPassword(a, e) ==
  /\ a \notin Existing
  /\ \A c \in SocialCalls : socialTxn[c] # Out => socialTxn[c].account # a
  /\ ~ EmailTaken(e)
  /\ people' = [people EXCEPT ![a] = [email |-> e, active |-> TRUE, verified |-> FALSE]]
  /\ UNCHANGED <<linked, socialTxn, served>>

\* confirm_email_change: the link of an identity stays with the account.
ChangeEmail(a, e) ==
  /\ a \in Existing /\ people[a].active /\ ~ EmailTaken(e)
  /\ people' = [people EXCEPT ![a].email = e, ![a].verified = TRUE]
  /\ UNCHANGED <<linked, socialTxn, served>>

\* An administrator switches is_active.
SwitchActive(a) ==
  /\ a \in Existing
  /\ people' = [people EXCEPT ![a].active = ~ @]
  /\ UNCHANGED <<linked, socialTxn, served>>

-----------------------------------------------------------------------------

SocialNext ==
  \/ \E c \in SocialCalls :
       \/ CreateAccount(c) \/ LinkIdentity(c) \/ EnterAccount(c) \/ FailSocial(c)
       \/ \E a \in Accounts : FindAccount(c, a)
       \/ \E i \in Identities, e \in Emails \union {NoEmail} : BeginSocial(c, i, e)
  \/ \E a \in Accounts :
       \/ SwitchActive(a)
       \/ \E e \in Emails : RegisterByPassword(a, e) \/ ChangeEmail(a, e)

SocialSpec == SocialInit /\ [][SocialNext]_socialVars

-----------------------------------------------------------------------------
(* Properties *)

Txn == [pc : {"unlinked", "creating", "linking", "entering"}, of : Identities,
        email : Emails \union {NoEmail}, account : Accounts \union {NoOne},
        active : BOOLEAN, creates : BOOLEAN, writes : BOOLEAN]

SocialTypeOK ==
  /\ people \in [Accounts -> Person \union {NoOne}]
  /\ linked \in [Identities -> Accounts \union {NoOne}]
  /\ socialTxn \in [SocialCalls -> Txn \union {Out}]
  /\ served \in [Identities -> SUBSET Accounts]

\* Whatever addresses change at the provider or here, and however many first
\* logins run at once: an identity is let in to one account, the one it is
\* linked to, and no two accounts share an address.
IdentityKeepsAccount ==
  /\ \A i \in Identities : served[i] \subseteq {linked[i]}
  /\ \A a, b \in Existing : people[a].email = people[b].email => a = b

\* The INSERTs a login has made and not committed.
InsertedUser(t) == t.pc \in {"linking", "entering"} /\ t.creates
InsertedLink(t) == t.pc = "entering" /\ t.writes

\* What a login knows of the rows it read or inserted: its address is still
\* nobody's, its identity still unlinked, what it found is still there.
LoginSafe(t) ==
  /\ t.pc \in {"creating", "linking", "entering"} => t.account \in Accounts
  /\ t.pc \in {"unlinked", "creating", "linking"} => ~ t.writes
  /\ t.pc = "creating" => t.creates /\ t.email \in Emails
  /\ t.pc = "linking" \/ InsertedLink(t) => t.creates \/ t.account \in Existing
  /\ t.pc = "entering" /\ ~ t.writes => t.account = linked[t.of] /\ ~ t.creates
  /\ InsertedUser(t) => t.email \in Emails /\ WithEmail(t.email) = {}
  /\ InsertedLink(t) => linked[t.of] = NoOne

\* Two logins hold no INSERT of the same address or the same identity.
LoginsApart(t, u) ==
  /\ InsertedUser(t) /\ InsertedUser(u) => t.email # u.email
  /\ InsertedLink(t) /\ InsertedLink(u) => t.of # u.of

SocialInv ==
  /\ SocialTypeOK
  /\ IdentityKeepsAccount
  /\ \A c \in SocialCalls :
       /\ LoginSafe(socialTxn[c])
       /\ \A d \in SocialCalls \ {c} : LoginsApart(socialTxn[c], socialTxn[d])

=============================================================================
