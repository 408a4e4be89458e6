---------------------------- MODULE AccessProofs ----------------------------
(***************************************************************************)
(* Proofs about who is let in and what a caller may do: SocialAccounts,    *)
(* Accounts, SecondFactors, Rbac, Hub and Idempotency, each for any number *)
(* of requests at once.  Every part shows that the inductive invariant of  *)
(* its module (SocialInv, AccountInv, FactorInv, RbacInv, HubInv, KeyInv)  *)
(* is kept by each action, and what follows from it.                       *)
(***************************************************************************)
EXTENDS SocialAccounts, Accounts, SecondFactors, Rbac, Hub, Idempotency,
        SequenceTheorems, TLAPS

-----------------------------------------------------------------------------
(* SocialAccounts *)

\* The record of an ended login asks for nothing.
LEMMA OutIsSafe == Out.pc = "idle" /\ LoginSafe(Out) /\ \A t : LoginsApart(Out, t)
  BY DEF Out, LoginSafe, LoginsApart, InsertedUser, InsertedLink

\* A step of a login that writes no row.
LEMMA LoginStep ==
  ASSUME SocialInv, NEW c \in SocialCalls, NEW m \in Txn \union {Out},
         socialTxn' = [socialTxn EXCEPT ![c] = m],
         UNCHANGED <<people, linked, served>>,
         LoginSafe(m),
         \A d \in SocialCalls \ {c} : LoginsApart(m, socialTxn[d])
  PROVE  SocialInv'
  <1>1. /\ socialTxn' \in [SocialCalls -> Txn \union {Out}]
        /\ socialTxn'[c] = m
        /\ \A d \in SocialCalls \ {c} : socialTxn'[d] = socialTxn[d]
    BY DEF SocialInv, SocialTypeOK
  <1>2. SocialTypeOK'
    BY <1>1 DEF SocialInv, SocialTypeOK
  <1>3. IdentityKeepsAccount'
    BY DEF SocialInv, IdentityKeepsAccount, Existing
  <1>4. \A t : LoginSafe(t)' <=> LoginSafe(t)
    BY DEF LoginSafe, InsertedUser, InsertedLink, WithEmail, Existing
  <1>5. \A d \in SocialCalls : LoginSafe(socialTxn[d])'
    BY <1>1, <1>4 DEF SocialInv, LoginSafe, InsertedUser, InsertedLink, WithEmail, Existing
  <1>6. \A t, u : LoginsApart(t, u) <=> LoginsApart(u, t)
    BY DEF LoginsApart
  <1>7. \A d \in SocialCalls : \A e \in SocialCalls \ {d} :
          LoginsApart(socialTxn'[d], socialTxn'[e])
    BY <1>1, <1>6 DEF SocialInv
  <1>8. QED
    BY <1>2, <1>3, <1>5, <1>7 DEF SocialInv, LoginsApart, InsertedUser, InsertedLink

\* Looking up the identity decides between letting in and linking.  What the
\* login then knows is true of the rows it read.
LEMMA FindIdentityStep ==
  ASSUME SocialInv, NEW c \in SocialCalls, NEW i \in Identities,
         NEW e \in Emails \union {NoEmail}, FindIdentity(c, i, e)
  PROVE  SocialInv'
  <1> DEFINE m == [pc |-> IF linked[i] # NoOne THEN "entering" ELSE "unlinked",
                   of |-> i, email |-> e, account |-> linked[i], active |-> Admits(linked[i]),
                   creates |-> FALSE, writes |-> FALSE]
  <1>1. linked[i] \in Accounts \union {NoOne}
    BY DEF SocialInv, SocialTypeOK
  <1>2. Admits(linked[i]) \in BOOLEAN
    BY <1>1, SocialAssumption DEF Admits, Existing, SocialInv, SocialTypeOK, Person
  <1>3. m \in Txn
    BY <1>1, <1>2 DEF Txn
  <1>4. LoginSafe(m)
    BY <1>1 DEF LoginSafe, InsertedUser, InsertedLink
  <1>5. \A d \in SocialCalls \ {c} : LoginsApart(m, socialTxn[d])
    BY DEF LoginsApart, InsertedUser, InsertedLink
  <1>6. socialTxn' = [socialTxn EXCEPT ![c] = m] /\ UNCHANGED <<people, linked, served>>
    BY DEF FindIdentity
  <1> HIDE DEF m
  <1>7. QED
    BY <1>3, <1>4, <1>5, <1>6, LoginStep

\* A login that ends with an error leaves no row behind.
LEMMA FailSocialStep ==
  ASSUME SocialInv, NEW c \in SocialCalls, FailSocial(c)
  PROVE  SocialInv'
  BY OutIsSafe, LoginStep DEF FailSocial

\* Looking up the address decides between linking to that account and creating
\* one.
LEMMA FindAccountStep ==
  ASSUME SocialInv, NEW c \in SocialCalls, NEW a \in Accounts, FindAccount(c, a)
  PROVE  SocialInv'
  <1> DEFINE t == socialTxn[c]
             known == WithEmail(t.email)
             m == [t EXCEPT !.pc = IF known # {} THEN "linking" ELSE "creating",
                            !.account = a, !.active = Admits(a), !.creates = (known = {})]
  <1>1. t \in Txn /\ t.pc = "unlinked" /\ ~ t.writes
    BY OutIsSafe DEF FindAccount, SocialInv, SocialTypeOK, LoginSafe
  <1>2. CASE t.email = NoEmail
    <2>1. socialTxn' = [socialTxn EXCEPT ![c] = Out] /\ UNCHANGED <<people, linked, served>>
      BY <1>2 DEF FindAccount
    <2>2. QED
      BY <2>1, OutIsSafe, LoginStep
  <1>3. CASE t.email # NoEmail
    <2>1. /\ socialTxn' = [socialTxn EXCEPT ![c] = m]
          /\ UNCHANGED <<people, linked, served>>
          /\ known # {} => a \in known
      BY <1>3 DEF FindAccount
    <2>2. t.email \in Emails
      BY <1>1, <1>3 DEF Txn
    <2>3. Admits(a) \in BOOLEAN
      BY SocialAssumption DEF Admits, Existing, SocialInv, SocialTypeOK, Person
    <2>4. m \in Txn
      BY <1>1, <2>3 DEF Txn
    <2>5. /\ m.pc = (IF known # {} THEN "linking" ELSE "creating")
          /\ m.account = a /\ m.creates = (known = {}) /\ ~ m.writes /\ m.email = t.email
      BY <1>1 DEF Txn
    <2>6. known \subseteq Existing
      BY DEF WithEmail
    <2> HIDE DEF m
    <2>7. LoginSafe(m) /\ \A u : LoginsApart(m, u)
      BY <2>1, <2>2, <2>5, <2>6 DEF LoginSafe, LoginsApart, InsertedUser, InsertedLink
    <2>8. QED
      BY <2>1, <2>4, <2>7, LoginStep
  <1>4. QED
    BY <1>2, <1>3

\* The INSERT of a user waits for, or fails on, another INSERT of its address.
LEMMA CreateAccountStep ==
  ASSUME SocialInv, NEW c \in SocialCalls, CreateAccount(c)
  PROVE  SocialInv'
  <1> DEFINE t == socialTxn[c]
             m == [t EXCEPT !.pc = "linking"]
  <1>1. t \in Txn /\ t.pc = "creating" /\ t.creates /\ ~ t.writes
        /\ t.email \in Emails /\ t.account \in Accounts
    BY OutIsSafe DEF CreateAccount, SocialInv, SocialTypeOK, LoginSafe
  <1>2. CASE WithEmail(t.email) = {}
    <2>1. socialTxn' = [socialTxn EXCEPT ![c] = m] /\ UNCHANGED <<people, linked, served>>
      BY <1>2 DEF CreateAccount
    <2>2. /\ m \in Txn /\ m.pc = "linking" /\ m.creates /\ ~ m.writes
          /\ m.email = t.email /\ m.account = t.account
      BY <1>1 DEF Txn
    <2>3. \A d \in SocialCalls \ {c} : ~ (InsertedUser(socialTxn[d]) /\ socialTxn[d].email = t.email)
      BY DEF CreateAccount, Others, InsertedUser
    <2> HIDE DEF m
    <2>4. LoginSafe(m)
      BY <1>1, <1>2, <2>2 DEF LoginSafe, InsertedUser, InsertedLink
    <2>5. \A d \in SocialCalls \ {c} : LoginsApart(m, socialTxn[d])
      BY <2>2, <2>3 DEF LoginsApart, InsertedLink
    <2>6. QED
      BY <2>1, <2>2, <2>4, <2>5, LoginStep
  <1>3. CASE WithEmail(t.email) # {}
    <2>1. socialTxn' = [socialTxn EXCEPT ![c] = Out] /\ UNCHANGED <<people, linked, served>>
      BY <1>3 DEF CreateAccount
    <2>2. QED
      BY <2>1, OutIsSafe, LoginStep
  <1>4. QED
    BY <1>2, <1>3

\* The INSERT of the link does the same for its identity.
LEMMA LinkIdentityStep ==
  ASSUME SocialInv, NEW c \in SocialCalls, LinkIdentity(c)
  PROVE  SocialInv'
  <1> DEFINE t == socialTxn[c]
             m == [t EXCEPT !.pc = "entering", !.writes = TRUE]
  <1>1. t \in Txn /\ t.pc = "linking" /\ LoginSafe(t)
    BY OutIsSafe DEF LinkIdentity, SocialInv, SocialTypeOK
  <1>2. CASE linked[t.of] = NoOne
    <2>1. socialTxn' = [socialTxn EXCEPT ![c] = m] /\ UNCHANGED <<people, linked, served>>
      BY <1>2 DEF LinkIdentity
    <2>2. /\ m \in Txn /\ m.pc = "entering" /\ m.writes /\ m.creates = t.creates
          /\ m.email = t.email /\ m.account = t.account /\ m.of = t.of
      BY <1>1 DEF Txn
    <2>3. \A d \in SocialCalls \ {c} :
            /\ ~ (InsertedLink(socialTxn[d]) /\ socialTxn[d].of = t.of)
            /\ LoginsApart(t, socialTxn[d])
      BY DEF LinkIdentity, Others, InsertedLink, SocialInv
    <2> HIDE DEF m
    <2>4. LoginSafe(m)
      BY <1>1, <1>2, <2>2 DEF LoginSafe, InsertedUser, InsertedLink
    <2>5. \A d \in SocialCalls \ {c} : LoginsApart(m, socialTxn[d])
      BY <1>1, <2>2, <2>3 DEF LoginsApart, InsertedUser
    <2>6. QED
      BY <2>1, <2>2, <2>4, <2>5, LoginStep
  <1>3. CASE linked[t.of] # NoOne
    <2>1. socialTxn' = [socialTxn EXCEPT ![c] = Out] /\ UNCHANGED <<people, linked, served>>
      BY <1>3 DEF LinkIdentity
    <2>2. QED
      BY <2>1, OutIsSafe, LoginStep
  <1>4. QED
    BY <1>2, <1>3

\* A step that writes a users row: nobody disappears, no address is given twice
\* and none that a login has inserted is given to somebody else.
LEMMA PeopleStep ==
  ASSUME SocialInv, UNCHANGED <<linked, socialTxn, served>>,
         people' \in [Accounts -> Person \union {NoOne}],
         Existing \subseteq Existing',
         \A a, b \in Existing' : people'[a].email = people'[b].email => a = b,
         \A c \in SocialCalls : InsertedUser(socialTxn[c]) =>
           \A a \in Existing' : people'[a].email # socialTxn[c].email
  PROVE  SocialInv'
  <1>1. SocialTypeOK'
    BY DEF SocialInv, SocialTypeOK
  <1>2. IdentityKeepsAccount'
    BY DEF SocialInv, IdentityKeepsAccount
  <1>3. ASSUME NEW c \in SocialCalls PROVE LoginSafe(socialTxn[c])'
    <2>1. LoginSafe(socialTxn[c]) /\ socialTxn'[c] = socialTxn[c]
      BY DEF SocialInv
    <2>2. InsertedUser(socialTxn[c]) => WithEmail(socialTxn[c].email)' = {}
      BY DEF WithEmail
    <2>3. QED
      BY <2>1, <2>2 DEF LoginSafe, InsertedUser, InsertedLink, WithEmail
  <1>4. QED
    BY <1>1, <1>2, <1>3 DEF SocialInv, LoginsApart, InsertedUser, InsertedLink

\* The other requests: register, confirm_email_change and update_user.
LEMMA OtherStep ==
  ASSUME SocialInv, NEW a \in Accounts,
         SwitchActive(a) \/ \E e \in Emails : RegisterByPassword(a, e) \/ ChangeEmail(a, e)
  PROVE  SocialInv'
  <1>1. /\ people \in [Accounts -> Person \union {NoOne}] /\ NoOne \notin Person
        /\ \A b \in Existing : people[b] \in Person
        /\ \A b, d \in Existing : people[b].email = people[d].email => b = d
        /\ \A c \in SocialCalls : InsertedUser(socialTxn[c]) => WithEmail(socialTxn[c].email) = {}
    BY SocialAssumption DEF SocialInv, SocialTypeOK, IdentityKeepsAccount, LoginSafe, Existing
  <1>2. CASE SwitchActive(a)
    <2>1. /\ a \in Existing /\ people' = [people EXCEPT ![a].active = ~ @]
          /\ UNCHANGED <<linked, socialTxn, served>>
      BY <1>2 DEF SwitchActive
    <2>2. /\ people' \in [Accounts -> Person \union {NoOne}]
          /\ people'[a] \in Person /\ people'[a].email = people[a].email
          /\ \A b \in Accounts \ {a} : people'[b] = people[b]
      BY <1>1, <2>1 DEF Person
    <2>3. Existing' = Existing /\ \A b \in Existing : people'[b].email = people[b].email
      BY <1>1, <2>1, <2>2 DEF Existing
    <2>4. \A c \in SocialCalls : InsertedUser(socialTxn[c]) =>
            \A b \in Existing' : people'[b].email # socialTxn[c].email
      BY <1>1, <2>3 DEF WithEmail
    <2>5. QED
      BY <1>1, <2>1, <2>2, <2>3, <2>4, PeopleStep
  <1>3. ASSUME NEW e \in Emails, RegisterByPassword(a, e) \/ ChangeEmail(a, e)
        PROVE  SocialInv'
    <2>1. /\ WithEmail(e) = {}
          /\ \A c \in SocialCalls : InsertedUser(socialTxn[c]) => socialTxn[c].email # e
          /\ UNCHANGED <<linked, socialTxn, served>>
      BY <1>3 DEF RegisterByPassword, ChangeEmail, EmailTaken, InsertedUser
    <2>2. /\ people' \in [Accounts -> Person \union {NoOne}]
          /\ people'[a] \in Person /\ people'[a].email = e
          /\ \A b \in Accounts \ {a} : people'[b] = people[b]
      <3>1. CASE RegisterByPassword(a, e)
        BY <1>1, <3>1 DEF RegisterByPassword, Person
      <3>2. CASE ChangeEmail(a, e)
        BY <1>1, <3>2 DEF ChangeEmail, Person
      <3>3. QED
        BY <1>3, <3>1, <3>2
    <2>3. Existing' = Existing \union {a}
      BY <1>1, <2>2 DEF Existing
    <2>4. \A b \in Existing : people[b].email # e
      BY <2>1 DEF WithEmail
    <2>5. \A b, d \in Existing' : people'[b].email = people'[d].email => b = d
      BY <1>1, <2>2, <2>3, <2>4 DEF Existing
    <2>6. \A c \in SocialCalls : InsertedUser(socialTxn[c]) =>
            \A b \in Existing' : people'[b].email # socialTxn[c].email
      BY <1>1, <2>1, <2>2, <2>3 DEF WithEmail, Existing
    <2>7. QED
      BY <2>1, <2>2, <2>3, <2>5, <2>6, PeopleStep
  <1>4. QED
    BY <1>2, <1>3

\* The commit of a login.  Its own account is the only row it writes, and its
\* own identity the only link.
LEMMA EnterAccountStep ==
  ASSUME SocialInv, NEW c \in SocialCalls, EnterAccount(c)
  PROVE  SocialInv'
  <1> DEFINE t == socialTxn[c]
  <1>1. /\ t \in Txn /\ t.pc = "entering" /\ LoginSafe(t) /\ t.account \in Accounts
        /\ t.of \in Identities /\ t.creates \in BOOLEAN /\ t.writes \in BOOLEAN
        /\ \A d \in SocialCalls \ {c} : LoginsApart(t, socialTxn[d])
    BY OutIsSafe DEF EnterAccount, SocialInv, SocialTypeOK, LoginSafe, Txn
  <1>2. /\ people \in [Accounts -> Person \union {NoOne}] /\ NoOne \notin Person \union Accounts
        /\ \A b \in Existing : people[b] \in Person
        /\ linked \in [Identities -> Accounts \union {NoOne}]
        /\ served \in [Identities -> SUBSET Accounts]
    BY SocialAssumption DEF SocialInv, SocialTypeOK, Existing
  <1>3. socialTxn' = [socialTxn EXCEPT ![c] = Out]
    BY DEF EnterAccount
  <1>4. CASE ~ t.active
    <2>1. UNCHANGED <<people, linked, served>>
      BY <1>4 DEF EnterAccount
    <2>2. QED
      BY <1>3, <2>1, OutIsSafe, LoginStep
  <1>5. CASE t.active
    <2>1. /\ people' = [people EXCEPT ![t.account] =
               IF t.creates THEN [email |-> t.email, active |-> TRUE, verified |-> TRUE]
               ELSE IF t.writes THEN [@ EXCEPT !.verified = TRUE] ELSE @]
          /\ linked' = IF t.writes THEN [linked EXCEPT ![t.of] = t.account] ELSE linked
          /\ served' = [served EXCEPT ![t.of] = @ \union {t.account}]
      BY <1>5 DEF EnterAccount
    <2>2. /\ people' \in [Accounts -> Person \union {NoOne}]
          /\ Existing \subseteq Existing'
          /\ \A b \in Accounts \ {t.account} : people'[b] = people[b]
          /\ t.creates => people'[t.account].email = t.email
          /\ ~ t.creates => /\ Existing' = Existing
                            /\ t.account \in Existing => people'[t.account].email = people[t.account].email
      <3>1. CASE t.creates
        <4>1. people'[t.account] \in Person /\ people'[t.account].email = t.email
          BY <1>1, <1>2, <2>1, <3>1 DEF LoginSafe, InsertedUser, Person
        <4>2. QED
          BY <1>1, <1>2, <2>1, <3>1, <4>1 DEF Existing
      <3>2. CASE ~ t.creates /\ t.writes
        <4>1. t.account \in Existing /\ people[t.account] \in Person
          BY <1>1, <1>2, <3>2 DEF LoginSafe, InsertedLink
        <4>2. people'[t.account] \in Person /\ people'[t.account].email = people[t.account].email
          BY <1>1, <1>2, <2>1, <3>2, <4>1 DEF Person
        <4>3. QED
          BY <1>1, <1>2, <2>1, <3>2, <4>1, <4>2 DEF Existing
      <3>3. CASE ~ t.creates /\ ~ t.writes
        <4>1. people' = people
          BY <1>1, <1>2, <2>1, <3>3
        <4>2. QED
          BY <1>2, <3>3, <4>1 DEF Existing
      <3>4. QED
        BY <1>1, <3>1, <3>2, <3>3
    <2>3. /\ linked' \in [Identities -> Accounts \union {NoOne}]
          /\ served' \in [Identities -> SUBSET Accounts]
          /\ linked'[t.of] = t.account
          /\ \A i \in Identities \ {t.of} : linked'[i] = linked[i] /\ served'[i] = served[i]
          /\ served'[t.of] = served[t.of] \union {t.account}
          /\ ~ t.writes => linked' = linked
      BY <1>1, <1>2, <2>1 DEF LoginSafe
    <2>4. /\ socialTxn' \in [SocialCalls -> Txn \union {Out}] /\ socialTxn'[c] = Out
          /\ \A d \in SocialCalls \ {c} : socialTxn'[d] = socialTxn[d]
      BY <1>3 DEF SocialInv, SocialTypeOK
    <2>5. \A i \in Identities : served'[i] \subseteq {linked'[i]}
      <3>1. served[t.of] \subseteq {t.account}
        BY <1>1, <1>2 DEF SocialInv, IdentityKeepsAccount, LoginSafe, InsertedLink
      <3>2. QED
        BY <2>3, <3>1 DEF SocialInv, IdentityKeepsAccount
    <2>6. \A a, b \in Existing' : people'[a].email = people'[b].email => a = b
      <3>1. CASE t.creates
        <4>1. \A a \in Existing : people[a].email # t.email
          BY <1>1, <3>1 DEF LoginSafe, InsertedUser, WithEmail
        <4>2. QED
          BY <1>1, <2>2, <3>1, <4>1 DEF SocialInv, IdentityKeepsAccount, Existing
      <3>2. CASE ~ t.creates
        BY <1>1, <2>2, <3>2 DEF SocialInv, IdentityKeepsAccount, Existing
      <3>3. QED
        BY <3>1, <3>2
    <2>7. ASSUME NEW d \in SocialCalls \ {c} PROVE LoginSafe(socialTxn[d])'
      <3> DEFINE u == socialTxn[d]
      <3>1. LoginSafe(u) /\ LoginsApart(t, u) /\ socialTxn'[d] = u /\ u \in Txn \union {Out}
        BY <1>1, <2>4 DEF SocialInv, SocialTypeOK
      <3>2. ASSUME InsertedUser(u) PROVE \A a \in Existing' : people'[a].email # u.email
        <4>1. \A a \in Existing : people[a].email # u.email
          BY <3>1, <3>2 DEF LoginSafe, WithEmail
        <4>2. t.creates => t.email # u.email
          BY <1>1, <3>1, <3>2 DEF LoginsApart, InsertedUser
        <4>3. QED
          BY <1>1, <2>2, <4>1, <4>2 DEF Existing
      <3>3. ASSUME InsertedLink(u) PROVE linked'[u.of] = NoOne
        <4>1. u.of \in Identities /\ linked[u.of] = NoOne
          BY <3>1, <3>3, OutIsSafe DEF LoginSafe, InsertedLink, Txn
        <4>2. t.writes => u.of # t.of
          BY <1>1, <3>1, <3>3 DEF LoginsApart, InsertedLink
        <4>3. QED
          BY <2>3, <4>1, <4>2
      <3>4. u.pc = "entering" /\ ~ u.writes => u.account = linked'[u.of]
        <4>1. SUFFICES ASSUME u.pc = "entering", ~ u.writes PROVE u.account = linked'[u.of]
          OBVIOUS
        <4>2. u.of \in Identities /\ linked[u.of] = u.account /\ u.account \in Accounts
          BY <3>1, <4>1, OutIsSafe DEF LoginSafe, Txn
        <4>3. t.writes => u.of # t.of
          BY <1>1, <1>2, <4>2 DEF LoginSafe, InsertedLink
        <4>4. QED
          BY <2>3, <4>2, <4>3
      <3>5. WithEmail(u.email)' = { a \in Existing' : people'[a].email = u.email }
        BY <3>1 DEF WithEmail
      <3>6. QED
        BY <2>2, <3>1, <3>2, <3>3, <3>4, <3>5 DEF LoginSafe, InsertedUser, InsertedLink
    <2>8. LoginSafe(socialTxn[c])'
      BY <2>4 DEF Out, LoginSafe, InsertedUser, InsertedLink
    <2>9. \A d \in SocialCalls : \A e \in SocialCalls \ {d} :
            LoginsApart(socialTxn'[d], socialTxn'[e])
      BY <2>4, OutIsSafe DEF SocialInv, LoginsApart, InsertedUser, InsertedLink
    <2>10. SocialTypeOK' /\ IdentityKeepsAccount'
      BY <2>2, <2>3, <2>4, <2>5, <2>6 DEF SocialTypeOK, IdentityKeepsAccount
    <2>11. QED
      BY <2>7, <2>8, <2>9, <2>10 DEF SocialInv, LoginsApart, InsertedUser, InsertedLink
  <1>6. QED
    BY <1>4, <1>5

-----------------------------------------------------------------------------

\* The invariant holds at the start and after every step.
THEOREM SocialInvariant == SocialSpec => []SocialInv
  <1>1. SocialInit => SocialInv
    <2> SUFFICES ASSUME SocialInit PROVE SocialInv
      OBVIOUS
    <2>1. Existing = {} /\ \A c \in SocialCalls : socialTxn[c] = Out
      BY DEF SocialInit, Existing
    <2>2. SocialTypeOK /\ IdentityKeepsAccount
      BY <2>1 DEF SocialInit, SocialTypeOK, IdentityKeepsAccount
    <2>3. QED
      BY <2>1, <2>2, OutIsSafe DEF SocialInv
  <1>2. SocialInv /\ [SocialNext]_socialVars => SocialInv'
    <2> SUFFICES ASSUME SocialInv, [SocialNext]_socialVars PROVE SocialInv'
      OBVIOUS
    <2>1. CASE UNCHANGED socialVars
      BY <2>1 DEF socialVars, SocialInv, SocialTypeOK, IdentityKeepsAccount, LoginSafe,
                  LoginsApart, InsertedUser, InsertedLink, WithEmail, Existing
    <2>2. ASSUME NEW c \in SocialCalls,
                 \/ CreateAccount(c) \/ LinkIdentity(c) \/ EnterAccount(c) \/ FailSocial(c)
                 \/ \E a \in Accounts : FindAccount(c, a)
                 \/ \E i \in Identities, e \in Emails \union {NoEmail} : BeginSocial(c, i, e)
          PROVE  SocialInv'
      BY <2>2, CreateAccountStep, LinkIdentityStep, EnterAccountStep, FailSocialStep,
         FindAccountStep, FindIdentityStep DEF BeginSocial
    <2>3. QED
      BY <2>1, <2>2, OtherStep DEF SocialNext
  <1>3. QED
    BY <1>1, <1>2, PTL DEF SocialSpec

\* An identity is let in to one account, the one it is linked to, and no two
\* accounts share an address, for any number of logins and changes at once.
THEOREM OneAccountPerIdentity == SocialSpec => []IdentityKeepsAccount
  <1>1. SocialInv => IdentityKeepsAccount
    BY DEF SocialInv
  <1>2. QED
    BY <1>1, SocialInvariant, PTL

-----------------------------------------------------------------------------
(* Accounts *)

\* A request that begins has noticed the others of its kind, and has read the row
\* and the links as they are.
LEMMA BeginKeepsAccountInv ==
  ASSUME AccountInv, account # NoAccount, NEW c \in AccountCalls,
         NEW op \in RequestOps,
         NEW seen \in SUBSET Links, BeginRequest(c, op, seen),
         op \in LinkKinds => \A l \in seen : links[l] = op,
         \A kind \in LinkKinds : op = IssueOf[kind] => \A l \in Links : links[l] = kind => l \in seen
  PROVE  AccountInv'
  <1> DEFINE t == [op |-> op, attempts |-> account.attempts, version |-> account.version,
                   seen |-> seen]
  <1>1. /\ accountTxn[c] = IdleRequest /\ accountTxn[c].op = "idle"
        /\ accountTxn' = [accountTxn EXCEPT ![c] = t]
        /\ UNCHANGED <<account, links, changes, access, refresh, dead, wrong, reused>>
    BY DEF BeginRequest, IdleRequest
  <1>2. /\ account \in UserRow /\ account.attempts \in Nat /\ account.version \in Nat
        /\ t \in AccountRequest
    BY DEF AccountInv, AccountTyped, UserRow, AccountRequest
  <1>3. races \subseteq races'
    BY DEF BeginRequest
  <1>4. \A d \in AccountCalls : KindOf(accountTxn[d].op) = KindOf(op) => KindOf(op) \in races'
    BY DEF BeginRequest
  <1>5. /\ accountTxn' \in [AccountCalls -> AccountRequest]
        /\ accountTxn'[c] = t
        /\ \A d \in AccountCalls \ {c} : accountTxn'[d] = accountTxn[d]
    BY <1>1, <1>2 DEF AccountInv, AccountTyped
  <1>6. t.op = op /\ t.attempts = account.attempts /\ t.version = account.version /\ t.seen = seen
    OBVIOUS
  <1> HIDE DEF t
  <1>7. AccountTyped'
    BY <1>1, <1>5 DEF AccountInv, AccountTyped
  <1>8. NothingBefore'
    BY <1>1 DEF NothingBefore
  <1>9. RacesNoticed'
    BY <1>1, <1>3, <1>4, <1>5, <1>6 DEF AccountInv, RacesNoticed
  <1>10. CountersAgree'
    BY <1>1, <1>3, <1>5, <1>6 DEF AccountInv, CountersAgree
  <1>11. VersionsOrdered'
    BY <1>1, <1>2, <1>3, <1>5, <1>6 DEF AccountInv, VersionsOrdered
  <1>12. LinksSeen'
    BY <1>1, <1>3, <1>5, <1>6 DEF AccountInv, LinksSeen
  <1>13. ResetsAlone'
    <2>1. \A d \in AccountCalls \ {c} :
            /\ accountTxn[d].op = "verify" /\ op = "reset" => accountTxn[d].seen \intersect seen = {}
            /\ accountTxn[d].op = "reset" /\ op = "verify" => accountTxn[d].seen \intersect seen = {}
      BY DEF AccountInv, LinksSeen, LinkKinds
    <2>2. op = "reset" => \A l \in seen : links[l] # "used"
      BY DEF LinkKinds
    <2>3. \A d, e \in AccountCalls :
            accountTxn'[d].op = "verify" /\ accountTxn'[e].op = "reset"
              => accountTxn'[d].seen \intersect accountTxn'[e].seen = {}
      BY <1>1, <1>5, <1>6, <2>1 DEF AccountInv, ResetsAlone
    <2>4. QED
      BY <1>1, <1>3, <1>5, <1>6, <2>2, <2>3 DEF AccountInv, ResetsAlone
  <1>14. QED
    BY <1>7, <1>8, <1>9, <1>10, <1>11, <1>12, <1>13 DEF AccountInv

\* The kinds: no request under way is of the idle one.
LEMMA KindsOfRequests ==
  /\ KindOf("idle") = "idle"
  /\ \A op \in RequestOps : KindOf(op) # "idle"
  /\ \A op \in {"failed", "login"} : KindOf(op) = "login"
  /\ \A op \in {"reset", "email", "phone"} : KindOf(op) = "bump"
  /\ \A kind \in LinkKinds : KindOf(IssueOf[kind]) = "issue"
  BY DEF KindOf, RequestOps, LinkKinds, IssueOf

\* What every end of a request does to the invariant's parts about requests.
LEMMA EndKeepsRequests ==
  ASSUME AccountInv, NEW c \in AccountCalls, accountTxn[c].op # "idle", EndRequest(c)
  PROVE  /\ account # NoAccount /\ account \in UserRow
         /\ races' = races
         /\ accountTxn' \in [AccountCalls -> AccountRequest]
         /\ accountTxn'[c] = IdleRequest
         /\ \A d \in AccountCalls \ {c} : accountTxn'[d] = accountTxn[d]
         /\ RacesNoticed'
  <1>1. IdleRequest \in AccountRequest /\ IdleRequest.op = "idle"
    BY DEF IdleRequest, AccountRequest
  <1>2. account # NoAccount /\ account \in UserRow
    BY <1>1 DEF AccountInv, NothingBefore, AccountTyped
  <1>3. /\ races' = races
        /\ accountTxn' \in [AccountCalls -> AccountRequest]
        /\ accountTxn'[c] = IdleRequest
        /\ \A d \in AccountCalls \ {c} : accountTxn'[d] = accountTxn[d]
    BY <1>1 DEF EndRequest, AccountInv, AccountTyped
  <1>4. RacesNoticed'
    <2>1. RacesNoticed
      BY DEF AccountInv
    <2> SUFFICES ASSUME NEW d \in AccountCalls, NEW e \in AccountCalls, d # e,
                        accountTxn'[d].op # "idle",
                        KindOf(accountTxn'[d].op) = KindOf(accountTxn'[e].op)
                 PROVE  KindOf(accountTxn'[d].op) \in races
      BY <1>3 DEF RacesNoticed
    <2>2. d # c
      BY <1>1, <1>3
    <2>3. CASE e = c
      <3>1. KindOf(accountTxn'[e].op) = "idle"
        BY <1>1, <1>3, <2>3, KindsOfRequests
      <3>2. accountTxn'[d].op # "idle" => KindOf(accountTxn'[d].op) # "idle"
        BY <1>3, KindsOfRequests DEF AccountRequest
      <3>3. QED
        BY <3>1, <3>2
    <2>4. CASE e # c
      BY <1>3, <2>1, <2>2, <2>4 DEF RacesNoticed
    <2>5. QED
      BY <2>3, <2>4
  <1>5. QED
    BY <1>2, <1>3, <1>4

\* What the end of a request keeps when it leaves the links alone.
LEMMA EndKeepsLinks ==
  ASSUME AccountInv, NEW c \in AccountCalls, accountTxn[c].op # "idle", EndRequest(c),
         UNCHANGED <<links, reused>>
  PROVE  LinksSeen' /\ ResetsAlone'
  <1>1. /\ races' = races /\ accountTxn'[c] = IdleRequest
        /\ \A d \in AccountCalls \ {c} : accountTxn'[d] = accountTxn[d]
    BY EndKeepsRequests
  <1>2. IdleRequest.op = "idle"
    BY DEF IdleRequest
  <1>3. LinksSeen'
    BY <1>1, <1>2 DEF AccountInv, LinksSeen, LinkKinds, IssueOf
  <1>4. ResetsAlone'
    BY <1>1, <1>2 DEF AccountInv, ResetsAlone
  <1>5. QED
    BY <1>3, <1>4

\* What it keeps when it uses a link up.
LEMMA SpendKeepsLinks ==
  ASSUME AccountInv, NEW c \in AccountCalls, accountTxn[c].op \in LinkKinds, EndRequest(c),
         SpendLink(c)
  PROVE  /\ links' \in [Links -> LinkKinds \union {"unissued", "stale", "used"}]
         /\ reused' \in BOOLEAN /\ LinksSeen' /\ ResetsAlone'
  <1>1. /\ races' = races /\ accountTxn'[c] = IdleRequest
        /\ \A d \in AccountCalls \ {c} : accountTxn'[d] = accountTxn[d]
    BY EndKeepsRequests DEF LinkKinds
  <1>2. IdleRequest.op = "idle"
    BY DEF IdleRequest
  <1>3. PICK l \in accountTxn[c].seen :
          /\ links' = [links EXCEPT ![l] = "used"]
          /\ reused' = (reused \/ (accountTxn[c].op = "reset" /\ links[l] = "used"))
    BY DEF SpendLink
  <1>4. l \in Links
    BY DEF AccountInv, AccountTyped, AccountRequest
  <1>5. /\ links' \in [Links -> LinkKinds \union {"unissued", "stale", "used"}]
        /\ links'[l] = "used"
        /\ \A k \in Links \ {l} : links'[k] = links[k]
        /\ \A k \in Links : links'[k] = links[k] \/ links'[k] = "used"
    BY <1>3, <1>4 DEF AccountInv, AccountTyped
  <1>6. \A d \in AccountCalls : accountTxn[d].seen \subseteq Links
    BY DEF AccountInv, AccountTyped, AccountRequest
  <1>7. LinksSeen'
    BY <1>1, <1>2, <1>5, <1>6 DEF AccountInv, LinksSeen, LinkKinds, IssueOf
  <1>8. ResetsAlone'
    <2>1. \A d, e \in AccountCalls :
            accountTxn'[d].op = "verify" /\ accountTxn'[e].op = "reset"
              => accountTxn'[d].seen \intersect accountTxn'[e].seen = {}
      BY <1>1, <1>2 DEF AccountInv, ResetsAlone
    <2>2. ASSUME "bump" \notin races PROVE ~ reused'
      BY <1>3, <2>2 DEF AccountInv, ResetsAlone
    <2>3. ASSUME "bump" \notin races, NEW d \in AccountCalls, accountTxn'[d].op = "reset",
                 NEW k \in accountTxn'[d].seen
          PROVE  links'[k] # "used"
      <3>1. d # c /\ accountTxn'[d] = accountTxn[d] /\ k \in Links
        BY <1>1, <1>2, <1>6, <2>3
      <3>2. accountTxn[c].op # "reset"
        BY <2>3, <3>1 DEF AccountInv, RacesNoticed, KindOf
      <3>3. k # l
        BY <2>3, <3>1, <3>2 DEF AccountInv, ResetsAlone, LinkKinds
      <3>4. QED
        BY <1>5, <2>3, <3>1, <3>3 DEF AccountInv, ResetsAlone
    <2>4. QED
      BY <1>1, <2>1, <2>2, <2>3 DEF ResetsAlone
  <1>9. QED
    BY <1>3, <1>5, <1>7, <1>8 DEF AccountInv, AccountTyped

\* What it keeps when nothing happens to the counter or to the versions.
LEMMA EndKeepsCounts ==
  ASSUME AccountInv, NEW c \in AccountCalls, accountTxn[c].op # "idle", EndRequest(c),
         account' \in UserRow, account'.attempts = account.attempts, UNCHANGED wrong
  PROVE  CountersAgree'
  BY EndKeepsRequests DEF AccountInv, CountersAgree, IdleRequest

\* A request that ends and leaves the version alone; what it hands out has the version
\* the request read.
LEMMA EndKeepsVersions ==
  ASSUME AccountInv, NEW c \in AccountCalls, accountTxn[c].op # "idle", EndRequest(c),
         account' \in UserRow, account'.version = account.version,
         access' \subseteq access \union {accountTxn[c].version}, UNCHANGED dead
  PROVE  VersionsOrdered'
  BY EndKeepsRequests DEF AccountInv, VersionsOrdered, IdleRequest, UserRow, AccountTyped

\* The end of a change of credentials: the next version, every token outdated.
LEMMA BumpKeepsVersions ==
  ASSUME AccountInv, NEW c \in AccountCalls, accountTxn[c].op \in {"reset", "email", "phone"},
         EndRequest(c), account' \in UserRow, account'.version = accountTxn[c].version + 1,
         access' = access, Outdate
  PROVE  VersionsOrdered'
  <1>1. /\ races' = races /\ accountTxn'[c] = IdleRequest
        /\ \A d \in AccountCalls \ {c} : accountTxn'[d] = accountTxn[d]
        /\ account # NoAccount /\ account \in UserRow
    BY EndKeepsRequests
  <1>2. SUFFICES ASSUME "bump" \notin races PROVE VersionsOrdered'
    BY <1>1 DEF VersionsOrdered
  <1>3. account.version \in Nat /\ access \subseteq Nat /\ dead \subseteq Nat
    BY <1>1 DEF AccountInv, AccountTyped, UserRow
  <1>4. account'.version = account.version + 1
    BY <1>1, <1>2 DEF AccountInv, VersionsOrdered
  <1>5. \A d \in AccountCalls \ {c} : accountTxn[d].op \notin {"reset", "email", "phone"}
    <2> SUFFICES ASSUME NEW d \in AccountCalls \ {c},
                        accountTxn[d].op \in {"reset", "email", "phone"}
                 PROVE  FALSE
      OBVIOUS
    <2>1. KindOf(accountTxn[c].op) = "bump" /\ KindOf(accountTxn[d].op) = "bump"
      BY KindsOfRequests
    <2>2. QED
      BY <1>2, <2>1 DEF AccountInv, RacesNoticed
  <1>6. /\ \A v \in access : v <= account.version
        /\ \A v \in dead : v < account.version
        /\ \A d \in AccountCalls : accountTxn[d].version <= account.version
    BY <1>1, <1>2 DEF AccountInv, VersionsOrdered
  <1>7. \A d \in AccountCalls : accountTxn[d].version \in Nat
    BY DEF AccountInv, AccountTyped, AccountRequest
  <1>8. IdleRequest.op = "idle" /\ IdleRequest.version = 0
    BY DEF IdleRequest
  <1>9. dead' = dead \union access
    BY DEF Outdate
  <1>10. \A v \in access' : v <= account'.version
    BY <1>3, <1>4, <1>6
  <1>11. \A v \in dead' : v < account'.version
    BY <1>3, <1>4, <1>6, <1>9
  <1>12. ASSUME NEW d \in AccountCalls
         PROVE  /\ accountTxn'[d].version <= account'.version
                /\ accountTxn'[d].op \notin {"reset", "email", "phone"}
    <2>1. CASE d = c
      BY <1>1, <1>3, <1>4, <1>8, <2>1
    <2>2. CASE d # c
      BY <1>1, <1>3, <1>4, <1>5, <1>6, <1>7, <2>2
    <2>3. QED
      BY <2>1, <2>2
  <1>13. QED
    BY <1>10, <1>11, <1>12 DEF VersionsOrdered

\* The end of a login, the only one that may write the counter, and of a failure.
LEMMA LoginKeepsCounts ==
  ASSUME AccountInv, NEW c \in AccountCalls, accountTxn[c].op \in {"failed", "login"},
         EndRequest(c), account' \in UserRow,
         "login" \notin races => account'.attempts = wrong'
  PROVE  CountersAgree'
  <1>1. /\ races' = races /\ accountTxn'[c] = IdleRequest
        /\ \A d \in AccountCalls \ {c} : accountTxn'[d] = accountTxn[d]
    BY EndKeepsRequests
  <1>2. ASSUME "login" \notin races
        PROVE  \A d \in AccountCalls \ {c} : accountTxn[d].op \notin {"failed", "login"}
    BY <1>2, KindsOfRequests DEF AccountInv, RacesNoticed
  <1>3. QED
    BY <1>1, <1>2 DEF CountersAgree, IdleRequest

\* A step that opens and ends no request, and leaves the links alone.
LEMMA OtherStepsKeepAccountInv ==
  ASSUME AccountInv, account' \in UserRow,
         account = NoAccount => account'.attempts = 0 /\ account'.version \in Nat,
         account # NoAccount =>
           account'.attempts = account.attempts /\ account'.version = account.version,
         access' \subseteq access \union (IF account = NoAccount THEN {} ELSE {account.version}),
         UNCHANGED <<accountTxn, links, dead, wrong, reused, races>>
  PROVE  AccountInv'
  <1>1. account' # NoAccount /\ account'.version \in Nat
    BY NoAccountAssumption DEF UserRow
  <1>2. account # NoAccount => account \in UserRow /\ account.version \in Nat
    BY DEF AccountInv, AccountTyped, UserRow
  <1>3. AccountTyped' /\ NothingBefore'
    BY <1>1, <1>2 DEF AccountInv, AccountTyped, NothingBefore
  <1>4. RacesNoticed' /\ LinksSeen' /\ ResetsAlone'
    BY DEF AccountInv, RacesNoticed, LinksSeen, ResetsAlone
  <1>5. CountersAgree'
    BY DEF AccountInv, NothingBefore, CountersAgree, IdleRequest
  <1>6. VersionsOrdered'
    BY <1>1, <1>2 DEF AccountInv, NothingBefore, VersionsOrdered, IdleRequest
  <1>7. QED
    BY <1>3, <1>4, <1>5, <1>6 DEF AccountInv

\* Whatever ends a request on an account keeps the invariant if it keeps these parts.
LEMMA EndStep ==
  ASSUME AccountInv, NEW c \in AccountCalls, accountTxn[c].op # "idle", EndRequest(c),
         account' \in UserRow, wrong' \in Nat, access' \subseteq Nat, dead' \subseteq Nat,
         links' \in [Links -> LinkKinds \union {"unissued", "stale", "used"}],
         reused' \in BOOLEAN,
         CountersAgree', VersionsOrdered', LinksSeen', ResetsAlone'
  PROVE  AccountInv'
  <1>1. account' # NoAccount
    BY NoAccountAssumption
  <1>2. QED
    BY <1>1, EndKeepsRequests DEF AccountInv, AccountTyped, NothingBefore

\* Each step that begins a request.
LEMMA BeginsKeepAccountInv ==
  ASSUME AccountInv, NEW c \in AccountCalls,
         \/ \E role \in AccountRoles : BeginCompletion(c, role)
         \/ \E right \in BOOLEAN : BeginLogin(c, right)
         \/ \E kind \in LinkKinds : BeginIssue(c, kind)
         \/ \E l \in Links : BeginConsume(c, l)
         \/ \E contact \in Contacts : BeginChange(c, contact)
  PROVE  AccountInv'
  <1>1. ASSUME NEW role \in AccountRoles, BeginCompletion(c, role) PROVE AccountInv'
    <2>1. account # NoAccount /\ BeginRequest(c, role, {}) /\ role \in RequestOps \ LinkKinds
          /\ \A kind \in LinkKinds : role # IssueOf[kind]
      BY <1>1 DEF BeginCompletion, Present, AccountRoles, RequestOps, LinkKinds, IssueOf
    <2>2. QED
      BY <2>1, BeginKeepsAccountInv
  <1>2. ASSUME NEW right \in BOOLEAN, BeginLogin(c, right) PROVE AccountInv'
    <2>1. PICK op \in {"login", "failed"} : account # NoAccount /\ BeginRequest(c, op, {})
      BY <1>2 DEF BeginLogin, Present
    <2>2. op \in RequestOps \ LinkKinds /\ \A kind \in LinkKinds : op # IssueOf[kind]
      BY DEF RequestOps, LinkKinds, IssueOf
    <2>3. QED
      BY <2>1, <2>2, BeginKeepsAccountInv
  <1>3. ASSUME NEW kind \in LinkKinds, BeginIssue(c, kind) PROVE AccountInv'
    <2> DEFINE live == { l \in Links : links[l] = kind }
    <2>1. account # NoAccount /\ BeginRequest(c, IssueOf[kind], live)
      BY <1>3 DEF BeginIssue, Present
    <2>2. /\ IssueOf[kind] \in RequestOps \ LinkKinds
          /\ \A k \in LinkKinds : IssueOf[kind] = IssueOf[k] => k = kind
      BY DEF RequestOps, LinkKinds, IssueOf
    <2>3. \A k \in LinkKinds : IssueOf[kind] = IssueOf[k] =>
            \A l \in Links : links[l] = k => l \in live
      BY <2>2
    <2>4. live \in SUBSET Links
      OBVIOUS
    <2> HIDE DEF live
    <2>5. QED
      BY <2>1, <2>2, <2>3, <2>4, BeginKeepsAccountInv
  <1>4. ASSUME NEW l \in Links, BeginConsume(c, l) PROVE AccountInv'
    <2>1. account # NoAccount /\ BeginRequest(c, links[l], {l}) /\ links[l] \in LinkKinds
      BY <1>4 DEF BeginConsume
    <2>2. links[l] \in RequestOps /\ \A kind \in LinkKinds : links[l] # IssueOf[kind]
      BY <2>1 DEF RequestOps, LinkKinds, IssueOf
    <2>3. QED
      BY <2>1, <2>2, BeginKeepsAccountInv
  <1>5. ASSUME NEW contact \in Contacts, BeginChange(c, contact) PROVE AccountInv'
    <2>1. /\ account # NoAccount /\ BeginRequest(c, contact, {})
          /\ contact \in RequestOps \ LinkKinds
          /\ \A kind \in LinkKinds : contact # IssueOf[kind]
      BY <1>5 DEF BeginChange, Contacts, RequestOps, LinkKinds, IssueOf
    <2>2. QED
      BY <2>1, BeginKeepsAccountInv
  <1>6. QED
    BY <1>1, <1>2, <1>3, <1>4, <1>5

\* What a new link takes the place of.
LEMMA IssueKeepsLinks ==
  ASSUME AccountInv, NEW c \in AccountCalls, IssueLink(c)
  PROVE  /\ links' \in [Links -> LinkKinds \union {"unissued", "stale", "used"}]
         /\ LinksSeen' /\ ResetsAlone'
  <1>1. PICK kind \in LinkKinds, l \in Links :
          /\ accountTxn[c].op = IssueOf[kind]
          /\ links[l] = "unissued"
          /\ links' = [k \in Links |-> IF k = l THEN kind
                         ELSE IF k \in accountTxn[c].seen /\ links[k] # "used" THEN "stale"
                         ELSE links[k]]
          /\ EndRequest(c) /\ UNCHANGED reused
    BY DEF IssueLink
  <1>2. IssueOf[kind] # "idle" /\ KindOf(IssueOf[kind]) = "issue"
    BY KindsOfRequests DEF IssueOf, LinkKinds
  <1>3. /\ races' = races /\ accountTxn'[c] = IdleRequest
        /\ \A d \in AccountCalls \ {c} : accountTxn'[d] = accountTxn[d]
    BY <1>1, <1>2, EndKeepsRequests
  <1>4. IdleRequest.op = "idle"
    BY DEF IdleRequest
  <1>5. /\ links' \in [Links -> LinkKinds \union {"unissued", "stale", "used"}]
        /\ links'[l] = kind
        /\ \A k \in Links \ {l} : links'[k] = links[k] \/ (links'[k] = "stale" /\ links[k] # "used")
        /\ \A k \in accountTxn[c].seen \ {l} : links'[k] \notin LinkKinds
    BY <1>1 DEF AccountInv, AccountTyped, AccountRequest, LinkKinds
  <1>6. \A d \in AccountCalls : accountTxn[d].seen \subseteq Links
    BY DEF AccountInv, AccountTyped, AccountRequest
  <1>7. ASSUME NEW d \in AccountCalls, accountTxn[d].op \in LinkKinds PROVE l \notin accountTxn[d].seen
    BY <1>1, <1>7 DEF AccountInv, LinksSeen, LinkKinds
  <1>8. LinksSeen'
    <2>1. ASSUME "issue" \notin races
          PROVE  /\ \A k \in Links \ {l} : links'[k] # kind
                 /\ \A k, m \in Links : links'[k] \in LinkKinds /\ links'[k] = links'[m] => k = m
      <3>1. \A k \in Links : links[k] = kind => k \in accountTxn[c].seen
        BY <1>1, <2>1 DEF AccountInv, LinksSeen
      <3>2. \A k \in Links \ {l} : links'[k] # kind
        BY <1>5, <3>1 DEF LinkKinds
      <3>3. ASSUME NEW k \in Links, NEW m \in Links, links'[k] \in LinkKinds, links'[k] = links'[m]
            PROVE  k = m
        <4>1. CASE k = l \/ m = l
          BY <1>5, <3>2, <3>3, <4>1
        <4>2. CASE k # l /\ m # l
          <5>1. links'[k] = links[k] /\ links'[m] = links[m]
            BY <1>5, <3>3, <4>2 DEF LinkKinds
          <5>2. QED
            BY <2>1, <3>3, <5>1 DEF AccountInv, LinksSeen
        <4>3. QED
          BY <4>1, <4>2
      <3>4. QED
        BY <3>2, <3>3
    <2>2. ASSUME "issue" \notin races, NEW d \in AccountCalls, NEW k \in LinkKinds, NEW m \in Links,
                 accountTxn'[d].op = IssueOf[k], links'[m] = k
          PROVE  m \in accountTxn'[d].seen
      <3>1. KindOf(IssueOf[k]) = "issue" /\ IssueOf[k] # "idle"
        BY KindsOfRequests DEF IssueOf, LinkKinds
      <3>2. d # c
        BY <1>3, <1>4, <2>2, <3>1
      <3>3. QED
        BY <1>1, <1>2, <1>3, <2>2, <3>1, <3>2 DEF AccountInv, RacesNoticed
    <2>3. ASSUME NEW d \in AccountCalls, accountTxn'[d].op \in LinkKinds, NEW k \in accountTxn'[d].seen
          PROVE  links'[k] \in {accountTxn'[d].op, "stale", "used"}
      <3>1. d # c /\ accountTxn'[d] = accountTxn[d]
        BY <1>3, <1>4, <2>3 DEF LinkKinds
      <3>2. k # l /\ k \in Links
        BY <1>6, <1>7, <2>3, <3>1
      <3>3. QED
        BY <1>5, <2>3, <3>1, <3>2 DEF AccountInv, LinksSeen
    <2>4. QED
      BY <1>3, <2>1, <2>2, <2>3 DEF LinksSeen
  <1>9. ResetsAlone'
    <2>1. \A d, e \in AccountCalls :
            accountTxn'[d].op = "verify" /\ accountTxn'[e].op = "reset"
              => accountTxn'[d].seen \intersect accountTxn'[e].seen = {}
      BY <1>3, <1>4 DEF AccountInv, ResetsAlone
    <2>2. ASSUME "bump" \notin races, NEW d \in AccountCalls, accountTxn'[d].op = "reset",
                 NEW k \in accountTxn'[d].seen
          PROVE  links'[k] # "used"
      <3>1. d # c /\ accountTxn'[d] = accountTxn[d] /\ k \in Links
        BY <1>3, <1>4, <1>6, <2>2
      <3>2. links[k] # "used" /\ k # l
        BY <1>7, <2>2, <3>1 DEF AccountInv, ResetsAlone, LinkKinds
      <3>3. QED
        BY <1>5, <3>1, <3>2
    <2>3. QED
      BY <1>1, <1>3, <2>1, <2>2 DEF AccountInv, ResetsAlone
  <1>10. QED
    BY <1>5, <1>8, <1>9

\* Each step that ends a request.
LEMMA EndsKeepAccountInv ==
  ASSUME AccountInv, NEW c \in AccountCalls,
         \/ CompleteProfile(c) \/ CommitFailure(c) \/ CommitLogin(c) \/ IssueLink(c)
         \/ VerifyEmail(c) \/ ConfirmReset(c) \/ CommitChange(c) \/ AbortRequest(c)
  PROVE  AccountInv'
  <1>1. /\ links \in [Links -> LinkKinds \union {"unissued", "stale", "used"}]
        /\ access \subseteq Nat /\ dead \subseteq Nat /\ wrong \in Nat /\ reused \in BOOLEAN
        /\ accountTxn[c].attempts \in Nat /\ accountTxn[c].version \in Nat
    BY DEF AccountInv, AccountTyped, AccountRequest
  <1>2. accountTxn[c].op # "idle" /\ EndRequest(c)
    BY DEF CompleteProfile, CommitFailure, CommitLogin, IssueLink, VerifyEmail, ConfirmReset,
           CommitChange, AbortRequest, AccountRoles, LinkKinds, IssueOf, Contacts
  <1>3. account # NoAccount /\ account \in UserRow
    BY <1>2, EndKeepsRequests
  <1>4. CASE CompleteProfile(c)
    <2>1. /\ account' \in UserRow /\ account'.attempts = account.attempts
          /\ account'.version = account.version
      <3> DEFINE roles == account.roles \union {accountTxn[c].op}
      <3>1. roles \in SUBSET {"client", "detailer"}
        BY <1>3, <1>4 DEF CompleteProfile, UserRow, AccountRoles
      <3>2. account' = [account EXCEPT !.onboarded = TRUE, !.roles = roles]
        BY <1>4 DEF CompleteProfile
      <3> HIDE DEF roles
      <3>3. QED
        BY <1>3, <3>1, <3>2 DEF UserRow
    <2>2. /\ access' = access \union {accountTxn[c].version}
          /\ UNCHANGED <<links, dead, wrong, reused>>
      BY <1>4 DEF CompleteProfile, HandOut
    <2>3. CountersAgree' /\ VersionsOrdered' /\ LinksSeen' /\ ResetsAlone'
      BY <1>2, <2>1, <2>2, EndKeepsCounts, EndKeepsVersions, EndKeepsLinks
    <2>4. access' \subseteq Nat
      BY <1>1, <2>2
    <2>5. QED
      BY <1>1, <1>2, <2>1, <2>2, <2>3, <2>4, EndStep
  <1>5. CASE CommitFailure(c)
    <2>1. /\ account' \in UserRow /\ account'.attempts = accountTxn[c].attempts + 1
          /\ account'.version = account.version
      <3>1. accountTxn[c].attempts + 1 \in Nat
        BY <1>1
      <3>2. \/ account' = [account EXCEPT !.attempts = accountTxn[c].attempts + 1,
                                          !.locked = TRUE]
            \/ account' = [account EXCEPT !.attempts = accountTxn[c].attempts + 1,
                                          !.locked = FALSE]
        BY <1>5 DEF CommitFailure
      <3>3. QED
        BY <1>3, <3>1, <3>2 DEF UserRow
    <2>2. wrong' = wrong + 1 /\ wrong' \in Nat /\ UNCHANGED <<links, access, dead, reused>>
      BY <1>1, <1>5 DEF CommitFailure
    <2>3. "login" \notin races => account'.attempts = wrong'
      BY <1>3, <1>5, <2>1, <2>2 DEF CommitFailure, AccountInv, CountersAgree
    <2>4. CountersAgree' /\ VersionsOrdered' /\ LinksSeen' /\ ResetsAlone'
      BY <1>2, <1>5, <2>1, <2>2, <2>3, LoginKeepsCounts, EndKeepsVersions, EndKeepsLinks
         DEF CommitFailure
    <2>5. QED
      BY <1>1, <1>2, <2>1, <2>2, <2>4, EndStep
  <1>6. CASE CommitLogin(c)
    <2>1. /\ account' \in UserRow
          /\ account'.attempts = IF accountTxn[c].attempts = 0 THEN account.attempts ELSE 0
          /\ account'.version = account.version /\ wrong' = 0
          /\ access' \subseteq access \union {accountTxn[c].version}
          /\ UNCHANGED <<links, dead, reused>>
      BY <1>3, <1>6 DEF CommitLogin, HandOut, UserRow
    <2>2. "login" \notin races => account'.attempts = wrong'
      BY <1>3, <1>6, <2>1 DEF CommitLogin, AccountInv, CountersAgree
    <2>3. CountersAgree' /\ VersionsOrdered' /\ LinksSeen' /\ ResetsAlone'
      BY <1>2, <1>6, <2>1, <2>2, LoginKeepsCounts, EndKeepsVersions, EndKeepsLinks DEF CommitLogin
    <2>4. access' \subseteq Nat /\ wrong' \in Nat
      BY <1>1, <2>1
    <2>5. QED
      BY <1>1, <1>2, <2>1, <2>3, <2>4, EndStep
  <1>7. CASE IssueLink(c)
    <2>1. UNCHANGED <<account, access, dead, wrong, reused>>
      BY <1>7 DEF IssueLink
    <2>2. CountersAgree' /\ VersionsOrdered' /\ LinksSeen' /\ ResetsAlone'
      BY <1>2, <1>3, <1>7, <2>1, EndKeepsCounts, EndKeepsVersions, IssueKeepsLinks
    <2>3. QED
      BY <1>1, <1>2, <1>3, <1>7, <2>1, <2>2, IssueKeepsLinks, EndStep
  <1>8. CASE VerifyEmail(c)
    <2>1. /\ account' \in UserRow /\ account'.attempts = account.attempts
          /\ account'.version = account.version
          /\ accountTxn[c].op \in LinkKinds /\ SpendLink(c)
          /\ UNCHANGED <<access, dead, wrong>>
      BY <1>3, <1>8 DEF VerifyEmail, UserRow, LinkKinds
    <2>2. CountersAgree' /\ VersionsOrdered'
      BY <1>2, <2>1, EndKeepsCounts, EndKeepsVersions
    <2>3. QED
      BY <1>1, <1>2, <2>1, <2>2, SpendKeepsLinks, EndStep
  <1>9. CASE ConfirmReset(c)
    <2>1. /\ account' \in UserRow /\ account'.attempts = account.attempts
          /\ account'.version = accountTxn[c].version + 1
          /\ accountTxn[c].op \in LinkKinds /\ SpendLink(c)
          /\ Outdate /\ UNCHANGED <<access, wrong>>
      BY <1>1, <1>3, <1>9 DEF ConfirmReset, UserRow, LinkKinds
    <2>2. CountersAgree' /\ VersionsOrdered'
      BY <1>2, <1>9, <2>1, EndKeepsCounts, BumpKeepsVersions DEF ConfirmReset
    <2>3. dead' \subseteq Nat
      BY <1>1, <2>1 DEF Outdate
    <2>4. QED
      BY <1>1, <1>2, <2>1, <2>2, <2>3, SpendKeepsLinks, EndStep
  <1>10. CASE CommitChange(c)
    <2>1. /\ account' \in UserRow /\ account'.attempts = account.attempts
          /\ account'.version = accountTxn[c].version + 1
      <3>1. accountTxn[c].version + 1 \in Nat
        BY <1>1
      <3>2. \/ account' = [account EXCEPT !.version = accountTxn[c].version + 1,
                                          !.verified = TRUE]
            \/ account' = [account EXCEPT !.version = accountTxn[c].version + 1,
                                          !.verified = FALSE]
        BY <1>10 DEF CommitChange
      <3>3. QED
        BY <1>3, <3>1, <3>2 DEF UserRow
    <2>2. /\ accountTxn[c].op \in {"reset", "email", "phone"}
          /\ Outdate /\ UNCHANGED <<access, wrong, links, reused>>
      BY <1>10 DEF CommitChange, Contacts
    <2>3. CountersAgree' /\ VersionsOrdered' /\ LinksSeen' /\ ResetsAlone'
      BY <1>2, <2>1, <2>2, EndKeepsCounts, BumpKeepsVersions, EndKeepsLinks
    <2>4. dead' \subseteq Nat
      BY <1>1, <2>2 DEF Outdate
    <2>5. QED
      BY <1>1, <1>2, <2>1, <2>2, <2>3, <2>4, EndStep
  <1>11. CASE AbortRequest(c)
    <2>1. UNCHANGED <<account, links, access, dead, wrong, reused>>
      BY <1>11 DEF AbortRequest
    <2>2. CountersAgree' /\ VersionsOrdered' /\ LinksSeen' /\ ResetsAlone'
      BY <1>2, <1>3, <2>1, EndKeepsCounts, EndKeepsVersions, EndKeepsLinks
    <2>3. QED
      BY <1>1, <1>2, <1>3, <2>1, <2>2, EndStep
  <1>12. QED
    BY <1>4, <1>5, <1>6, <1>7, <1>8, <1>9, <1>10, <1>11

\* Every step of the specification.
LEMMA StepKeepsAccountInv == AccountInv /\ [AccountNext]_accountVars => AccountInv'
  <1> SUFFICES ASSUME AccountInv, [AccountNext]_accountVars PROVE AccountInv'
    OBVIOUS
  <1>1. CASE UNCHANGED accountVars
    BY <1>1 DEF accountVars, AccountInv, AccountTyped, NothingBefore, RacesNoticed, CountersAgree,
                VersionsOrdered, LinksSeen, ResetsAlone
  <1>2. account # NoAccount => account \in UserRow
    BY DEF AccountInv, AccountTyped
  <1>3. CASE Register
    BY <1>3, OtherStepsKeepAccountInv DEF Register, UserRow
  <1>4. CASE LockExpires \/ RefreshAccess \/ \E active \in BOOLEAN : SetActive(active)
    <2>1. /\ account # NoAccount /\ account' \in UserRow
          /\ account'.attempts = account.attempts /\ account'.version = account.version
      BY <1>2, <1>4 DEF LockExpires, RefreshAccess, SetActive, Present, UserRow
    <2>2. /\ access' \subseteq access \union {account.version}
          /\ UNCHANGED <<accountTxn, links, dead, wrong, reused, races>>
      BY <1>4 DEF LockExpires, RefreshAccess, SetActive
    <2>3. QED
      BY <2>1, <2>2, OtherStepsKeepAccountInv
  <1>5. CASE \E contact \in Contacts : RequestChange(contact) \/ ExpireChange(contact)
    <2>1. UNCHANGED <<account, accountTxn, links, access, dead, wrong, reused, races>>
      BY <1>5 DEF RequestChange, ExpireChange
    <2>2. QED
      BY <2>1 DEF AccountInv, AccountTyped, NothingBefore, RacesNoticed, CountersAgree,
                  VersionsOrdered, LinksSeen, ResetsAlone
  <1>6. ASSUME NEW c \in AccountCalls,
               \/ \E role \in AccountRoles : BeginCompletion(c, role)
               \/ \E right \in BOOLEAN : BeginLogin(c, right)
               \/ \E kind \in LinkKinds : BeginIssue(c, kind)
               \/ \E l \in Links : BeginConsume(c, l)
               \/ \E contact \in Contacts : BeginChange(c, contact)
        PROVE  AccountInv'
    BY <1>6, BeginsKeepAccountInv
  <1>7. ASSUME NEW c \in AccountCalls,
               \/ CompleteProfile(c) \/ CommitFailure(c) \/ CommitLogin(c) \/ IssueLink(c)
               \/ VerifyEmail(c) \/ ConfirmReset(c) \/ CommitChange(c) \/ AbortRequest(c)
        PROVE  AccountInv'
    BY <1>7, EndsKeepAccountInv
  <1>8. QED
    BY <1>1, <1>3, <1>4, <1>5, <1>6, <1>7 DEF AccountNext

\* The invariant holds at the start and after every step.
THEOREM AccountInvariant == AccountSpec => []AccountInv
  <1>1. AccountInit => AccountInv
    <2> SUFFICES ASSUME AccountInit PROVE AccountInv
      OBVIOUS
    <2>1. /\ IdleRequest \in AccountRequest /\ IdleRequest.op = "idle"
          /\ \A kind \in LinkKinds : IssueOf[kind] # "idle"
      BY DEF IdleRequest, AccountRequest, LinkKinds, IssueOf
    <2>2. AccountTyped /\ NothingBefore
      BY <2>1 DEF AccountInit, AccountTyped, NothingBefore
    <2>3. RacesNoticed /\ CountersAgree /\ VersionsOrdered
      BY <2>1 DEF AccountInit, RacesNoticed, CountersAgree, VersionsOrdered
    <2>4. LinksSeen /\ ResetsAlone
      BY <2>1 DEF AccountInit, LinksSeen, ResetsAlone, LinkKinds
    <2>5. QED
      BY <2>2, <2>3, <2>4 DEF AccountInv
  <1>2. QED
    BY <1>1, StepKeepsAccountInv, PTL DEF AccountSpec

\* The lockout counts every wrong password since the last right one, for any number
\* of requests, as long as no two logins overlap.
THEOREM LockoutCounts == AccountSpec => []FailuresCounted
  <1>1. AccountInv => FailuresCounted
    BY DEF AccountInv, CountersAgree, FailuresCounted
  <1>2. QED
    BY <1>1, AccountInvariant, PTL

\* "instant revocation": a token handed out before a change of credentials carries an
\* older version than the row, as long as no two changes overlap.
THEOREM RevocationIsInstant == AccountSpec => []OldAccessRefused
  <1>1. AccountInv => OldAccessRefused
    <2> SUFFICES ASSUME AccountInv, account # NoAccount, "bump" \notin races,
                        account.version \in dead
                 PROVE  FALSE
      BY DEF OldAccessRefused
    <2>1. account.version < account.version /\ account.version \in Nat
      BY DEF AccountInv, AccountTyped, VersionsOrdered
    <2>2. QED
      BY <2>1
  <1>2. QED
    BY <1>1, AccountInvariant, PTL

\* A new link takes the place of the older ones and a reset link acts once, as long
\* as no two issues, or no two changes, overlap.
THEOREM LinksActOnce == AccountSpec => []LinksSingleUse
  <1>1. AccountInv => LinksSingleUse
    BY DEF AccountInv, LinksSeen, ResetsAlone, LinksSingleUse
  <1>2. QED
    BY <1>1, AccountInvariant, PTL

-----------------------------------------------------------------------------
(* SecondFactors *)

\* A request that reads the row while no other one is about to write it keeps the
\* invariant, if what it is about to write is sound.
LEMMA HoldKeepsFactorInv ==
  ASSUME FactorInv, NEW c \in FactorCalls, NEW op \in {"insert", "update", "delete"}, NEW write,
         NEW row, Hold(c, op, write), totp' = totp,
         ~ clashes /\ ~ clashes' =>
           issued' \in 0 .. MaxIssued /\ spent' \subseteq (0 .. issued') \X CodeNumbers,
         confirmed \subseteq confirmed',
         op = "delete" => issued' = issued /\ spent' = spent,
         ~ clashes /\ op # "delete" => row = Written(write) /\ row \in FactorRow,
         ~ clashes /\ ~ clashes' /\ op # "delete" =>
           /\ row.enabled => row.secret \in confirmed'
           /\ row.codes \subseteq CodeSet(issued') \ spent'
  PROVE  FactorInv'
  <1> DEFINE t == [op |-> op, write |-> write]
  <1>1. t.op = op /\ t.write = write
    OBVIOUS
  <1>2. factorTxn' = [factorTxn EXCEPT ![c] = t]
    BY DEF Hold
  <1> HIDE DEF t
  <1>3. SUFFICES ASSUME ~ clashes' PROVE FactorInv'
    BY DEF FactorInv
  <1>4. ~ clashes /\ \A d \in FactorCalls : factorTxn[d].op \notin {"insert", "update", "delete"}
    BY <1>3 DEF Hold
  <1>5. /\ DOMAIN factorTxn' = FactorCalls
        /\ factorTxn'[c] = t /\ \A d \in FactorCalls \ {c} : factorTxn'[d] = factorTxn[d]
    BY <1>2, <1>4 DEF FactorInv
  <1>6. \A d \in FactorCalls : factorTxn'[d].op \in {"insert", "update", "delete"} => d = c
    BY <1>4, <1>5
  <1>7. totp' # NoCredential => Confirmed(totp)'
    BY <1>4 DEF FactorInv, Confirmed
  <1>8. totp' # NoCredential /\ op = "delete" => Unspent(totp)'
    BY <1>4 DEF FactorInv, Unspent, CodeSet
  <1>9. op # "delete" => Written(factorTxn[c].write)' = row
    BY <1>1, <1>3, <1>4, <1>5 DEF Written
  <1>10. ASSUME NEW d \in FactorCalls, factorTxn'[d].op \in {"insert", "update"}
         PROVE  (LET new == Written(factorTxn[d].write)
                 IN new \in FactorRow /\ Confirmed(new) /\ Unspent(new))'
    <2>1. d = c /\ op # "delete"
      BY <1>1, <1>5, <1>6, <1>10
    <2>2. QED
      BY <1>3, <1>4, <1>9, <2>1 DEF Confirmed, Unspent, CodeSet
  <1>11. (\A d \in FactorCalls : factorTxn[d].op \notin {"insert", "update"})' => op = "delete"
    BY <1>1, <1>5
  <1>12. QED
    BY <1>4, <1>5, <1>6, <1>7, <1>8, <1>10, <1>11 DEF FactorInv

\* The columns of an UPDATE over the row there is.
LEMMA WrittenRow ==
  ASSUME totp \in FactorRow, NEW secret, NEW codes, NEW enabled
  PROVE  LET w   == [secret |-> secret, codes |-> codes, enabled |-> enabled]
             row == [column \in DOMAIN totp |-> IF w[column] = Kept THEN totp[column] ELSE w[column]]
         IN row = [secret  |-> IF secret  = Kept THEN totp.secret  ELSE secret,
                   codes   |-> IF codes   = Kept THEN totp.codes   ELSE codes,
                   enabled |-> IF enabled = Kept THEN totp.enabled ELSE enabled]
  BY DEF FactorRow
\* The next set of backup codes is a set of codes, none of them spent.
LEMMA NextSetIsFresh ==
  ASSUME FactorInv, ~ clashes, issued < MaxIssued
  PROVE  /\ issued + 1 \in 0 .. MaxIssued /\ issued + 1 # Kept
         /\ CodeSet(issued + 1) \in SUBSET BackupCodes /\ CodeSet(issued + 1) # Kept
         /\ CodeSet(issued + 1) \intersect spent = {}
         /\ spent \subseteq (0 .. (issued + 1)) \X CodeNumbers
  <1>1. issued \in 0 .. MaxIssued /\ spent \subseteq (0 .. issued) \X CodeNumbers
    BY DEF FactorInv
  <1>2. issued + 1 \in 0 .. MaxIssued /\ issued + 1 # Kept
    BY <1>1, FactorsAssumption, FactorValuesAssumption
  <1>3. CodeSet(issued + 1) \in SUBSET BackupCodes /\ CodeSet(issued + 1) # Kept
    BY <1>2, FactorValuesAssumption DEF CodeSet, BackupCodes
  <1>4. CodeSet(issued + 1) \intersect spent = {}
    BY <1>1 DEF CodeSet
  <1>5. spent \subseteq (0 .. (issued + 1)) \X CodeNumbers
    BY <1>1
  <1>6. QED
    BY <1>2, <1>3, <1>4, <1>5

\* Each step that opens a request on the credential.
LEMMA EnrollKeepsFactorInv == ASSUME FactorInv, NEW c \in FactorCalls, Enroll(c) PROVE FactorInv'
  <1> DEFINE op == IF totp = NoCredential THEN "insert" ELSE "update"
             enabled == Dirtied("enabled", FALSE)
             write == [secret |-> issued', codes |-> CodeSet(issued'), enabled |-> enabled]
             row == [secret |-> issued', codes |-> CodeSet(issued'), enabled |-> FALSE]
  <1>1. /\ issued < MaxIssued /\ issued' = issued + 1
        /\ Hold(c, op, write) /\ UNCHANGED <<totp, confirmed, spent>>
    BY DEF Enroll
  <1>2. op \in {"insert", "update"}
    OBVIOUS
  <1>3. ASSUME ~ clashes
        PROVE  /\ issued' \in 0 .. MaxIssued /\ issued' # Kept
               /\ CodeSet(issued') \in SUBSET BackupCodes /\ CodeSet(issued') # Kept
               /\ CodeSet(issued') \intersect spent = {}
               /\ spent \subseteq (0 .. issued') \X CodeNumbers
    BY <1>1, <1>3, NextSetIsFresh
  <1>4. ASSUME ~ clashes PROVE Written(write) = row
    <2>1. Kept # FALSE /\ Kept # TRUE
      BY FactorValuesAssumption
    <2>2. CASE totp = NoCredential
      BY <2>2 DEF Written, Dirtied
    <2>3. CASE totp # NoCredential
      <3>1. totp \in FactorRow
        BY <1>4, <2>3 DEF FactorInv
      <3>2. Written(write) =
              [secret  |-> IF issued' = Kept THEN totp.secret ELSE issued',
               codes   |-> IF CodeSet(issued') = Kept THEN totp.codes ELSE CodeSet(issued'),
               enabled |-> IF enabled = Kept THEN totp.enabled ELSE enabled]
        BY <2>3, <3>1, WrittenRow DEF Written
      <3>3. (IF enabled = Kept THEN totp.enabled ELSE enabled) = FALSE
        BY <2>1, <2>3 DEF Dirtied
      <3>4. QED
        BY <1>3, <1>4, <3>2, <3>3
    <2>4. QED
      BY <2>2, <2>3
  <1>5. ASSUME ~ clashes PROVE row \in FactorRow
    BY <1>3, <1>5 DEF FactorRow
  <1>6. row.enabled = FALSE /\ row.codes = CodeSet(issued')
    OBVIOUS
  <1> HIDE DEF op, write, row
  <1>7. QED
    BY <1>1, <1>2, <1>3, <1>4, <1>5, <1>6, HoldKeepsFactorInv

\* New codes replace the unused ones, under the next number.
LEMMA RegenerateKeepsFactorInv ==
  ASSUME FactorInv, NEW c \in FactorCalls, RegenerateCodes(c) PROVE FactorInv'
  <1> DEFINE write == [secret |-> Kept, codes |-> CodeSet(issued'), enabled |-> Kept]
             row == [secret |-> totp.secret, codes |-> CodeSet(issued'), enabled |-> totp.enabled]
  <1>1. /\ issued < MaxIssued /\ issued' = issued + 1 /\ totp # NoCredential
        /\ Hold(c, "update", write) /\ UNCHANGED <<totp, confirmed, spent>>
    BY DEF RegenerateCodes
  <1>2. ASSUME ~ clashes
        PROVE  /\ issued' \in 0 .. MaxIssued
               /\ CodeSet(issued') \in SUBSET BackupCodes /\ CodeSet(issued') # Kept
               /\ CodeSet(issued') \intersect spent = {}
               /\ spent \subseteq (0 .. issued') \X CodeNumbers
    BY <1>1, <1>2, NextSetIsFresh
  <1>3. ASSUME ~ clashes PROVE totp \in FactorRow /\ (totp.enabled => totp.secret \in confirmed)
    BY <1>1, <1>3 DEF FactorInv, Confirmed
  <1>4. ASSUME ~ clashes PROVE Written(write) = row /\ row \in FactorRow
    <2>1. Written(write) = row
      BY <1>1, <1>2, <1>3, <1>4, WrittenRow DEF Written
    <2>2. row \in FactorRow
      BY <1>2, <1>3, <1>4 DEF FactorRow
    <2>3. QED
      BY <2>1, <2>2
  <1>5. row.secret = totp.secret /\ row.enabled = totp.enabled /\ row.codes = CodeSet(issued')
    OBVIOUS
  <1> HIDE DEF write, row
  <1>6. QED
    BY <1>1, <1>2, <1>3, <1>4, <1>5, HoldKeepsFactorInv

\* The first right code confirms the secret that was read and enables the factor.
LEMMA VerifyKeepsFactorInv ==
  ASSUME FactorInv, NEW c \in FactorCalls, VerifyFactor(c) PROVE FactorInv'
  <1> DEFINE enabled == Dirtied("enabled", TRUE)
  <1>1. totp # NoCredential /\ confirmed' = confirmed \union {totp.secret} /\ UNCHANGED <<totp, issued>>
    BY DEF VerifyFactor
  <1>2. ASSUME ~ clashes
        PROVE  /\ totp \in FactorRow /\ issued \in 0 .. MaxIssued
               /\ spent \subseteq (0 .. issued) \X CodeNumbers
    BY <1>1, <1>2 DEF FactorInv
  <1>3. ~ clashes /\ ~ clashes' => totp.codes \subseteq CodeSet(issued) \ spent
    BY <1>1 DEF VerifyFactor, Hold, FactorInv, Unspent
  <1>4. totp \in FactorRow => (IF enabled = Kept THEN totp.enabled ELSE enabled) = TRUE
    BY <1>1, FactorValuesAssumption DEF Dirtied
  <1> HIDE DEF enabled
  \* What is written: the codes, or those that are left.
  <1>5. ASSUME ~ clashes, NEW codes, NEW left \in SUBSET totp.codes,
               IF codes = Kept THEN left = totp.codes ELSE left = codes
        PROVE  LET row == [secret |-> totp.secret, codes |-> left, enabled |-> TRUE]
               IN /\ Written([secret |-> Kept, codes |-> codes, enabled |-> enabled]) = row
                  /\ row \in FactorRow
    <2> DEFINE row == [secret |-> totp.secret, codes |-> left, enabled |-> TRUE]
    <2>1. Written([secret |-> Kept, codes |-> codes, enabled |-> enabled]) = row
      BY <1>1, <1>2, <1>4, <1>5, WrittenRow DEF Written
    <2>2. row \in FactorRow
      BY <1>2, <1>5 DEF FactorRow
    <2>3. QED
      BY <2>1, <2>2
  <1>6. CASE /\ Hold(c, "update", [secret |-> Kept, codes |-> Kept, enabled |-> enabled])
             /\ UNCHANGED spent
    <2> DEFINE write == [secret |-> Kept, codes |-> Kept, enabled |-> enabled]
               row == [secret |-> totp.secret, codes |-> totp.codes, enabled |-> TRUE]
    <2>1. ASSUME ~ clashes PROVE Written(write) = row /\ row \in FactorRow
      BY <1>5, <2>1
    <2>2. Hold(c, "update", write) /\ spent' = spent
      BY <1>6
    <2>3. row.secret = totp.secret /\ row.codes = totp.codes
      OBVIOUS
    <2> HIDE DEF write, row
    <2>4. QED
      BY <1>1, <1>2, <1>3, <2>1, <2>2, <2>3, HoldKeepsFactorInv
  <1>7. ASSUME NEW code \in totp.codes,
               Hold(c, "update", [secret |-> Kept, codes |-> totp.codes \ {code}, enabled |-> enabled]),
               spent' = spent \union {code}
        PROVE  FactorInv'
    <2> DEFINE left == totp.codes \ {code}
               write == [secret |-> Kept, codes |-> left, enabled |-> enabled]
               row == [secret |-> totp.secret, codes |-> left, enabled |-> TRUE]
    <2>1. ASSUME ~ clashes PROVE Written(write) = row /\ row \in FactorRow
      <3>1. left \in SUBSET totp.codes /\ left # Kept
        BY <1>2, <2>1, FactorValuesAssumption DEF FactorRow
      <3> HIDE DEF left
      <3>2. QED
        BY <1>5, <2>1, <3>1
    <2>2. Hold(c, "update", write)
      BY <1>7
    <2>3. row.secret = totp.secret /\ row.codes = left
      OBVIOUS
    <2>4. ASSUME ~ clashes, ~ clashes'
          PROVE  left \subseteq CodeSet(issued') \ spent' /\ spent' \subseteq (0 .. issued') \X CodeNumbers
      BY <1>1, <1>2, <1>3, <1>7, <2>4 DEF CodeSet
    <2> HIDE DEF left, write, row
    <2>5. QED
      BY <1>1, <1>2, <2>1, <2>2, <2>3, <2>4, HoldKeepsFactorInv
  <1>8. QED
    BY <1>6, <1>7 DEF VerifyFactor, enabled

\* The factor goes with its codes.
LEMMA DisableKeepsFactorInv == ASSUME FactorInv, NEW c \in FactorCalls, Disable(c) PROVE FactorInv'
  <1>1. Hold(c, "delete", Kept) /\ UNCHANGED <<totp, issued, confirmed, spent>>
    BY DEF Disable
  <1>2. ~ clashes => issued \in 0 .. MaxIssued /\ spent \subseteq (0 .. issued) \X CodeNumbers
    BY DEF FactorInv
  <1>3. QED
    BY <1>1, <1>2, HoldKeepsFactorInv

\* The commit makes the row the one that was sound before.
LEMMA CommitKeepsFactorInv ==
  ASSUME FactorInv, NEW c \in FactorCalls, CommitFactor(c) PROVE FactorInv'
  <1>1. SUFFICES ASSUME ~ clashes PROVE FactorInv'
    BY DEF FactorInv, CommitFactor
  <1>2. /\ factorTxn[c].op \in {"insert", "update", "delete"}
        /\ (factorTxn[c].op = "insert") <=> (totp = NoCredential)
        /\ factorTxn' = [factorTxn EXCEPT ![c] = IdleFactor]
        /\ UNCHANGED <<issued, confirmed, spent, clashes>>
    BY DEF CommitFactor, EndFactor
  <1>3. /\ DOMAIN factorTxn' = FactorCalls /\ factorTxn'[c].op = "idle"
        /\ \A d \in FactorCalls \ {c} : factorTxn'[d] = factorTxn[d]
    BY <1>1, <1>2 DEF FactorInv, IdleFactor
  <1>4. \A d \in FactorCalls : factorTxn'[d].op \notin {"insert", "update", "delete"}
    <2>1. \A d \in FactorCalls \ {c} : factorTxn[d].op \notin {"insert", "update", "delete"}
      BY <1>1, <1>2 DEF FactorInv
    <2>2. QED
      BY <1>3, <2>1
  <1>5. CASE factorTxn[c].op = "delete"
    <2>1. totp' = NoCredential
      BY <1>5 DEF CommitFactor
    <2>2. QED
      BY <1>1, <1>2, <1>3, <1>4, <2>1 DEF FactorInv
  <1>6. CASE factorTxn[c].op \in {"insert", "update"}
    <2> DEFINE row == Written(factorTxn[c].write)
    <2>1. totp' = row
      <3>1. CASE factorTxn[c].op = "insert"
        BY <1>2, <3>1, Zenon DEF CommitFactor, Written
      <3>2. CASE factorTxn[c].op = "update"
        BY <1>2, <3>2, Zenon DEF CommitFactor, Written
      <3>3. QED
        BY <1>6, <3>1, <3>2
    <2>2. /\ row \in FactorRow /\ (row.enabled => row.secret \in confirmed)
          /\ row.codes \subseteq CodeSet(issued) \ spent
      BY <1>1, <1>6 DEF FactorInv, Confirmed, Unspent
    <2> HIDE DEF row
    <2>3. Confirmed(totp)' /\ Unspent(totp)' /\ totp' \in FactorRow
      BY <1>2, <2>1, <2>2 DEF Confirmed, Unspent, CodeSet
    <2>4. QED
      BY <1>1, <1>2, <1>3, <1>4, <2>3 DEF FactorInv
  <1>7. QED
    BY <1>2, <1>5, <1>6

\* A request that fails has written nothing; a failed insertion or update, whose codes
\* are known outside, counts as a clash.
LEMMA AbortKeepsFactorInv ==
  ASSUME FactorInv, NEW c \in FactorCalls, AbortFactor(c) PROVE FactorInv'
  <1>1. SUFFICES ASSUME ~ clashes, factorTxn[c].op \notin {"insert", "update"} PROVE FactorInv'
    BY DEF FactorInv, AbortFactor
  <1>2. /\ factorTxn' = [factorTxn EXCEPT ![c] = IdleFactor]
        /\ UNCHANGED <<totp, issued, confirmed, spent>>
    BY DEF AbortFactor, EndFactor
  <1>3. /\ DOMAIN factorTxn' = FactorCalls /\ factorTxn'[c].op = "idle"
        /\ \A d \in FactorCalls \ {c} : factorTxn'[d] = factorTxn[d]
    BY <1>1, <1>2 DEF FactorInv, IdleFactor
  <1>4. QED
    BY <1>1, <1>2, <1>3 DEF FactorInv, Written, Confirmed, Unspent, CodeSet

\* The step-up window, the challenges and the passkeys leave the credential alone.
LEMMA OthersKeepFactorInv ==
  ASSUME FactorInv, UNCHANGED <<totp, issued, confirmed, spent, clashes>>,
         \/ factorTxn' = factorTxn
         \/ \E c \in FactorCalls :
              \/ /\ factorTxn[c].op \in {"idle", "challenge"}
                 /\ \E t : factorTxn' = [factorTxn EXCEPT ![c] = t] /\ t.op \in {"idle", "challenge"}
  PROVE  FactorInv'
  <1>1. SUFFICES ASSUME ~ clashes PROVE FactorInv'
    BY DEF FactorInv
  <1>2. CASE factorTxn' = factorTxn
    BY <1>1, <1>2 DEF FactorInv, Written, Confirmed, Unspent, CodeSet
  <1>3. ASSUME NEW c \in FactorCalls, NEW t, factorTxn[c].op \in {"idle", "challenge"},
               factorTxn' = [factorTxn EXCEPT ![c] = t], t.op \in {"idle", "challenge"}
        PROVE  FactorInv'
    <2>1. /\ DOMAIN factorTxn' = FactorCalls /\ factorTxn'[c] = t
          /\ \A d \in FactorCalls \ {c} : factorTxn'[d] = factorTxn[d]
      BY <1>1, <1>3 DEF FactorInv
    <2>2. \A d \in FactorCalls :
            /\ factorTxn'[d].op \in {"insert", "update", "delete"} => d # c
            /\ factorTxn[d].op \in {"insert", "update", "delete"} => d # c
      BY <1>3, <2>1
    <2>3. \A d \in FactorCalls : factorTxn'[d].op \in {"insert", "update"} =>
            (LET row == Written(factorTxn[d].write)
             IN row \in FactorRow /\ Confirmed(row) /\ Unspent(row))'
      BY <1>1, <2>1, <2>2 DEF FactorInv, Written, Confirmed, Unspent, CodeSet
    <2>4. totp' # NoCredential =>
            /\ Confirmed(totp)'
            /\ (\A d \in FactorCalls : factorTxn'[d].op \notin {"insert", "update"}) => Unspent(totp)'
      BY <1>1, <2>1, <2>2 DEF FactorInv, Confirmed, Unspent, CodeSet
    <2>5. QED
      BY <1>1, <2>1, <2>2, <2>3, <2>4 DEF FactorInv
  <1>4. QED
    BY <1>2, <1>3

\* The answers to a challenge and what they read.
LEMMA ChallengesKeepFactorInv ==
  ASSUME FactorInv, NEW c \in FactorCalls,
         \/ \E ch \in Challenges : GetChallenge(c, ch)
         \/ \E p \in Passkeys : RegisterPasskey(c, p) \/ AuthenticatePasskey(c, p)
         \/ RefuseAnswer(c)
  PROVE  FactorInv'
  <1>1. UNCHANGED <<totp, issued, confirmed, spent, clashes>>
    BY DEF GetChallenge, RegisterPasskey, AuthenticatePasskey, RefuseAnswer
  <1>2. IdleFactor.op = "idle"
    BY DEF IdleFactor
  <1>3. ASSUME NEW ch \in Challenges, GetChallenge(c, ch) PROVE FactorInv'
    <2> DEFINE t == [op |-> "challenge", about |-> ch, type |-> challenges[ch]]
    <2>1. factorTxn[c].op = "idle" /\ factorTxn' = [factorTxn EXCEPT ![c] = t] /\ t.op = "challenge"
      BY <1>2, <1>3 DEF GetChallenge
    <2> HIDE DEF t
    <2>2. QED
      BY <1>1, <2>1, OthersKeepFactorInv
  <1>4. CASE RefuseAnswer(c) \/ \E p \in Passkeys : RegisterPasskey(c, p) \/ AuthenticatePasskey(c, p)
    <2>1. factorTxn[c].op = "challenge" /\ factorTxn' = [factorTxn EXCEPT ![c] = IdleFactor]
      BY <1>4 DEF RegisterPasskey, AuthenticatePasskey, RefuseAnswer, EndFactor
    <2>2. QED
      BY <1>1, <1>2, <2>1, OthersKeepFactorInv
  <1>5. QED
    BY <1>3, <1>4

\* Every step of the specification.
LEMMA StepKeepsFactorInv == FactorInv /\ [FactorNext]_factorVars => FactorInv'
  <1> SUFFICES ASSUME FactorInv, [FactorNext]_factorVars PROVE FactorInv'
    OBVIOUS
  <1>1. CASE \/ UNCHANGED factorVars \/ MarkStepUp \/ StepUpLapses
             \/ \E ch \in Challenges :
                  ChallengeExpires(ch) \/ \E type \in {"reg", "auth"} : StoreChallenge(ch, type)
             \/ \E p \in Passkeys : RevokePasskey(p) \/ DeletePasskey(p)
    <2>1. UNCHANGED <<totp, factorTxn, issued, confirmed, spent, clashes>>
      BY <1>1 DEF factorVars, MarkStepUp, StepUpLapses, ChallengeExpires, StoreChallenge,
                  RevokePasskey, DeletePasskey
    <2>2. QED
      BY <2>1, OthersKeepFactorInv
  <1>2. ASSUME NEW c \in FactorCalls,
               \/ Enroll(c) \/ VerifyFactor(c) \/ Disable(c) \/ RegenerateCodes(c)
               \/ CommitFactor(c) \/ AbortFactor(c)
        PROVE  FactorInv'
    BY <1>2, EnrollKeepsFactorInv, VerifyKeepsFactorInv, DisableKeepsFactorInv,
       RegenerateKeepsFactorInv, CommitKeepsFactorInv, AbortKeepsFactorInv
  <1>3. ASSUME NEW c \in FactorCalls,
               \/ \E ch \in Challenges : GetChallenge(c, ch)
               \/ \E p \in Passkeys : RegisterPasskey(c, p) \/ AuthenticatePasskey(c, p)
               \/ RefuseAnswer(c)
        PROVE  FactorInv'
    BY <1>3, ChallengesKeepFactorInv
  <1>4. QED
    BY <1>1, <1>2, <1>3 DEF FactorNext

\* An enabled factor was confirmed with its own secret, and no code that was accepted
\* or replaced is listed, for any number of requests, code sets and passkeys.
THEOREM FactorsSound == FactorSpec => []FactorConsistent
  <1>1. FactorInit => FactorInv
    BY FactorsAssumption DEF FactorInit, FactorInv, IdleFactor
  <1>2. FactorInv => FactorConsistent
    BY DEF FactorInv, Confirmed, Unspent, FactorConsistent
  <1>3. QED
    BY <1>1, <1>2, StepKeepsFactorInv, PTL DEF FactorSpec

-----------------------------------------------------------------------------
(* Rbac *)

\* The lookup depends on the user's roles and on the grants alone.
LEMMA EffectiveKept == ASSUME UNCHANGED <<held, grants>> PROVE Effective' = Effective
  BY DEF Effective

\* A change of a role or of a grant is noticed by the lookups under way.
LEMMA ChangeKeepsRbacInv ==
  ASSUME RbacInv, UNCHANGED <<permCache, queried>>,
         \/ outrun' = (outrun \/ InFlight) /\ toDrop' # {}
         \/ outrun' = (outrun \/ Cached \/ InFlight)
  PROVE  RbacInv'
  <1>1. ~ outrun' => ~ outrun /\ \A k \in Checks : queried'[k] = NoEntry
    BY DEF InFlight
  <1>2. ~ outrun' /\ toDrop' = {} => permCache' = NoEntry
    BY DEF Cached
  <1>3. QED
    BY <1>1, <1>2 DEF RbacInv

\* An entry that goes takes the doubt with it, unless a lookup is under way.
LEMMA DropKeepsRbacInv ==
  ASSUME RbacInv, permCache' = NoEntry, outrun' = (outrun /\ InFlight),
         UNCHANGED <<held, grants, queried>>
  PROVE  RbacInv'
  <1>1. ~ outrun' => ~ outrun \/ \A k \in Checks : queried[k] = NoEntry
    BY DEF InFlight
  <1>2. QED
    BY <1>1, EffectiveKept DEF RbacInv

\* Every step of the specification.
LEMMA StepKeepsRbacInv == RbacInv /\ [RbacNext]_rbacVars => RbacInv'
  <1> SUFFICES ASSUME RbacInv, [RbacNext]_rbacVars PROVE RbacInv'
    OBVIOUS
  <1>1. CASE UNCHANGED rbacVars \/ \E r \in RoleNames : CreateRole(r) \/ DeleteRole(r)
    BY <1>1, EffectiveKept DEF rbacVars, CreateRole, DeleteRole, RbacInv
  <1>2. CASE EntryExpires \/ \E a \in RoleCalls : DropEntry(a)
    BY <1>2, DropKeepsRbacInv DEF EntryExpires, DropEntry
  <1>3. CASE \E p \in Permissions : CreatePermission(p)
    BY <1>3, EffectiveKept DEF CreatePermission, RbacInv
  <1>4. CASE \/ SeedRbac
             \/ \E r \in RoleNames : ClaimRole(r)
             \/ \E p \in Permissions : DeletePermission(p)
             \/ \E p \in Permissions, r \in RoleNames : GrantPermission(r, p) \/ RevokePermission(r, p)
    <2>1. outrun' = (outrun \/ Cached \/ InFlight) /\ UNCHANGED <<permCache, queried>>
      BY <1>4 DEF SeedRbac, ClaimRole, DeletePermission, GrantPermission, RevokePermission,
                   ChangeGrants
    <2>2. QED
      BY <2>1, ChangeKeepsRbacInv
  <1>5. ASSUME NEW a \in RoleCalls, NEW r \in RoleNames, AssignRole(a, r) \/ RevokeRole(a, r)
        PROVE  RbacInv'
    <2>1. /\ outrun' = (outrun \/ InFlight) /\ toDrop' = toDrop \union {a}
          /\ UNCHANGED <<permCache, queried>>
      BY <1>5 DEF AssignRole, RevokeRole
    <2>2. QED
      BY <2>1, ChangeKeepsRbacInv
  <1>6. CASE \E a \in RoleCalls : DropIsLost(a)
    BY <1>6 DEF DropIsLost, RbacInv
  <1>7. ASSUME NEW k \in Checks, QueryPermissions(k) PROVE RbacInv'
    <2>1. /\ queried' = [queried EXCEPT ![k] = Effective]
          /\ UNCHANGED <<held, grants, permCache, toDrop, outrun>>
      BY <1>7 DEF QueryPermissions
    <2>2. QED
      BY <2>1, EffectiveKept DEF RbacInv
  <1>8. ASSUME NEW k \in Checks, CachePermissions(k) PROVE RbacInv'
    <2>1. /\ queried' = [queried EXCEPT ![k] = NoEntry]
          /\ permCache' \in {queried[k], permCache}
          /\ UNCHANGED <<held, grants, toDrop, outrun>>
      BY <1>8 DEF CachePermissions
    <2>2. QED
      BY <2>1, EffectiveKept DEF RbacInv
  <1>9. QED
    BY <1>1, <1>2, <1>3, <1>4, <1>5, <1>6, <1>7, <1>8 DEF RbacNext

\* The cached permissions are the database's, for any roles, permissions, checks and
\* administrators, unless one of the property's exceptions has happened.
THEOREM CacheIsHonest == RbacSpec => []CacheHonest
  <1>1. RbacInit => RbacInv
    BY DEF RbacInit, RbacInv
  <1>2. RbacInv => CacheHonest
    BY DEF RbacInv, CacheHonest, Cached
  <1>3. QED
    BY <1>1, <1>2, StepKeepsRbacInv, PTL DEF RbacSpec

-----------------------------------------------------------------------------
(* Hub *)

\* What is known of an earlier credential stays so; Never is no time.
LEMMA NotAfterTransitive ==
  ASSUME NEW t \in Nat \union {Never}, NEW u \in Nat \union {Never}, NEW v \in Nat \union {Never},
         NotAfter(t, u), NotAfter(u, v)
  PROVE  NotAfter(t, v)
  BY HubAssumption DEF NotAfter

\* A later credential is within every window an earlier one is in.
LEMMA WithinMonotone ==
  ASSUME NEW t \in Nat \union {Never}, NEW u \in Nat \union {Never}, NEW now \in Int,
         NotAfter(t, u), Within(t, now)
  PROVE  Within(u, now)
  BY HubAssumption DEF NotAfter, Within

\* A later credential leaves what the requests know true.
LEMMA ReadingStands ==
  ASSUME NEW r, ReadingSound(r), proved \in Nat \union {Never}, proved' \in Nat \union {Never},
         NotAfter(proved, proved')
  PROVE  ReadingSound(r)'
  <1>1. r.pc \in {"loaded", "gated"} => NotAfter(r.row, proved')
    BY NotAfterTransitive DEF ReadingSound
  <1>2. r.pc = "gated" /\ Within(proved, r.gate) => Within(proved', r.gate)
    BY WithinMonotone DEF ReadingSound
  <1>3. r.pc = "done" => (EveryBlockAccountedFor(r) /\ SensitiveWhenProved(r))'
    BY DEF ReadingSound, EveryBlockAccountedFor, SensitiveWhenProved, Within
  <1>4. QED
    BY <1>1, <1>2, <1>3 DEF ReadingSound, Within

\* A request that moves on to a sound record, the clock and the credentials standing.
LEMMA ReaderKeepsHubInv ==
  ASSUME HubInv, NEW c \in HubReaders, NEW r, ReadingSound(r),
         reading' = [reading EXCEPT ![c] = r],
         UNCHANGED <<minute, stamp, lastStepUp, proving, proved, NameVars>>
  PROVE  HubInv'
  <1>1. /\ DOMAIN reading' = HubReaders /\ reading'[c] = r
        /\ \A d \in HubReaders \ {c} : reading'[d] = reading[d]
    BY DEF HubInv, StampTypes
  <1>2. UNCHANGED <<fullName, patching, asked, unclear>>
    BY DEF NameVars
  <1>3. StampTypes' /\ StampsOrdered'
    BY <1>1 DEF HubInv, StampTypes, StampsOrdered, NotAfter
  <1>4. ASSUME NEW d \in HubReaders PROVE ReadingSound(reading[d])'
    <2>1. ReadingSound(reading'[d])
      BY <1>1 DEF HubInv
    <2>2. QED
      BY <2>1 DEF ReadingSound, EveryBlockAccountedFor, SensitiveWhenProved, Within, NotAfter
  <1>5. NameTypes' /\ (~ unclear' => NameJoined')
    BY <1>2 DEF HubInv, NameTypes, NameJoined
  <1>6. QED
    BY <1>3, <1>4, <1>5 DEF HubInv

\* Time passes and credentials are shown: what was known of earlier ones stands.
LEMMA StampsKeepHubInv ==
  ASSUME HubInv, UNCHANGED <<reading, NameVars>>, StampTypes', StampsOrdered',
         NotAfter(proved, proved')
  PROVE  HubInv'
  <1>1. UNCHANGED <<fullName, patching, asked, unclear>>
    BY DEF NameVars
  <1>2. ASSUME NEW d \in HubReaders PROVE ReadingSound(reading[d])'
    <2>1. proved \in Nat \union {Never} /\ proved' \in Nat \union {Never} /\ ReadingSound(reading[d])
      BY DEF HubInv, StampTypes
    <2>2. QED
      BY <2>1, ReadingStands
  <1>3. NameTypes' /\ (~ unclear' => NameJoined')
    BY <1>1 DEF HubInv, NameTypes, NameJoined
  <1>4. QED
    BY <1>2, <1>3 DEF HubInv

\* The clock.
LEMMA MinuteKeepsHubInv == ASSUME HubInv, Minute PROVE HubInv'
  <1>1. /\ minute' = minute + 1
        /\ UNCHANGED <<stamp, lastStepUp, proving, proved, reading, NameVars>>
    BY DEF Minute
  <1>2. StampTypes' /\ StampsOrdered' /\ NotAfter(proved, proved')
    BY <1>1, HubAssumption DEF HubInv, StampTypes, StampsOrdered, NotAfter
  <1>3. QED
    BY <1>1, <1>2, StampsKeepHubInv

\* A credential is shown: it is the latest, in Redis or not.
LEMMA AuthenticateKeepsHubInv ==
  ASSUME HubInv, NEW a \in SignIns, Authenticate(a) PROVE HubInv'
  <1>1. /\ proving' = [proving EXCEPT ![a] = minute] /\ proved' = minute
        /\ stamp' \in {minute, stamp} /\ UNCHANGED <<minute, lastStepUp, reading, NameVars>>
    BY DEF Authenticate
  <1>2. /\ minute \in Nat /\ minute # Never /\ {stamp, lastStepUp, proved} \subseteq Nat \union {Never}
        /\ proving \in [SignIns -> Nat \union {Never}]
    BY HubAssumption DEF HubInv, StampTypes
  <1>3. StampTypes'
    BY <1>1, <1>2 DEF HubInv, StampTypes
  <1>4. \A t \in Nat \union {Never} : NotAfter(t, proved) => NotAfter(t, proved')
    BY <1>1, <1>2 DEF HubInv, StampsOrdered, NotAfter
  <1>5. NotAfter(proved, proved') /\ NotAfter(minute, proved')
    BY <1>1, <1>2 DEF HubInv, StampsOrdered, NotAfter
  <1>6. \A b \in SignIns : proving'[b] = IF b = a THEN minute ELSE proving[b]
    BY <1>1, <1>2
  <1>7. StampsOrdered'
    <2>1. NotAfter(proved, minute)'
      BY <1>1, <1>2 DEF NotAfter
    <2>2. NotAfter(stamp, proved)' /\ NotAfter(lastStepUp, proved)'
      BY <1>1, <1>2, <1>4, <1>5 DEF HubInv, StampsOrdered
    <2>3. \A b \in SignIns : NotAfter(proving[b], proved)'
      BY <1>2, <1>4, <1>5, <1>6 DEF HubInv, StampsOrdered
    <2>4. QED
      BY <2>1, <2>2, <2>3 DEF StampsOrdered
  <1>8. QED
    BY <1>1, <1>3, <1>5, <1>7, StampsKeepHubInv

\* A login ends, with the row written or not.
LEMMA EndAuthenticationKeepsHubInv ==
  ASSUME HubInv, NEW a \in SignIns, EndAuthentication(a) PROVE HubInv'
  <1>1. /\ lastStepUp' \in {proving[a], lastStepUp} /\ proving' = [proving EXCEPT ![a] = Never]
        /\ UNCHANGED <<minute, stamp, proved, reading, NameVars>>
    BY DEF EndAuthentication
  <1>2. proving \in [SignIns -> Nat \union {Never}]
    BY DEF HubInv, StampTypes
  <1>3. \A b \in SignIns : proving'[b] = IF b = a THEN Never ELSE proving[b]
    BY <1>1, <1>2
  <1>4. StampTypes'
    BY <1>1, <1>2 DEF HubInv, StampTypes
  <1>5. StampsOrdered'
    BY <1>1, <1>3 DEF HubInv, StampsOrdered, NotAfter
  <1>6. NotAfter(proved, proved')
    BY <1>1 DEF HubInv, StampTypes, NotAfter
  <1>7. QED
    BY <1>1, <1>4, <1>5, <1>6, StampsKeepHubInv

\* A request loads the row, which knows of no later credential than was shown.
LEMMA LoadKeepsHubInv ==
  ASSUME HubInv, NEW c \in HubReaders, NEW u, NEW include, NEW skip, LoadMe(c, u, include, skip)
  PROVE  HubInv'
  <1> DEFINE r == [pc |-> "loaded", user |-> u, effective |-> Parse(include, u.roles),
                   skip |-> skip, row |-> lastStepUp]
  <1>1. /\ reading' = [reading EXCEPT ![c] = r]
        /\ UNCHANGED <<minute, stamp, lastStepUp, proving, proved, NameVars>>
    BY DEF LoadMe
  <1>2. r.pc = "loaded" /\ r.row = lastStepUp
    OBVIOUS
  <1> HIDE DEF r
  <1>3. ReadingSound(r)
    BY <1>2 DEF HubInv, StampTypes, StampsOrdered, ReadingSound
  <1>4. QED
    BY <1>1, <1>3, ReaderKeepsHubInv

\* What Redis or the loaded row says is recent, a credential shown is within the window.
LEMMA RecentWasProved ==
  ASSUME HubInv, NEW cached \in CachedStamps, NEW row \in Nat \union {Never}, NotAfter(row, proved)
  PROVE  /\ IsStepUpRecent(cached, row) => Within(proved, minute)
         /\ ~ IsStepUpRecent(cached, row) => ~ Within(row, minute)
  <1>1. /\ minute \in Int /\ stamp \in Nat \union {Never} /\ proved \in Nat \union {Never}
        /\ NotAfter(stamp, proved)
    BY DEF HubInv, StampTypes, StampsOrdered
  <1>2. Recent(row) <=> Within(row, minute)
    BY DEF Recent, Within
  <1>3. Recent(row) => Within(proved, minute)
    BY <1>1, <1>2, WithinMonotone
  <1>4. Recent(stamp) => Within(proved, minute)
    BY <1>1, WithinMonotone DEF Recent, Within
  <1>5. ~ Recent(Never)
    BY DEF Recent
  <1>6. QED
    BY <1>2, <1>3, <1>4, <1>5 DEF CachedStamps, IsStepUpRecent

\* The first look: sensitive blocks need a credential unless the request has a skip.
LEMMA GateKeepsHubInv ==
  ASSUME HubInv, NEW c \in HubReaders, GateMe(c) PROVE HubInv'
  <1> DEFINE r == reading[c]
             guarded == r.effective \intersect SensitiveTokens # {} /\ ~ r.skip
             g == [pc |-> "gated", user |-> r.user, effective |-> r.effective,
                   skip |-> r.skip, row |-> r.row, gate |-> minute]
  <1>1. /\ r.pc = "loaded" /\ UNCHANGED <<minute, stamp, lastStepUp, proving, proved, NameVars>>
        /\ \E cached \in CachedStamps :
             reading' = [reading EXCEPT ![c] =
               IF guarded /\ ~ IsStepUpRecent(cached, r.row) THEN Waiting ELSE g]
    BY DEF GateMe
  <1>2. PICK cached \in CachedStamps :
          reading' = [reading EXCEPT ![c] =
            IF guarded /\ ~ IsStepUpRecent(cached, r.row) THEN Waiting ELSE g]
    BY <1>1
  <1>3. r.row \in Nat \union {Never} /\ NotAfter(r.row, proved)
    BY <1>1 DEF HubInv, ReadingSound
  <1>4. /\ g.pc = "gated" /\ g.effective = r.effective /\ g.skip = r.skip /\ g.row = r.row
        /\ g.gate = minute
    OBVIOUS
  <1>5. guarded \/ r.effective \intersect SensitiveTokens = {} \/ r.skip
    OBVIOUS
  <1> HIDE DEF g, guarded
  <1>6. CASE guarded /\ ~ IsStepUpRecent(cached, r.row)
    <2>1. Waiting.pc = "idle" /\ reading' = [reading EXCEPT ![c] = Waiting]
      BY <1>2, <1>6 DEF Waiting
    <2>2. ReadingSound(Waiting)
      BY <2>1 DEF ReadingSound
    <2>3. QED
      BY <1>1, <2>1, <2>2, ReaderKeepsHubInv
  <1>7. CASE ~ (guarded /\ ~ IsStepUpRecent(cached, r.row))
    <2>1. reading' = [reading EXCEPT ![c] = g]
      BY <1>2, <1>7
    <2>2. IsStepUpRecent(cached, r.row) => Within(proved, minute)
      BY <1>3, RecentWasProved
    <2>3. minute \in Nat
      BY DEF HubInv, StampTypes
    <2>4. ReadingSound(g)
      BY <1>3, <1>4, <1>5, <1>7, <2>2, <2>3 DEF ReadingSound
    <2>5. QED
      BY <1>1, <2>1, <2>4, ReaderKeepsHubInv
  <1>8. QED
    BY <1>6, <1>7

\* The second look composes the answer from what it allows, and names the rest.
LEMMA BuildKeepsHubInv ==
  ASSUME HubInv, NEW c \in HubReaders, BuildHub(c) PROVE HubInv'
  <1> DEFINE r == reading[c]
  <1>1. /\ r.pc = "gated" /\ UNCHANGED <<minute, stamp, lastStepUp, proving, proved, NameVars>>
        /\ \E cached \in CachedStamps :
             reading' = [reading EXCEPT ![c] = Answer(r, IsStepUpRecent(cached, r.row))]
    BY DEF BuildHub
  <1>2. PICK cached \in CachedStamps :
          reading' = [reading EXCEPT ![c] = Answer(r, IsStepUpRecent(cached, r.row))]
    BY <1>1
  <1> DEFINE allowed == IsStepUpRecent(cached, r.row)
             sensitive == r.effective \intersect SensitiveTokens
             done == Composed(r, allowed)
  <1>3. /\ r.row \in Nat \union {Never} /\ NotAfter(r.row, proved) /\ r.gate \in Nat
        /\ sensitive = {} \/ r.skip \/ Within(proved, r.gate)
    BY <1>1 DEF HubInv, ReadingSound
  <1>4. /\ allowed => Within(proved, minute)
        /\ ~ allowed => ~ Within(r.row, minute)
    BY <1>3, RecentWasProved
  <1>5. /\ done.pc = "done" /\ done.effective = r.effective /\ done.skip = r.skip
        /\ done.row = r.row /\ done.gate = r.gate /\ done.at = minute /\ done.proved = proved
        /\ done.populated = IF allowed THEN r.effective ELSE r.effective \ sensitive
        /\ done.skipped = IF ~ allowed /\ r.skip THEN sensitive ELSE {}
    BY DEF Composed
  <1>6. reading' = [reading EXCEPT ![c] = done]
    BY <1>2 DEF Answer
  <1>7. (r.effective \ sensitive) \intersect SensitiveTokens = {}
        /\ r.effective = (r.effective \ sensitive) \union sensitive
    OBVIOUS
  <1> HIDE DEF done, allowed, sensitive
  <1>8. EveryBlockAccountedFor(done)
    <2>1. CASE allowed
      BY <1>5, <2>1 DEF EveryBlockAccountedFor
    <2>2. CASE ~ allowed /\ r.skip
      BY <1>5, <1>7, <2>2 DEF EveryBlockAccountedFor
    <2>3. CASE ~ allowed /\ ~ r.skip /\ sensitive = {}
      BY <1>5, <1>7, <2>3 DEF EveryBlockAccountedFor
    <2>4. CASE ~ allowed /\ ~ r.skip /\ Within(proved, r.gate)
      BY <1>4, <1>5, <2>4 DEF EveryBlockAccountedFor
    <2>5. QED
      BY <1>3, <2>1, <2>2, <2>3, <2>4
  <1>9. SensitiveWhenProved(done)
    BY <1>4, <1>5, <1>7 DEF SensitiveWhenProved
  <1>10. ReadingSound(done)
    BY <1>5, <1>8, <1>9 DEF ReadingSound
  <1>11. QED
    BY <1>1, <1>6, <1>10, ReaderKeepsHubInv


\* The halves of two halves joined are the two, if the first is one word.
LEMMA SplitOfJoined ==
  ASSUME NEW first \in Seq(Words), NEW last \in Seq(Words), Len(first) = 1
  PROVE  SplitFullName(first \o last) = [first |-> first, last |-> last]
  <1> DEFINE name == first \o last
             one == SubSeq(name, 1, 1)
             rest == SubSeq(name, 2, Len(name))
  <1>1. /\ name \in Seq(Words) /\ Len(name) = 1 + Len(last) /\ Len(last) \in Nat
        /\ \A i \in 1 .. 1 + Len(last) : name[i] = IF i <= 1 THEN first[i] ELSE last[i - 1]
    BY ConcatProperties, LenProperties
  <1> HIDE DEF name
  <1>2. \A i \in 1 .. Len(name) : name[i] \in Words
    BY <1>1, ElementOfSeq
  <1>3. one \in Seq(Words) /\ Len(one) = 1 /\ one[1] = name[1]
    <2>1. \A i \in 1 .. 1 : name[i] \in Words
      BY <1>1, <1>2
    <2>2. /\ one \in Seq(Words) /\ Len(one) = IF 1 <= 1 THEN 1 - 1 + 1 ELSE 0
          /\ \A i \in 1 .. 1 - 1 + 1 : one[i] = name[1 + i - 1]
      BY <2>1, SubSeqProperties
    <2>3. QED
      BY <2>2
  <1>4. /\ rest \in Seq(Words) /\ Len(rest) = Len(last)
        /\ \A i \in 1 .. Len(last) : rest[i] = name[i + 1]
    <2>1. \A i \in 2 .. Len(name) : name[i] \in Words
      BY <1>1, <1>2
    <2>2. /\ rest \in Seq(Words)
          /\ Len(rest) = IF 2 <= Len(name) THEN Len(name) - 2 + 1 ELSE 0
          /\ \A i \in 1 .. Len(name) - 2 + 1 : rest[i] = name[2 + i - 1]
      BY <1>1, <2>1, SubSeqProperties
    <2>3. QED
      BY <1>1, <2>2
  <1> HIDE DEF one, rest
  <1>5. one = first
    BY <1>1, <1>3, SeqEqual
  <1>6. rest = last
    <2>1. ASSUME NEW i \in 1 .. Len(last) PROVE rest[i] = last[i]
      <3>1. i + 1 \in 1 .. 1 + Len(last) /\ ~ (i + 1 <= 1) /\ (i + 1) - 1 = i
        BY <1>1
      <3>2. name[i + 1] = last[(i + 1) - 1]
        BY <1>1, <3>1
      <3>3. QED
        BY <1>4, <3>1, <3>2
    <2>2. QED
      BY <1>4, <2>1, SeqEqual
  <1>7. QED
    BY <1>5, <1>6 DEF SplitFullName, name, one, rest


\* The open PATCH moves on, or ends, and the column with what was asked for.
LEMMA PatchKeepsHubInv ==
  ASSUME HubInv, NEW c \in HubPatchers, NEW p \in {Waiting} \union PatchRow,
         patching' = [patching EXCEPT ![c] = p],
         UNCHANGED <<minute, stamp, lastStepUp, proving, proved, reading>>,
         fullName' \in Names, asked' \in [first : Seq(Words), last : Seq(Words)],
         ~ unclear' => /\ \A d \in HubPatchers \ {c} : patching[d] = Waiting
                       /\ Len(asked'.first) = 1 /\ fullName' = asked'.first \o asked'.last
                       /\ p.pc = "loaded"  => p.name = fullName'
                       /\ p.pc = "flushed" => p.name = Recomposed(fullName', p.first, p.last)
  PROVE  HubInv'
  <1>1. /\ patching \in [HubPatchers -> {Waiting} \union PatchRow]
        /\ patching'[c] = p /\ \A d \in HubPatchers \ {c} : patching'[d] = patching[d]
    BY DEF HubInv, NameTypes
  <1>2. NameTypes'
    BY <1>1 DEF NameTypes
  <1>3. StampTypes' /\ StampsOrdered'
    BY DEF HubInv, StampTypes, StampsOrdered, NotAfter
  <1>4. ASSUME NEW d \in HubReaders PROVE ReadingSound(reading[d])'
    <2>1. ReadingSound(reading'[d])
      BY DEF HubInv
    <2>2. QED
      BY <2>1 DEF ReadingSound, EveryBlockAccountedFor, SensitiveWhenProved, Within, NotAfter
  <1>5. ASSUME ~ unclear' PROVE NameJoined'
    <2>1. \A d \in HubPatchers : d # c => patching'[d] = Waiting
      BY <1>1, <1>5
    <2>2. Waiting.pc = "idle"
      BY DEF Waiting
    <2>3. ASSUME NEW d \in HubPatchers
          PROVE  /\ patching'[d].pc = "loaded"  => patching'[d].name = fullName'
                 /\ patching'[d].pc = "flushed" =>
                      patching'[d].name = Recomposed(fullName', patching'[d].first, patching'[d].last)
      BY <1>1, <1>5, <2>1, <2>2
    <2>4. QED
      BY <1>5, <2>1, <2>3 DEF NameJoined, Recomposed, SplitFullName, Sent
  <1>6. QED
    BY <1>2, <1>3, <1>4, <1>5 DEF HubInv

\* While all is clear, the PATCH that is open is the only one.
LEMMA OnePatch ==
  ASSUME HubInv, NEW c \in HubPatchers, patching[c] # Waiting
  PROVE  /\ patching[c] \in PatchRow
         /\ ~ unclear => /\ NameJoined
                         /\ \A d \in HubPatchers \ {c} : patching[d] = Waiting
  BY DEF HubInv, NameTypes, NameJoined

\* A PATCH loads the row.
LEMMA LoadPatchKeepsHubInv ==
  ASSUME HubInv, NEW c \in HubPatchers, NEW first \in FirstHalves \union {NotSent},
         NEW last \in LastHalves \union {NotSent}, LoadForPatch(c, first, last)
  PROVE  HubInv'
  <1> DEFINE p == [pc |-> "loaded", first |-> first, last |-> last, name |-> fullName]
  <1>1. /\ patching' = [patching EXCEPT ![c] = p]
        /\ unclear' = (unclear \/ \E d \in HubPatchers \ {c} : patching[d] # Waiting)
        /\ UNCHANGED <<minute, stamp, lastStepUp, proving, proved, reading, fullName, asked>>
    BY DEF LoadForPatch
  <1>2. /\ fullName \in Names /\ asked \in [first : Seq(Words), last : Seq(Words)]
        /\ p \in PatchRow /\ p.pc = "loaded" /\ p.name = fullName
    BY DEF HubInv, NameTypes, PatchRow
  <1> HIDE DEF p
  <1>3. ~ unclear' => /\ \A d \in HubPatchers \ {c} : patching[d] = Waiting
                      /\ Len(asked'.first) = 1 /\ fullName' = asked'.first \o asked'.last
    BY <1>1 DEF HubInv, NameJoined
  <1>4. ~ unclear' => /\ \A d \in HubPatchers \ {c} : patching[d] = Waiting
                      /\ Len(asked'.first) = 1 /\ fullName' = asked'.first \o asked'.last
                      /\ p.pc = "loaded"  => p.name = fullName'
                      /\ p.pc = "flushed" => p.name = Recomposed(fullName', p.first, p.last)
    BY <1>1, <1>2, <1>3
  <1>5. fullName' \in Names /\ asked' \in [first : Seq(Words), last : Seq(Words)]
    BY <1>1, <1>2
  <1>6. QED
    BY <1>1, <1>2, <1>4, <1>5, PatchKeepsHubInv

\* A half that is sent is words, at least one of them.
LEMMA SentIsWords ==
  ASSUME NEW half \in FirstHalves \union LastHalves \union {NotSent}, NEW otherwise \in Seq(Words)
  PROVE  /\ Sent(half, otherwise) \in Seq(Words)
         /\ otherwise # <<>> => Sent(half, otherwise) \in Names
  BY HubAssumption DEF Sent, Names

\* A name recomposed from a name is a name.
LEMMA RecomposedIsName ==
  ASSUME NEW loaded \in Names, NEW first \in FirstHalves \union {NotSent},
         NEW last \in LastHalves \union {NotSent}
  PROVE  Recomposed(loaded, first, last) \in Names
  <1> DEFINE one == SubSeq(loaded, 1, 1)
             rest == SubSeq(loaded, 2, Len(loaded))
  <1>1. /\ loaded \in Seq(Words) /\ Len(loaded) \in Nat /\ Len(loaded) >= 1
        /\ \A i \in 1 .. Len(loaded) : loaded[i] \in Words
    BY ElementOfSeq, LenProperties, EmptySeq DEF Names
  <1>2. rest \in Seq(Words)
    <2>1. \A i \in 2 .. Len(loaded) : loaded[i] \in Words
      BY <1>1
    <2>2. QED
      BY <1>1, <2>1, SubSeqProperties
  <1>3. one \in Seq(Words) /\ one # <<>>
    <2>1. \A i \in 1 .. 1 : loaded[i] \in Words
      BY <1>1
    <2>2. one \in Seq(Words) /\ Len(one) = IF 1 <= 1 THEN 1 - 1 + 1 ELSE 0
      BY <2>1, SubSeqProperties
    <2> HIDE DEF one
    <2>3. QED
      BY <2>2, EmptySeq
  <1> DEFINE a == Sent(first, one)
             b == Sent(last, rest)
  <1> HIDE DEF one, rest
  <1>4. a \in Names /\ b \in Seq(Words)
    BY <1>2, <1>3, SentIsWords
  <1> HIDE DEF a, b
  <1>5. a \o b \in Names
    <2>1. a \in Seq(Words) /\ a # <<>> /\ b \in Seq(Words)
      BY <1>4 DEF Names
    <2>2. /\ a \o b \in Seq(Words) /\ Len(a \o b) = Len(a) + Len(b)
          /\ Len(a) \in Nat /\ Len(a) # 0 /\ Len(b) \in Nat
      BY <2>1, ConcatProperties, LenProperties, EmptySeq
    <2>3. a \o b # <<>>
      BY <2>2
    <2>4. QED
      BY <2>2, <2>3 DEF Names
  <1>6. QED
    BY <1>5 DEF Recomposed, SplitFullName, a, b, one, rest

\* The flush recomposes the name from the one that was loaded.
LEMMA FlushKeepsHubInv ==
  ASSUME HubInv, NEW c \in HubPatchers, FlushPatch(c) PROVE HubInv'
  <1> DEFINE q == patching[c]
             p == [q EXCEPT !.pc = "flushed", !.name = Recomposed(q.name, q.first, q.last)]
  <1>1. /\ q.pc = "loaded" /\ patching' = [patching EXCEPT ![c] = p]
        /\ UNCHANGED <<minute, stamp, lastStepUp, proving, proved, reading, fullName, asked, unclear>>
    BY DEF FlushPatch
  <1>2. q # Waiting
    BY <1>1 DEF Waiting
  <1>3. q \in PatchRow
    BY <1>2, OnePatch
  <1>4. Recomposed(q.name, q.first, q.last) \in Names
    BY <1>3, RecomposedIsName DEF PatchRow
  <1>5. /\ p \in PatchRow /\ p.pc = "flushed" /\ p.first = q.first /\ p.last = q.last
        /\ p.name = Recomposed(q.name, q.first, q.last)
    BY <1>3, <1>4 DEF PatchRow
  <1>6. ~ unclear' => /\ \A d \in HubPatchers \ {c} : patching[d] = Waiting
                      /\ Len(asked.first) = 1 /\ fullName = asked.first \o asked.last
                      /\ q.name = fullName
    BY <1>1, <1>2, OnePatch DEF NameJoined
  <1> HIDE DEF p, q
  <1>7. ~ unclear' => /\ \A d \in HubPatchers \ {c} : patching[d] = Waiting
                      /\ Len(asked'.first) = 1 /\ fullName' = asked'.first \o asked'.last
                      /\ p.pc = "loaded"  => p.name = fullName'
                      /\ p.pc = "flushed" => p.name = Recomposed(fullName', p.first, p.last)
    BY <1>1, <1>5, <1>6
  <1>8. fullName' \in Names /\ asked' \in [first : Seq(Words), last : Seq(Words)]
    BY <1>1 DEF HubInv, NameTypes
  <1>9. QED
    BY <1>1, <1>5, <1>7, <1>8, PatchKeepsHubInv

\* The commit writes the name that was recomposed; what was asked for is its halves.
LEMMA CommitKeepsHubInv ==
  ASSUME HubInv, NEW c \in HubPatchers, CommitPatch(c) PROVE HubInv'
  <1> DEFINE q == patching[c]
             first == Sent(q.first, asked.first)
             last == Sent(q.last, asked.last)
  <1>1. /\ q.pc = "flushed" /\ patching' = [patching EXCEPT ![c] = Waiting]
        /\ fullName' = IF q.first = NotSent /\ q.last = NotSent THEN fullName ELSE q.name
        /\ asked' = [first |-> first, last |-> last]
        /\ unclear' = (unclear \/ Len(asked'.first) # 1)
        /\ UNCHANGED <<minute, stamp, lastStepUp, proving, proved, reading>>
    BY DEF CommitPatch
  <1>2. q # Waiting /\ Waiting.pc = "idle"
    BY <1>1 DEF Waiting
  <1>3. /\ q \in PatchRow /\ asked.first \in Seq(Words) /\ asked.last \in Seq(Words)
        /\ fullName \in Names
    BY <1>2, OnePatch DEF HubInv, NameTypes
  <1>4. first \in Seq(Words) /\ last \in Seq(Words)
    BY <1>3, SentIsWords DEF PatchRow
  <1>5. asked' \in [first : Seq(Words), last : Seq(Words)] /\ asked'.first = first /\ asked'.last = last
    BY <1>1, <1>4
  <1>6. fullName' \in Names
    BY <1>1, <1>3 DEF PatchRow
  <1>7. ASSUME ~ unclear' PROVE fullName' = first \o last
    <2>1. /\ ~ unclear /\ Len(asked.first) = 1 /\ fullName = asked.first \o asked.last
          /\ q.name = Recomposed(fullName, q.first, q.last)
      BY <1>1, <1>2, <1>7, OnePatch DEF NameJoined
    <2>2. SplitFullName(fullName) = [first |-> asked.first, last |-> asked.last]
      BY <1>3, <2>1, SplitOfJoined
    <2>3. q.name = first \o last
      BY <2>1, <2>2 DEF Recomposed
    <2>4. CASE q.first = NotSent /\ q.last = NotSent
      BY <1>1, <2>1, <2>4 DEF Sent
    <2>5. QED
      BY <1>1, <2>3, <2>4
  <1>8. ~ unclear' => /\ \A d \in HubPatchers \ {c} : patching[d] = Waiting
                      /\ Len(asked'.first) = 1
    BY <1>1, <1>2, OnePatch
  <1> HIDE DEF q, first, last
  <1>9. ~ unclear' => /\ \A d \in HubPatchers \ {c} : patching[d] = Waiting
                      /\ Len(asked'.first) = 1 /\ fullName' = asked'.first \o asked'.last
                      /\ Waiting.pc = "loaded"  => Waiting.name = fullName'
                      /\ Waiting.pc = "flushed" =>
                           Waiting.name = Recomposed(fullName', Waiting.first, Waiting.last)
    BY <1>2, <1>5, <1>7, <1>8
  <1>10. QED
    BY <1>1, <1>5, <1>6, <1>9, PatchKeepsHubInv

\* A PATCH fails and writes nothing.
LEMMA AbortPatchKeepsHubInv ==
  ASSUME HubInv, NEW c \in HubPatchers, AbortPatch(c) PROVE HubInv'
  <1>1. /\ patching[c] # Waiting /\ patching' = [patching EXCEPT ![c] = Waiting]
        /\ UNCHANGED <<minute, stamp, lastStepUp, proving, proved, reading, fullName, asked, unclear>>
        /\ Waiting.pc = "idle"
    BY DEF AbortPatch, Waiting
  <1>2. fullName' \in Names /\ asked' \in [first : Seq(Words), last : Seq(Words)]
    BY <1>1 DEF HubInv, NameTypes
  <1>3. ~ unclear' => /\ \A d \in HubPatchers \ {c} : patching[d] = Waiting
                      /\ Len(asked'.first) = 1 /\ fullName' = asked'.first \o asked'.last
                      /\ Waiting.pc = "loaded"  => Waiting.name = fullName'
                      /\ Waiting.pc = "flushed" =>
                           Waiting.name = Recomposed(fullName', Waiting.first, Waiting.last)
    BY <1>1, OnePatch DEF NameJoined
  <1>4. QED
    BY <1>1, <1>2, <1>3, PatchKeepsHubInv

\* Any step of a login, a GET or a PATCH.
LEMMA HubInductive == HubInv /\ [HubNext \/ NameNext]_hubVars => HubInv'
  <1>1. ASSUME HubInv, UNCHANGED hubVars PROVE HubInv'
    <2>1. UNCHANGED <<minute, stamp, lastStepUp, proving, proved, reading, NameVars>>
      BY <1>1 DEF hubVars, NameVars
    <2>2. StampTypes' /\ StampsOrdered' /\ NotAfter(proved, proved')
      BY <1>1, <2>1 DEF HubInv, StampTypes, StampsOrdered, NotAfter
    <2>3. QED
      BY <1>1, <2>1, <2>2, StampsKeepHubInv
  <1>2. ASSUME HubInv, HubNext PROVE HubInv'
    BY <1>2, MinuteKeepsHubInv, AuthenticateKeepsHubInv, EndAuthenticationKeepsHubInv,
       LoadKeepsHubInv, GateKeepsHubInv, BuildKeepsHubInv DEF HubNext
  <1>3. ASSUME HubInv, NameNext PROVE HubInv'
    BY <1>3, LoadPatchKeepsHubInv, FlushKeepsHubInv, CommitKeepsHubInv, AbortPatchKeepsHubInv
       DEF NameNext
  <1>4. QED
    BY <1>1, <1>2, <1>3

\* HubHonest: an answer accounts for every block, sensitive ones follow a recent
\* credential, and a PATCH changes the halves of the name it carries, whatever the
\* tokens, the names and the length of the window.
THEOREM HubIsHonest == HubSpec => []HubHonest
  <1>1. HubInit => HubInv
    <2> SUFFICES ASSUME HubInit PROVE HubInv
      OBVIOUS
    <2>1. StampTypes /\ StampsOrdered
      BY DEF HubInit, StampTypes, StampsOrdered, NotAfter
    <2>2. \A c \in HubReaders : ReadingSound(reading[c])
      BY DEF HubInit, ReadingSound, Waiting
    <2>3. /\ <<"first", "last">> \in Names /\ <<"first">> \in Seq(Words) /\ <<"last">> \in Seq(Words)
          /\ Len(<<"first">>) = 1 /\ <<"first", "last">> = <<"first">> \o <<"last">>
      <3>1. "first" \in Words /\ "last" \in Words
        BY DEF Words
      <3> HIDE DEF Words
      <3>2. QED
        BY <3>1 DEF Names
    <2>4. NameTypes
      BY <2>3 DEF HubInit, NameTypes
    <2>5. NameJoined
      <3>1. \A c \in HubPatchers : patching[c] = Waiting /\ patching[c].pc = "idle"
        BY DEF HubInit, Waiting
      <3>2. Len(asked.first) = 1 /\ fullName = asked.first \o asked.last
        BY <2>3 DEF HubInit
      <3>3. QED
        BY <3>1, <3>2 DEF NameJoined
    <2>6. QED
      BY <2>1, <2>2, <2>4, <2>5 DEF HubInv
  <1>2. HubInv => HubHonest
    <2> SUFFICES ASSUME HubInv PROVE HubHonest
      OBVIOUS
    <2>1. \A c \in HubReaders : reading[c].pc = "done" =>
            EveryBlockAccountedFor(reading[c]) /\ SensitiveWhenProved(reading[c])
      BY DEF HubInv, ReadingSound
    <2>2. ASSUME ~ unclear PROVE SplitFullName(fullName) = asked
      <3>1. asked.first \in Seq(Words) /\ asked.last \in Seq(Words)
            /\ asked = [first |-> asked.first, last |-> asked.last]
        BY DEF HubInv, NameTypes
      <3>2. Len(asked.first) = 1 /\ fullName = asked.first \o asked.last
        BY <2>2 DEF HubInv, NameJoined
      <3>3. QED
        BY <3>1, <3>2, SplitOfJoined
    <2>3. QED
      BY <2>1, <2>2 DEF HubHonest
  <1>3. QED
    BY <1>1, <1>2, HubInductive, PTL DEF HubSpec

-----------------------------------------------------------------------------
(* Idempotency *)

Requests == [at : {"handler", "done"}, of : Operations]

\* A request is either idle or has an operation; the cache keys tell operations apart.
LEMMA KeyFacts ==
  /\ NoCall.at = "idle" /\ NoCall \notin Requests
  /\ \A q, r \in Operations : CacheKey(q) = CacheKey(r) => q = r
  /\ \A r \in Requests : r.at \in {"handler", "done"} /\ r.of \in Operations
  BY DEF NoCall, Requests, CacheKey, Operations

\* A replay hands out the stored response, which is the operation's own.
LEMMA ReplayKeepsKeyInv ==
  ASSUME KeyInv, NEW q \in Operations, responses[CacheKey(q)] # NoResponse,
         replayed' = replayed \union {<<q, responses[CacheKey(q)]>>},
         UNCHANGED <<responses, keyed, executed, unprotected>>
  PROVE  KeyInv'
  <1>1. responses[CacheKey(q)] = q
    BY DEF KeyInv, RunsOnce
  <1>2. \A r \in replayed' : r[1] = r[2]
    BY <1>1 DEF KeyInv, RunsOnce
  <1>3. QED
    BY <1>2 DEF KeyInv, RunsOnce

\* A miss starts a handler: if it is the only request for its operation, and Redis
\* has answered that nothing is stored, the operation has not taken effect.
LEMMA MissKeepsKeyInv ==
  ASSUME KeyInv, NEW c \in KeyedCalls, NEW q \in Operations, NEW answers \in BOOLEAN,
         Resolve(c, q, answers), ~ (answers /\ responses[CacheKey(q)] # NoResponse)
  PROVE  KeyInv'
  <1> DEFINE t == [at |-> "handler", of |-> q]
  <1>1. /\ keyed[c] = NoCall /\ keyed' = [keyed EXCEPT ![c] = t]
        /\ unprotected \subseteq unprotected'
        /\ RunningFor(q) \/ ~ answers => q \in unprotected'
        /\ UNCHANGED <<responses, executed, replayed>>
    BY DEF Resolve
  <1>2. t \in Requests /\ t.at = "handler" /\ t.of = q
    BY DEF Requests
  <1> HIDE DEF t
  <1>3. /\ keyed' \in [KeyedCalls -> {NoCall} \union Requests]
        /\ keyed'[c] = t /\ \A d \in KeyedCalls \ {c} : keyed'[d] = keyed[d]
    BY <1>1, <1>2 DEF KeyInv, RunsOnce, Requests
  <1>4. ASSUME q \notin unprotected'
        PROVE  /\ executed[q] = 0 /\ responses[CacheKey(q)] = NoResponse
               /\ \A d \in KeyedCalls : keyed[d].at # "idle" => keyed[d].of # q
    <2>1. /\ responses[CacheKey(q)] = NoResponse
          /\ \A d \in KeyedCalls : keyed[d].at # "idle" => keyed[d].of # q
      BY <1>1, <1>4 DEF RunningFor
    <2>2. executed[q] # 1
      BY <1>1, <1>4, <2>1, NoResponseAssumption DEF KeyInv, RunsOnce
    <2>3. QED
      BY <1>1, <1>4, <2>1, <2>2 DEF KeyInv, RunsOnce
  <1>5. ASSUME NEW r \in Operations \ unprotected'
        PROVE  RunsOnce(r)'
    <2>1. r \in Operations \ unprotected
      BY <1>1
    <2>2. CASE r = q
      BY <1>1, <1>2, <1>3, <1>4, <2>2 DEF RunsOnce
    <2>3. CASE r # q
      BY <1>1, <1>2, <1>3, <2>1, <2>3, KeyFacts DEF KeyInv, RunsOnce
    <2>4. QED
      BY <2>2, <2>3
  <1>6. QED
    BY <1>1, <1>3, <1>5 DEF KeyInv, RunsOnce, Requests

\* A handler commits: for an operation nothing has happened to, the first time.
LEMMA ExecuteKeepsKeyInv ==
  ASSUME KeyInv, NEW c \in KeyedCalls, Execute(c) PROVE KeyInv'
  <1> DEFINE q == keyed[c].of
  <1>1. keyed[c] \in Requests /\ keyed[c].at = "handler" /\ q \in Operations
    BY KeyFacts DEF Execute, KeyInv, Requests
  <1>2. /\ keyed' \in [KeyedCalls -> {NoCall} \union Requests]
        /\ keyed'[c].at = "done" /\ keyed'[c].of = q
        /\ \A d \in KeyedCalls \ {c} : keyed'[d] = keyed[d]
    BY <1>1 DEF Execute, KeyInv, Requests
  <1>3. /\ executed' \in [Operations -> Nat] /\ executed'[q] = executed[q] + 1
        /\ \A r \in Operations \ {q} : executed'[r] = executed[r]
        /\ UNCHANGED <<responses, replayed, unprotected>>
    BY <1>1 DEF Execute, KeyInv
  <1> HIDE DEF q
  <1>4. q \notin unprotected =>
          /\ executed[q] = 0
          /\ \A d \in KeyedCalls \ {c} : keyed[d].at # "idle" => keyed[d].of # q
    BY <1>1, KeyFacts DEF KeyInv, RunsOnce, q
  <1>5. ASSUME NEW r \in Operations \ unprotected
        PROVE  RunsOnce(r)'
    <2>1. CASE r = q
      BY <1>2, <1>3, <1>4, <2>1 DEF RunsOnce
    <2>2. CASE r # q
      <3>1. ASSUME NEW d \in KeyedCalls, keyed[d].at # "idle", keyed[d].of = r PROVE d # c
        BY <2>2, <3>1 DEF q
      <3>2. \A d \in KeyedCalls : keyed'[d].of = r => d # c /\ keyed'[d] = keyed[d]
        BY <1>2, <2>2
      <3>3. executed'[r] = executed[r] /\ UNCHANGED <<responses, unprotected>>
        BY <1>3, <2>2
      <3>4. executed[r] = 1 => \/ responses[CacheKey(r)] = r
                               \/ \E d \in KeyedCalls \ {c} : keyed[d].at = "done" /\ keyed[d].of = r
        BY <3>1 DEF KeyInv, RunsOnce
      <3>5. executed'[r] = 1 =>
              \/ responses'[CacheKey(r)] = r
              \/ \E d \in KeyedCalls : keyed'[d].at = "done" /\ keyed'[d].of = r
        BY <1>2, <3>3, <3>4
      <3>6. QED
        BY <3>2, <3>3, <3>5 DEF KeyInv, RunsOnce
    <2>3. QED
      BY <2>1, <2>2
  <1>6. QED
    BY <1>2, <1>3, <1>5 DEF KeyInv, RunsOnce, Requests

\* The end of a request whose handler failed, or whose response is lost: what it
\* leaves without a response it also leaves unprotected.
LEMMA EndKeepsKeyInv ==
  ASSUME KeyInv, NEW c \in KeyedCalls, Reject(c) \/ StoreFails(c) PROVE KeyInv'
  <1>1. /\ keyed' = [keyed EXCEPT ![c] = NoCall]
        /\ unprotected \subseteq unprotected'
        /\ UNCHANGED <<responses, executed, replayed>>
        /\ keyed[c].at = "done" => keyed[c].of \in unprotected'
    BY DEF Reject, StoreFails
  <1>2. /\ keyed' \in [KeyedCalls -> {NoCall} \union Requests]
        /\ keyed'[c] = NoCall
        /\ \A d \in KeyedCalls \ {c} : keyed'[d] = keyed[d]
    BY <1>1 DEF KeyInv, RunsOnce, Requests
  <1>3. ASSUME NEW r \in Operations \ unprotected'
        PROVE  RunsOnce(r)'
    <2>1. r \in Operations \ unprotected
      BY <1>1
    <2>2. \A d \in KeyedCalls : keyed'[d].at # "idle" => d # c /\ keyed'[d] = keyed[d]
      BY <1>2, KeyFacts
    <2>3. \A d \in KeyedCalls : keyed[d].at = "done" /\ keyed[d].of = r => keyed'[d] = keyed[d]
      BY <1>1, <1>2
    <2>4. executed[r] = 1 =>
            \/ responses[CacheKey(r)] = r
            \/ \E d \in KeyedCalls : keyed'[d].at = "done" /\ keyed'[d].of = r
      BY <2>1, <2>3 DEF KeyInv, RunsOnce
    <2>5. QED
      BY <1>1, <2>1, <2>2, <2>4 DEF KeyInv, RunsOnce
  <1>4. QED
    BY <1>1, <1>2, <1>3 DEF KeyInv, RunsOnce, Requests

\* The response is stored under the key of its own operation.
LEMMA StoreKeepsKeyInv ==
  ASSUME KeyInv, NEW c \in KeyedCalls, StoreResponse(c) PROVE KeyInv'
  <1> DEFINE q == keyed[c].of
  <1>1. keyed[c] \in Requests /\ keyed[c].at = "done" /\ q \in Operations
    BY KeyFacts DEF StoreResponse, KeyInv, Requests
  <1>2. /\ keyed' \in [KeyedCalls -> {NoCall} \union Requests]
        /\ keyed'[c] = NoCall
        /\ \A d \in KeyedCalls \ {c} : keyed'[d] = keyed[d]
        /\ UNCHANGED <<executed, replayed, unprotected>>
    BY <1>1 DEF StoreResponse, KeyInv, Requests
  <1>3. /\ DOMAIN responses' = DOMAIN responses
        /\ responses'[CacheKey(q)] = q
        /\ \A r \in Operations \ {q} : responses'[CacheKey(r)] = responses[CacheKey(r)]
    BY <1>1, KeyFacts DEF StoreResponse, KeyInv
  <1> HIDE DEF q
  <1>4. \A r \in Operations : responses'[CacheKey(r)] \in {NoResponse, r}
    BY <1>3 DEF KeyInv, RunsOnce
  <1>5. ASSUME NEW r \in Operations \ unprotected
        PROVE  RunsOnce(r)'
    <2>1. \A d \in KeyedCalls : keyed'[d].at # "idle" => d # c /\ keyed'[d] = keyed[d]
      BY <1>2, KeyFacts
    <2>2. CASE r = q
      <3>1. \A d \in KeyedCalls \ {c} : keyed[d].at # "idle" => keyed[d].of # q
        BY <1>1, <1>5, <2>2 DEF KeyInv, RunsOnce, q
      <3>2. \A d \in KeyedCalls : keyed'[d].at # "idle" => keyed'[d].of # r
        BY <2>1, <2>2, <3>1
      <3>3. executed'[r] <= 1
        BY <1>2, <1>5 DEF KeyInv, RunsOnce
      <3>4. responses'[CacheKey(r)] = r
        BY <1>3, <2>2
      <3>5. \A d \in KeyedCalls : keyed'[d].at = "handler" => keyed'[d].of # r
        BY <3>2
      <3>6. QED
        BY <3>2, <3>3, <3>4, <3>5 DEF RunsOnce
    <2>3. CASE r # q
      <3>1. executed[r] = 1 => \/ responses'[CacheKey(r)] = r
                               \/ \E d \in KeyedCalls : keyed'[d].at = "done" /\ keyed'[d].of = r
        BY <1>2, <1>3, <1>5, <2>3 DEF KeyInv, RunsOnce, q
      <3>2. QED
        BY <1>2, <1>3, <1>5, <2>1, <2>3, <3>1 DEF KeyInv, RunsOnce
    <2>4. QED
      BY <2>2, <2>3
  <1>6. QED
    BY <1>2, <1>3, <1>4, <1>5 DEF KeyInv, RunsOnce, Requests

\* The operation whose response expires is no longer protected.
LEMMA ExpiryKeepsKeyInv ==
  ASSUME KeyInv, NEW q \in Operations, ResponseExpires(q) PROVE KeyInv'
  <1>1. /\ responses[CacheKey(q)] = q
        /\ unprotected' = unprotected \union {q}
        /\ UNCHANGED <<keyed, executed, replayed>>
    BY DEF ResponseExpires, KeyInv
  <1>2. /\ DOMAIN responses' = DOMAIN responses
        /\ responses'[CacheKey(q)] = NoResponse
        /\ \A r \in Operations \ {q} : responses'[CacheKey(r)] = responses[CacheKey(r)]
    BY KeyFacts DEF ResponseExpires, KeyInv
  <1>3. \A r \in Operations : responses'[CacheKey(r)] \in {NoResponse, r}
    BY <1>2 DEF KeyInv, RunsOnce
  <1>4. QED
    BY <1>1, <1>2, <1>3 DEF KeyInv, RunsOnce

\* Every step keeps the invariant.
LEMMA StepKeepsKeyInv == KeyInv /\ [KeyNext]_keyVars => KeyInv'
  <1> SUFFICES ASSUME KeyInv, [KeyNext]_keyVars PROVE KeyInv'
    OBVIOUS
  <1>1. CASE UNCHANGED keyVars
    BY <1>1 DEF keyVars, KeyInv, RunsOnce
  <1>2. ASSUME NEW c \in KeyedCalls, NEW q \in Operations, NEW answers \in BOOLEAN,
               Resolve(c, q, answers)
        PROVE  KeyInv'
    <2>1. CASE answers /\ responses[CacheKey(q)] # NoResponse
      BY <1>2, <2>1, ReplayKeepsKeyInv DEF Resolve
    <2>2. CASE ~ (answers /\ responses[CacheKey(q)] # NoResponse)
      BY <1>2, <2>2, MissKeepsKeyInv
    <2>3. QED
      BY <2>1, <2>2
  <1>3. QED
    BY <1>1, <1>2, ExecuteKeepsKeyInv, EndKeepsKeyInv, StoreKeepsKeyInv, ExpiryKeepsKeyInv
       DEF KeyNext

\* A retry gets the response of its own operation and runs nothing again, but for
\* the cases the property names: for any number of users, keys and requests.
THEOREM RetriesAreReplayed == KeySpec => []RetriesReplay
  <1>1. KeyInit => KeyInv
    BY DEF KeyInit, KeyInv, RunsOnce, NoCall
  <1>2. KeyInv => RetriesReplay
    BY DEF KeyInv, RunsOnce, RetriesReplay
  <1>3. QED
    BY <1>1, <1>2, StepKeepsKeyInv, PTL DEF KeySpec

=============================================================================
