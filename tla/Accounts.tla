------------------------------ MODULE Accounts ------------------------------
(***************************************************************************)
(* The credentials of one user: registration and onboarding, password      *)
(* login with its lockout, the links for e-mail verification and password  *)
(* reset, and the changes of e-mail and phone.  Every request reads the    *)
(* users row first and writes the columns it changed, as values computed   *)
(* from that reading, in one UPDATE at the end of its transaction; nothing *)
(* locks the row in between.                                               *)
(***************************************************************************)
EXTENDS Integers, FiniteSets

CONSTANTS AccountCalls,        \* requests that may run at one time
          Links,               \* rows of the two token tables
          LOCKOUT_THRESHOLD,   \* _LOCKOUT_THRESHOLD
          MaxVersion,          \* bound on token_version
          MaxWrong,            \* bound on wrong passwords in a row and on their counter
          NoAccount

ASSUME AccountsAssumption ==
  /\ LOCKOUT_THRESHOLD \in Nat \ {0} /\ MaxVersion \in Nat /\ MaxWrong \in Nat

\* A row of users, as far as the credentials go; a missing one is none.
UserRow == [onboarded : BOOLEAN, roles : SUBSET {"client", "detailer"}, verified : BOOLEAN,
            active : BOOLEAN, attempts : Nat, locked : BOOLEAN, version : Nat]

ASSUME NoAccountAssumption == NoAccount \notin UserRow

VARIABLES account,    \* the users row
          accountTxn, \* what each open request has read
          links,      \* the token rows: its kind, or "unissued", "stale" or "used"
          changes,    \* the kinds of contact change that are pending
          access,     \* the token_versions of the access tokens handed out
          refresh,    \* whether a refresh token is live
          dead,       \* versions of access tokens older than a credential change
          wrong,      \* wrong passwords since the last right one
          reused,     \* a reset link has taken effect twice
          races       \* the kinds of request of which two have overlapped

accountVars == <<account, accountTxn, links, changes, access, refresh, dead, wrong, reused, races>>

AccountRoles       == {"client", "detailer"}
Contacts    == {"email", "phone"}
LinkKinds   == {"verify", "reset"}
IssueOf     == [verify |-> "issue-verify", reset |-> "issue-reset"]
IdleRequest == [op |-> "idle", attempts |-> 0, version |-> 0, seen |-> {}]

AccountInit ==
  /\ account = NoAccount
  /\ accountTxn = [c \in AccountCalls |-> IdleRequest]
  /\ links = [l \in Links |-> "unissued"]
  /\ changes = {} /\ access = {} /\ refresh = FALSE /\ dead = {} /\ wrong = 0
  /\ reused = FALSE /\ races = {}

\* The kinds of request that compute what they write from the same column, or
\* that rely on the same rows staying as they are.
KindOf(op) == CASE op \in {"failed", "login"} -> "login"
                [] op \in {"reset", "email", "phone"} -> "bump"
                [] op \in {"issue-verify", "issue-reset"} -> "issue"
                [] OTHER -> op

\* The request has read the row, and a link or a pending change.
BeginRequest(c, op, seen) ==
  /\ accountTxn[c] = IdleRequest
  /\ accountTxn' = [accountTxn EXCEPT ![c] =
       [op |-> op, attempts |-> account.attempts, version |-> account.version, seen |-> seen]]
  /\ races' = races \union
       { KindOf(accountTxn[d].op) : d \in { d \in AccountCalls : KindOf(accountTxn[d].op) = KindOf(op) } }
  /\ UNCHANGED <<account, links, changes, access, refresh, dead, wrong, reused>>

EndRequest(c) == accountTxn' = [accountTxn EXCEPT ![c] = IdleRequest] /\ UNCHANGED races

\* The end of the process, or an error: get_db rolls back.
AbortRequest(c) ==
  /\ accountTxn[c].op # "idle"
  /\ EndRequest(c)
  /\ UNCHANGED <<account, links, changes, access, refresh, dead, wrong, reused>>

Present == account # NoAccount /\ account.active

\* create_session_and_tokens, with the version that was read.
HandOut(c) ==
  /\ access' = access \union {accountTxn[c].version}
  /\ refresh' = TRUE

-----------------------------------------------------------------------------
(* Registration and onboarding *)

\* POST /auth/register; a second INSERT breaks the unique e-mail.
Register ==
  /\ account = NoAccount
  /\ account' = [onboarded |-> FALSE, roles |-> {}, verified |-> FALSE, active |-> TRUE,
                 attempts |-> 0, locked |-> FALSE, version |-> 1]
  /\ UNCHANGED <<accountTxn, links, changes, access, refresh, dead, wrong, reused, races>>

\* PUT /auth/complete-profile, 403 once it is completed.
BeginCompletion(c, role) ==
  /\ Present /\ ~ account.onboarded
  /\ BeginRequest(c, role, {})

CompleteProfile(c) ==
  /\ accountTxn[c].op \in AccountRoles
  /\ account' = [account EXCEPT !.onboarded = TRUE, !.roles = @ \union {accountTxn[c].op}]
  /\ HandOut(c) /\ EndRequest(c)
  /\ UNCHANGED <<links, changes, dead, wrong, reused>>

-----------------------------------------------------------------------------
(* authenticate_user, as /auth/login, /auth/verify and /auth/token call it *)

\* A locked account is refused whatever the password.
BeginLogin(c, right) ==
  /\ Present /\ ~ account.locked
  /\ BeginRequest(c, IF right THEN "login" ELSE "failed", {})

\* The failure is committed before the 401 is raised.
CommitFailure(c) ==
  /\ accountTxn[c].op = "failed"
  /\ wrong < MaxWrong /\ accountTxn[c].attempts < MaxWrong
  /\ LET n == accountTxn[c].attempts + 1
     IN account' = [account EXCEPT !.attempts = n,
                                   !.locked = @ \/ n >= LOCKOUT_THRESHOLD]
  /\ wrong' = wrong + 1
  /\ EndRequest(c)
  /\ UNCHANGED <<links, changes, access, refresh, dead, reused>>

\* Variant: the counter survives a login.
CommitLoginKeepingCount(c) ==
  /\ accountTxn[c].op = "login"
  /\ wrong' = 0
  /\ IF account.onboarded THEN HandOut(c) ELSE UNCHANGED <<access, refresh>>
  /\ EndRequest(c)
  /\ UNCHANGED <<account, links, changes, dead, reused>>

\* The counter is reset if it was read as positive; tokens once onboarded.
CommitLogin(c) ==
  /\ accountTxn[c].op = "login"
  /\ account' = IF accountTxn[c].attempts = 0 THEN account
                ELSE [account EXCEPT !.attempts = 0, !.locked = FALSE]
  /\ wrong' = 0
  /\ IF account.onboarded THEN HandOut(c) ELSE UNCHANGED <<access, refresh>>
  /\ EndRequest(c)
  /\ UNCHANGED <<links, changes, dead, reused>>

\* locked_until passes; the counter stays.
LockExpires ==
  /\ account # NoAccount /\ account.locked
  /\ account' = [account EXCEPT !.locked = FALSE]
  /\ UNCHANGED <<accountTxn, links, changes, access, refresh, dead, wrong, reused, races>>

\* rotate_refresh_token: an access token of the current version.
RefreshAccess ==
  /\ Present /\ refresh
  /\ access' = access \union {account.version}
  /\ UNCHANGED <<account, accountTxn, links, changes, refresh, dead, wrong, reused, races>>

-----------------------------------------------------------------------------
(* Links: PasswordResetTokenRepository and EmailVerificationTokenRepository *)

\* Variant: the earlier links stay valid.
IssueBesideOthers(c) ==
  \E kind \in LinkKinds, l \in Links :
    /\ accountTxn[c].op = IssueOf[kind]
    /\ links[l] = "unissued"
    /\ links' = [links EXCEPT ![l] = kind]
    /\ EndRequest(c)
    /\ UNCHANGED <<account, changes, access, refresh, dead, wrong, reused>>

\* create_password_reset_token and create_email_verification_token.
BeginIssue(c, kind) ==
  /\ Present
  /\ kind = "verify" => ~ account.verified
  /\ BeginRequest(c, IssueOf[kind], { l \in Links : links[l] = kind })

\* The unused links that were there when the request looked are invalidated
\* and the new one is inserted.
IssueLink(c) ==
  \E kind \in LinkKinds, l \in Links :
    /\ accountTxn[c].op = IssueOf[kind]
    /\ links[l] = "unissued"
    /\ links' = [k \in Links |-> IF k = l THEN kind
                                 ELSE IF k \in accountTxn[c].seen /\ links[k] # "used" THEN "stale"
                                 ELSE links[k]]
    /\ EndRequest(c)
    /\ UNCHANGED <<account, changes, access, refresh, dead, wrong, reused>>

\* consume reads the row and looks at used_at; the update comes later and has
\* no condition but the key.
BeginConsume(c, l) ==
  /\ account # NoAccount
  /\ links[l] \in LinkKinds
  /\ BeginRequest(c, links[l], {l})

\* mark_used, whatever the row says by now.
SpendLink(c) ==
  \E l \in accountTxn[c].seen :
    /\ links' = [links EXCEPT ![l] = "used"]
    /\ reused' = (reused \/ (accountTxn[c].op = "reset" /\ links[l] = "used"))

VerifyEmail(c) ==
  /\ accountTxn[c].op = "verify" /\ Present
  /\ account' = [account EXCEPT !.verified = TRUE]
  /\ SpendLink(c)
  /\ EndRequest(c)
  /\ UNCHANGED <<changes, access, refresh, dead, wrong>>

\* Every access token handed out so far must be refused from now on.
Outdate == dead' = dead \union access

\* Variant: the version is left alone.
ConfirmResetQuietly(c) ==
  /\ accountTxn[c].op = "reset" /\ Present
  /\ SpendLink(c)
  /\ Outdate /\ EndRequest(c)
  /\ UNCHANGED <<account, changes, access, refresh, wrong>>

\* POST /auth/password-reset/confirm.  The refresh tokens are left alone.
ConfirmReset(c) ==
  /\ accountTxn[c].op = "reset" /\ Present
  /\ account' = [account EXCEPT !.version = accountTxn[c].version + 1]
  /\ SpendLink(c)
  /\ Outdate /\ EndRequest(c)
  /\ UNCHANGED <<changes, access, refresh, wrong>>

-----------------------------------------------------------------------------
(* ContactChangeService *)

\* The password is checked, an older pending change of the kind is replaced.
RequestChange(contact) ==
  /\ Present /\ account.onboarded
  /\ contact \notin changes
  /\ changes' = changes \union {contact}
  /\ UNCHANGED <<account, accountTxn, links, access, refresh, dead, wrong, reused, races>>

BeginChange(c, contact) ==
  /\ account # NoAccount /\ contact \in changes
  /\ account.version < MaxVersion
  /\ BeginRequest(c, contact, {})

\* confirm_email_change and verify_phone_change: the new contact, the next
\* version, and every refresh token revoked.
CommitChange(c) ==
  /\ accountTxn[c].op \in Contacts
  /\ account' = [account EXCEPT !.version = accountTxn[c].version + 1,
                                !.verified = @ \/ accountTxn[c].op = "email"]
  /\ changes' = changes \ {accountTxn[c].op}
  /\ refresh' = FALSE
  /\ Outdate /\ EndRequest(c)
  /\ UNCHANGED <<links, access, wrong, reused>>

\* pending_contact_cleanup drops a change that has expired.
ExpireChange(contact) ==
  /\ contact \in changes
  /\ changes' = changes \ {contact}
  /\ UNCHANGED <<account, accountTxn, links, access, refresh, dead, wrong, reused, races>>

-----------------------------------------------------------------------------

\* The administrator's switch.
SetActive(active) ==
  /\ account # NoAccount /\ account.active # active
  /\ account' = [account EXCEPT !.active = active]
  /\ UNCHANGED <<accountTxn, links, changes, access, refresh, dead, wrong, reused, races>>

AccountNext ==
  \/ Register \/ LockExpires \/ RefreshAccess
  \/ \E active \in BOOLEAN : SetActive(active)
  \/ \E contact \in Contacts : RequestChange(contact) \/ ExpireChange(contact)
  \/ \E c \in AccountCalls :
       \/ \E role \in AccountRoles : BeginCompletion(c, role)
       \/ \E right \in BOOLEAN : BeginLogin(c, right)
       \/ \E kind \in LinkKinds : BeginIssue(c, kind)
       \/ \E l \in Links : BeginConsume(c, l)
       \/ \E contact \in Contacts : BeginChange(c, contact)
       \/ CompleteProfile(c) \/ CommitFailure(c) \/ CommitLogin(c) \/ IssueLink(c)
       \/ VerifyEmail(c) \/ ConfirmReset(c) \/ CommitChange(c) \/ AbortRequest(c)

AccountSpec == AccountInit /\ [][AccountNext]_accountVars

-----------------------------------------------------------------------------
(* Properties *)

\* The lockout counts: with no two logins at once, the column is the number of
\* wrong passwords since the last right one, whatever resets, changes, aborted
\* requests and lapsed locks came between.
FailuresCounted ==
  account # NoAccount /\ "login" \notin races => account.attempts = wrong

\* "instant revocation": an access token that was handed out before a change of
\* password, e-mail or phone is not accepted any more, also when a login or a
\* refresh ran beside the change, unless two changes did.
OldAccessRefused ==
  account # NoAccount /\ "bump" \notin races => account.version \notin dead

\* "one active token at a time", "single operation prevents race conditions": a
\* new link takes the place of the older ones of its kind unless two were issued
\* at once, and a reset link acts once unless two confirmations overlapped.
LinksSingleUse ==
  /\ "issue" \notin races =>
       \A k, l \in Links : links[k] \in LinkKinds /\ links[k] = links[l] => k = l
  /\ "bump" \notin races => ~ reused

-----------------------------------------------------------------------------
(* The inductive invariant behind them *)

RequestOps == {"client", "detailer", "failed", "login", "verify", "reset", "email", "phone",
               "issue-verify", "issue-reset"}

AccountRequest ==
  [op : RequestOps \union {"idle"}, attempts : Nat, version : Nat, seen : SUBSET Links]

AccountTyped ==
  /\ account \in UserRow \union {NoAccount}
  /\ accountTxn \in [AccountCalls -> AccountRequest]
  /\ links \in [Links -> LinkKinds \union {"unissued", "stale", "used"}]
  /\ access \subseteq Nat /\ dead \subseteq Nat /\ wrong \in Nat /\ reused \in BOOLEAN

\* Nothing comes before the registration.
NothingBefore ==
  account = NoAccount =>
    /\ wrong = 0 /\ access = {} /\ dead = {}
    /\ \A c \in AccountCalls : accountTxn[c] = IdleRequest

\* Two open requests of one kind have been noticed.
RacesNoticed ==
  \A c, d \in AccountCalls :
    c # d /\ accountTxn[c].op # "idle" /\ KindOf(accountTxn[c].op) = KindOf(accountTxn[d].op)
      => KindOf(accountTxn[c].op) \in races

\* A login that runs alone knows the counter.
CountersAgree ==
  account # NoAccount /\ "login" \notin races =>
    /\ account.attempts = wrong
    /\ \A c \in AccountCalls :
         accountTxn[c].op \in {"failed", "login"} => accountTxn[c].attempts = account.attempts

\* A change of credentials that runs alone knows the version; no token is of a
\* later one, and those that must be refused are of an earlier one.
VersionsOrdered ==
  account # NoAccount /\ "bump" \notin races =>
    /\ \A v \in access : v <= account.version
    /\ \A v \in dead : v < account.version
    /\ \A c \in AccountCalls :
         /\ accountTxn[c].version <= account.version
         /\ accountTxn[c].op \in {"reset", "email", "phone"}
              => accountTxn[c].version = account.version

\* An issue that runs alone has seen every live link of its kind; a link that is
\* being consumed has not turned into one of another kind.
LinksSeen ==
  /\ "issue" \notin races =>
       /\ \A k, l \in Links : links[k] \in LinkKinds /\ links[k] = links[l] => k = l
       /\ \A c \in AccountCalls, kind \in LinkKinds, l \in Links :
            accountTxn[c].op = IssueOf[kind] /\ links[l] = kind => l \in accountTxn[c].seen
  /\ \A c \in AccountCalls : accountTxn[c].op \in LinkKinds =>
       \A l \in accountTxn[c].seen : links[l] \in {accountTxn[c].op, "stale", "used"}

\* A reset that runs alone is the only one to use its link.
ResetsAlone ==
  /\ \A c, d \in AccountCalls :
       accountTxn[c].op = "verify" /\ accountTxn[d].op = "reset"
         => accountTxn[c].seen \intersect accountTxn[d].seen = {}
  /\ "bump" \notin races =>
       /\ ~ reused
       /\ \A c \in AccountCalls : accountTxn[c].op = "reset" =>
            \A l \in accountTxn[c].seen : links[l] # "used"

AccountInv ==
  /\ AccountTyped /\ NothingBefore /\ RacesNoticed
  /\ CountersAgree /\ VersionsOrdered /\ LinksSeen /\ ResetsAlone

=============================================================================
