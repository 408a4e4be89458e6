-------------------------- MODULE ProviderProfile --------------------------
(***************************************************************************)
(* The detailer profile of one user: identity verification, visibility in  *)
(* search (is_active, which is_accepting_bookings forwards to) and the     *)
(* signup application.  A handler reads the row, decides, and writes the   *)
(* columns it changed by primary key; nothing locks the row in between.    *)
(* Two older routes write is_active without the identity check, a          *)
(* submission that names no session approves the profile itself, and the   *)
(* administrator's verdict leaves is_active alone.                         *)
(***************************************************************************)
CONSTANTS ProfileCallers,
          VerificationSessions,   \* ids of Stripe Identity sessions
          NoProfile, Same         \* Same: a column that is not written

ASSUME ProfileAssumption ==
  /\ Same \notin {"pending", "approved", "rejected"} /\ Same \notin BOOLEAN
  /\ Same \notin VerificationSessions \union {NoProfile}
  /\ NoProfile \notin VerificationSessions

VARIABLES profile,        \* the committed row
          profileTxn,     \* the columns each open transaction is about to write
          minted,         \* sessions Stripe has created for the user
          excused         \* a route without the gate, a submission without a
                          \* session, an administrator's verdict or two
                          \* overlapping calls have touched the row

profileVars == <<profile, profileTxn, minted, excused>>

Verdicts     == {"not_submitted", "pending", "approved", "rejected"}
Applications == {"draft", "submitted", "approved", "suspended"}
Columns  == {"status", "active", "application", "session"}

\* An empty row, as activate, create_profile and _get_or_create_profile insert it.
Skeleton == [status |-> "not_submitted", active |-> FALSE, application |-> "draft",
             session |-> NoProfile]

ProfileInit ==
  /\ profile = NoProfile
  /\ profileTxn = [c \in ProfileCallers |-> NoProfile]
  /\ minted = {}
  /\ excused = FALSE

\* The attributes whose value differs from the one that was read are dirty.
Dirty(new) == [k \in Columns |-> IF new[k] = profile[k] THEN Same ELSE new[k]]

\* A handler that has read the row and set new's columns on it.
Edit(c, new) ==
  /\ profile # NoProfile
  /\ profileTxn[c] = NoProfile
  /\ profileTxn' = [profileTxn EXCEPT ![c] = Dirty(new)]
  /\ excused' = (excused \/ \E d \in ProfileCallers : profileTxn[d] # NoProfile)
  /\ UNCHANGED profile

\* One UPDATE without a read, at once.
Overwrite(c, new) ==
  /\ profile # NoProfile
  /\ profileTxn[c] = NoProfile
  /\ profile' = new
  /\ excused' = TRUE
  /\ UNCHANGED <<profileTxn, minted>>

\* db.commit(): the dirty columns, by primary key.
CommitProfile(c) ==
  /\ profileTxn[c] # NoProfile
  /\ profile' = [k \in Columns |-> IF profileTxn[c][k] = Same THEN profile[k] ELSE profileTxn[c][k]]
  /\ profileTxn' = [profileTxn EXCEPT ![c] = NoProfile]
  /\ UNCHANGED <<minted, excused>>

AbortProfile(c) ==
  /\ profileTxn[c] # NoProfile
  /\ profileTxn' = [profileTxn EXCEPT ![c] = NoProfile]
  /\ UNCHANGED <<profile, minted, excused>>

-----------------------------------------------------------------------------
(* Creating the row; a second INSERT breaks the unique constraint *)

Activate ==
  /\ profile = NoProfile
  /\ profile' = Skeleton
  /\ UNCHANGED <<profileTxn, minted, excused>>

CreateProfile == Activate

\* PUT /detailers/me creates the row visible; on a row that exists it changes
\* none of these columns.
Onboard ==
  /\ profile = NoProfile
  /\ profile' = [Skeleton EXCEPT !.active = TRUE]
  /\ excused' = TRUE
  /\ UNCHANGED <<profileTxn, minted>>

-----------------------------------------------------------------------------
(* Visibility *)

\* Variant: the gate looks at whether details were submitted at all.
SetAcceptingIfSubmitted(c, accepting) ==
  /\ accepting => profile.status # "not_submitted"
  /\ Edit(c, [profile EXCEPT !.active = accepting])
  /\ UNCHANGED minted

\* PATCH /provider-status: 403 kyc_required unless approved.
SetAccepting(c, accepting) ==
  /\ accepting => profile.status = "approved"
  /\ Edit(c, [profile EXCEPT !.active = accepting])
  /\ UNCHANGED minted

\* PATCH /providers/profiles/{id}, the same gate.
PatchProfile(c, active) ==
  /\ active => profile.status = "approved"
  /\ Edit(c, [profile EXCEPT !.active = active])
  /\ UNCHANGED minted

Deactivate(c) == Edit(c, [profile EXCEPT !.active = FALSE]) /\ UNCHANGED minted

\* PATCH /detailers/me/status, without a gate.
ToggleStatus(c, accepting) == Overwrite(c, [profile EXCEPT !.active = accepting])

-----------------------------------------------------------------------------
(* Verification *)

\* POST /me/provider-verification mints a session and links it.
StartVerification(c, s) ==
  /\ s \notin minted
  /\ Edit(c, [profile EXCEPT !.session = s,
                !.status = IF @ = "not_submitted" THEN "pending" ELSE @])
  /\ minted' = minted \union {s}

\* POST /detailers/verification/start mints a session and links nothing.
MintOnly(s) ==
  /\ s \notin minted
  /\ minted' = minted \union {s}
  /\ UNCHANGED <<profile, profileTxn, excused>>

\* POST /detailers/verification/submit links the session the client names.  A row
\* that is missing is inserted in the same transaction.
SubmitDetails(c, s) ==
  /\ s \in minted
  /\ \/ Edit(c, [profile EXCEPT !.session = s, !.status = "pending", !.active = FALSE])
     \/ /\ profile = NoProfile
        /\ profile' = [Skeleton EXCEPT !.session = s, !.status = "pending"]
        /\ UNCHANGED <<profileTxn, excused>>
  /\ UNCHANGED minted

\* The submission that names no session approves at once, "dev bypass", whatever
\* the environment: Stripe has no part in it.
BypassVerification(c) ==
  /\ profileTxn[c] = NoProfile
  /\ IF profile = NoProfile
     THEN /\ profile' = [Skeleton EXCEPT !.status = "approved", !.active = TRUE]
          /\ UNCHANGED profileTxn
     ELSE /\ profileTxn' = [profileTxn EXCEPT
                ![c] = Dirty([profile EXCEPT !.status = "approved", !.active = TRUE])]
          /\ UNCHANGED profile
  /\ excused' = TRUE
  /\ UNCHANGED minted

\* The two identity webhooks, on the row linked to the session.
ApproveIdentity(c, s) ==
  /\ profile.session = s
  /\ Edit(c, [profile EXCEPT !.status = "approved", !.active = TRUE])
  /\ UNCHANGED minted

RejectIdentity(c, s) ==
  /\ profile.session = s
  /\ Edit(c, [profile EXCEPT !.status = "rejected", !.active = FALSE])
  /\ UNCHANGED minted

\* The administrator's approve_verification and reject_verification.
AdminVerdict(c) ==
  \E verdict \in {"approved", "rejected"} :
    Overwrite(c, [profile EXCEPT !.status = verdict])

-----------------------------------------------------------------------------
(* The signup application *)

\* All required fields present; anything but a draft is a 409.
SubmitApplication(c) ==
  /\ profile.application = "draft"
  /\ Edit(c, [profile EXCEPT !.application = "submitted"])
  /\ UNCHANGED minted

ApproveDetailer(c) ==
  /\ profile.application \in {"submitted", "suspended"}
  /\ Edit(c, [profile EXCEPT !.application = "approved"])
  /\ UNCHANGED minted

SuspendDetailer(c) ==
  /\ profile.application = "approved"
  /\ Edit(c, [profile EXCEPT !.application = "suspended"])
  /\ UNCHANGED minted

-----------------------------------------------------------------------------
(* Properties *)

\* The row as an open transaction will leave it.
Merged(t) == [k \in Columns |-> IF t[k] = Same THEN profile[k] ELSE t[k]]

Presentable(row) == row.active => row.status = "approved"

\* A visible row is an approved one: until something excuses it, at most one
\* transaction is open on the row, and what it is about to write keeps to the rule
\* as well.  Webhooks adds where the approval comes from.
ProfileInv ==
  /\ DOMAIN profileTxn = ProfileCallers
  /\ profile # NoProfile => DOMAIN profile = Columns
  /\ ~ excused /\ profile # NoProfile => Presentable(profile)
  /\ ~ excused => \A c \in ProfileCallers : profileTxn[c] # NoProfile =>
       /\ profile # NoProfile
       /\ Presentable(Merged(profileTxn[c]))
       /\ \A d \in ProfileCallers \ {c} : profileTxn[d] = NoProfile

=============================================================================
