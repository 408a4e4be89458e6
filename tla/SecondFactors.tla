---------------------------- MODULE SecondFactors ----------------------------
(***************************************************************************)
(* The second factors of one user: the TOTP credential with its backup     *)
(* codes, the passkeys, and the step-up window that a fresh proof of a     *)
(* credential opens.  TotpService reads the credential row, changes it in  *)
(* memory and flushes the columns that differ; nothing locks the row in    *)
(* between.                                                                *)
(***************************************************************************)
EXTENDS Integers, FiniteSets

CONSTANTS FactorCalls,    \* requests that may run at one time
          Passkeys,       \* credential ids of authenticators
          Challenges,     \* session ids of WebAuthn challenges in Redis
          CodeNumbers,    \* the numbers of the backup codes of one set
          MaxIssued,      \* bound on the sets of backup codes that are issued
          NoCredential, Kept

ASSUME FactorsAssumption == MaxIssued \in Nat /\ IsFiniteSet(CodeNumbers)

\* A row of totp_credentials.  Sets of backup codes are told apart by their number.
BackupCodes == (0 .. MaxIssued) \X CodeNumbers
FactorRow   == [secret : 0 .. MaxIssued, codes : SUBSET BackupCodes, enabled : BOOLEAN]

ASSUME FactorValuesAssumption ==
  /\ NoCredential \notin FactorRow
  /\ Kept \notin 0 .. MaxIssued /\ Kept \notin BOOLEAN
  /\ \A codes \in SUBSET BackupCodes : codes # Kept

VARIABLES totp,         \* the totp_credentials row
          factorTxn,    \* the columns each open request is about to write
          issued,       \* how many sets of backup codes were made
          recent,       \* the step-up window is open
          passkeys,     \* committed webauthn_credentials rows
          challenges,   \* challenges in Redis: "absent", "reg", "auth" or "gone"
          confirmed,    \* secrets that a right code has confirmed
          spent,        \* backup codes that were accepted
          clashes       \* two requests on the credential have overlapped

factorVars == <<totp, factorTxn, issued, recent, passkeys, challenges, confirmed, spent, clashes>>

IdleFactor == [op |-> "idle"]
CodeSet(n) == {n} \X CodeNumbers

FactorInit ==
  /\ totp = NoCredential
  /\ factorTxn = [c \in FactorCalls |-> IdleFactor]
  /\ issued = 0 /\ recent = FALSE /\ passkeys = {}
  /\ challenges = [ch \in Challenges |-> "absent"]
  /\ confirmed = {} /\ spent = {} /\ clashes = FALSE

\* A request has read the row; write holds the columns it is going to write.
Hold(c, op, write) ==
  /\ factorTxn[c] = IdleFactor
  /\ factorTxn' = [factorTxn EXCEPT ![c] = [op |-> op, write |-> write]]
  /\ clashes' = (clashes \/ \E d \in FactorCalls : factorTxn[d].op \in {"insert", "update", "delete"})

EndFactor(c) == factorTxn' = [factorTxn EXCEPT ![c] = IdleFactor]

Dirtied(column, value) == IF totp # NoCredential /\ totp[column] = value THEN Kept ELSE value

-----------------------------------------------------------------------------
(* TOTP *)

\* Variant: the factor stays enabled while another secret is being set up.
EnrollStayingEnabled(c) ==
  /\ recent /\ issued < MaxIssued
  /\ issued' = issued + 1
  /\ Hold(c, IF totp = NoCredential THEN "insert" ELSE "update",
          [secret |-> issued', codes |-> CodeSet(issued'),
           enabled |-> IF totp = NoCredential THEN FALSE ELSE Kept])
  /\ UNCHANGED <<totp, recent, passkeys, challenges, confirmed, spent>>

\* POST /auth/two-fa/enroll: a new secret and new codes, disabled.
Enroll(c) ==
  /\ recent /\ issued < MaxIssued
  /\ issued' = issued + 1
  /\ Hold(c, IF totp = NoCredential THEN "insert" ELSE "update",
          [secret |-> issued', codes |-> CodeSet(issued'), enabled |-> Dirtied("enabled", FALSE)])
  /\ UNCHANGED <<totp, recent, passkeys, challenges, confirmed, spent>>

\* POST /auth/two-fa/verify with a code of the authenticator, or with a backup
\* code, which is taken out of the list; either proof opens the step-up window.
\* A wrong code is a 422.
VerifyFactor(c) ==
  /\ totp # NoCredential
  /\ \/ /\ Hold(c, "update", [secret |-> Kept, codes |-> Kept, enabled |-> Dirtied("enabled", TRUE)])
        /\ UNCHANGED spent
     \/ \E code \in totp.codes :
          /\ Hold(c, "update", [secret |-> Kept, codes |-> totp.codes \ {code},
                                enabled |-> Dirtied("enabled", TRUE)])
          /\ spent' = spent \union {code}
  /\ confirmed' = confirmed \union {totp.secret}
  /\ recent' = TRUE
  /\ UNCHANGED <<totp, issued, passkeys, challenges>>

\* DELETE /auth/two-fa.
Disable(c) ==
  /\ recent /\ totp # NoCredential
  /\ Hold(c, "delete", Kept)
  /\ UNCHANGED <<totp, issued, recent, passkeys, challenges, confirmed, spent>>

\* POST /auth/two-fa/backup-codes/regenerate, 409 unless enabled.
RegenerateCodes(c) ==
  /\ recent /\ totp # NoCredential /\ totp.enabled /\ issued < MaxIssued
  /\ issued' = issued + 1
  /\ Hold(c, "update", [secret |-> Kept, codes |-> CodeSet(issued'), enabled |-> Kept])
  /\ UNCHANGED <<totp, recent, passkeys, challenges, confirmed, spent>>

\* The flush and the commit.  The unique user_id refuses a second row, and an
\* UPDATE or DELETE that finds the row gone is an error.
CommitFactor(c) ==
  LET w == factorTxn[c].write
  IN /\ factorTxn[c].op \in {"insert", "update", "delete"}
     /\ (factorTxn[c].op = "insert") <=> (totp = NoCredential)
     /\ totp' = CASE factorTxn[c].op = "insert" -> w
                  [] factorTxn[c].op = "delete" -> NoCredential
                  [] OTHER -> [column \in DOMAIN totp |->
                                 IF w[column] = Kept THEN totp[column] ELSE w[column]]
     /\ EndFactor(c)
     /\ UNCHANGED <<issued, recent, passkeys, challenges, confirmed, spent, clashes>>

\* Rolled back; a code that was shown or accepted stays known outside.
AbortFactor(c) ==
  /\ factorTxn[c].op # "idle"
  /\ EndFactor(c)
  /\ clashes' = (clashes \/ factorTxn[c].op \in {"insert", "update"})
  /\ UNCHANGED <<totp, issued, recent, passkeys, challenges, confirmed, spent>>

-----------------------------------------------------------------------------
(* The step-up window *)

\* record_step_up_success: the Redis key and users.last_step_up_at.
MarkStepUp ==
  /\ recent' = TRUE
  /\ UNCHANGED <<totp, factorTxn, issued, passkeys, challenges, confirmed, spent, clashes>>

\* STEP_UP_TTL_MINUTES pass; is_step_up_recent asks Redis, then the row.
StepUpLapses ==
  /\ recent' = FALSE
  /\ UNCHANGED <<totp, factorTxn, issued, passkeys, challenges, confirmed, spent, clashes>>

-----------------------------------------------------------------------------
(* Passkeys *)

\* /register/begin and /authenticate/begin store a challenge; the second needs
\* a passkey.
StoreChallenge(ch, type) ==
  /\ challenges[ch] = "absent"
  /\ type = "auth" => passkeys # {}
  /\ challenges' = [challenges EXCEPT ![ch] = type]
  /\ UNCHANGED <<totp, factorTxn, issued, recent, passkeys, confirmed, spent, clashes>>

\* Its time to live, or a Redis that is restarted.
ChallengeExpires(ch) ==
  /\ challenges[ch] \in {"reg", "auth"}
  /\ challenges' = [challenges EXCEPT ![ch] = "gone"]
  /\ UNCHANGED <<totp, factorTxn, issued, recent, passkeys, confirmed, spent, clashes>>

\* consume_challenge: GET, then DELETE whatever the type says.
GetChallenge(c, ch) ==
  /\ challenges[ch] \in {"reg", "auth"}
  /\ factorTxn[c] = IdleFactor
  /\ factorTxn' = [factorTxn EXCEPT ![c] =
       [op |-> "challenge", about |-> ch, type |-> challenges[ch]]]
  /\ UNCHANGED <<totp, issued, recent, passkeys, challenges, confirmed, spent, clashes>>

\* The challenge is deleted and the answer verified against the key.
RegisterPasskey(c, p) ==
  /\ factorTxn[c].op = "challenge" /\ factorTxn[c].type = "reg"
  /\ p \notin passkeys
  /\ challenges' = [challenges EXCEPT ![factorTxn[c].about] = "gone"]
  /\ passkeys' = passkeys \union {p}
  /\ EndFactor(c)
  /\ UNCHANGED <<totp, issued, recent, confirmed, spent, clashes>>

AuthenticatePasskey(c, p) ==
  /\ factorTxn[c].op = "challenge" /\ factorTxn[c].type = "auth"
  /\ p \in passkeys
  /\ challenges' = [challenges EXCEPT ![factorTxn[c].about] = "gone"]
  /\ recent' = TRUE
  /\ EndFactor(c)
  /\ UNCHANGED <<totp, issued, passkeys, confirmed, spent, clashes>>

\* A challenge of the other type, or an answer that does not verify.
RefuseAnswer(c) ==
  /\ factorTxn[c].op = "challenge"
  /\ challenges' = [challenges EXCEPT ![factorTxn[c].about] = "gone"]
  /\ EndFactor(c)
  /\ UNCHANGED <<totp, issued, recent, passkeys, confirmed, spent, clashes>>

\* The two routes that remove a passkey.
RevokePasskey(p) ==
  /\ recent /\ p \in passkeys
  /\ passkeys' = passkeys \ {p}
  /\ UNCHANGED <<totp, factorTxn, issued, recent, challenges, confirmed, spent, clashes>>

\* password_hash is never empty, so the last passkey may go.
DeletePasskey(p) ==
  /\ p \in passkeys
  /\ passkeys' = passkeys \ {p}
  /\ UNCHANGED <<totp, factorTxn, issued, recent, challenges, confirmed, spent, clashes>>

-----------------------------------------------------------------------------

FactorNext ==
  \/ MarkStepUp \/ StepUpLapses
  \/ \E ch \in Challenges :
       \/ \E type \in {"reg", "auth"} : StoreChallenge(ch, type)
       \/ ChallengeExpires(ch)
  \/ \E p \in Passkeys : RevokePasskey(p) \/ DeletePasskey(p)
  \/ \E c \in FactorCalls :
       \/ Enroll(c) \/ VerifyFactor(c) \/ Disable(c) \/ RegenerateCodes(c)
       \/ CommitFactor(c) \/ AbortFactor(c) \/ RefuseAnswer(c)
       \/ \E ch \in Challenges : GetChallenge(c, ch)
       \/ \E p \in Passkeys : RegisterPasskey(c, p) \/ AuthenticatePasskey(c, p)

FactorSpec == FactorInit /\ [][FactorNext]_factorVars

-----------------------------------------------------------------------------
(* Properties *)

\* Over any order of enrolments, confirmations, regenerations and removals,
\* a factor that is enabled has been confirmed with its own secret, no accepted
\* backup code is in the list, and no code of an older set ("Old codes are
\* immediately invalid"), unless two requests overlapped or one was rolled back.
FactorConsistent ==
  ~ clashes /\ totp # NoCredential =>
    /\ totp.enabled => totp.secret \in confirmed
    /\ (\A c \in FactorCalls : factorTxn[c].op \notin {"insert", "update"})
         => totp.codes \subseteq CodeSet(issued) \ spent

-----------------------------------------------------------------------------
(* The inductive invariant behind it *)

\* The row as it will be once the open request commits.
Written(w) == IF totp = NoCredential THEN w
              ELSE [column \in DOMAIN totp |-> IF w[column] = Kept THEN totp[column] ELSE w[column]]

Confirmed(row) == row.enabled => row.secret \in confirmed
Unspent(row)   == row.codes \subseteq CodeSet(issued) \ spent

\* While no two requests have overlapped: the row, and the row that is about to
\* be, are sound; only while a request is open the row may list a spent code.
FactorInv ==
  ~ clashes =>
    /\ DOMAIN factorTxn = FactorCalls
    /\ issued \in 0 .. MaxIssued /\ totp \in FactorRow \union {NoCredential}
    /\ spent \subseteq (0 .. issued) \X CodeNumbers
    /\ \A c, d \in FactorCalls :
         factorTxn[c].op \in {"insert", "update", "delete"}
           /\ factorTxn[d].op \in {"insert", "update", "delete"} => c = d
    /\ totp # NoCredential =>
         /\ Confirmed(totp)
         /\ (\A c \in FactorCalls : factorTxn[c].op \notin {"insert", "update"}) => Unspent(totp)
    /\ \A c \in FactorCalls : factorTxn[c].op \in {"insert", "update"} =>
         LET row == Written(factorTxn[c].write)
         IN row \in FactorRow /\ Confirmed(row) /\ Unspent(row)

=============================================================================
