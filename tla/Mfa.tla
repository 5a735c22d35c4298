-------------------------------- MODULE Mfa --------------------------------
(***************************************************************************)
(* The second factor of one active account (mfa.py): enrollment, challenges*)
(* and recovery codes, rotation and reset.  Each call is one transaction:  *)
(* it reads the rows, decides, and writes at its commit the columns it     *)
(* changed, with no lock, so that another call may commit in between.  A   *)
(* code the client sends is the right one for the secret the call has read *)
(* (a wrong one only writes an audit row).  A secret is the number of those*)
(* generated so far, and one recovery code stands for the ten issued       *)
(* together.                                                               *)
(***************************************************************************)
EXTENDS Integers, FiniteSets

CONSTANTS
  Req,         \* the calls that may be in flight at the same time
  Codes,       \* the ids auth_mfa_recovery_codes may get, numbers (a bound)
  Challenges   \* the ids auth_mfa_challenges may get, numbers above 0 (a bound)

VARIABLES
  secret,     \* auth_mfa_secrets: generation (0: no row) and confirmed_at
  proven,     \* history: the generation whose TOTP code was last confirmed
  code,       \* auth_mfa_recovery_codes, with the generation they came with
  opened,     \* history: the challenges each recovery code consumed
  challenge,  \* auth_mfa_challenges
  crossed,    \* history: generations written to by a call that had read other rows
  txn,        \* the calls in flight, with what they have read
  resetToken, \* the account has a password reset token that can be used
  privileged  \* the account has one of PRIVILEGED_ROLE_NAMES

rows == <<secret, proven, code, opened, challenge, crossed>>
vars == <<rows, txn, resetToken, privileged>>

-----------------------------------------------------------------------------
NoSecret == [generation |-> 0, confirmed |-> FALSE]
NoCode   == [for |-> 0, state |-> "absent"]

Idle    == [op |-> "idle", secret |-> NoSecret, seen |-> {}, challenge |-> 0, code |-> 0]
Free(r) == txn[r] = Idle

Enrolled == secret.confirmed

AcceptsCode(c) == code[c].state = "valid"

Present == {c \in Codes : code[c].state \in {"valid", "used", "expired"}}

\* the call reads the secret, the codes, and the challenge h and the code c it names
Begin(r, op, h, c) ==
  /\ Free(r)
  /\ txn' = [txn EXCEPT ![r] = [op |-> op, secret |-> secret, seen |-> Present,
                                challenge |-> h, code |-> c]]
  /\ UNCHANGED <<rows, resetToken, privileged>>

\* the call ends with a commit, which writes what the caller says
Commit(r, op) ==
  /\ txn[r].op = op
  /\ txn' = [txn EXCEPT ![r] = Idle]
  /\ UNCHANGED <<resetToken, privileged>>

\* the commit fails, or the process stops: nothing is written
Abort(r) ==
  /\ ~ Free(r)
  /\ txn' = [txn EXCEPT ![r] = Idle]
  /\ UNCHANGED <<rows, resetToken, privileged>>

\* what the call decided on is no longer so: the secret is another one or, for
\* a reset, was confirmed or got codes since
Outdated(r) ==
  \/ txn[r].secret.generation # secret.generation
  \/ /\ txn[r].op = "reset"
     /\ \/ txn[r].secret.confirmed # secret.confirmed
        \/ \E c \in Codes : AcceptsCode(c) /\ c \notin txn[r].seen

Cross(r) == crossed' = IF Outdated(r) THEN crossed \union {secret'.generation} ELSE crossed

Unused == {c \in Codes : code[c] = NoCode}

\* a new row gets the next id: which one it gets makes no difference
FreshCode(c) == c \in Unused /\ \A d \in Unused : c <= d

\* _persist_recovery_codes; the rows that are kept stay as they are
Adding(kept, c, generation) ==
  [kept EXCEPT ![c] = [for |-> generation, state |-> "valid"]]

\* _purge_recovery_codes_in_session deletes the rows the call has seen
Purged(seen) == [c \in Codes |-> IF c \in seen THEN [code[c] EXCEPT !.state = "deleted"]
                                 ELSE code[c]]

-----------------------------------------------------------------------------
\* the first call generates a secret, later ones repeat it with more codes
StartEnrollment(r) == ~ secret.confirmed /\ Begin(r, "enroll", 0, 0)

\* one row for each user_id: the second insert of a secret fails
Enroll(r, c) ==
  /\ Commit(r, "enroll")
  /\ txn[r].secret.generation = 0 => secret.generation = 0
  /\ FreshCode(c)
  /\ secret' = IF secret.generation = 0 THEN [secret EXCEPT !.generation = 1] ELSE secret
  /\ code' = Adding(code, c, IF txn[r].secret.generation = 0 THEN 1 ELSE txn[r].secret.generation)
  /\ Cross(r)
  /\ UNCHANGED <<proven, opened, challenge>>

ConfirmEnrollment(r) ==
  /\ secret.generation # 0 /\ ~ secret.confirmed
  /\ Begin(r, "confirm", 0, 0)

\* confirmed_at is written, whatever secret the row has by now
Confirm(r) ==
  /\ Commit(r, "confirm")
  /\ secret' = [secret EXCEPT !.confirmed = TRUE]
  /\ proven' = txn[r].secret.generation
  /\ Cross(r)
  /\ UNCHANGED <<code, opened, challenge>>

StartChallenge(r) == Enrolled /\ Begin(r, "challenge", 0, 0)

InsertChallenge(r, h) ==
  /\ Commit(r, "challenge")
  /\ challenge[h] = "absent"
  /\ \A g \in Challenges : g < h => challenge[g] # "absent"
  /\ challenge' = [challenge EXCEPT ![h] = "pending"]
  /\ UNCHANGED <<secret, proven, code, opened, crossed>>

VerifyChallenge(r, h) ==
  /\ Enrolled
  /\ challenge[h] = "pending"
  /\ Begin(r, "verify", h, 0)

Verify(r) ==
  /\ Commit(r, "verify")
  /\ challenge' = [challenge EXCEPT ![txn[r].challenge] = "consumed"]
  /\ UNCHANGED <<secret, proven, code, opened, crossed>>

ConsumeRecoveryCode(r, h, c) ==
  /\ Enrolled
  /\ challenge[h] = "pending"
  /\ AcceptsCode(c)
  /\ Begin(r, "consume", h, c)

\* used_at and consumed_at are written, whoever wrote them since; the update of
\* a row that was deleted fails
Consume(r) ==
  /\ Commit(r, "consume")
  /\ txn[r].code \in Present
  /\ code' = [code EXCEPT ![txn[r].code].state = "used"]
  /\ challenge' = [challenge EXCEPT ![txn[r].challenge] = "consumed"]
  /\ opened' = [opened EXCEPT ![txn[r].code] = @ \union {txn[r].challenge}]
  /\ UNCHANGED <<secret, proven, crossed>>

\* a recovery code is the proof, or a password reset token, which stays usable
ResetMfa(r) ==
  /\ secret.generation # 0
  /\ resetToken \/ \E proof \in Codes : AcceptsCode(proof)
  /\ Begin(r, "reset", 0, 0)

\* confirmed_at is written only where the call has read one
Renewed(read) ==
  [generation |-> secret.generation + 1, confirmed |-> secret.confirmed /\ ~ read.confirmed]

\* seeded fault: the codes of the old secret are kept
ResetKeepsCodes(r, c) ==
  /\ Commit(r, "reset")
  /\ FreshCode(c)
  /\ secret' = Renewed(txn[r].secret)
  /\ code' = Adding(code, c, secret'.generation)
  /\ Cross(r)
  /\ UNCHANGED <<proven, opened, challenge>>

Reset(r, c) ==
  /\ Commit(r, "reset")
  /\ FreshCode(c)
  /\ secret' = Renewed(txn[r].secret)
  /\ code' = Adding(Purged(txn[r].seen), c, secret'.generation)
  /\ Cross(r)
  /\ UNCHANGED <<proven, opened, challenge>>

RotateRecoveryCodes(r) == Enrolled /\ Begin(r, "rotate", 0, 0)

Rotate(r, c) ==
  /\ Commit(r, "rotate")
  /\ FreshCode(c)
  /\ code' = Adding(Purged(txn[r].seen), c, txn[r].secret.generation)
  /\ UNCHANGED <<secret, proven, opened, challenge>>
  /\ Cross(r)

\* assert_privileged_access lets the account through
AccessAllowed == ~ privileged \/ Enrolled

\* time passes expires_at; reset tokens and roles change in Accounts
Elsewhere ==
  \/ /\ \E h \in Challenges : /\ challenge[h] = "pending"
                              /\ challenge' = [challenge EXCEPT ![h] = "expired"]
     /\ UNCHANGED <<secret, proven, code, opened, crossed, txn, resetToken, privileged>>
  \/ /\ \E c \in Codes : /\ AcceptsCode(c)
                         /\ code' = [code EXCEPT ![c].state = "expired"]
     /\ UNCHANGED <<secret, proven, opened, challenge, crossed, txn, resetToken, privileged>>
  \/ /\ resetToken' \in BOOLEAN
     /\ privileged' \in BOOLEAN
     /\ UNCHANGED <<rows, txn>>

Init ==
  /\ secret = NoSecret
  /\ proven = 0
  /\ code = [c \in Codes |-> NoCode]
  /\ opened = [c \in Codes |-> {}]
  /\ challenge = [h \in Challenges |-> "absent"]
  /\ crossed = {}
  /\ txn = [r \in Req |-> Idle]
  /\ resetToken = FALSE
  /\ privileged \in BOOLEAN

\* bound: the ids are used up, and with them the secrets that can be generated
Next ==
  \/ \E r \in Req :
       \/ StartEnrollment(r) \/ ConfirmEnrollment(r) \/ Confirm(r)
       \/ StartChallenge(r) \/ Verify(r) \/ Consume(r)
       \/ ResetMfa(r) \/ RotateRecoveryCodes(r)
       \/ Abort(r)
       \/ \E c \in Codes : Enroll(r, c) \/ Reset(r, c) \/ Rotate(r, c)
       \/ \E h \in Challenges :
            \/ InsertChallenge(r, h) \/ VerifyChallenge(r, h)
            \/ \E c \in Codes : ConsumeRecoveryCode(r, h, c)
  \/ Elsewhere

Spec == Init /\ [][Next]_vars

-----------------------------------------------------------------------------
(* Properties.                                                             *)

\* A privileged account gets through only after a code of its secret was
\* confirmed: after a reset, access waits for the confirmation of the new
\* secret, unless a call wrote to it that had read what the reset replaced.
AccessByProvenSecret ==
  AccessAllowed /\ privileged =>
    proven # 0 /\ (proven = secret.generation \/ secret.generation \in crossed)

\* A recovery code that is accepted was issued for the secret in force, so
\* that a reset leaves no way in from before it; but for the same calls.
CodesOfThisSecret ==
  \A c \in Codes :
    AcceptsCode(c) => code[c].for = secret.generation \/ secret.generation \in crossed

\* However calls overlap, a recovery code consumes no more challenges in its
\* life than there are calls at the same time: one, where they do not overlap.
UsesBounded == \A c \in Codes : Cardinality(opened[c]) <= Cardinality(Req)

=============================================================================
