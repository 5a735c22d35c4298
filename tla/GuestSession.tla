---------------------------- MODULE GuestSession ----------------------------
(***************************************************************************)
(* One guest session (guest.py): its message quota, its revocation and its *)
(* conversion to an account.  consume_quota validates in one transaction   *)
(* and counts in another, which loads the row and commits it; conversion   *)
(* validates, registers the account and marks the session in three.        *)
(***************************************************************************)
EXTENDS Integers, FiniteSets

CONSTANTS
  Req,     \* the calls that may be in flight at the same time
  Quota,   \* message_quota
  MaxSent  \* bound: no message once this many were sent

VARIABLES
  guest,   \* guest_sessions: messages_used, revoked_at, expired, converted
  sent,    \* history: messages that were let through
  late,    \* history: those let through after the session was revoked
  txn      \* the calls in flight, with the messages_used they loaded

vars == <<guest, sent, late, txn>>

Idle == [op |-> "idle", used |-> 0]

Free(r) == txn[r] = Idle

Step(r, op, used) == txn' = [txn EXCEPT ![r] = [op |-> op, used |-> used]]

\* validate_session
Valid == ~ guest.revoked /\ ~ guest.expired

\* consume_quota: the check, in a transaction of its own
CheckQuota(r) ==
  /\ Free(r)
  /\ Valid
  /\ guest.used < Quota
  /\ sent < MaxSent
  /\ Step(r, "checked", 0)
  /\ UNCHANGED <<guest, sent, late>>

\* seeded fault: the count is not written back
CountNothing(r) ==
  /\ txn[r].op = "loaded"
  /\ guest' = guest
  /\ sent' = sent + 1
  /\ late' = IF guest.revoked THEN late + 1 ELSE late
  /\ Step(r, "idle", 0)

\* the second transaction: it loads the row, whatever became of it, ...
LoadGuest(r) ==
  /\ txn[r].op = "checked"
  /\ Step(r, "loaded", guest.used)
  /\ UNCHANGED <<guest, sent, late>>

\* ... and commits the count it loaded plus one
Count(r) ==
  /\ txn[r].op = "loaded"
  /\ guest' = [guest EXCEPT !.used = txn[r].used + 1]
  /\ sent' = sent + 1
  /\ late' = IF guest.revoked THEN late + 1 ELSE late
  /\ Step(r, "idle", 0)

Revoke(r) ==
  /\ Free(r)
  /\ ~ guest.revoked
  /\ guest' = [guest EXCEPT !.revoked = TRUE]
  /\ UNCHANGED <<sent, late, txn>>

\* convert_to_user
StartConversion(r) ==
  /\ Free(r)
  /\ Valid
  /\ ~ guest.converted
  /\ Step(r, "registering", 0)
  /\ UNCHANGED <<guest, sent, late>>

\* AuthService.register has committed the account (Accounts)
Registered(r) ==
  /\ txn[r].op = "registering"
  /\ Step(r, "registered", 0)
  /\ UNCHANGED <<guest, sent, late>>

MarkConverted(r) ==
  /\ txn[r].op = "registered"
  /\ guest' = [guest EXCEPT !.converted = TRUE, !.revoked = TRUE]
  /\ Step(r, "idle", 0)
  /\ UNCHANGED <<sent, late>>

\* the address is taken, a commit fails, or the process stops
Abort(r) ==
  /\ ~ Free(r)
  /\ Step(r, "idle", 0)
  /\ UNCHANGED <<guest, sent, late>>

Expire ==
  /\ ~ guest.expired
  /\ guest' = [guest EXCEPT !.expired = TRUE]
  /\ UNCHANGED <<sent, late, txn>>

Init ==
  /\ guest = [used |-> 0, revoked |-> FALSE, expired |-> FALSE, converted |-> FALSE]
  /\ sent = 0
  /\ late = 0
  /\ txn = [r \in Req |-> Idle]

Next ==
  \/ Expire
  \/ \E r \in Req :
       \/ CheckQuota(r) \/ LoadGuest(r) \/ Count(r)
       \/ Revoke(r)
       \/ StartConversion(r) \/ Registered(r) \/ MarkConverted(r)
       \/ Abort(r)

Spec == Init /\ [][Next]_vars

-----------------------------------------------------------------------------
(* Properties.                                                             *)

\* While calls do not overlap, a guest sends no more messages than the quota.
QuotaHolds == sent <= Quota

\* A guest sends more than the quota and one message per overlapping call only
\* through counts that overwrote each other: messages_used then falls short of
\* what was sent, and the check lets calls through that it should not.
OvershootBounded == sent <= Quota + Cardinality(Req) - 1 \/ guest.used < sent

\* After a session is revoked or converted only calls that had passed the
\* check before still get through, and each of them once.
LateBounded == late <= Cardinality(Req) - 1

=============================================================================
