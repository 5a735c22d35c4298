------------------------- MODULE AnswerInvalidation -------------------------
(***************************************************************************)
(* Invalidating answers.  A reviewer names one answer and a reason, and    *)
(* the call is idempotent by its key, sends a notice and keeps a record    *)
(* (answer_invalidation.py); withdrawing content - suspending, archiving   *)
(* or rolling back a document (document_lifecycle.py), invalidating a      *)
(* citation (citation_registry.py) - reaches all answers that were built   *)
(* on it and keeps no record.  Both read the answers, add their warning    *)
(* to the JSON and write it back as a whole.  A key stands for the call    *)
(* and the reason made with it, which its client repeats.                  *)
(***************************************************************************)
EXTENDS Integers, FiniteSets

CONSTANTS
  Req,          \* the calls that may be in flight at the same time
  Answers, Keys,
  AnswerOf,     \* the answer the caller of a key means
  Withdrawals,  \* the withdrawals of content
  AnswersOn,    \* the answers whose retrieval results name the content
  MaxNotices    \* bound on the notices sent for a key

VARIABLES
  answer,     \* answers: invalidated_at, and the reasons among the warnings
  record,     \* the keys with a row in answer_invalidations
  notices,    \* how many notices were sent for each key
  withdrawn,  \* history: the withdrawals that were committed
  crossed,    \* history: answers written while another call had read them
  now,        \* the number of calls that have begun
  txn         \* the calls in flight

vars == <<answer, record, notices, withdrawn, crossed, now, txn>>

-----------------------------------------------------------------------------
Reasons == Keys \union Withdrawals

MaxCalls == MaxNotices * Cardinality(Reasons)

Idle == [call |-> "none"]

Free(r) == txn[r] = Idle

Touched(reason) == IF reason \in Keys THEN {AnswerOf[reason]} ELSE AnswersOn[reason]

\* the calls other than r that have read the answer a
ReadBy(a, r) == {q \in Req \ {r} : ~ Free(q) /\ a \in Touched(txn[q].reason)}

\* the answers as a call has read them
Begin(r, call, reason) ==
  /\ Free(r)
  /\ now < MaxCalls /\ now' = now + 1
  /\ txn' = [txn EXCEPT ![r] =
       [call |-> call, reason |-> reason, time |-> now + 1, seen |-> answer]]
  /\ UNCHANGED <<answer, record, notices, withdrawn, crossed>>

Invalidate(r, k) == k \notin record /\ Begin(r, "notify", k)

Notify(r) ==
  LET k == txn[r].reason
  IN  /\ txn[r].call = "notify" /\ notices[k] < MaxNotices
      /\ notices' = [notices EXCEPT ![k] = @ + 1]
      /\ txn' = [txn EXCEPT ![r].call = "record"]
      /\ UNCHANGED <<answer, record, withdrawn, crossed, now>>

\* the content may be withdrawn again
Withdraw(r, w) == Begin(r, "withdraw", w)

\* seeded fault: every invalidation sets the time again
InvalidatedAtRenewed(a, t) == t.time

\* the time is written by a call that has read none
InvalidatedAt(a, t) == IF t.seen[a].at = 0 THEN t.time ELSE answer[a].at

\* the warnings are read, extended and written back as a whole
Write(r) ==
  LET t == txn[r]
  IN  /\ answer' = [a \in Answers |->
           IF a \notin Touched(t.reason) THEN answer[a]
           ELSE [at |-> InvalidatedAt(a, t), warnings |-> t.seen[a].warnings \union {t.reason}]]
      /\ crossed' = crossed \union {a \in Touched(t.reason) : ReadBy(a, r) # {}}

Commit(r) ==
  /\ \/ /\ txn[r].call = "record" /\ txn[r].reason \notin record
        /\ record' = record \union {txn[r].reason}
        /\ UNCHANGED withdrawn
     \/ /\ txn[r].call = "withdraw"
        /\ withdrawn' = withdrawn \union {txn[r].reason}
        /\ UNCHANGED record
  /\ Write(r)
  /\ txn' = [txn EXCEPT ![r] = Idle]
  /\ UNCHANGED <<notices, now>>

\* the unique key refuses the record, the notifier or the database fails, or the
\* process ends
Abort(r) ==
  /\ ~ Free(r)
  /\ txn' = [txn EXCEPT ![r] = Idle]
  /\ UNCHANGED <<answer, record, notices, withdrawn, crossed, now>>

Init ==
  /\ answer = [a \in Answers |-> [at |-> 0, warnings |-> {}]]
  /\ record = {} /\ withdrawn = {} /\ crossed = {}
  /\ notices = [k \in Keys |-> 0]
  /\ now = 0
  /\ txn = [r \in Req |-> Idle]

Next ==
  \E r \in Req :
    \/ \E k \in Keys : Invalidate(r, k)
    \/ \E w \in Withdrawals : Withdraw(r, w)
    \/ Notify(r) \/ Commit(r) \/ Abort(r)

Spec == Init /\ [][Next]_vars

-----------------------------------------------------------------------------
(* Properties.                                                             *)

\* what an answer was invalidated for
ReasonsFor(a) == {reason \in record \union withdrawn : a \in Touched(reason)}

\* However calls overlap, fail and are repeated: an answer is invalidated and
\* carries a warning exactly when a record says so or content it was built on
\* was withdrawn, every warning it carries has such a reason, and a record's
\* notice went out.
InvalidationHasReason ==
  /\ \A a \in Answers :
       /\ answer[a].at # 0 <=> ReasonsFor(a) # {}
       /\ answer[a].warnings # {} <=> ReasonsFor(a) # {}
       /\ answer[a].warnings \subseteq ReasonsFor(a)
  /\ \A k \in record : notices[k] > 0

\* docs/operations/content-suspension.md: each affected answer receives an entry
\* in its warnings.  A reason is lost only where one call wrote the answer while
\* another had read it: of the two the later one writes back what it has read.
EveryReasonWarns == \A a \in Answers \ crossed : answer[a].warnings = ReasonsFor(a)

\* Unless calls crossed on an answer, the time of its invalidation stays.
TimesStay == \A a \in Answers \ crossed' : answer[a].at # 0 => answer'[a].at = answer[a].at

=============================================================================
