--------------------------- MODULE FeedbackReview ---------------------------
(***************************************************************************)
(* Reports on answers (feedback.py) and their triage (feedback_review.py). *)
(* No call checks a version: it loads the row in one step and writes the   *)
(* columns it changed in the next.                                         *)
(***************************************************************************)
EXTENDS Integers

CONSTANTS
  Req,        \* the calls that may be in flight at the same time
  Reports,    \* ids of reports (a bound)
  Reviewers,
  NoReviewer

VARIABLES
  report,  \* feedback rows
  txn      \* the calls in flight: the columns they will write

vars == <<report, txn>>

-----------------------------------------------------------------------------
Terminal == {"resolved", "dismissed"}
Active   == {"open", "in_review"}

\* resolution holds which of the two outcomes its text was written for
NoReport == [status |-> "absent", reviewer |-> NoReviewer, resolution |-> "none"]

Idle == [id |-> "none", columns |-> [none |-> "none"]]

Free(r) == txn[r] = Idle

SubmitFeedback(f) ==
  /\ report[f] = NoReport
  /\ report' = [report EXCEPT ![f].status = "open"]
  /\ UNCHANGED txn

\* _get_active and _guard_terminal
NotTerminal(f) == report[f] # NoReport /\ report[f].status \notin Terminal

\* the call will write these columns of f
Writes(r, f, columns) == txn' = [txn EXCEPT ![r] = [id |-> f, columns |-> columns]]

\* assigning moves the report to review, unassigning back to the queue
StatusAfterAssign(status, to) ==
  IF to # NoReviewer /\ status = "open" THEN "in_review"
  ELSE IF to = NoReviewer /\ status = "in_review" THEN "open" ELSE status

\* only what changes is written
Assign(r, f, to) ==
  /\ Free(r) /\ NotTerminal(f)
  /\ LET next == StatusAfterAssign(report[f].status, to)
     IN  IF next # report[f].status
         THEN Writes(r, f, [reviewer |-> to, status |-> next])
         ELSE Writes(r, f, [reviewer |-> to])
  /\ UNCHANGED report

Resolve(r, f, dismissed) ==
  /\ Free(r) /\ NotTerminal(f)
  /\ LET outcome == IF dismissed THEN "dismissed" ELSE "resolved"
     IN  Writes(r, f, [status |-> outcome, resolution |-> outcome])
  /\ UNCHANGED report

\* seeded fault: the resolution of a dismissal is not kept
WrittenWithoutResolution(row, columns) ==
  [c \in DOMAIN row |->
     IF c \in DOMAIN columns /\ ~ (c = "resolution" /\ columns[c] = "dismissed")
     THEN columns[c] ELSE row[c]]

Written(row, columns) ==
  [c \in DOMAIN row |-> IF c \in DOMAIN columns THEN columns[c] ELSE row[c]]

Commit(r) ==
  /\ ~ Free(r)
  /\ report' = [report EXCEPT ![txn[r].id] = Written(@, txn[r].columns)]
  /\ txn' = [txn EXCEPT ![r] = Idle]

Abort(r) ==
  /\ ~ Free(r)
  /\ txn' = [txn EXCEPT ![r] = Idle]
  /\ UNCHANGED report

-----------------------------------------------------------------------------
Init ==
  /\ report = [f \in Reports |-> NoReport]
  /\ txn = [r \in Req |-> Idle]

Next ==
  \/ \E f \in Reports : SubmitFeedback(f)
  \/ \E r \in Req :
       \/ \E f \in Reports :
            \/ \E to \in Reviewers \union {NoReviewer} : Assign(r, f, to)
            \/ \E dismissed \in BOOLEAN : Resolve(r, f, dismissed)
       \/ Commit(r) \/ Abort(r)

Spec == Init /\ [][Next]_vars

-----------------------------------------------------------------------------
(* Properties.                                                             *)

\* However calls overlap, a closed report carries the resolution of the very
\* call that closed it, never that of the other outcome.
ClosedByItsResolution ==
  \A f \in Reports : report[f].status \in Terminal => report[f].resolution = report[f].status

\* While calls do not overlap, the reports in review are those with a reviewer,
\* and no report with a resolution is in the queue again.
QueueFollowsReviewer ==
  \A f \in Reports :
    /\ report[f].status = "open" => report[f].reviewer = NoReviewer
    /\ report[f].status = "in_review" => report[f].reviewer # NoReviewer
    /\ report[f].status \in Active => report[f].resolution = "none"

=============================================================================
