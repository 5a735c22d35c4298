-------------------------- MODULE MCReviewWorkflow --------------------------
(* Small instances of ReviewWorkflow for TLC.                              *)
EXTENDS ReviewWorkflow, TLC

CONSTANTS r1, r2, uploader, scholar, noUser, t1, t2, x0, x1

OneTask  == {t1}
TwoCalls == {r1, r2}
Staff    == {uploader, scholar}
Scholars == {scholar}
TwoTasks == {t1, t2}
TwoTexts == {x0, x1}

CallSymmetry == Permutations(TwoCalls)
Symmetry     == CallSymmetry \union Permutations(TwoTasks)

\* the call has read a task to review it, or is about to record an edit or a decision
Reviewing(r) ==
  \/ txn[r].op \in {"loaded", "drafting"}
  \/ txn[r].op = "write" /\ (txn[r].adds # {} \/ txn[r].decides # << >>)

\* bound: no call spans the preparation of the document; of two calls in flight
\* during the review one is a reviewer's (a draft allows any two); and after the
\* last decision only the calls go on that are in flight then
RacesWithAReview ==
  /\ docStatus \in {"uploaded", "parsing", "ai_extracted"} => \A r \in Req : Free(r)
  /\ docStatus = "draft" \/ \E r \in Req : Free(r) \/ Reviewing(r)
  /\ Len(decisions) = MaxDecisions =>
       \A r \in Req : Free(r) \/ r \in stale \/ txn[r].op = "escalated"

\* a row or a call in flight has the task's id
InUse(t) == task[t] # NoTask \/ \E r \in Req : txn[r].op = "write" /\ txn[r].t = t

\* bound: a task is edited during the review, before the last decision, and while
\* there is no other
EditsOfOneTask ==
  revisions # {} \/ (\E r \in Req : txn[r].op = "drafting") =>
    /\ docStatus \notin {"draft", "uploaded", "parsing", "ai_extracted"}
    /\ Len(decisions) < MaxDecisions
    /\ \A t, u \in Tasks : InUse(t) /\ InUse(u) => t = u

=============================================================================
