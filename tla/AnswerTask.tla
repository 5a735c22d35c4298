----------------------------- MODULE AnswerTask -----------------------------
(***************************************************************************)
(* What AnswerOrchestrator.answer() promises its callers: every request    *)
(* that began ends, in a terminal state of AnswerOrchestrationStatus or    *)
(* with an exception, and what it ended with never changes.                *)
(***************************************************************************)
EXTENDS Naturals

CONSTANT Requests

\* "cancelled" and "raised" are exceptions: CancelledError and any other
Statuses == {"completed", "abstained", "escalated", "restricted", "failed"}
Outcomes == Statuses \union {"cancelled", "raised"}

VARIABLE outcome    \* "none" before the call, then "running", then an outcome

Init == outcome = [q \in Requests |-> "none"]

Begin(q) ==
  /\ outcome[q] = "none"
  /\ \E end \in {"running"} \union Outcomes : outcome' = [outcome EXCEPT ![q] = end]

Finish(q) ==
  /\ outcome[q] = "running"
  /\ \E end \in Outcomes : outcome' = [outcome EXCEPT ![q] = end]

Next == \E q \in Requests : Begin(q) \/ Finish(q)

Safety == Init /\ [][Next]_outcome

Spec == Safety /\ \A q \in Requests : WF_outcome(Finish(q))

=============================================================================
