--------------------------- MODULE StateMachines ---------------------------
(***************************************************************************)
(* The transition tables of zayd_common/state_machines.py.  A service that *)
(* writes a status column first asks the table whether the move is allowed *)
(* (BaseStateMachine.validate_transition); the table itself keeps no state.*)
(***************************************************************************)

DocStatuses ==
  {"draft", "uploaded", "parsing", "ai_extracted", "in_review",
   "changes_requested", "rejected", "scholar_review", "scholar_approved",
   "published", "suspended", "archived", "new_version"}

DocTransitions ==
  { <<"draft", "uploaded">>,
    <<"uploaded", "parsing">>,
    <<"parsing", "ai_extracted">>,
    <<"parsing", "rejected">>,
    <<"ai_extracted", "in_review">>,
    <<"in_review", "changes_requested">>,
    <<"in_review", "rejected">>,
    <<"in_review", "scholar_review">>,
    <<"changes_requested", "in_review">>,
    <<"scholar_review", "changes_requested">>,
    <<"scholar_review", "rejected">>,
    <<"scholar_review", "scholar_approved">>,
    <<"scholar_approved", "published">>,
    <<"published", "suspended">>,
    <<"published", "archived">>,
    <<"published", "new_version">>,
    <<"suspended", "published">>,
    <<"suspended", "archived">>,
    <<"suspended", "new_version">> }

TaskStatuses == {"open", "in_progress", "completed", "cancelled"}

TaskTransitions ==
  { <<"open", "in_progress">>,
    <<"open", "completed">>,
    <<"open", "cancelled">>,
    <<"in_progress", "completed">>,
    <<"in_progress", "cancelled">> }

CanMoveDoc(from, to)  == <<from, to>> \in DocTransitions
CanMoveTask(from, to) == <<from, to>> \in TaskTransitions

=============================================================================
