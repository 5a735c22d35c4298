----------------------- MODULE DocumentStatusMachine -----------------------
(***************************************************************************)
(* What the status column of one document promises: it starts as a draft   *)
(* and only ever moves along an edge of DocumentStateMachine.TRANSITIONS.  *)
(* The services that write the column are shown to implement this.         *)
(***************************************************************************)
EXTENDS StateMachines

VARIABLE status

Init == status = "draft"

Next == \E to \in DocStatuses : CanMoveDoc(status, to) /\ status' = to

Spec == Init /\ [][Next]_status

=============================================================================
