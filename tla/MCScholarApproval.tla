------------------------ MODULE MCScholarApproval ------------------------
(* Small instances of ScholarApproval for TLC: calls that overlap.         *)
EXTENDS ScholarApproval, TLC

CONSTANTS r1, r2, uploader, reviewer, scholar, admin, first, escalated, a1, a2, a3

TwoCalls   == {r1, r2}
FourStaff  == {uploader, reviewer, scholar, admin}
Senior     == {scholar, admin}
Board      == {admin}
BothTasks  == {first, escalated}
LevelOf    == [t \in BothTasks |-> IF t = first THEN "initial" ELSE "scholar"]
CreatorOf  == [t \in BothTasks |-> uploader]
OneDecider == {reviewer}
Bounded    == {"later"}
ThreeIds   == {a1, a2, a3}

Symmetry == Permutations(TwoCalls) \union Permutations(ThreeIds)

=============================================================================
