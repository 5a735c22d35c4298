-------------------------- MODULE ScholarApproval --------------------------
(***************************************************************************)
(* The approval records of one document version (scholar_approval.py):     *)
(* who may approve it at which level, revocation and expiry.  A call reads *)
(* and validates in one step and commits in another, as in ReviewWorkflow. *)
(* Review tasks are never cancelled by any service, so the task's status   *)
(* never blocks an approval; its level and creator are fixed.              *)
(***************************************************************************)
EXTENDS Integers, FiniteSets

CONSTANTS
  Req,          \* the calls that may be in flight at the same time
  Users,        \* staff who may review
  Scholars,     \* those of them who are senior scholar or admin
  Admins,       \* those of them who are admin
  Uploader,     \* the user who created the document
  Tasks,        \* the version's review tasks
  TaskLevel,    \* their review_level
  TaskCreator,  \* their created_by
  Validities,   \* the valid_until an approval may be given
  Deciders,     \* those whose decisions on the review tasks are recorded
  Ids           \* the ids approval records may get (a bound on their number)

Levels == {"initial", "scholar", "board"}

ASSUME PeopleAssumption ==
  /\ Admins \subseteq Scholars
  /\ Scholars \subseteq Users
  /\ Uploader \in Users
  /\ Deciders \subseteq Users
ASSUME ValidityAssumption == Validities \subseteq {"never", "later"}

ASSUME TaskAssumption ==
  /\ TaskLevel \in [Tasks -> Levels]
  /\ TaskCreator \in [Tasks -> Users]

VARIABLES
  approvals,  \* review_approvals, by id
  deciders,   \* actors of the version's "approve" rows in review_decisions
  txn,        \* the calls in flight
  stale,      \* history: those another call has written under since they read
  late        \* history: the approvals that such calls have inserted

vars == <<approvals, deciders, txn, stale, late>>

-----------------------------------------------------------------------------
\* valid_until is NULL ("never"), later than now ("later") or past ("past")
Approval == [level: Levels, approver: Users, validUntil: {"never", "later", "past"},
             status: {"absent", "active", "expired", "revoked"}]

NoApproval == [level |-> "initial", approver |-> Uploader,
               validUntil |-> "never", status |-> "absent"]

ActiveIds   == {a \in Ids : approvals[a].status = "active"}
\* seeded fault: the expiry query forgets its status = "active" condition
EverLapsedIds == {a \in Ids : approvals[a].validUntil = "past"}
LapsedIds   == {a \in ActiveIds : approvals[a].validUntil = "past"}
CurrentIds  == ActiveIds \ LapsedIds

Idle == [op |-> "idle"]

Insert == [op: {"insert"}, id: Ids, row: Approval]
Update == [op: {"update"}, ids: SUBSET Ids, status: {"expired", "revoked"}]

Free(r) == txn[r] = Idle

Begin(r, call) ==
  /\ txn' = [txn EXCEPT ![r] = call]
  /\ UNCHANGED <<approvals, deciders, stale, late>>

Abort(r) ==
  /\ ~ Free(r)
  /\ txn' = [txn EXCEPT ![r] = Idle]
  /\ stale' = stale \ {r}
  /\ UNCHANGED <<approvals, deciders, late>>

\* the calls in flight that are left with what they read before r's write
Overtaken(r) == stale' = {q \in Req : q # r /\ ~ Free(q)}

\* seeded fault: the unique index is missing from the schema
NoUniqueLevel(rows) == TRUE

\* uq_review_approvals_active_level
UniqueActiveLevel(rows) ==
  \A a, b \in Ids :
    /\ rows[a].status = "active"
    /\ rows[b].status = "active"
    /\ rows[a].level = rows[b].level
    => a = b

CommitInsert(r) ==
  LET rows == [approvals EXCEPT ![txn[r].id] = txn[r].row]
  IN  /\ txn[r].op = "insert"
      /\ UniqueActiveLevel(rows)
      /\ approvals' = rows
      /\ txn' = [txn EXCEPT ![r] = Idle]
      /\ Overtaken(r)
      /\ late' = IF r \in stale THEN late \union {txn[r].id} ELSE late
      /\ UNCHANGED deciders

CommitUpdate(r) ==
  /\ txn[r].op = "update"
  /\ approvals' = [a \in Ids |-> IF a \in txn[r].ids
                                 THEN [approvals[a] EXCEPT !.status = txn[r].status]
                                 ELSE approvals[a]]
  /\ txn' = [txn EXCEPT ![r] = Idle]
  /\ Overtaken(r)
  /\ UNCHANGED <<deciders, late>>

-----------------------------------------------------------------------------
LevelRole(u, level) ==
  /\ level = "board"   => u \in Admins
  /\ level = "scholar" => u \in Scholars

TaskAllows(t, level) == level = "initial" \/ TaskLevel[t] \in {"scholar", "board"}

\* seeded fault: approvers of the other levels are not looked up
DecidersOnly(u, t) ==
  /\ u \notin {Uploader, TaskCreator[t]}
  /\ u \notin deciders

SeparateDuties(u, t) ==
  /\ u \notin {Uploader, TaskCreator[t]}
  /\ u \notin deciders
  /\ u \notin {approvals[a].approver : a \in ActiveIds}

\* an id that no record and no call in flight uses
FreshId(a) ==
  /\ approvals[a] = NoApproval
  /\ \A r \in Req : txn[r].op = "insert" => txn[r].id # a

Approve(r, u, t, level, validUntil, a) ==
  /\ Free(r)
  /\ LevelRole(u, level)
  /\ TaskAllows(t, level)
  /\ SeparateDuties(u, t)
  /\ \A b \in ActiveIds : approvals[b].level # level
  /\ FreshId(a)
  /\ Begin(r, [op |-> "insert", id |-> a,
               row |-> [level |-> level, approver |-> u,
                        validUntil |-> validUntil, status |-> "active"]])

Revoke(r, u, a) ==
  /\ Free(r)
  /\ u \in Scholars
  /\ approvals[a].status = "active"
  /\ Begin(r, [op |-> "update", ids |-> {a}, status |-> "revoked"])

ExpireApprovals(r) ==
  /\ Free(r)
  /\ LapsedIds # {}
  /\ Begin(r, [op |-> "update", ids |-> LapsedIds, status |-> "expired"])

\* time passes a record's valid_until
Lapse(a) ==
  /\ approvals[a].status # "absent"
  /\ approvals[a].validUntil = "later"
  /\ approvals' = [approvals EXCEPT ![a].validUntil = "past"]
  /\ UNCHANGED <<deciders, txn, stale, late>>

\* document_review.decide records an approving decision (ReviewWorkflow)
RecordDecision(r, u) ==
  /\ Free(r)
  /\ u # Uploader
  /\ deciders' = deciders \union {u}
  /\ Overtaken(r)
  /\ UNCHANGED <<approvals, txn, late>>

-----------------------------------------------------------------------------
Init ==
  /\ approvals = [a \in Ids |-> NoApproval]
  /\ deciders = {}
  /\ txn = [r \in Req |-> Idle]
  /\ stale = {} /\ late = {}

Next ==
  \/ \E a \in Ids : Lapse(a)
  \/ \E r \in Req :
       \/ \E u \in Deciders : RecordDecision(r, u)
       \/ CommitInsert(r)
       \/ CommitUpdate(r)
       \/ Abort(r)
       \/ ExpireApprovals(r)
       \/ \E u \in Users, a \in Ids : Revoke(r, u, a)
       \/ \E u \in Users, t \in Tasks, level \in Levels, a \in Ids,
             validUntil \in Validities :
            Approve(r, u, t, level, validUntil, a)

Spec == Init /\ [][Next]_vars

-----------------------------------------------------------------------------
(* get_requirement: the levels a content risk needs and those that count.  *)

RequiredLevels(risk) ==
  CASE risk = "routine"    -> {"initial"}
    [] risk = "sensitive"  -> {"initial", "scholar"}
    [] risk = "restricted" -> {"initial", "scholar", "board"}

SatisfiedLevels == {approvals[a].level : a \in CurrentIds}

ReadyForPublish(risk) == RequiredLevels(risk) \subseteq SatisfiedLevels

-----------------------------------------------------------------------------
(* Properties.                                                             *)

\* Every record and every call in flight is well formed.
TypeOK ==
  /\ approvals \in [Ids -> Approval]
  /\ deciders \subseteq Users
  /\ txn \in [Req -> {Idle} \union Insert \union Update]
  /\ stale \subseteq Req /\ late \subseteq Ids

\* However calls interleave, a level of a version has one active approval.
OneActivePerLevel ==
  \A a, b \in ActiveIds : a # b => approvals[a].level # approvals[b].level

\* Two active approvals of a version are by different people (the levels of
\* docs/governance/scholar-approval.md cannot be satisfied by one actor), unless
\* one of them was inserted by a call that another had overtaken.
DistinctApprovers ==
  \A a, b \in ActiveIds :
    approvals[a].approver = approvals[b].approver => a = b \/ {a, b} \intersect late # {}

\* Whatever overlaps, no active approval is the uploader's or by somebody without
\* the role of its level; and a version that counts as ready at the "restricted"
\* risk was approved by three people, if none of them approved in an overtaken call.
RestrictedNeedsThree ==
  /\ \A a \in ActiveIds :
       /\ approvals[a].approver # Uploader
       /\ approvals[a].level = "board" => approvals[a].approver \in Admins
       /\ approvals[a].level = "scholar" => approvals[a].approver \in Scholars
  /\ ReadyForPublish("restricted") /\ CurrentIds \intersect late = {} =>
       Cardinality({approvals[a].approver : a \in CurrentIds}) >= 3

\* the commit of a call that another has written under since it read
StaleCommit == \E r \in stale : CommitUpdate(r)

\* Expiry and revocation are final: a record that left "active" never counts
\* again, and only an overtaken call changes whether it was expired or revoked.
TerminalIsFinal ==
  [][\A a \in Ids : approvals[a].status \in {"expired", "revoked"} =>
       /\ approvals'[a].status \in {"expired", "revoked"}
       /\ StaleCommit \/ approvals'[a].status = approvals[a].status]_vars

=============================================================================
