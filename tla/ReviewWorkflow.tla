--------------------------- MODULE ReviewWorkflow ---------------------------
(***************************************************************************)
(* The review of one document version: the review task queue               *)
(* (review_tasks.py, review_queue.py) and the reviewer's edits and         *)
(* decisions (document_review.py).                                         *)
(*                                                                         *)
(* A call is one transaction of a unit of work (UnitOfWork): it reads rows,*)
(* validates them, computes new column values and commits.  The API runs   *)
(* as several replicas, so a call is modelled as several steps: it reads   *)
(* and validates, then Commit writes.  In between other calls may commit,  *)
(* and the call itself may be abandoned.  An edit and a decision read more *)
(* than one table; under READ COMMITTED each of their queries sees what is *)
(* committed by then, so each is a step of its own.                        *)
(***************************************************************************)
EXTENDS Integers, FiniteSets, Sequences, StateMachines, UnitOfWork

CONSTANTS
  Req,          \* the calls that may be in flight at the same time
  Users,        \* staff who hold the reviewer role or a privileged one
  Privileged,   \* those of them who are admin or senior scholar
  Uploader,     \* the user who created the document
  NoUser,       \* the NULL of assigned_to
  Tasks,        \* the ids review tasks may get
  Texts,        \* the texts a version may be edited to
  OriginalText, \* the extracted text of the version
  MaxRow,       \* bound: no edit of a task whose row_version reached this
  MaxDecisions  \* bound: no decision once this many are recorded

ASSUME UsersAssumption ==
  /\ Privileged \subseteq Users
  /\ Uploader \in Users
  /\ NoUser \notin Users

ASSUME TextAssumption == OriginalText \in Texts

ASSUME BoundAssumption == MaxRow \in Nat /\ MaxDecisions \in Nat

VARIABLES
  docStatus,   \* documents.review_status
  task,        \* review_tasks, by id
  revisions,   \* review_revisions
  decisions,   \* review_decisions, in commit order
  txn,         \* the calls in flight
  stale,       \* history: those that have read a row another call has written since
  crossed      \* history: the tasks that such calls have written

vars == <<docStatus, task, revisions, decisions, txn, stale, crossed>>

-----------------------------------------------------------------------------
(* Rows.                                                                   *)

Levels  == {"initial", "scholar"}
Choices == {"approve", "request_changes", "reject"}

TaskRow == [level: Levels, status: TaskStatuses \union {"absent"},
            assignee: Users \union {NoUser}, createdBy: Users, row: Nat]

NoTask == [level |-> "initial", status |-> "absent", assignee |-> NoUser,
           createdBy |-> Uploader, row |-> 0]

NewTask(level, actor) ==
  [level |-> level, status |-> "open", assignee |-> NoUser,
   createdBy |-> actor, row |-> 1]

Revision == [task: Tasks, number: Nat, before: Texts, after: Texts]
Decision == [task: Tasks, actor: Users, choice: Choices]

\* _ACTIVE_STATUSES; seeded fault: a completed task still counts as active
ActiveAfterDecision(t) == task[t].status \in {"open", "in_progress", "completed"}

Active(t) == task[t].status \in {"open", "in_progress"}

RevisionsOf(t) == {v \in revisions : v.task = t}

\* max(revision_number) of the task, 0 when it has no revision
LatestNumber(t) ==
  IF RevisionsOf(t) = {} THEN 0
  ELSE CHOOSE n \in {v.number : v \in RevisionsOf(t)} :
         \A v \in RevisionsOf(t) : v.number <= n

\* seeded fault: an edit starts from the extracted text, not the latest revision
DraftFromVersion(t) == OriginalText

\* the text the task's draft shows: the latest revision, or the version's text
DraftText(t) ==
  IF RevisionsOf(t) = {} THEN OriginalText
  ELSE (CHOOSE v \in RevisionsOf(t) : v.number = LatestNumber(t)).after

-----------------------------------------------------------------------------
(* Calls in flight.  A call that is ready to commit holds the id of the    *)
(* task row it loaded, the columns it changed and their new values (the    *)
(* others hold NoTask's), the new document status or "unchanged", and the  *)
(* revisions and decisions it inserts.                                     *)

Idle == [op |-> "idle"]

\* escalate_task commits its check before it starts to create the new task
Escalation == [op: {"escalated"}, actor: Users]

\* document_review.py has loaded the task row; then, for an edit, the draft text
Loaded   == [op: {"loaded"}, actor: Users, t: Tasks, row: TaskRow]
Drafting == [op: {"drafting"}, actor: Users, t: Tasks, row: TaskRow, before: Texts]

Columns == {"level", "status", "assignee", "createdBy", "row"}

Write == [op: {"write"}, t: Tasks, changed: SUBSET Columns, new: TaskRow,
          doc: DocStatuses \union {"unchanged"},
          adds: SUBSET Revision, decides: Seq(Decision)]

\* the call that turns the task row it loaded into a new one
RowWrite(t, loaded, new) ==
  [op |-> "write", t |-> t, changed |-> Changed(loaded, new),
   new |-> Assigned(loaded, new, NoTask),
   doc |-> "unchanged", adds |-> {}, decides |-> << >>]

TaskWrite(t, new) == RowWrite(t, task[t], new)

Free(r) == txn[r] = Idle

Begin(r, call) ==
  /\ txn' = [txn EXCEPT ![r] = call]
  /\ UNCHANGED <<docStatus, task, revisions, decisions, stale, crossed>>

Abort(r) ==
  /\ ~ Free(r)
  /\ txn' = [txn EXCEPT ![r] = Idle]
  /\ stale' = stale \ {r}
  /\ UNCHANGED <<docStatus, task, revisions, decisions, crossed>>

\* seeded faults: the unique indexes are missing from the schema
NoUniqueLevel(tasks) == TRUE
NoUniqueNumber(adds) == TRUE

\* uq_review_tasks_open_level: one open or in-progress task per level
UniqueActiveLevel(tasks) ==
  \A t1, t2 \in Tasks :
    /\ tasks[t1].status \in {"open", "in_progress"}
    /\ tasks[t2].status \in {"open", "in_progress"}
    /\ tasks[t1].level = tasks[t2].level
    => t1 = t2

\* uq_review_revisions_task_number
UniqueNumbers(adds) ==
  \A v \in adds, w \in revisions :
    ~ (v.task = w.task /\ v.number = w.number)

\* the calls that have read the task row or the document status r's commit writes
Outdated(r) ==
  {q \in Req : /\ txn[q].op \in {"loaded", "drafting", "write"}
               /\ txn[q].t = txn[r].t \/ txn[r].doc # "unchanged"}

Commit(r) ==
  LET c     == txn[r]
      tasks == [task EXCEPT ![c.t] = Flush(task[c.t], c.changed, c.new)]
  IN  /\ c.op = "write"
      /\ UniqueActiveLevel(tasks)
      /\ UniqueNumbers(c.adds)
      /\ task' = tasks
      /\ docStatus' = IF c.doc = "unchanged" THEN docStatus ELSE c.doc
      /\ revisions' = revisions \union c.adds
      /\ decisions' = decisions \o c.decides
      /\ txn' = [txn EXCEPT ![r] = Idle]
      /\ stale' = (stale \union Outdated(r)) \ {r}
      /\ crossed' = IF r \in stale THEN crossed \union {c.t} ELSE crossed

-----------------------------------------------------------------------------
(* review_tasks.py and review_queue.py                                     *)

\* _ELIGIBLE_REVIEW_STATUSES also names "revision_requested", which is not
\* a document status.
EligibleForReview == docStatus \in {"draft", "revision_requested"}

\* a task id that no row and no call in flight uses
FreshTask(t) ==
  /\ task[t] = NoTask
  /\ \A r \in Req : txn[r].op = "write" => txn[r].t # t

CanCreateTask(level) ==
  /\ EligibleForReview
  /\ \A t \in Tasks : ~ (Active(t) /\ task[t].level = level)

CreateTask(r, u, level, t) ==
  /\ Free(r)
  /\ CanCreateTask(level)
  /\ FreshTask(t)
  /\ Begin(r, TaskWrite(t, NewTask(level, u)))

Claim(r, u, t) ==
  /\ Free(r)
  /\ task[t].assignee \in {NoUser, u}
  /\ Active(t)
  /\ Begin(r, TaskWrite(t, [task[t] EXCEPT !.status = "in_progress",
                                           !.assignee = u]))

\* seeded fault: release writes a status the state machine does not know
ReleaseUnknownStatus(r, u, t) ==
  /\ Free(r)
  /\ task[t].assignee = u
  /\ Active(t)
  /\ Begin(r, TaskWrite(t, [task[t] EXCEPT !.status = "released",
                                           !.assignee = NoUser]))

Release(r, u, t) ==
  /\ Free(r)
  /\ task[t].assignee = u \/ u \in Privileged
  /\ Active(t)
  /\ Begin(r, TaskWrite(t, [task[t] EXCEPT !.status = "open",
                                           !.assignee = NoUser]))

Assign(r, u, t, assignee) ==
  /\ Free(r)
  /\ u \in Privileged
  /\ Active(t)
  /\ Begin(r, TaskWrite(t, [task[t] EXCEPT !.status = "in_progress",
                                           !.assignee = assignee]))

\* the first transaction of escalate_task: it checks and commits
Escalate(r, u, t) ==
  /\ Free(r)
  /\ Active(t)
  /\ task[t].assignee = u \/ u \in Privileged
  /\ Begin(r, [op |-> "escalated", actor |-> u])

\* the second one: create_review_task at the scholar level
CreateEscalated(r, t) ==
  /\ txn[r].op = "escalated"
  /\ CanCreateTask("scholar")
  /\ FreshTask(t)
  /\ txn' = [txn EXCEPT ![r] =
               TaskWrite(t, NewTask("scholar", txn[r].actor))]
  /\ UNCHANGED <<docStatus, task, revisions, decisions, stale, crossed>>

-----------------------------------------------------------------------------
(* document_review.py                                                      *)

Accessible(u, t) ==
  /\ task[t].assignee \in {NoUser, u} \/ u \in Privileged
  /\ task[t].level = "scholar" => u \in Privileged

\* The client's base_task_row_version must equal the loaded one, so an
\* accepted edit or decision is one whose base is the loaded row_version.
LoadTask(r, u, t) ==
  /\ Free(r)
  /\ Accessible(u, t)
  /\ Active(t)
  /\ Begin(r, [op |-> "loaded", actor |-> u, t |-> t, row |-> task[t]])

EditedRow(row, u) ==
  [row EXCEPT !.row = @ + 1,
              !.status = "in_progress",
              !.assignee = IF @ = NoUser THEN u ELSE @]

\* _latest_revision: what the edit starts from
ReadDraft(r) ==
  /\ txn[r].op = "loaded"
  /\ txn[r].row.row < MaxRow
  /\ Begin(r, [op |-> "drafting", actor |-> txn[r].actor, t |-> txn[r].t,
               row |-> txn[r].row, before |-> DraftText(txn[r].t)])

\* _next_revision_number is another query, then the new rows are ready
ApplyEdit(r, text) ==
  LET c == txn[r]
  IN  /\ c.op = "drafting"
      /\ text # c.before
      /\ Begin(r, [RowWrite(c.t, c.row, EditedRow(c.row, c.actor)) EXCEPT
           !.adds = {[task |-> c.t, number |-> LatestNumber(c.t) + 1,
                      before |-> c.before, after |-> text]}])

\* seeded fault: the separation-of-duties check is dropped
AnyoneApproves(u, row) == TRUE

CanApprove(u, row) == u \notin {Uploader, row.createdBy}

NextDocStatus(row, choice) ==
  CASE choice = "approve" /\ row.level # "scholar" -> "scholar_review"
    [] choice = "approve" /\ row.level = "scholar" -> "scholar_approved"
    [] choice = "request_changes" -> "changes_requested"
    [] choice = "reject" -> "rejected"

\* seeded fault: the document's transition is not validated
DecidesAnywhere(row, choice) == CanMoveTask(row.status, "completed")

ValidTransitions(row, choice) ==
  /\ CanMoveTask(row.status, "completed")
  /\ CanMoveDoc(docStatus, NextDocStatus(row, choice))

Decide(r, choice) ==
  LET c == txn[r]
  IN  /\ c.op = "loaded"
      /\ choice = "approve" => CanApprove(c.actor, c.row)
      /\ ValidTransitions(c.row, choice)
      /\ Len(decisions) < MaxDecisions
      /\ Begin(r,
           [RowWrite(c.t, c.row, [c.row EXCEPT !.row = @ + 1, !.status = "completed"])
            EXCEPT !.doc     = NextDocStatus(c.row, choice),
                   !.decides = <<[task |-> c.t, actor |-> c.actor, choice |-> choice]>>])

-----------------------------------------------------------------------------
(* No service of the repository moves a document into review; operators and*)
(* fixtures do.  They are taken to follow the edges of the state machine   *)
(* and to act while no call on the document is in flight.                  *)

Prepare ==
  /\ \A r \in Req : Free(r)
  /\ \E to \in {"uploaded", "parsing", "ai_extracted", "in_review"} :
       CanMoveDoc(docStatus, to) /\ docStatus' = to
  /\ UNCHANGED <<task, revisions, decisions, txn, stale, crossed>>

-----------------------------------------------------------------------------
Init ==
  /\ docStatus = "draft"
  /\ task = [t \in Tasks |-> NoTask]
  /\ revisions = {}
  /\ decisions = << >>
  /\ txn = [r \in Req |-> Idle]
  /\ stale = {}
  /\ crossed = {}

Queue(r, u, t) ==
  \/ \E level \in Levels : CreateTask(r, u, level, t)
  \/ Claim(r, u, t)
  \/ Release(r, u, t)
  \/ \E assignee \in Users : Assign(r, u, t, assignee)
  \/ Escalate(r, u, t)

Review(r) ==
  \/ \E u \in Users, t \in Tasks : LoadTask(r, u, t)
  \/ ReadDraft(r)
  \/ \E text \in Texts : ApplyEdit(r, text)
  \/ \E choice \in Choices : Decide(r, choice)

Next ==
  \/ Prepare
  \/ \E r \in Req :
       \/ Commit(r)
       \/ Abort(r)
       \/ \E t \in Tasks : CreateEscalated(r, t)
       \/ \E u \in Users, t \in Tasks : Queue(r, u, t)
       \/ Review(r)

Spec == Init /\ [][Next]_vars

-----------------------------------------------------------------------------
(* Properties.                                                             *)

\* Every row and every call in flight is well formed.
TypeOK ==
  /\ docStatus \in DocStatuses
  /\ task \in [Tasks -> TaskRow]
  /\ revisions \subseteq Revision
  /\ decisions \in Seq(Decision)
  /\ txn \in [Req -> {Idle} \union Escalation \union Loaded \union Drafting \union Write]
  /\ stale \subseteq Req
  /\ crossed \subseteq Tasks

\* However calls interleave, a version never has two open or in-progress
\* tasks at one level: create_review_task and escalate_task check first, but
\* two of them may pass the check before either commits.
OneActiveTaskPerLevel ==
  \A t1, t2 \in Tasks :
    Active(t1) /\ Active(t2) /\ t1 # t2 => task[t1].level # task[t2].level

\* However calls interleave, the revision numbers of a task run from 1 without
\* a gap or a repetition, although an edit's number comes from a query that may
\* be out of date when the edit commits.
RevisionsNumbered ==
  /\ \A v, w \in revisions : v.task = w.task /\ v.number = w.number => v = w
  /\ \A v \in revisions :
       v.number = 1 \/ \E w \in revisions : w.task = v.task /\ w.number = v.number - 1

\* v starts from the text the revision before it left
Continues(v) ==
  \/ v.number = 1 /\ v.before = OriginalText
  \/ \E w \in revisions : /\ w.task = v.task
                          /\ w.number = v.number - 1
                          /\ w.after = v.before

\* Each edit of a task starts from the text the revision before it left, so
\* that no accepted edit silently discards another ("Every edit generates an
\* immutable revision mapping exact text and metadata changes",
\* docs/api/document-review.md).
RevisionChain == \A v \in revisions : Continues(v)

ApprovedAt(i, level) ==
  /\ decisions[i].choice = "approve"
  /\ task[decisions[i].task].level = level
  /\ decisions[i].actor \notin {Uploader, task[decisions[i].task].createdBy}

\* A document is scholar_approved only after an approval on an initial task
\* and a later one on a scholar task, each by someone who neither uploaded
\* the document nor created the task, whatever calls ran at the same time.
ScholarApprovalEarned ==
  docStatus = "scholar_approved" =>
    \E i, j \in 1..Len(decisions) :
      i < j /\ ApprovedAt(i, "initial") /\ ApprovedAt(j, "scholar")

DecisionsOn(t) == {i \in 1..Len(decisions) : decisions[i].task = t}

Stored(t) == task[t].status # "absent"

\* row_version of t is one more than its accepted edits and decisions
Counted(t) ==
  Stored(t) => task[t].row = 1 + Cardinality(RevisionsOf(t)) + Cardinality(DecisionsOn(t))

\* An edit is lost only where a call commits although the task or the document
\* it read has been written since.  Every task no such call has written has a
\* row_version that counts its accepted edits and decisions, so that no two of
\* them were made on the same base row_version (the ConcurrencyConflict promise
\* of docs/architecture/state-machines.md), and each of its edits starts from
\* the text the one before it left.
EditsAreChained ==
  \A t \in Tasks \ crossed : Counted(t) /\ \A v \in RevisionsOf(t) : Continues(v)

\* the step is the commit of a call that read a row another has written since
StaleCommit == \E r \in stale : Commit(r)

\* A decided task is final: only such a call reopens, reassigns, edits or
\* decides it again, however calls overlap.
DecisionIsFinal ==
  [][\/ StaleCommit
     \/ \A t \in Tasks : task[t].status = "completed" =>
          /\ task'[t] = task[t]
          /\ RevisionsOf(t)' = RevisionsOf(t)
          /\ DecisionsOn(t)' = DecisionsOn(t)]_vars

\* Only such a call moves the status column off the edges of
\* DocumentStateMachine: every other step, between however many calls, takes an
\* edge or leaves the status as it is.
Machine == INSTANCE DocumentStatusMachine WITH status <- docStatus
DocumentFollowsMachine == Machine!Init /\ [][StaleCommit \/ Machine!Next]_docStatus

=============================================================================
