------------------------ MODULE ReviewWorkflowProofs ------------------------
(***************************************************************************)
(* Theorems about ReviewWorkflow, for every set of calls, users, tasks and *)
(* texts and every bound, however calls overlap: that scholar approval is  *)
(* earned, and that an edit is lost, a decision undone or the document     *)
(* moved against its machine only by a call that read a row another one    *)
(* has written since.                                                      *)
(***************************************************************************)
EXTENDS ReviewWorkflow, FiniteSetTheorems, TLAPS

-----------------------------------------------------------------------------
(* Lemmas about the operators the actions are built from.                  *)

\* A unit of work that turns one well-formed task row into another is well
\* formed.
LEMMA RowWriteType ==
  ASSUME NEW t \in Tasks, NEW loaded \in TaskRow, NEW new \in TaskRow
  PROVE  RowWrite(t, loaded, new) \in Write
<1>1. Changed(loaded, new) \in SUBSET Columns
  BY DEF Changed, TaskRow, Columns
<1>2. Assigned(loaded, new, NoTask) \in TaskRow
  BY UsersAssumption DEF Assigned, TaskRow, NoTask, Levels, TaskStatuses
<1>3. << >> \in Seq(Decision)
  OBVIOUS
<1> QED
  BY <1>1, <1>2, <1>3 DEF RowWrite, Write

\* Flushing a well-formed row over another gives a well-formed row.
LEMMA FlushType ==
  ASSUME NEW row \in TaskRow, NEW new \in TaskRow, NEW changed \in SUBSET Columns
  PROVE  Flush(row, changed, new) \in TaskRow
BY DEF Flush, TaskRow, Columns

\* The number an edit's revision follows is the number of a revision of the
\* task, or 0 when it has none.
LEMMA LatestNumberType ==
  ASSUME TypeOK, NEW t \in Tasks,
         RevisionsOf(t) # {} =>
           \E w \in RevisionsOf(t) : \A v \in RevisionsOf(t) : v.number <= w.number
  PROVE  /\ LatestNumber(t) \in Nat
         /\ DraftText(t) \in Texts
         /\ RevisionsOf(t) = {} => LatestNumber(t) = 0
         /\ RevisionsOf(t) # {} =>
              \E w \in RevisionsOf(t) : w.number = LatestNumber(t)
<1>1. CASE RevisionsOf(t) = {}
  BY <1>1, TextAssumption DEF LatestNumber, DraftText
<1>2. CASE RevisionsOf(t) # {}
  <2> DEFINE top(n) == \A v \in RevisionsOf(t) : v.number <= n
             numbers == {v.number : v \in RevisionsOf(t)}
  <2>1. RevisionsOf(t) \subseteq Revision
    BY DEF TypeOK, RevisionsOf
  <2>2. \E n \in numbers : top(n)
    BY <1>2
  <2>3. LatestNumber(t) \in numbers /\ top(LatestNumber(t))
    BY <1>2, <2>2 DEF LatestNumber
  <2>4. PICK w \in RevisionsOf(t) : w.number = LatestNumber(t)
    BY <2>3
  <2> DEFINE chosen == CHOOSE v \in RevisionsOf(t) : v.number = LatestNumber(t)
  <2>5. chosen \in RevisionsOf(t) /\ chosen.number = LatestNumber(t)
    BY <2>4
  <2>6. DraftText(t) = chosen.after
    BY <1>2 DEF DraftText
  <2>7. chosen.after \in Texts /\ chosen.number \in Nat
    BY <2>1, <2>5 DEF Revision
  <2> QED
    BY <1>2, <2>3, <2>5, <2>6, <2>7
<1> QED
  BY <1>1, <1>2

-----------------------------------------------------------------------------
(* The inductive invariant behind TypeOK and RevisionsNumbered.            *)

\* Every task with revisions has one with the highest number: LatestNumber
\* and DraftText are then well defined.
HasLatest ==
  \A t \in Tasks : RevisionsOf(t) # {} =>
    \E w \in RevisionsOf(t) : \A v \in RevisionsOf(t) : v.number <= w.number

\* v is a first revision or comes right after a stored one
Follows(v) ==
  v.number = 1 \/ \E w \in revisions : w.task = v.task /\ w.number = v.number - 1

\* A call in flight inserts at most one revision, and it follows a stored one
\* whatever has been committed since the call read the latest number.
PendingFollows ==
  \A r \in Req : txn[r].op = "write" =>
    \/ txn[r].adds = {}
    \/ \E v \in Revision : txn[r].adds = {v} /\ Follows(v)

Inv == TypeOK /\ HasLatest /\ PendingFollows /\ RevisionsNumbered

\* A call that begins leaves the stored rows alone and keeps the invariant if
\* it is well formed and what it inserts follows.
LEMMA BeginInv ==
  ASSUME Inv, NEW r \in Req, NEW call \in {Idle} \union Escalation \union Loaded \union Drafting \union Write,
         UNCHANGED <<docStatus, task, revisions, decisions>>,
         txn' = [txn EXCEPT ![r] = call], stale' \subseteq stale, UNCHANGED crossed,
         call.op = "write" =>
           \/ call.adds = {}
           \/ \E v \in Revision : call.adds = {v} /\ Follows(v)
  PROVE  Inv'
<1>1. TypeOK'
  BY DEF Inv, TypeOK
<1>2. HasLatest'
  BY DEF Inv, HasLatest, RevisionsOf
<1>3. PendingFollows'
  <2> SUFFICES ASSUME NEW q \in Req, txn'[q].op = "write"
               PROVE  \/ txn'[q].adds = {}
                      \/ \E v \in Revision : txn'[q].adds = {v} /\ Follows(v)'
    BY DEF PendingFollows
  <2>1. \A v : Follows(v)' <=> Follows(v)
    BY DEF Follows
  <2>2. txn'[q] = IF q = r THEN call ELSE txn[q]
    BY DEF Inv, TypeOK
  <2> QED
    BY <2>1, <2>2 DEF Inv, PendingFollows
<1>4. RevisionsNumbered'
  BY DEF Inv, RevisionsNumbered
<1> QED
  BY <1>1, <1>2, <1>3, <1>4 DEF Inv

\* A call that only writes a task row keeps the invariant.
LEMMA BeginTaskWrite ==
  ASSUME Inv, NEW r \in Req, NEW t \in Tasks, NEW new \in TaskRow,
         Begin(r, TaskWrite(t, new))
  PROVE  Inv'
<1>1. task[t] \in TaskRow
  BY DEF Inv, TypeOK
<1>2. TaskWrite(t, new) \in Write
  BY <1>1, RowWriteType DEF TaskWrite
<1>3. TaskWrite(t, new).adds = {}
  BY DEF TaskWrite, RowWrite
<1> QED
  BY <1>2, <1>3, BeginInv DEF Begin

\* The initial state satisfies the invariant.
LEMMA InitInv == Init => Inv
<1> SUFFICES ASSUME Init PROVE Inv
  OBVIOUS
<1>1. TypeOK
  <2>1. NoTask \in TaskRow
    BY UsersAssumption DEF NoTask, TaskRow, Levels
  <2>2. << >> \in Seq(Decision)
    OBVIOUS
  <2> QED
    BY <2>1, <2>2 DEF Init, TypeOK, DocStatuses
<1>2. HasLatest /\ RevisionsNumbered
  BY DEF Init, HasLatest, RevisionsOf, RevisionsNumbered
<1>3. PendingFollows
  BY DEF Init, PendingFollows, Idle
<1> QED
  BY <1>1, <1>2, <1>3 DEF Inv

\* Every queue operation begins with a well-formed write of one task row, or,
\* for an escalation, with nothing to write yet.
LEMMA QueueInv ==
  ASSUME Inv, NEW r \in Req, NEW u \in Users, NEW t \in Tasks, Queue(r, u, t)
  PROVE  Inv'
<1>1. task[t] \in TaskRow
  BY DEF Inv, TypeOK
<1>2. ASSUME NEW level \in Levels, CreateTask(r, u, level, t) PROVE Inv'
  <2>1. NewTask(level, u) \in TaskRow
    BY DEF NewTask, TaskRow, TaskStatuses
  <2> QED
    BY <1>2, <2>1, BeginTaskWrite DEF CreateTask
<1>3. CASE Claim(r, u, t)
  <2>1. [task[t] EXCEPT !.status = "in_progress", !.assignee = u] \in TaskRow
    BY <1>1 DEF TaskRow, TaskStatuses
  <2> QED
    BY <1>3, <2>1, BeginTaskWrite DEF Claim
<1>4. CASE Release(r, u, t)
  <2>1. [task[t] EXCEPT !.status = "open", !.assignee = NoUser] \in TaskRow
    BY <1>1 DEF TaskRow, TaskStatuses
  <2> QED
    BY <1>4, <2>1, BeginTaskWrite DEF Release
<1>5. ASSUME NEW assignee \in Users, Assign(r, u, t, assignee) PROVE Inv'
  <2>1. [task[t] EXCEPT !.status = "in_progress", !.assignee = assignee] \in TaskRow
    BY <1>1 DEF TaskRow, TaskStatuses
  <2> QED
    BY <1>5, <2>1, BeginTaskWrite DEF Assign
<1>6. CASE Escalate(r, u, t)
  <2>1. [op |-> "escalated", actor |-> u] \in Escalation
    BY DEF Escalation
  <2> QED
    BY <1>6, <2>1, BeginInv DEF Escalate, Begin
<1> QED
  BY <1>2, <1>3, <1>4, <1>5, <1>6 DEF Queue

\* A call of document_review.py loads a row, reads a draft, and then inserts
\* the revision that follows the latest number it read, or a decision.
LEMMA ReviewInv ==
  ASSUME Inv, NEW r \in Req, Review(r)
  PROVE  Inv'
<1> DEFINE c == txn[r]
<1>1. c \in {Idle} \union Escalation \union Loaded \union Drafting \union Write
  BY DEF Inv, TypeOK
<1>2. ASSUME NEW u \in Users, NEW t \in Tasks, LoadTask(r, u, t) PROVE Inv'
  <2>1. [op |-> "loaded", actor |-> u, t |-> t, row |-> task[t]] \in Loaded
    BY DEF Loaded, Inv, TypeOK
  <2> QED
    BY <1>2, <2>1, BeginInv DEF LoadTask, Begin
<1>3. CASE ReadDraft(r)
  <2>1. c \in Loaded
    BY <1>1, <1>3 DEF ReadDraft, Idle, Escalation, Drafting, Write
  <2>2. DraftText(c.t) \in Texts
    BY <2>1, LatestNumberType DEF Loaded, Inv, HasLatest
  <2>3. [op |-> "drafting", actor |-> c.actor, t |-> c.t, row |-> c.row,
         before |-> DraftText(c.t)] \in Drafting
    BY <2>1, <2>2 DEF Loaded, Drafting
  <2> QED
    BY <1>3, <2>3, BeginInv DEF ReadDraft, Begin
<1>4. ASSUME NEW text \in Texts, ApplyEdit(r, text) PROVE Inv'
  <2> DEFINE v == [task |-> c.t, number |-> LatestNumber(c.t) + 1,
                   before |-> c.before, after |-> text]
             base == RowWrite(c.t, c.row, EditedRow(c.row, c.actor))
             call == [base EXCEPT !.adds = {v}]
  <2>1. c \in Drafting
    BY <1>1, <1>4 DEF ApplyEdit, Idle, Escalation, Loaded, Write
  <2>2. c.t \in Tasks /\ c.row \in TaskRow /\ c.actor \in Users /\ c.before \in Texts
    BY <2>1 DEF Drafting
  <2>3. v \in Revision /\ Follows(v)
    <3> HIDE DEF v
    <3>1. /\ LatestNumber(c.t) \in Nat
          /\ RevisionsOf(c.t) = {} => LatestNumber(c.t) = 0
          /\ RevisionsOf(c.t) # {} =>
               \E w \in RevisionsOf(c.t) : w.number = LatestNumber(c.t)
      BY <2>2, LatestNumberType DEF Inv, HasLatest
    <3>2. v \in Revision
      BY <2>2, <3>1 DEF v, Revision
    <3>3. v.task = c.t /\ v.number = LatestNumber(c.t) + 1
      BY DEF v
    <3>4. Follows(v)
      BY <3>1, <3>3 DEF Follows, RevisionsOf
    <3> QED
      BY <3>2, <3>4
  <2>4. EditedRow(c.row, c.actor) \in TaskRow
    <3>1. /\ c.row.row + 1 \in Nat
          /\ (IF c.row.assignee = NoUser THEN c.actor ELSE c.row.assignee)
               \in Users \union {NoUser}
      BY <2>2 DEF TaskRow
    <3> QED
      BY <2>2, <3>1, Zenon DEF EditedRow, TaskRow, TaskStatuses
  <2>5. base \in Write
    BY <2>2, <2>4, RowWriteType
  <2>6. call \in Write /\ call.adds = {v}
    BY <2>3, <2>5 DEF Write
  <2> QED
    BY <1>4, <2>3, <2>6, BeginInv DEF ApplyEdit, Begin
<1>5. ASSUME NEW choice \in Choices, Decide(r, choice) PROVE Inv'
  <2> DEFINE new  == [c.row EXCEPT !.row = @ + 1, !.status = "completed"]
             base == RowWrite(c.t, c.row, new)
             made == <<[task |-> c.t, actor |-> c.actor, choice |-> choice]>>
             call == [base EXCEPT !.doc = NextDocStatus(c.row, choice), !.decides = made]
  <2>1. c \in Loaded
    BY <1>1, <1>5 DEF Decide, Idle, Escalation, Drafting, Write
  <2>2. c.t \in Tasks /\ c.row \in TaskRow /\ c.actor \in Users
    BY <2>1 DEF Loaded
  <2>3. new \in TaskRow
    <3>1. c.row.row + 1 \in Nat
      BY <2>2 DEF TaskRow
    <3> QED
      BY <2>2, <3>1, Zenon DEF TaskRow, TaskStatuses
  <2>4. base \in Write /\ base.adds = {}
    BY <2>2, <2>3, RowWriteType DEF RowWrite
  <2>5. NextDocStatus(c.row, choice) \in DocStatuses
    BY <1>5 DEF Decide, ValidTransitions, CanMoveDoc, DocTransitions, DocStatuses
  <2>6. made \in Seq(Decision)
    BY <2>2 DEF Decision
  <2>7. call \in Write /\ call.adds = {}
    BY <2>4, <2>5, <2>6 DEF Write
  <2> QED
    BY <1>5, <2>7, BeginInv DEF Decide, Begin
<1> QED
  BY <1>2, <1>3, <1>4, <1>5 DEF Review

\* Commit keeps the numbers of a task's revisions distinct (UniqueNumbers) and
\* without a gap (PendingFollows).
LEMMA CommitInv ==
  ASSUME Inv, NEW r \in Req, Commit(r)
  PROVE  Inv'
<1> DEFINE c == txn[r]
<1>1. c \in Write
  BY DEF Inv, TypeOK, Commit, Idle, Escalation, Loaded, Drafting
<1>2. /\ revisions' = revisions \union c.adds
      /\ txn' = [txn EXCEPT ![r] = Idle]
      /\ UniqueNumbers(c.adds)
  BY DEF Commit
<1>3. c.adds = {} \/ \E v \in Revision : c.adds = {v} /\ Follows(v)
  BY DEF Inv, PendingFollows, Commit
<1>4. TypeOK'
  <2>1. Flush(task[c.t], c.changed, c.new) \in TaskRow
    BY <1>1, FlushType DEF Inv, TypeOK, Write
  <2>2. task' \in [Tasks -> TaskRow]
    BY <2>1 DEF Inv, TypeOK, Commit
  <2>3. docStatus' \in DocStatuses
    BY <1>1 DEF Inv, TypeOK, Commit, Write
  <2>4. revisions' \subseteq Revision
    BY <1>1, <1>2 DEF Inv, TypeOK, Write
  <2>5. decisions' \in Seq(Decision)
    <3>1. decisions \in Seq(Decision) /\ c.decides \in Seq(Decision)
      BY <1>1 DEF Inv, TypeOK, Write
    <3>2. decisions' = decisions \o c.decides
      BY DEF Commit
    <3> QED
      BY <3>1, <3>2
  <2>6. txn' \in [Req -> {Idle} \union Escalation \union Loaded \union Drafting \union Write]
    BY <1>2 DEF Inv, TypeOK
  <2>7. stale' \subseteq Req /\ crossed' \subseteq Tasks
    BY <1>1 DEF Inv, TypeOK, Commit, Outdated, Write
  <2> QED
    BY <2>2, <2>3, <2>4, <2>5, <2>6, <2>7 DEF TypeOK
<1>5. \A v : Follows(v) => Follows(v)'
  BY <1>2 DEF Follows
<1>6. HasLatest'
  <2> DEFINE Latest(t) == \E w \in RevisionsOf(t)' :
                            \A v \in RevisionsOf(t)' : v.number <= w.number
  <2> SUFFICES ASSUME NEW t \in Tasks, RevisionsOf(t)' # {} PROVE Latest(t)
    BY DEF HasLatest
  <2>1. \A v \in RevisionsOf(t)' : v.number \in Nat
    BY <1>4 DEF TypeOK, RevisionsOf, Revision
  <2>2. CASE c.adds = {}
    BY <1>2, <2>2 DEF Inv, HasLatest, RevisionsOf
  <2>3. ASSUME NEW x \in Revision, c.adds = {x} PROVE Latest(t)
    <3>1. RevisionsOf(t)' = IF x.task = t THEN RevisionsOf(t) \union {x}
                                          ELSE RevisionsOf(t)
      BY <1>2, <2>3 DEF RevisionsOf
    <3>2. CASE RevisionsOf(t) = {}
      BY <2>1, <3>1, <3>2
    <3>3. CASE RevisionsOf(t) # {}
      <4>1. PICK m \in RevisionsOf(t) : \A v \in RevisionsOf(t) : v.number <= m.number
        BY <3>3 DEF Inv, HasLatest
      <4>2. m \in RevisionsOf(t)'
        BY <3>1
      <4>3. CASE x.task = t /\ m.number <= x.number
        <5>1. x \in RevisionsOf(t)'
          BY <3>1, <4>3
        <5>2. \A v \in RevisionsOf(t)' : v.number <= x.number
          BY <2>1, <3>1, <4>1, <4>2, <4>3, <5>1
        <5> QED
          BY <5>1, <5>2
      <4>4. CASE ~ (x.task = t /\ m.number <= x.number)
        <5>1. \A v \in RevisionsOf(t)' : v.number <= m.number
          BY <2>1, <3>1, <4>1, <4>2, <4>4
        <5> QED
          BY <4>2, <5>1
      <4> QED
        BY <4>3, <4>4
    <3> QED
      BY <3>2, <3>3
  <2> QED
    BY <1>3, <2>2, <2>3
<1>7. PendingFollows'
  <2> SUFFICES ASSUME NEW q \in Req, txn'[q].op = "write"
               PROVE  \/ txn'[q].adds = {}
                      \/ \E v \in Revision : txn'[q].adds = {v} /\ Follows(v)'
    BY DEF PendingFollows
  <2>1. txn'[q] = txn[q]
    BY <1>2 DEF Inv, TypeOK, Idle
  <2> QED
    BY <1>5, <2>1 DEF Inv, PendingFollows
<1>8. RevisionsNumbered'
  <2>1. \A v, w \in revisions' : v.task = w.task /\ v.number = w.number => v = w
    BY <1>2, <1>3 DEF Inv, RevisionsNumbered, UniqueNumbers
  <2>2. \A v \in revisions' : Follows(v)'
    <3>1. \A v \in revisions : Follows(v)
      BY DEF Inv, RevisionsNumbered, Follows
    <3> QED
      BY <1>2, <1>3, <1>5, <3>1
  <2> QED
    BY <2>1, <2>2 DEF RevisionsNumbered, Follows
<1> QED
  BY <1>4, <1>6, <1>7, <1>8 DEF Inv

\* Every step keeps the invariant.
LEMMA NextInv == Inv /\ [Next]_vars => Inv'
<1> SUFFICES ASSUME Inv, [Next]_vars PROVE Inv'
  OBVIOUS
<1>1. CASE UNCHANGED vars
  BY <1>1 DEF vars, Inv, TypeOK, HasLatest, PendingFollows, RevisionsNumbered,
              RevisionsOf, Follows
<1>2. CASE Prepare
  <2>1. TypeOK'
    BY <1>2 DEF Prepare, Inv, TypeOK, DocStatuses
  <2>2. HasLatest' /\ PendingFollows' /\ RevisionsNumbered'
    BY <1>2 DEF Prepare, Inv, HasLatest, PendingFollows, RevisionsNumbered,
                RevisionsOf, Follows
  <2> QED
    BY <2>1, <2>2 DEF Inv
<1>3. ASSUME NEW r \in Req, Commit(r) PROVE Inv'
  BY <1>3, CommitInv
<1>4. ASSUME NEW r \in Req, Abort(r) PROVE Inv'
  BY <1>4, BeginInv DEF Abort, Idle
<1>5. ASSUME NEW r \in Req, NEW t \in Tasks, CreateEscalated(r, t) PROVE Inv'
  <2>1. txn[r].actor \in Users
    BY <1>5 DEF CreateEscalated, Inv, TypeOK, Idle, Loaded, Drafting, Write, Escalation
  <2>2. NewTask("scholar", txn[r].actor) \in TaskRow
    BY <2>1 DEF NewTask, TaskRow, TaskStatuses, Levels
  <2> QED
    BY <1>5, <2>2, BeginTaskWrite DEF CreateEscalated, Begin
<1>6. ASSUME NEW r \in Req, NEW u \in Users, NEW t \in Tasks, Queue(r, u, t)
      PROVE  Inv'
  BY <1>6, QueueInv
<1>7. ASSUME NEW r \in Req, Review(r) PROVE Inv'
  BY <1>7, ReviewInv
<1> QED
  BY <1>1, <1>2, <1>3, <1>4, <1>5, <1>6, <1>7 DEF Next

-----------------------------------------------------------------------------
(* Theorems.                                                               *)

LEMMA InvAlways == Spec => []Inv
BY InitInv, NextInv, PTL DEF Spec

\* In every reachable state the rows and the calls in flight are well formed,
\* whatever calls of review_queue.py and document_review.py interleave.
THEOREM TypeCorrect == Spec => []TypeOK
<1>1. Inv => TypeOK
  BY DEF Inv
<1> QED
  BY <1>1, InvAlways, PTL

\* For any number of concurrent calls, tasks and edits, the revision numbers of
\* a task are distinct and run from 1 without a gap, although apply_edit takes
\* the next number from a query that may be out of date when it commits.
THEOREM RevisionNumbering == Spec => []RevisionsNumbered
<1>1. Inv => RevisionsNumbered
  BY DEF Inv
<1> QED
  BY <1>1, InvAlways, PTL

\* For any number of concurrent calls, a version has one open or in-progress
\* task per level: claim, assign and edit only commit when the index holds.
THEOREM UniqueTask == Spec => []OneActiveTaskPerLevel
<1>1. Init => OneActiveTaskPerLevel
  BY DEF Init, OneActiveTaskPerLevel, Active, NoTask
<1>2. OneActiveTaskPerLevel /\ [Next]_vars => OneActiveTaskPerLevel'
  <2> SUFFICES ASSUME OneActiveTaskPerLevel, [Next]_vars
               PROVE  OneActiveTaskPerLevel'
    OBVIOUS
  <2>1. ASSUME NEW r \in Req, Commit(r) PROVE OneActiveTaskPerLevel'
    BY <2>1 DEF Commit, UniqueActiveLevel, OneActiveTaskPerLevel, Active
  <2>2. CASE UNCHANGED task
    BY <2>2 DEF OneActiveTaskPerLevel, Active
  <2>3. \/ UNCHANGED task
        \/ \E r \in Req : Commit(r)
    <3>1. ASSUME NEW r, NEW u, NEW t, Queue(r, u, t) \/ Review(r)
          PROVE  UNCHANGED task
      <4>1. ASSUME NEW call, Begin(r, call) PROVE UNCHANGED task
        BY <4>1 DEF Begin
      <4>2. \E call : Begin(r, call)
        BY <3>1, Zenon DEF Queue, Review, CreateTask, Claim, Release, Assign,
                          Escalate, LoadTask, ReadDraft, ApplyEdit, Decide
      <4> QED
        BY <4>1, <4>2
    <3> QED
      BY <3>1 DEF Next, vars, Prepare, Abort, CreateEscalated
  <2> QED
    BY <2>1, <2>2, <2>3
<1> QED
  BY <1>1, <1>2, PTL DEF Spec

-----------------------------------------------------------------------------
(* Scholar approval is earned.  A stored task keeps its level and creator, *)
(* so what a call loaded of them is what the row still says.               *)

\* the call is about to insert the row of t; nothing else concerns t
Creates(r, c) ==
  /\ task[c.t] = NoTask
  /\ \A q \in Req : q # r /\ txn[q].op = "write" => txn[q].t # c.t
  /\ c.doc = "unchanged" /\ c.decides = << >>
  /\ "status" \in c.changed /\ c.new.status = "open"

\* the decision d approves a task of the level, by someone independent
Approves(d, level) ==
  /\ d.choice = "approve"
  /\ task[d.task].level = level
  /\ d.actor \notin {Uploader, task[d.task].createdBy}

HasInitial == \E i \in 1..Len(decisions) : ApprovedAt(i, "initial")

\* the call is about to update the row of t, with a decision on it or without
Updates(c) ==
  /\ Stored(c.t)
  /\ c.changed \subseteq {"status", "assignee", "row"}
  /\ "status" \in c.changed => c.new.status # "absent"
  /\ \/ c.doc = "unchanged" /\ c.decides = << >>
     \/ \E d \in Decision :
          /\ c.decides = <<d>> /\ d.task = c.t
          /\ c.doc = "scholar_review" => Approves(d, "initial")
          /\ c.doc = "scholar_approved" => Approves(d, "scholar") /\ HasInitial

Pending(r) ==
  /\ txn[r].op \in {"loaded", "drafting"} =>
       /\ Stored(txn[r].t)
       /\ txn[r].row.status # "absent"
       /\ txn[r].row.level = task[txn[r].t].level
       /\ txn[r].row.createdBy = task[txn[r].t].createdBy
  /\ txn[r].op = "write" => Creates(r, txn[r]) \/ Updates(txn[r])

Earned ==
  /\ \A i \in 1..Len(decisions) : Stored(decisions[i].task)
  /\ docStatus = "scholar_review" => HasInitial
  /\ ScholarApprovalEarned

EarnedInv == Inv /\ Earned /\ \A r \in Req : Pending(r)

-----------------------------------------------------------------------------
(* Reading steps: the rows stay, one call changes.                         *)

LEMMA Kinds ==
  /\ \A c \in Escalation : c.op = "escalated"
  /\ \A c \in Loaded : c.op = "loaded"
  /\ \A c \in Drafting : c.op = "drafting"
  /\ \A c \in Write : c.op = "write"
  /\ Idle.op = "idle"
BY DEF Escalation, Loaded, Drafting, Write, Idle

\* What a call in flight is, by what it is about to do.
LEMMA KindOf ==
  ASSUME TypeOK, NEW r \in Req
  PROVE  /\ txn[r].op = "loaded" => txn[r] \in Loaded
         /\ txn[r].op = "drafting" => txn[r] \in Drafting
         /\ txn[r].op = "write" => txn[r] \in Write
BY Kinds DEF TypeOK

\* A call that begins keeps the invariant if it fits the rows; the insertion of a
\* row that is in flight stays the only call on its id.
LEMMA BeginEarned ==
  ASSUME EarnedInv, Inv', NEW r \in Req, NEW call,
         UNCHANGED <<docStatus, task, revisions, decisions>>,
         txn' = [txn EXCEPT ![r] = call],
         call.op \in {"loaded", "drafting"} =>
           /\ Stored(call.t) /\ call.row.status # "absent"
           /\ call.row.level = task[call.t].level
           /\ call.row.createdBy = task[call.t].createdBy,
         call.op = "write" => Creates(r, call) \/ Updates(call)
  PROVE  EarnedInv'
<1>1. \A q \in Req : txn'[q] = IF q = r THEN call ELSE txn[q]
  BY DEF EarnedInv, Inv, TypeOK
<1>2. Earned'
  BY DEF EarnedInv, Earned, Stored, HasInitial, ApprovedAt, ScholarApprovalEarned
<1>3. \A c : Updates(c) => Updates(c)'
  BY DEF Updates, Stored, Approves, HasInitial, ApprovedAt
<1>4. ASSUME NEW q \in Req
      PROVE  Pending(q)'
  <2>1. CASE txn'[q].op \in {"loaded", "drafting"}
    BY <1>1, <2>1 DEF EarnedInv, Pending, Stored
  <2>2. CASE txn'[q].op = "write" /\ Updates(txn'[q])
    BY <1>3, <2>2 DEF Pending
  <2>3. CASE txn'[q].op = "write" /\ Creates(q, txn'[q])
    <3>1. CASE q = r
      BY <1>1, <2>3, <3>1 DEF Creates, Pending
    <3>2. CASE q # r /\ call.op = "write" /\ Creates(r, call)
      BY <1>1, <2>3, <3>2 DEF Creates, Pending
    <3>3. CASE q # r /\ call.op = "write" /\ Updates(call)
      <4>1. task[txn[q].t].status = "absent"
        BY <1>1, <2>3, <3>3 DEF Creates, NoTask
      <4>2. txn[q].t # call.t
        BY <3>3, <4>1 DEF Updates, Stored
      <4>. QED BY <1>1, <2>3, <3>3, <4>2 DEF Creates, Pending
    <3>4. CASE q # r /\ call.op # "write"
      BY <1>1, <2>3, <3>4 DEF Creates, Pending
    <3>. QED BY <3>1, <3>2, <3>3, <3>4
  <2>4. txn'[q].op = "write" => Creates(q, txn'[q]) \/ Updates(txn'[q])
    BY <1>1 DEF EarnedInv, Pending
  <2>. QED BY <2>1, <2>2, <2>3, <2>4 DEF Pending
<1>. QED BY <1>2, <1>4 DEF EarnedInv

\* What turns a stored row into another one changes neither level nor creator.
LEMMA UpdateFits ==
  ASSUME TypeOK, NEW t \in Tasks, Stored(t), NEW row \in TaskRow, NEW new \in TaskRow,
         new.level = row.level, new.createdBy = row.createdBy, new.status # "absent"
  PROVE  /\ Updates(RowWrite(t, row, new))
         /\ RowWrite(t, row, new).t = t
         /\ RowWrite(t, row, new).changed \subseteq {"status", "assignee", "row"}
         /\ "status" \in RowWrite(t, row, new).changed => RowWrite(t, row, new).new.status # "absent"
<1>1. Changed(row, new) \subseteq {"status", "assignee", "row"}
  BY DEF Changed, TaskRow
<1>2. "status" \in Changed(row, new) => Assigned(row, new, NoTask).status = new.status
  BY DEF Changed, Assigned, TaskRow
<1>. QED BY <1>1, <1>2 DEF RowWrite, Updates

LEMMA UpdateEarned ==
  ASSUME EarnedInv, Inv', NEW r \in Req, NEW t \in Tasks, Stored(t), NEW new \in TaskRow,
         new.level = task[t].level, new.createdBy = task[t].createdBy, new.status # "absent",
         Begin(r, TaskWrite(t, new))
  PROVE  EarnedInv'
<1>1. Updates(TaskWrite(t, new)) /\ TaskWrite(t, new).op = "write"
  BY UpdateFits DEF EarnedInv, Inv, TypeOK, TaskWrite, RowWrite
<1>. QED BY <1>1, BeginEarned DEF Begin

LEMMA CreateEarned ==
  ASSUME EarnedInv, Inv', NEW r \in Req, NEW t \in Tasks, FreshTask(t),
         NEW level \in Levels, NEW u \in Users,
         txn' = [txn EXCEPT ![r] = TaskWrite(t, NewTask(level, u))],
         UNCHANGED <<docStatus, task, revisions, decisions>>
  PROVE  EarnedInv'
<1>. DEFINE call == TaskWrite(t, NewTask(level, u))
<1>1. /\ call.op = "write" /\ call.t = t /\ call.doc = "unchanged" /\ call.decides = << >>
      /\ call.changed = Changed(NoTask, NewTask(level, u))
      /\ call.new = Assigned(NoTask, NewTask(level, u), NoTask)
  BY DEF TaskWrite, RowWrite, FreshTask
<1>2. "status" \in call.changed /\ call.new.status = "open"
  BY <1>1 DEF Changed, Assigned, NoTask, NewTask
<1>. HIDE DEF call
<1>3. Creates(r, call)
  BY <1>1, <1>2 DEF Creates, FreshTask
<1>4. txn' = [txn EXCEPT ![r] = call]
  BY DEF call
<1>. QED BY <1>1, <1>3, <1>4, BeginEarned

LEMMA QueueEarned ==
  ASSUME EarnedInv, NEW r \in Req, NEW u \in Users, NEW t \in Tasks, Queue(r, u, t)
  PROVE  EarnedInv'
<1>1. Inv' /\ task[t] \in TaskRow
  BY QueueInv DEF EarnedInv, Inv, TypeOK
<1>2. ASSUME NEW level \in Levels, CreateTask(r, u, level, t)
      PROVE  EarnedInv'
  BY <1>1, <1>2, CreateEarned DEF CreateTask, Begin
<1>3. Active(t) => Stored(t)
  BY DEF Active, Stored
<1>4. CASE Claim(r, u, t)
  <2>. DEFINE new == [task[t] EXCEPT !.status = "in_progress", !.assignee = u]
  <2>1. /\ new \in TaskRow /\ new.level = task[t].level
        /\ new.createdBy = task[t].createdBy /\ new.status # "absent"
    BY <1>1 DEF TaskRow, TaskStatuses
  <2>2. Begin(r, TaskWrite(t, new)) /\ Stored(t)
    BY <1>3, <1>4 DEF Claim
  <2>. HIDE DEF new
  <2>. QED BY <1>1, <2>1, <2>2, UpdateEarned
<1>5. CASE Release(r, u, t)
  <2>. DEFINE new == [task[t] EXCEPT !.status = "open", !.assignee = NoUser]
  <2>1. /\ new \in TaskRow /\ new.level = task[t].level
        /\ new.createdBy = task[t].createdBy /\ new.status # "absent"
    BY <1>1 DEF TaskRow, TaskStatuses
  <2>2. Begin(r, TaskWrite(t, new)) /\ Stored(t)
    BY <1>3, <1>5 DEF Release
  <2>. HIDE DEF new
  <2>. QED BY <1>1, <2>1, <2>2, UpdateEarned
<1>6. ASSUME NEW assignee \in Users, Assign(r, u, t, assignee)
      PROVE  EarnedInv'
  <2>. DEFINE new == [task[t] EXCEPT !.status = "in_progress", !.assignee = assignee]
  <2>1. /\ new \in TaskRow /\ new.level = task[t].level
        /\ new.createdBy = task[t].createdBy /\ new.status # "absent"
    BY <1>1 DEF TaskRow, TaskStatuses
  <2>2. Begin(r, TaskWrite(t, new)) /\ Stored(t)
    BY <1>3, <1>6 DEF Assign
  <2>. HIDE DEF new
  <2>. QED BY <1>1, <2>1, <2>2, UpdateEarned
<1>7. CASE Escalate(r, u, t)
  BY <1>1, <1>7, BeginEarned DEF Escalate, Begin
<1>. QED BY <1>2, <1>4, <1>5, <1>6, <1>7 DEF Queue

\* What an edit or a decision makes of a task row.
LEMMA NewRows ==
  ASSUME NEW row \in TaskRow, NEW u \in Users
  PROVE  \A new \in {EditedRow(row, u), [row EXCEPT !.row = @ + 1, !.status = "completed"]} :
           /\ new \in TaskRow /\ new.level = row.level
           /\ new.createdBy = row.createdBy /\ new.status # "absent"
<1>1. /\ row.row + 1 \in Nat
      /\ (IF row.assignee = NoUser THEN u ELSE row.assignee) \in Users \union {NoUser}
  BY DEF TaskRow
<1>2. EditedRow(row, u) \in TaskRow
  BY <1>1, Zenon DEF EditedRow, TaskRow, TaskStatuses
<1>3. [row EXCEPT !.row = @ + 1, !.status = "completed"] \in TaskRow
  BY <1>1, Zenon DEF TaskRow, TaskStatuses
<1>4. \A new \in {EditedRow(row, u), [row EXCEPT !.row = @ + 1, !.status = "completed"]} :
        new.level = row.level /\ new.createdBy = row.createdBy /\ new.status # "absent"
  BY DEF EditedRow, TaskRow
<1>. QED BY <1>2, <1>3, <1>4

LEMMA ReviewEarned ==
  ASSUME EarnedInv, NEW r \in Req, Review(r)
  PROVE  EarnedInv'
<1>. DEFINE c == txn[r]
<1>1. Inv' /\ TypeOK
  BY ReviewInv DEF EarnedInv, Inv
<1>2. c.op \in {"loaded", "drafting"} =>
        /\ c.t \in Tasks /\ c.row \in TaskRow /\ c.actor \in Users
        /\ Stored(c.t) /\ c.row.status # "absent"
        /\ c.row.level = task[c.t].level /\ c.row.createdBy = task[c.t].createdBy
  <2>1. c.op = "loaded" => c.t \in Tasks /\ c.row \in TaskRow /\ c.actor \in Users
    BY <1>1, KindOf DEF Loaded
  <2>2. c.op = "drafting" => c.t \in Tasks /\ c.row \in TaskRow /\ c.actor \in Users
    BY <1>1, KindOf DEF Drafting
  <2>3. Pending(r)
    BY DEF EarnedInv
  <2>. QED BY <2>1, <2>2, <2>3 DEF Pending
<1>3. ASSUME NEW u \in Users, NEW t \in Tasks, LoadTask(r, u, t)
      PROVE  EarnedInv'
  <2>. DEFINE call == [op |-> "loaded", actor |-> u, t |-> t, row |-> task[t]]
  <2>1. Stored(t) /\ Begin(r, call)
    BY <1>3 DEF LoadTask, Active, Stored
  <2>. QED BY <1>1, <2>1, BeginEarned DEF Begin, Stored
<1>4. CASE ReadDraft(r)
  <2>. DEFINE call == [op |-> "drafting", actor |-> c.actor, t |-> c.t, row |-> c.row,
                       before |-> DraftText(c.t)]
  <2>1. Begin(r, call) /\ c.op = "loaded"
    BY <1>4 DEF ReadDraft
  <2>. QED BY <1>1, <1>2, <2>1, BeginEarned DEF Begin
<1>5. ASSUME NEW text \in Texts, ApplyEdit(r, text)
      PROVE  EarnedInv'
  <2>. DEFINE new   == EditedRow(c.row, c.actor)
              w     == RowWrite(c.t, c.row, new)
              adds  == {[task |-> c.t, number |-> LatestNumber(c.t) + 1,
                         before |-> c.before, after |-> text]}
              call  == [w EXCEPT !.adds = adds]
  <2>1. Begin(r, call) /\ c.op = "drafting"
    BY <1>5 DEF ApplyEdit
  <2>2. /\ new \in TaskRow /\ new.level = c.row.level
        /\ new.createdBy = c.row.createdBy /\ new.status # "absent"
    BY <1>2, <2>1, NewRows
  <2>. HIDE DEF new
  <2>3. /\ w.t = c.t /\ w.changed \subseteq {"status", "assignee", "row"}
        /\ "status" \in w.changed => w.new.status # "absent"
    BY <1>1, <1>2, <2>1, <2>2, UpdateFits
  <2>4. /\ call.op = "write" /\ call.t = w.t /\ call.changed = w.changed
        /\ call.new = w.new /\ call.doc = "unchanged" /\ call.decides = << >>
    BY DEF RowWrite
  <2>. HIDE DEF w, adds, call
  <2>5. Updates(call)
    BY <1>2, <2>1, <2>3, <2>4 DEF Updates
  <2>. QED BY <1>1, <2>1, <2>4, <2>5, BeginEarned DEF Begin
<1>6. ASSUME NEW choice \in Choices, Decide(r, choice)
      PROVE  EarnedInv'
  <2>. DEFINE new  == [c.row EXCEPT !.row = @ + 1, !.status = "completed"]
              w    == RowWrite(c.t, c.row, new)
              d    == [task |-> c.t, actor |-> c.actor, choice |-> choice]
              call == [w EXCEPT !.doc = NextDocStatus(c.row, choice), !.decides = <<d>>]
  <2>1. Begin(r, call) /\ c.op = "loaded"
    BY <1>6 DEF Decide
  <2>2. /\ new \in TaskRow /\ new.level = c.row.level
        /\ new.createdBy = c.row.createdBy /\ new.status # "absent"
    BY <1>2, <2>1, NewRows
  <2>. HIDE DEF new
  <2>3. /\ w.t = c.t /\ w.changed \subseteq {"status", "assignee", "row"}
        /\ "status" \in w.changed => w.new.status # "absent"
    BY <1>1, <1>2, <2>1, <2>2, UpdateFits
  <2>4. /\ call.op = "write" /\ call.t = w.t /\ call.changed = w.changed
        /\ call.new = w.new /\ call.doc = NextDocStatus(c.row, choice)
        /\ call.decides = <<d>>
    BY DEF RowWrite
  <2>5. d \in Decision /\ d.task = c.t /\ d.actor = c.actor /\ d.choice = choice
    BY <1>2, <2>1 DEF Decision
  <2>. HIDE DEF w, d, call
  <2>6. call.doc = "scholar_review" => Approves(d, "initial")
    <3>. SUFFICES ASSUME NextDocStatus(c.row, choice) = "scholar_review"
                  PROVE  Approves(d, "initial")
      BY <2>4
    <3>1. choice = "approve" /\ c.row.level = "initial"
      BY <1>2, <2>1 DEF NextDocStatus, Choices, TaskRow, Levels
    <3>2. CanApprove(c.actor, c.row)
      BY <1>6, <3>1 DEF Decide
    <3>. QED BY <1>2, <2>1, <2>5, <3>1, <3>2 DEF Approves, CanApprove
  <2>7. call.doc = "scholar_approved" => Approves(d, "scholar") /\ HasInitial
    <3>. SUFFICES ASSUME NextDocStatus(c.row, choice) = "scholar_approved"
                  PROVE  Approves(d, "scholar") /\ HasInitial
      BY <2>4
    <3>1. choice = "approve" /\ c.row.level = "scholar"
      BY <1>2, <2>1 DEF NextDocStatus, Choices, TaskRow, Levels
    <3>2. CanApprove(c.actor, c.row) /\ CanMoveDoc(docStatus, "scholar_approved")
      BY <1>6, <3>1 DEF Decide, ValidTransitions
    <3>3. docStatus = "scholar_review"
      BY <3>2 DEF CanMoveDoc, DocTransitions
    <3>4. HasInitial
      BY <3>3 DEF EarnedInv, Earned
    <3>. QED BY <1>2, <2>1, <2>5, <3>1, <3>2, <3>4 DEF Approves, CanApprove
  <2>8. Updates(call)
    BY <1>2, <2>1, <2>3, <2>4, <2>5, <2>6, <2>7 DEF Updates
  <2>. QED BY <1>1, <2>1, <2>4, <2>8, BeginEarned DEF Begin
<1>. QED BY <1>3, <1>4, <1>5, <1>6 DEF Review

\* A commit keeps what the decisions and the other calls rest on: the row it
\* writes keeps its level and creator, or no decision and no other call is on it.
LEMMA CommitEarned ==
  ASSUME EarnedInv, NEW r \in Req, Commit(r)
  PROVE  EarnedInv'
<1>0. TypeOK /\ Inv' /\ txn[r] \in Write
  BY CommitInv, KindOf DEF EarnedInv, Inv, Commit
<1>1. PICK c \in Write : c = txn[r] /\ c.op = "write"
  BY <1>0 DEF Commit
<1>2. /\ task' = [task EXCEPT ![c.t] = Flush(task[c.t], c.changed, c.new)]
      /\ docStatus' = IF c.doc = "unchanged" THEN docStatus ELSE c.doc
      /\ decisions' = decisions \o c.decides
      /\ txn' = [txn EXCEPT ![r] = Idle]
  BY <1>1 DEF Commit
<1>3. c.t \in Tasks /\ task[c.t] \in TaskRow
  BY <1>0, <1>1 DEF TypeOK, Write
<1>4. Creates(r, c) \/ Updates(c)
  BY <1>1 DEF EarnedInv, Pending
<1>5. \A t \in Tasks : t # c.t => task'[t] = task[t]
  BY <1>2 DEF EarnedInv, Inv, TypeOK
<1>6. task'[c.t] = Flush(task[c.t], c.changed, c.new)
  BY <1>2, <1>3 DEF EarnedInv, Inv, TypeOK
<1>7. \A t \in Tasks : Stored(t) =>
        /\ Stored(t)'
        /\ task'[t].level = task[t].level
        /\ task'[t].createdBy = task[t].createdBy
  <2>. SUFFICES ASSUME Stored(c.t)
                PROVE  /\ Stored(c.t)'
                       /\ task'[c.t].level = task[c.t].level
                       /\ task'[c.t].createdBy = task[c.t].createdBy
    BY <1>5 DEF Stored
  <2>1. Updates(c)
    BY <1>4 DEF Creates, Stored, NoTask
  <2>2. c.changed \subseteq {"status", "assignee", "row"}
        /\ ("status" \in c.changed => c.new.status # "absent")
    BY <2>1 DEF Updates
  <2>. QED BY <1>3, <1>6, <2>2 DEF Flush, TaskRow, Stored
<1>8. \A d \in Decision, level \in Levels :
        Stored(d.task) /\ Approves(d, level) => Approves(d, level)'
  BY <1>7 DEF Approves, Decision
<1>9. /\ decisions \in Seq(Decision)
      /\ \A i \in 1..Len(decisions) :
           /\ decisions[i] \in Decision
           /\ decisions'[i] = decisions[i]
           /\ i \in 1..Len(decisions')
  BY <1>0, <1>1, <1>2 DEF TypeOK, Write
<1>10. \A i \in 1..Len(decisions), level \in Levels :
         ApprovedAt(i, level) => ApprovedAt(i, level)'
  <2>. SUFFICES ASSUME NEW i \in 1..Len(decisions), NEW level \in Levels, ApprovedAt(i, level)
                PROVE  ApprovedAt(i, level)'
    OBVIOUS
  <2>1. Stored(decisions[i].task) /\ decisions[i].task \in Tasks
    BY <1>9 DEF EarnedInv, Earned, Decision
  <2>. QED BY <1>7, <1>9, <2>1 DEF ApprovedAt
<1>11. HasInitial => HasInitial'
  BY <1>9, <1>10 DEF HasInitial, Levels
<1>12. Earned'
  <2>1. CASE c.doc = "unchanged" /\ c.decides = << >>
    <3>1. decisions' = decisions /\ docStatus' = docStatus
      BY <1>2, <1>9, <2>1
    <3>2. \A i \in 1..Len(decisions') : Stored(decisions[i].task)'
      BY <1>7, <1>9, <3>1 DEF EarnedInv, Earned, Decision
    <3>3. ScholarApprovalEarned'
      BY <1>10, <3>1 DEF EarnedInv, Earned, ScholarApprovalEarned, Levels
    <3>. QED BY <1>11, <3>1, <3>2, <3>3 DEF EarnedInv, Earned
  <2>2. ASSUME NEW d \in Decision, c.decides = <<d>>, d.task = c.t, Stored(c.t),
               c.doc = "scholar_review" => Approves(d, "initial"),
               c.doc = "scholar_approved" => Approves(d, "scholar") /\ HasInitial
        PROVE  Earned'
    <3>0. PICK n \in Nat : n = Len(decisions) + 1
      BY <1>9
    <3>1. n \in 1..Len(decisions') /\ decisions'[n] = d /\ Len(decisions') = n
      BY <1>2, <1>9, <2>2, <3>0
    <3>2. \A i \in 1..Len(decisions') : Stored(decisions[i].task)'
      <4>1. \A i \in 1..Len(decisions') : i = n \/ i \in 1..Len(decisions)
        BY <1>9, <3>0, <3>1
      <4>2. Stored(d.task)'
        BY <1>3, <1>7, <2>2
      <4>3. \A i \in 1..Len(decisions) : Stored(decisions[i].task)'
        BY <1>7, <1>9 DEF EarnedInv, Earned, Decision
      <4>. QED BY <1>9, <3>1, <4>1, <4>2, <4>3
    <3>3. \A level \in Levels : Approves(d, level) => ApprovedAt(n, level)'
      BY <1>8, <2>2, <3>1 DEF Approves, ApprovedAt
    <3>4. docStatus' = "scholar_review" => HasInitial'
      <4>1. CASE c.doc = "scholar_review"
        BY <2>2, <3>1, <3>3, <4>1 DEF HasInitial, Levels
      <4>2. CASE c.doc # "scholar_review"
        BY <1>2, <1>11, <4>2 DEF EarnedInv, Earned
      <4>. QED BY <4>1, <4>2
    <3>5. ScholarApprovalEarned'
      <4>1. CASE c.doc = "scholar_approved"
        <5>1. ApprovedAt(n, "scholar")'
          BY <2>2, <3>3, <4>1 DEF Levels
        <5>2. PICK i \in 1..Len(decisions) : ApprovedAt(i, "initial")
          BY <2>2, <4>1 DEF HasInitial
        <5>3. ApprovedAt(i, "initial")' /\ i \in 1..Len(decisions') /\ i < n
          BY <1>9, <1>10, <3>0, <5>2 DEF Levels
        <5>. QED BY <3>1, <5>1, <5>3 DEF ScholarApprovalEarned
      <4>2. CASE c.doc # "scholar_approved"
        <5>. SUFFICES ASSUME docStatus = "scholar_approved"
                      PROVE  ScholarApprovalEarned'
          BY <1>2, <4>2 DEF ScholarApprovalEarned
        <5>1. PICK i, j \in 1..Len(decisions) :
                i < j /\ ApprovedAt(i, "initial") /\ ApprovedAt(j, "scholar")
          BY DEF EarnedInv, Earned, ScholarApprovalEarned
        <5>. QED BY <1>9, <1>10, <5>1 DEF ScholarApprovalEarned, Levels
      <4>. QED BY <4>1, <4>2
    <3>. QED BY <3>2, <3>4, <3>5 DEF Earned
  <2>. QED BY <1>4, <2>1, <2>2 DEF Creates, Updates
<1>13. \A u \in Write : Updates(u) => Updates(u)'
  <2>. SUFFICES ASSUME NEW u \in Write, Updates(u) PROVE Updates(u)'
    OBVIOUS
  <2>1. u.t \in Tasks /\ Stored(u.t)'
    BY <1>7 DEF Updates, Write
  <2>2. CASE u.doc = "unchanged" /\ u.decides = << >>
    BY <2>1, <2>2 DEF Updates
  <2>3. ASSUME NEW d \in Decision, u.decides = <<d>>, d.task = u.t,
               u.doc = "scholar_review" => Approves(d, "initial"),
               u.doc = "scholar_approved" => Approves(d, "scholar") /\ HasInitial
        PROVE  Updates(u)'
    <3>1. u.doc = "scholar_review" => Approves(d, "initial")'
      BY <1>8, <2>3 DEF Updates, Levels
    <3>2. u.doc = "scholar_approved" => Approves(d, "scholar")' /\ HasInitial'
      BY <1>8, <1>11, <2>3 DEF Updates, Levels
    <3>. QED BY <2>1, <2>3, <3>1, <3>2 DEF Updates
  <2>. QED BY <2>2, <2>3 DEF Updates
<1>14. ASSUME NEW q \in Req
       PROVE  Pending(q)'
  <2>1. CASE q = r
    BY <1>0, <1>2, <2>1, Kinds DEF Pending, TypeOK
  <2>2. CASE q # r
    <3>1. txn'[q] = txn[q]
      BY <1>2, <2>2 DEF EarnedInv, Inv, TypeOK
    <3>2. CASE txn[q].op \in {"loaded", "drafting"}
      <4>1. txn[q].t \in Tasks
        BY <1>0, <3>2, KindOf DEF Loaded, Drafting
      <4>. QED BY <1>7, <3>1, <3>2, <4>1 DEF EarnedInv, Pending
    <3>3. CASE txn[q].op = "write" /\ Updates(txn[q])
      BY <1>0, <1>13, <3>1, <3>3, KindOf DEF Pending
    <3>4. CASE txn[q].op = "write" /\ Creates(q, txn[q])
      <4>1. txn[q].t \in Tasks /\ txn[q].t # c.t
        BY <1>0, <1>1, <2>2, <3>4, KindOf DEF Creates, Write
      <4>2. \A x \in Req : txn'[x].op = "write" => txn'[x] = txn[x] /\ txn[x].op = "write"
        BY <1>0, <1>2, Kinds DEF TypeOK
      <4>3. Creates(q, txn[q])'
        BY <1>5, <3>1, <3>4, <4>1, <4>2 DEF Creates
      <4>. QED BY <3>1, <3>4, <4>3 DEF Pending
    <3>. QED BY <3>1, <3>2, <3>3, <3>4 DEF EarnedInv, Pending
  <2>. QED BY <2>1, <2>2
<1>. QED BY <1>0, <1>12, <1>14 DEF EarnedInv

LEMMA NextEarned == EarnedInv /\ [Next]_vars => EarnedInv'
<1>. SUFFICES ASSUME EarnedInv, [Next]_vars PROVE EarnedInv'
  OBVIOUS
<1>1. Inv'
  BY NextInv DEF EarnedInv
<1>2. CASE UNCHANGED vars
  BY <1>1, <1>2 DEF vars, EarnedInv, Earned, Pending, Creates, Updates, Approves, Stored,
                    HasInitial, ApprovedAt, ScholarApprovalEarned
<1>3. CASE Prepare
  <2>1. /\ UNCHANGED <<task, revisions, decisions, txn>>
        /\ docStatus' \notin {"scholar_review", "scholar_approved"}
    BY <1>3 DEF Prepare
  <2>2. Earned'
    BY <2>1 DEF EarnedInv, Earned, Stored, HasInitial, ApprovedAt, ScholarApprovalEarned
  <2>3. \A q \in Req : Pending(q)'
    BY <2>1 DEF EarnedInv, Pending, Creates, Updates, Approves, Stored, HasInitial, ApprovedAt
  <2>. QED BY <1>1, <2>2, <2>3 DEF EarnedInv
<1>4. ASSUME NEW r \in Req, Commit(r) PROVE EarnedInv'
  BY <1>4, CommitEarned
<1>5. ASSUME NEW r \in Req, Abort(r) PROVE EarnedInv'
  BY <1>1, <1>5, BeginEarned DEF Abort, Idle
<1>6. ASSUME NEW r \in Req, NEW t \in Tasks, CreateEscalated(r, t) PROVE EarnedInv'
  <2>1. txn[r].actor \in Users
    BY <1>6 DEF CreateEscalated, EarnedInv, Inv, TypeOK, Idle, Loaded, Drafting, Write, Escalation
  <2>. QED BY <1>1, <1>6, <2>1, CreateEarned DEF CreateEscalated, Levels
<1>7. ASSUME NEW r \in Req, NEW u \in Users, NEW t \in Tasks, Queue(r, u, t)
      PROVE  EarnedInv'
  BY <1>7, QueueEarned
<1>8. ASSUME NEW r \in Req, Review(r) PROVE EarnedInv'
  BY <1>8, ReviewEarned
<1>. QED BY <1>2, <1>3, <1>4, <1>5, <1>6, <1>7, <1>8 DEF Next

LEMMA InitEarned == Init => EarnedInv
<1>. SUFFICES ASSUME Init PROVE EarnedInv
  OBVIOUS
<1>1. Earned
  BY DEF Init, Earned, HasInitial, ScholarApprovalEarned
<1>2. \A r \in Req : Pending(r)
  BY DEF Init, Pending, Idle
<1>. QED BY <1>1, <1>2, InitInv DEF EarnedInv

\* For any number of concurrent calls and tasks, a scholar_approved document has
\* an approval on an initial task and a later one on a scholar task, each by
\* someone independent, although decide reads the status before it commits.
THEOREM EarnedApproval == Spec => []ScholarApprovalEarned
<1>1. EarnedInv => ScholarApprovalEarned
  BY DEF EarnedInv, Earned
<1>. QED
  BY <1>1, InitEarned, NextEarned, PTL DEF Spec

-----------------------------------------------------------------------------
(* What a call has read still holds when it commits (Settled), unless a    *)
(* commit has made it stale; then each commit adds one to the row_version  *)
(* for the one thing it records, and touches no task that is not open.     *)

\* what is stored of t: what its row_version counts, nothing when it has no row
Kept(t) ==
  /\ Counted(t)
  /\ \A v \in RevisionsOf(t) : Continues(v)
  /\ ~ Stored(t) => RevisionsOf(t) = {} /\ DecisionsOn(t) = {}

\* what a call inserts concerns the task whose row it writes
Own(c) ==
  c.op = "write" =>
    /\ \A v \in c.adds : v.task = c.t
    /\ c.decides = << >> \/ \E d \in Decision : c.decides = <<d>> /\ d.task = c.t

\* the row a call that is ready to commit will leave
Result(c) == Flush(task[c.t], c.changed, c.new)

\* what such a call writes: a row alone, an edit or a decision with its row
Moves(c) ==
  /\ c.adds = {} /\ c.decides = << >> /\ c.doc = "unchanged"
  /\ \/ task[c.t] = NoTask /\ Result(c).row = 1
     \/ Active(c.t) /\ Result(c).row = task[c.t].row

Edits(c) ==
  /\ Active(c.t) /\ Result(c).row = task[c.t].row + 1
  /\ c.decides = << >> /\ c.doc = "unchanged"
  /\ \E v \in Revision : c.adds = {v} /\ v.task = c.t /\ Continues(v)

Decides(c) ==
  /\ Active(c.t) /\ Result(c).row = task[c.t].row + 1
  /\ c.adds = {} /\ CanMoveDoc(docStatus, c.doc)
  /\ \E d \in Decision : c.decides = <<d>> /\ d.task = c.t

\* what the call in flight has read still holds
Settled(c) ==
  /\ c.op \in {"loaded", "drafting"} => c.row = task[c.t] /\ Active(c.t)
  /\ c.op = "drafting" => c.before = DraftText(c.t)
  /\ c.op = "write" => /\ Result(c).status # "absent"
                       /\ Moves(c) \/ Edits(c) \/ Decides(c)

OverlapInv ==
  /\ Inv
  /\ IsFiniteSet(revisions)
  /\ \A t \in Tasks \ crossed : Kept(t)
  /\ \A r \in Req : Own(txn[r])
  /\ \A r \in Req \ stale : Settled(txn[r])

\* what a step may do to a decided task and to the status of the document
Forward ==
  /\ \A t \in Tasks : task[t].status = "completed" =>
       /\ task'[t] = task[t]
       /\ RevisionsOf(t)' = RevisionsOf(t)
       /\ DecisionsOn(t)' = DecisionsOn(t)
  /\ docStatus' = docStatus \/ CanMoveDoc(docStatus, docStatus')

\* Flushing a row over the one it was made from leaves that row.
LEMMA ResultOfWrite ==
  ASSUME TypeOK, NEW t \in Tasks, NEW new \in TaskRow, NEW c,
         c.t = t, c.changed = Changed(task[t], new), c.new = Assigned(task[t], new, NoTask)
  PROVE  Result(c).row = new.row /\ Result(c).status = new.status
<1>1. task[t] \in TaskRow
  BY DEF TypeOK
<1>. QED BY <1>1 DEF Result, Flush, Changed, Assigned, TaskRow

\* The draft text of a task depends on its revisions only.
LEMMA DraftStays ==
  ASSUME NEW t, RevisionsOf(t)' = RevisionsOf(t)
  PROVE  DraftText(t)' = DraftText(t)
<1>. DEFINE Top(S)   == IF S = {} THEN 0
                        ELSE CHOOSE n \in {v.number : v \in S} : \A v \in S : v.number <= n
            Shown(S, n) == IF S = {} THEN OriginalText
                           ELSE (CHOOSE v \in S : v.number = n).after
<1>1. LatestNumber(t) = Top(RevisionsOf(t)) /\ LatestNumber(t)' = Top(RevisionsOf(t)')
  BY Zenon DEF LatestNumber
<1>. HIDE DEF Top
<1>2. /\ DraftText(t) = Shown(RevisionsOf(t), LatestNumber(t))
      /\ DraftText(t)' = Shown(RevisionsOf(t)', LatestNumber(t)')
  BY Zenon DEF DraftText
<1>. HIDE DEF Shown
<1>. QED BY <1>1, <1>2, Zenon

\* What a call has read still holds as long as its task and the document's
\* status stay as they are.
LEMMA SettledStays ==
  ASSUME NEW c, Settled(c),
         c.op \in {"loaded", "drafting", "write"} =>
           /\ task'[c.t] = task[c.t] /\ UNCHANGED docStatus
           /\ RevisionsOf(c.t)' = RevisionsOf(c.t)
           /\ revisions \subseteq revisions'
  PROVE  Settled(c)'
<1>1. CASE c.op \notin {"loaded", "drafting", "write"}
  BY <1>1 DEF Settled
<1>2. CASE c.op \in {"loaded", "drafting", "write"}
  <2>1. Active(c.t)' = Active(c.t) /\ Result(c)' = Result(c)
    BY <1>2 DEF Active, Result
  <2>2. DraftText(c.t)' = DraftText(c.t)
    BY <1>2, DraftStays
  <2>3. \A v : Continues(v) => Continues(v)'
    BY <1>2 DEF Continues
  <2>4. /\ Moves(c) => Moves(c)'
        /\ Edits(c) => Edits(c)'
        /\ Decides(c) => Decides(c)'
    BY <1>2, <2>1, <2>3 DEF Moves, Edits, Decides
  <2>. QED BY <1>2, <2>1, <2>2, <2>4 DEF Settled
<1>. QED BY <1>1, <1>2

\* A call that begins fits what is stored, unless it is stale.
LEMMA BeginOverlap ==
  ASSUME OverlapInv, Inv', NEW r \in Req, NEW call, Own(call),
         r \in stale' \/ Settled(call),
         UNCHANGED <<docStatus, task, revisions, decisions, crossed>>,
         stale' = stale \/ stale' = stale \ {r},
         txn' = [txn EXCEPT ![r] = call]
  PROVE  OverlapInv' /\ Forward
<1>1. \A q \in Req : txn'[q] = IF q = r THEN call ELSE txn[q]
  BY DEF OverlapInv, Inv, TypeOK
<1>2. \A t : /\ RevisionsOf(t)' = RevisionsOf(t) /\ DecisionsOn(t)' = DecisionsOn(t)
             /\ Stored(t)' = Stored(t)
  BY DEF RevisionsOf, DecisionsOn, Stored
<1>3. \A t \in Tasks \ crossed : Kept(t)'
  BY <1>2 DEF OverlapInv, Kept, Counted, Continues
<1>4. \A c : Settled(c) => Settled(c)'
  BY <1>2, SettledStays
<1>5. \A q \in Req \ stale' : Settled(txn[q])'
  <2>. SUFFICES ASSUME NEW q \in Req \ stale' PROVE Settled(txn[q])'
    OBVIOUS
  <2>1. PICK c : c = txn'[q]
    OBVIOUS
  <2>2. Settled(c)
    BY <1>1, <2>1 DEF OverlapInv
  <2>3. Settled(c)'
    BY <1>4, <2>2
  <2>. QED BY <2>1, <2>3 DEF Settled, Result, Moves, Edits, Decides
<1>6. \A q \in Req : Own(txn[q])'
  <2>. SUFFICES ASSUME NEW q \in Req PROVE Own(txn[q])'
    OBVIOUS
  <2>1. Own(txn'[q])
    BY <1>1 DEF OverlapInv
  <2>. QED BY <2>1 DEF Own
<1>7. IsFiniteSet(revisions)'
  BY DEF OverlapInv
<1>8. OverlapInv'
  BY <1>3, <1>5, <1>6, <1>7 DEF OverlapInv
<1>. QED BY <1>2, <1>8 DEF Forward

\* A call that writes the row of an open task, or the row of a new one.
LEMMA MoveOverlap ==
  ASSUME OverlapInv, Inv', NEW r \in Req, NEW t \in Tasks, NEW new \in TaskRow,
         \/ task[t] = NoTask /\ new.row = 1
         \/ Active(t) /\ new.row = task[t].row,
         new.status # "absent",
         UNCHANGED <<docStatus, task, revisions, decisions, stale, crossed>>,
         txn' = [txn EXCEPT ![r] = TaskWrite(t, new)]
  PROVE  OverlapInv' /\ Forward
<1>. DEFINE c == TaskWrite(t, new)
<1>1. /\ c.op = "write" /\ c.t = t /\ c.changed = Changed(task[t], new)
      /\ c.new = Assigned(task[t], new, NoTask)
      /\ c.adds = {} /\ c.decides = << >> /\ c.doc = "unchanged"
  BY DEF TaskWrite, RowWrite
<1>2. txn' = [txn EXCEPT ![r] = c]
  OBVIOUS
<1>. HIDE DEF c
<1>3. Result(c).row = new.row /\ Result(c).status = new.status
  BY <1>1, ResultOfWrite DEF OverlapInv, Inv
<1>4. Settled(c) /\ Own(c)
  BY <1>1, <1>3 DEF Settled, Moves, Own
<1>. QED BY <1>2, <1>4, BeginOverlap

LEMMA QueueOverlap ==
  ASSUME OverlapInv, NEW r \in Req, NEW u \in Users, NEW t \in Tasks, Queue(r, u, t)
  PROVE  OverlapInv' /\ Forward
<1>1. Inv' /\ task[t] \in TaskRow
  BY QueueInv DEF OverlapInv, Inv, TypeOK
<1>2. ASSUME NEW level \in Levels, CreateTask(r, u, level, t)
      PROVE  OverlapInv' /\ Forward
  <2>1. NewTask(level, u) \in TaskRow /\ NewTask(level, u).row = 1
        /\ NewTask(level, u).status # "absent"
    BY DEF NewTask, TaskRow, TaskStatuses
  <2>. QED BY <1>1, <1>2, <2>1, MoveOverlap DEF CreateTask, FreshTask, Begin
<1>3. CASE Claim(r, u, t)
  <2>. DEFINE new == [task[t] EXCEPT !.status = "in_progress", !.assignee = u]
  <2>1. new \in TaskRow /\ new.row = task[t].row /\ new.status # "absent"
    BY <1>1 DEF TaskRow, TaskStatuses
  <2>2. Begin(r, TaskWrite(t, new)) /\ Active(t)
    BY <1>3 DEF Claim
  <2>. HIDE DEF new
  <2>. QED BY <1>1, <2>1, <2>2, MoveOverlap DEF Begin
<1>4. CASE Release(r, u, t)
  <2>. DEFINE new == [task[t] EXCEPT !.status = "open", !.assignee = NoUser]
  <2>1. new \in TaskRow /\ new.row = task[t].row /\ new.status # "absent"
    BY <1>1 DEF TaskRow, TaskStatuses
  <2>2. Begin(r, TaskWrite(t, new)) /\ Active(t)
    BY <1>4 DEF Release
  <2>. HIDE DEF new
  <2>. QED BY <1>1, <2>1, <2>2, MoveOverlap DEF Begin
<1>5. ASSUME NEW assignee \in Users, Assign(r, u, t, assignee)
      PROVE  OverlapInv' /\ Forward
  <2>. DEFINE new == [task[t] EXCEPT !.status = "in_progress", !.assignee = assignee]
  <2>1. new \in TaskRow /\ new.row = task[t].row /\ new.status # "absent"
    BY <1>1 DEF TaskRow, TaskStatuses
  <2>2. Begin(r, TaskWrite(t, new)) /\ Active(t)
    BY <1>5 DEF Assign
  <2>. HIDE DEF new
  <2>. QED BY <1>1, <2>1, <2>2, MoveOverlap DEF Begin
<1>6. CASE Escalate(r, u, t)
  <2>1. Settled([op |-> "escalated", actor |-> u]) /\ Own([op |-> "escalated", actor |-> u])
    BY DEF Settled, Own
  <2>. QED BY <1>1, <1>6, <2>1, BeginOverlap DEF Escalate, Begin
<1>. QED BY <1>2, <1>3, <1>4, <1>5, <1>6 DEF Queue

LEMMA ReviewOverlap ==
  ASSUME OverlapInv, NEW r \in Req, Review(r)
  PROVE  OverlapInv' /\ Forward
<1>. DEFINE c == txn[r]
<1>1. Inv' /\ TypeOK
  BY ReviewInv DEF OverlapInv, Inv
<1>2. c.op \in {"loaded", "drafting"} =>
        /\ c.t \in Tasks /\ c.row \in TaskRow /\ c.actor \in Users
        /\ r \in stale \/ (c.row = task[c.t] /\ Active(c.t))
  <2>1. c.op \in {"loaded", "drafting"} => c.t \in Tasks /\ c.row \in TaskRow /\ c.actor \in Users
    BY <1>1, KindOf DEF Loaded, Drafting
  <2>2. r \in stale \/ Settled(c)
    BY DEF OverlapInv
  <2>. QED BY <2>1, <2>2 DEF Settled
<1>3. ASSUME NEW u \in Users, NEW t \in Tasks, LoadTask(r, u, t)
      PROVE  OverlapInv' /\ Forward
  <2>. DEFINE call == [op |-> "loaded", actor |-> u, t |-> t, row |-> task[t]]
  <2>1. Settled(call) /\ Own(call) /\ Begin(r, call)
    BY <1>3 DEF LoadTask, Settled, Own
  <2>. HIDE DEF call
  <2>. QED BY <1>1, <2>1, BeginOverlap DEF Begin
<1>4. CASE ReadDraft(r)
  <2>. DEFINE call == [op |-> "drafting", actor |-> c.actor, t |-> c.t, row |-> c.row,
                       before |-> DraftText(c.t)]
  <2>1. (r \in stale \/ Settled(call)) /\ Own(call) /\ Begin(r, call)
    BY <1>2, <1>4 DEF ReadDraft, Settled, Own
  <2>. HIDE DEF call
  <2>. QED BY <1>1, <2>1, BeginOverlap DEF Begin
<1>5. ASSUME NEW text \in Texts, ApplyEdit(r, text)
      PROVE  OverlapInv' /\ Forward
  <2>. DEFINE v    == [task |-> c.t, number |-> LatestNumber(c.t) + 1,
                       before |-> c.before, after |-> text]
              new  == EditedRow(c.row, c.actor)
              call == [RowWrite(c.t, c.row, new) EXCEPT !.adds = {v}]
  <2>1. Begin(r, call) /\ c.op = "drafting"
    BY <1>5 DEF ApplyEdit
  <2>2. new \in TaskRow /\ new.row = c.row.row + 1 /\ new.status # "absent"
    <3>1. new \in TaskRow /\ new.status # "absent"
      BY <1>2, <2>1, NewRows
    <3>2. new.row = c.row.row + 1
      BY <1>2, <2>1 DEF EditedRow, TaskRow
    <3>. QED BY <3>1, <3>2
  <2>3. /\ call.op = "write" /\ call.t = c.t /\ call.changed = Changed(c.row, new)
        /\ call.new = Assigned(c.row, new, NoTask)
        /\ call.adds = {v} /\ call.decides = << >> /\ call.doc = "unchanged"
    BY DEF RowWrite
  <2>0. Own(call)
    BY DEF Own, RowWrite
  <2>a. CASE r \in stale
    <3>. HIDE DEF call
    <3>. QED BY <1>1, <2>0, <2>1, <2>a, BeginOverlap DEF Begin
  <2>b. CASE r \notin stale
    <3>4. c.before = DraftText(c.t) /\ c.row = task[c.t] /\ Active(c.t)
      BY <1>2, <2>1, <2>b DEF OverlapInv, Settled
    <3>5. /\ v.task = c.t /\ v.number = LatestNumber(c.t) + 1 /\ v.before = DraftText(c.t)
      BY <3>4
    <3>6. /\ LatestNumber(c.t) \in Nat /\ DraftText(c.t) \in Texts
          /\ RevisionsOf(c.t) = {} => LatestNumber(c.t) = 0
      BY <1>1, <1>2, <2>1, LatestNumberType DEF OverlapInv, Inv, HasLatest
    <3>7. v \in Revision
      BY <1>2, <2>1, <3>4, <3>6 DEF Revision
    <3>8. Continues(v)
      <4>. HIDE DEF v
      <4>1. CASE RevisionsOf(c.t) = {}
        BY <3>5, <3>6, <4>1 DEF Continues, DraftText
      <4>2. CASE RevisionsOf(c.t) # {}
        <5>1. \E w \in RevisionsOf(c.t) : w.number = LatestNumber(c.t)
          BY <1>1, <1>2, <2>1, <4>2, LatestNumberType DEF OverlapInv, Inv, HasLatest
        <5>. DEFINE w == CHOOSE x \in RevisionsOf(c.t) : x.number = LatestNumber(c.t)
        <5>2. w \in RevisionsOf(c.t) /\ w.number = LatestNumber(c.t)
          BY <5>1
        <5>3. DraftText(c.t) = w.after
          BY <4>2 DEF DraftText
        <5>. HIDE DEF w
        <5>4. w \in revisions /\ w.task = c.t
          BY <5>2 DEF RevisionsOf
        <5>5. w.number = v.number - 1
          BY <3>5, <3>6, <5>2
        <5>. QED BY <3>5, <5>3, <5>4, <5>5 DEF Continues
      <4>. QED BY <4>1, <4>2
    <3>. HIDE DEF v, new, call
    <3>9. Result(call).row = new.row /\ Result(call).status = new.status
      BY <1>1, <1>2, <2>1, <2>2, <2>3, <3>4, ResultOfWrite
    <3>10. Settled(call)
      BY <1>2, <3>4, <2>1, <2>2, <2>3, <3>5, <3>7, <3>8, <3>9 DEF Settled, Edits
    <3>. QED BY <1>1, <2>0, <2>1, <3>10, BeginOverlap DEF Begin
  <2>. QED BY <2>a, <2>b
<1>6. ASSUME NEW choice \in Choices, Decide(r, choice)
      PROVE  OverlapInv' /\ Forward
  <2>. DEFINE d    == [task |-> c.t, actor |-> c.actor, choice |-> choice]
              new  == [c.row EXCEPT !.row = @ + 1, !.status = "completed"]
              call == [RowWrite(c.t, c.row, new) EXCEPT
                         !.doc = NextDocStatus(c.row, choice), !.decides = <<d>>]
  <2>1. Begin(r, call) /\ c.op = "loaded"
    BY <1>6 DEF Decide
  <2>2. new \in TaskRow /\ new.row = c.row.row + 1 /\ new.status # "absent"
    <3>1. new \in TaskRow /\ new.status # "absent"
      BY <1>2, <2>1, NewRows
    <3>2. new.row = c.row.row + 1
      BY <1>2, <2>1 DEF TaskRow
    <3>. QED BY <3>1, <3>2
  <2>3. /\ call.op = "write" /\ call.t = c.t /\ call.changed = Changed(c.row, new)
        /\ call.new = Assigned(c.row, new, NoTask)
        /\ call.adds = {} /\ call.decides = <<d>> /\ call.doc = NextDocStatus(c.row, choice)
    BY DEF RowWrite
  <2>4. d \in Decision /\ d.task = c.t
    BY <1>2, <2>1 DEF Decision
  <2>0. Own(call)
    BY <2>4 DEF Own, RowWrite
  <2>5. CanMoveDoc(docStatus, NextDocStatus(c.row, choice))
    BY <1>6 DEF Decide, ValidTransitions
  <2>. HIDE DEF d, new, call
  <2>6. r \notin stale => Result(call).row = new.row /\ Result(call).status = new.status
    BY <1>1, <1>2, <2>1, <2>2, <2>3, ResultOfWrite
  <2>7. r \in stale \/ Settled(call)
    BY <1>2, <2>1, <2>2, <2>3, <2>4, <2>5, <2>6 DEF Settled, Decides
  <2>. QED BY <1>1, <2>0, <2>1, <2>7, BeginOverlap DEF Begin
<1>. QED BY <1>3, <1>4, <1>5, <1>6 DEF Review

\* What a commit appends to the decisions.
LEMMA Appended ==
  ASSUME decisions \in Seq(Decision), NEW d \in Decision, decisions' = decisions \o <<d>>,
         NEW t \in Tasks
  PROVE  /\ d.task # t => DecisionsOn(t)' = DecisionsOn(t)
         /\ d.task = t => DecisionsOn(t)' = DecisionsOn(t) \union {Len(decisions) + 1}
         /\ Len(decisions) + 1 \notin DecisionsOn(t)
<1>1. /\ Len(decisions) \in Nat /\ Len(decisions') = Len(decisions) + 1
      /\ \A i \in 1..Len(decisions) : decisions'[i] = decisions[i]
      /\ decisions'[Len(decisions) + 1] = d
  OBVIOUS
<1>2. 1..Len(decisions') = 1..Len(decisions) \union {Len(decisions) + 1}
  BY <1>1
<1>. QED BY <1>1, <1>2 DEF DecisionsOn

LEMMA FinitelyMany ==
  ASSUME TypeOK, IsFiniteSet(revisions), NEW t
  PROVE  IsFiniteSet(RevisionsOf(t)) /\ IsFiniteSet(DecisionsOn(t))
<1>1. IsFiniteSet(1..Len(decisions))
  BY FS_Interval DEF TypeOK
<1>2. RevisionsOf(t) \subseteq revisions /\ DecisionsOn(t) \subseteq 1..Len(decisions)
  BY DEF RevisionsOf, DecisionsOn
<1>. QED BY <1>1, <1>2, FS_Subset

\* What a commit leaves of every task but its own, and of the other calls.
LEMMA CommitOthers ==
  ASSUME OverlapInv, NEW r \in Req, Commit(r)
  PROVE  /\ IsFiniteSet(revisions') /\ \A q \in Req : Own(txn[q])'
         /\ \A t \in Tasks : t # txn[r].t => /\ task'[t] = task[t]
                                            /\ RevisionsOf(t)' = RevisionsOf(t)
                                            /\ DecisionsOn(t)' = DecisionsOn(t)
         /\ \A t \in Tasks : t # txn[r].t /\ Kept(t) => Kept(t)'
         /\ \A q \in Req \ stale' : Settled(txn[q])'
<1>0. TypeOK /\ txn[r] \in Write /\ Own(txn[r])
  BY KindOf DEF OverlapInv, Inv, Commit
<1>1. PICK c \in Write : c = txn[r] /\ c.op = "write"
  BY <1>0 DEF Commit
<1>2. /\ task' = [task EXCEPT ![c.t] = Result(c)]
      /\ docStatus' = IF c.doc = "unchanged" THEN docStatus ELSE c.doc
      /\ revisions' = revisions \union c.adds
      /\ decisions' = decisions \o c.decides
      /\ txn' = [txn EXCEPT ![r] = Idle]
      /\ stale' = (stale \union Outdated(r)) \ {r}
  BY <1>1 DEF Commit, Result
<1>3. c.t \in Tasks /\ task \in [Tasks -> TaskRow]
      /\ decisions \in Seq(Decision) /\ revisions \subseteq Revision
  BY <1>0, <1>1 DEF TypeOK, Write
<1>4. IsFiniteSet(revisions')
  <2>1. c.adds = {} \/ \E v \in Revision : c.adds = {v}
    BY <1>1 DEF OverlapInv, Inv, PendingFollows
  <2>2. c.adds = {} => revisions' = revisions
    BY <1>2
  <2>. QED BY <1>2, <2>1, <2>2, FS_AddElement DEF OverlapInv
<1>5. \A q \in Req : txn'[q] = IF q = r THEN Idle ELSE txn[q]
  BY <1>0, <1>2 DEF TypeOK
<1>6. ASSUME NEW q \in Req
      PROVE  Own(txn[q])'
  <2>1. Own(txn'[q])
    BY <1>5, Kinds DEF OverlapInv, Own
  <2>. QED BY <2>1 DEF Own
<1>7. ASSUME NEW t \in Tasks, t # c.t
      PROVE  /\ task'[t] = task[t]
             /\ RevisionsOf(t)' = RevisionsOf(t)
             /\ DecisionsOn(t)' = DecisionsOn(t)
  <2>1. task'[t] = task[t]
    BY <1>2, <1>3, <1>7
  <2>2. RevisionsOf(t)' = RevisionsOf(t)
    BY <1>0, <1>1, <1>2, <1>7 DEF Own, RevisionsOf
  <2>3. DecisionsOn(t)' = DecisionsOn(t)
    <3>1. CASE c.decides = << >>
      BY <1>2, <1>3, <3>1 DEF DecisionsOn
    <3>2. ASSUME NEW d \in Decision, c.decides = <<d>>, d.task = c.t
          PROVE  DecisionsOn(t)' = DecisionsOn(t)
      BY <1>2, <1>3, <1>7, <3>2, Appended
    <3>. QED BY <1>0, <1>1, <3>1, <3>2 DEF Own
  <2>. QED BY <2>1, <2>2, <2>3
<1>8. \A v : Continues(v) => Continues(v)'
  BY <1>2 DEF Continues
<1>9. ASSUME NEW t \in Tasks, t # c.t, Kept(t)
      PROVE  Kept(t)'
  <2>1. Stored(t)' = Stored(t) /\ (Counted(t) => Counted(t)')
    BY <1>7, <1>9 DEF Stored, Counted
  <2>. QED BY <1>7, <1>8, <1>9, <2>1 DEF Kept
<1>10. ASSUME NEW q \in Req \ stale'
       PROVE  Settled(txn[q])'
  <2>1. PICK d : d = txn'[q]
    OBVIOUS
  <2>2. Settled(d)'
    <3>1. CASE q = r
      BY <1>5, <2>1, <3>1, Kinds DEF Settled
    <3>2. CASE q # r
      <4>1. d = txn[q] /\ Settled(d)
        BY <1>2, <1>5, <2>1, <3>2 DEF OverlapInv
      <4>2. d.op \in {"loaded", "drafting", "write"} => d.t # c.t /\ c.doc = "unchanged"
        BY <1>1, <1>2, <3>2, <4>1 DEF Outdated
      <4>3. d.op \in {"loaded", "drafting", "write"} => d.t \in Tasks
        BY <1>0, <4>1, KindOf DEF Loaded, Drafting, Write
      <4>4. d.op \in {"loaded", "drafting", "write"} =>
              /\ task'[d.t] = task[d.t] /\ UNCHANGED docStatus
              /\ RevisionsOf(d.t)' = RevisionsOf(d.t)
              /\ revisions \subseteq revisions'
        BY <1>2, <1>7, <4>2, <4>3
      <4>. QED BY <4>1, <4>4, SettledStays
    <3>. QED BY <3>1, <3>2
  <2>. QED BY <2>1, <2>2 DEF Settled, Result, Moves, Edits, Decides
<1>. QED BY <1>1, <1>4, <1>6, <1>7, <1>9, <1>10

\* The commit of a call that is not stale, on a task no stale call has written.
LEMMA CommitKept ==
  ASSUME OverlapInv, NEW r \in Req \ stale, Commit(r),
         NEW c, c = txn[r], c.t \notin crossed
  PROVE  Kept(c.t)'
<1>0. TypeOK /\ txn[r] \in Write
  BY KindOf DEF OverlapInv, Inv, Commit
<1>1. c \in Write /\ c.op = "write"
  BY <1>0 DEF Commit
<1>2. /\ task' = [task EXCEPT ![c.t] = Result(c)]
      /\ UniqueNumbers(c.adds)
      /\ revisions' = revisions \union c.adds
      /\ decisions' = decisions \o c.decides
  BY <1>1 DEF Commit, Result
<1>3. c.t \in Tasks /\ task[c.t] \in TaskRow /\ task \in [Tasks -> TaskRow]
      /\ decisions \in Seq(Decision) /\ revisions \subseteq Revision
  BY <1>0, <1>1 DEF TypeOK, Write
<1>4. Result(c).status # "absent" /\ (Moves(c) \/ Edits(c) \/ Decides(c))
  BY <1>1 DEF OverlapInv, Settled
<1>5. task'[c.t] = Result(c) /\ Stored(c.t)'
  BY <1>2, <1>3, <1>4 DEF Stored
<1>6. Kept(c.t) /\ IsFiniteSet(RevisionsOf(c.t)) /\ IsFiniteSet(DecisionsOn(c.t))
  BY <1>0, <1>1, <1>3, FinitelyMany DEF OverlapInv
<1>7. \A v : Continues(v) => Continues(v)'
  BY <1>2 DEF Continues
<1>8. SUFFICES Counted(c.t)' /\ \A v \in RevisionsOf(c.t)' : Continues(v)'
  BY <1>1, <1>5 DEF Kept
<1>11. CASE Moves(c)
  <2>1. revisions' = revisions /\ decisions' = decisions
    BY <1>2, <1>3, <1>11 DEF Moves
  <2>2. RevisionsOf(c.t)' = RevisionsOf(c.t) /\ DecisionsOn(c.t)' = DecisionsOn(c.t)
    BY <2>1 DEF RevisionsOf, DecisionsOn
  <2>4. Counted(c.t)'
    <3>1. CASE task[c.t] = NoTask /\ Result(c).row = 1
      <4>1. RevisionsOf(c.t) = {} /\ DecisionsOn(c.t) = {}
        BY <1>6, <3>1 DEF Kept, Stored, NoTask
      <4>2. Cardinality({}) = 0
        BY FS_EmptySet
      <4>. QED BY <1>5, <2>2, <3>1, <4>1, <4>2 DEF Counted
    <3>2. CASE Active(c.t) /\ Result(c).row = task[c.t].row
      BY <1>5, <1>6, <2>2, <3>2 DEF Kept, Counted, Active, Stored
    <3>. QED BY <1>11, <3>1, <3>2 DEF Moves
  <2>. QED BY <1>6, <1>7, <2>2, <2>4 DEF Kept
<1>12. CASE Edits(c)
  <2>1. PICK v \in Revision : c.adds = {v} /\ v.task = c.t /\ Continues(v)
    BY <1>12 DEF Edits
  <2>2. Active(c.t) /\ Result(c).row = task[c.t].row + 1 /\ decisions' = decisions
    BY <1>2, <1>3, <1>12 DEF Edits
  <2>3. revisions' = revisions \union {v} /\ v \notin revisions
    BY <1>2, <2>1 DEF UniqueNumbers
  <2>4. /\ DecisionsOn(c.t)' = DecisionsOn(c.t)
        /\ RevisionsOf(c.t)' = RevisionsOf(c.t) \union {v} /\ v \notin RevisionsOf(c.t)
    BY <2>1, <2>2, <2>3 DEF RevisionsOf, DecisionsOn
  <2>5. Counted(c.t)'
    <3>1. Cardinality(RevisionsOf(c.t)') = Cardinality(RevisionsOf(c.t)) + 1
      BY <1>6, <2>4, FS_AddElement
    <3>2. Cardinality(RevisionsOf(c.t)) \in Nat /\ Cardinality(DecisionsOn(c.t)) \in Nat
      BY <1>6, FS_CardinalityType
    <3>3. task[c.t].row = 1 + Cardinality(RevisionsOf(c.t)) + Cardinality(DecisionsOn(c.t))
      BY <1>6, <2>2 DEF Kept, Counted, Active, Stored
    <3>4. task'[c.t].row = task[c.t].row + 1
      BY <1>5, <2>2
    <3>5. task'[c.t].row = 1 + Cardinality(RevisionsOf(c.t)') + Cardinality(DecisionsOn(c.t)')
      BY <2>4, <3>1, <3>2, <3>3, <3>4
    <3>. QED BY <3>5 DEF Counted
  <2>. QED BY <1>6, <1>7, <2>1, <2>4, <2>5 DEF Kept
<1>13. CASE Decides(c)
  <2>1. PICK d \in Decision : c.decides = <<d>> /\ d.task = c.t
    BY <1>13 DEF Decides
  <2>2. /\ Active(c.t) /\ Result(c).row = task[c.t].row + 1
        /\ revisions' = revisions /\ decisions' = decisions \o <<d>>
    BY <1>2, <1>13, <2>1 DEF Decides
  <2>4. RevisionsOf(c.t)' = RevisionsOf(c.t)
    BY <2>2 DEF RevisionsOf
  <2>6. /\ DecisionsOn(c.t)' = DecisionsOn(c.t) \union {Len(decisions) + 1}
        /\ Len(decisions) + 1 \notin DecisionsOn(c.t)
    BY <1>3, <2>1, <2>2, Appended
  <2>8. Counted(c.t)'
    <3>1. Cardinality(DecisionsOn(c.t)') = Cardinality(DecisionsOn(c.t)) + 1
      BY <1>6, <2>6, FS_AddElement
    <3>2. Cardinality(RevisionsOf(c.t)) \in Nat /\ Cardinality(DecisionsOn(c.t)) \in Nat
      BY <1>6, FS_CardinalityType
    <3>3. task[c.t].row = 1 + Cardinality(RevisionsOf(c.t)) + Cardinality(DecisionsOn(c.t))
      BY <1>6, <2>2 DEF Kept, Counted, Active, Stored
    <3>4. task'[c.t].row = task[c.t].row + 1
      BY <1>5, <2>2
    <3>5. task'[c.t].row = 1 + Cardinality(RevisionsOf(c.t)') + Cardinality(DecisionsOn(c.t)')
      BY <2>4, <3>1, <3>2, <3>3, <3>4
    <3>. QED BY <3>5 DEF Counted
  <2>. QED BY <1>6, <1>7, <2>4, <2>8 DEF Kept
<1>. QED BY <1>4, <1>11, <1>12, <1>13

LEMMA CommitOverlap ==
  ASSUME OverlapInv, NEW r \in Req, Commit(r)
  PROVE  OverlapInv' /\ (r \in stale \/ Forward)
<1>0. Inv' /\ txn[r] \in Write /\ txn[r].op = "write" /\ TypeOK
  BY CommitInv, KindOf DEF OverlapInv, Inv, Commit
<1>1. PICK c \in Write : c = txn[r]
  BY <1>0
<1>2. /\ docStatus' = IF c.doc = "unchanged" THEN docStatus ELSE c.doc
      /\ crossed' = IF r \in stale THEN crossed \union {c.t} ELSE crossed
  BY <1>1 DEF Commit
<1>3. \A t \in Tasks \ crossed' : Kept(t)'
  <2>. SUFFICES ASSUME NEW t \in Tasks \ crossed' PROVE Kept(t)'
    OBVIOUS
  <2>1. t \notin crossed /\ Kept(t)
    BY <1>2 DEF OverlapInv
  <2>2. CASE t # c.t
    <3>1. t # txn[r].t
      BY <1>1, <2>2
    <3>. QED BY <2>1, <3>1, CommitOthers
  <2>3. CASE t = c.t
    <3>1. r \notin stale
      BY <1>2, <2>3
    <3>2. Kept(c.t)'
      BY <1>1, <2>1, <2>3, <3>1, CommitKept
    <3>. QED BY <2>3, <3>2
  <2>. QED BY <2>2, <2>3
<1>4. OverlapInv'
  BY <1>0, <1>3, CommitOthers DEF OverlapInv
<1>5. ASSUME r \notin stale
      PROVE  Forward
  <2>1. Moves(c) \/ Edits(c) \/ Decides(c)
    BY <1>0, <1>1, <1>5 DEF OverlapInv, Settled
  <2>2. task[c.t].status # "completed"
    BY <2>1 DEF Moves, Edits, Decides, Active, NoTask
  <2>3. docStatus' = docStatus \/ CanMoveDoc(docStatus, docStatus')
    BY <1>2, <2>1 DEF Moves, Edits, Decides
  <2>4. \A t \in Tasks : t # c.t => /\ task'[t] = task[t]
                                   /\ RevisionsOf(t)' = RevisionsOf(t)
                                   /\ DecisionsOn(t)' = DecisionsOn(t)
    <3>1. \A t \in Tasks : t # txn[r].t => /\ task'[t] = task[t]
                                          /\ RevisionsOf(t)' = RevisionsOf(t)
                                          /\ DecisionsOn(t)' = DecisionsOn(t)
      BY CommitOthers
    <3>. QED BY <1>1, <3>1
  <2>. QED BY <2>2, <2>3, <2>4 DEF Forward
<1>. QED BY <1>4, <1>5

LEMMA OverlapStep ==
  ASSUME OverlapInv, [Next]_vars
  PROVE  OverlapInv' /\ (StaleCommit \/ Forward)
<1>1. Inv'
  BY NextInv DEF OverlapInv
<1>2. CASE UNCHANGED vars
  <2>1. \A t : /\ RevisionsOf(t)' = RevisionsOf(t) /\ DecisionsOn(t)' = DecisionsOn(t)
               /\ Stored(t)' = Stored(t)
    BY <1>2 DEF vars, RevisionsOf, DecisionsOn, Stored
  <2>2. \A t \in Tasks \ crossed' : Kept(t)'
    BY <1>2, <2>1 DEF vars, OverlapInv, Kept, Counted, Continues
  <2>3. \A q \in Req \ stale' : Settled(txn[q])'
    <3>. SUFFICES ASSUME NEW q \in Req \ stale' PROVE Settled(txn[q])'
      OBVIOUS
    <3>1. PICK d : d = txn[q]
      OBVIOUS
    <3>2. Settled(d)
      BY <1>2, <3>1 DEF vars, OverlapInv
    <3>3. Settled(d)'
      BY <1>2, <2>1, <3>2, SettledStays DEF vars
    <3>. QED BY <1>2, <3>1, <3>3 DEF vars, Settled, Result, Moves, Edits, Decides
  <2>4. (\A q \in Req : Own(txn[q])') /\ IsFiniteSet(revisions')
    BY <1>2 DEF vars, OverlapInv, Own
  <2>. QED BY <1>1, <1>2, <2>1, <2>2, <2>3, <2>4 DEF vars, OverlapInv, Forward
<1>3. CASE Prepare
  <2>1. /\ UNCHANGED <<task, revisions, decisions, txn, crossed>>
        /\ \A q \in Req : txn[q] = Idle
        /\ CanMoveDoc(docStatus, docStatus')
    BY <1>3 DEF Prepare, Free
  <2>2. \A t : /\ RevisionsOf(t)' = RevisionsOf(t) /\ DecisionsOn(t)' = DecisionsOn(t)
               /\ Stored(t)' = Stored(t)
    BY <2>1 DEF RevisionsOf, DecisionsOn, Stored
  <2>3. \A t \in Tasks \ crossed' : Kept(t)'
    BY <2>1, <2>2 DEF OverlapInv, Kept, Counted, Continues
  <2>4. /\ \A q \in Req : Settled(txn[q])' /\ Own(txn[q])'
        /\ IsFiniteSet(revisions')
    BY <2>1, Kinds DEF Settled, Own, OverlapInv
  <2>. QED BY <1>1, <2>1, <2>2, <2>3, <2>4 DEF OverlapInv, Forward
<1>4. ASSUME NEW r \in Req, Commit(r) PROVE OverlapInv' /\ (StaleCommit \/ Forward)
  BY <1>4, CommitOverlap DEF StaleCommit
<1>5. ASSUME NEW r \in Req, Abort(r) PROVE OverlapInv' /\ Forward
  <2>1. Settled(Idle) /\ Own(Idle)
    BY Kinds DEF Settled, Own
  <2>. QED BY <1>1, <1>5, <2>1, BeginOverlap DEF Abort
<1>6. ASSUME NEW r \in Req, NEW t \in Tasks, CreateEscalated(r, t) PROVE OverlapInv' /\ Forward
  <2>1. txn[r].actor \in Users
    BY <1>6 DEF CreateEscalated, OverlapInv, Inv, TypeOK, Idle, Loaded, Drafting, Write, Escalation
  <2>2. NewTask("scholar", txn[r].actor) \in TaskRow /\ NewTask("scholar", txn[r].actor).row = 1
        /\ NewTask("scholar", txn[r].actor).status # "absent"
    BY <2>1 DEF NewTask, TaskRow, TaskStatuses, Levels
  <2>. QED BY <1>1, <1>6, <2>2, MoveOverlap DEF CreateEscalated, FreshTask
<1>7. ASSUME NEW r \in Req, NEW u \in Users, NEW t \in Tasks, Queue(r, u, t)
      PROVE  OverlapInv' /\ Forward
  BY <1>7, QueueOverlap
<1>8. ASSUME NEW r \in Req, Review(r) PROVE OverlapInv' /\ Forward
  BY <1>8, ReviewOverlap
<1>. QED BY <1>2, <1>3, <1>4, <1>5, <1>6, <1>7, <1>8 DEF Next

LEMMA InitOverlap == Init => OverlapInv
<1>. SUFFICES ASSUME Init PROVE OverlapInv
  OBVIOUS
<1>1. \A t \in Tasks : Kept(t)
  BY DEF Init, Kept, Counted, Stored, NoTask, RevisionsOf, DecisionsOn
<1>2. IsFiniteSet(revisions)
  BY FS_EmptySet DEF Init
<1>3. \A r \in Req : Settled(txn[r]) /\ Own(txn[r])
  BY Kinds DEF Init, Settled, Own
<1>. QED BY <1>1, <1>2, <1>3, InitInv DEF OverlapInv

LEMMA OverlapInvariance == Spec => []OverlapInv
<1>1. OverlapInv /\ [Next]_vars => OverlapInv'
  BY OverlapStep
<1>. QED BY <1>1, InitOverlap, PTL DEF Spec

\* However many calls overlap, a task that no stale call has written has a
\* row_version that counts its edits and decisions, and each of its edits
\* starts from the text the one before it left.
THEOREM EditsChained == Spec => []EditsAreChained
<1>1. OverlapInv => EditsAreChained
  BY DEF OverlapInv, Kept, EditsAreChained
<1>. QED BY <1>1, OverlapInvariance, PTL

\* However many calls overlap, only the commit of a stale one touches a decided
\* task, or moves the status of the document off the edges of its machine.
THEOREM GoesForward == Spec => DecisionIsFinal /\ DocumentFollowsMachine
<1>1. OverlapInv /\ [Next]_vars =>
        [\/ StaleCommit
         \/ \A t \in Tasks : task[t].status = "completed" =>
              /\ task'[t] = task[t]
              /\ RevisionsOf(t)' = RevisionsOf(t)
              /\ DecisionsOn(t)' = DecisionsOn(t)]_vars
  BY OverlapStep DEF Forward
<1>2. OverlapInv /\ [Next]_vars => [StaleCommit \/ Machine!Next]_docStatus
  <2>. SUFFICES ASSUME OverlapInv, [Next]_vars, ~ StaleCommit
                PROVE  [Machine!Next]_docStatus
    OBVIOUS
  <2>1. docStatus' = docStatus \/ CanMoveDoc(docStatus, docStatus')
    BY OverlapStep DEF Forward
  <2>2. docStatus' \in DocStatuses
    BY OverlapStep DEF OverlapInv, Inv, TypeOK
  <2>. QED BY <2>1, <2>2 DEF Machine!Next, Machine!CanMoveDoc, Machine!DocTransitions, Machine!DocStatuses,
                             CanMoveDoc, DocTransitions, DocStatuses
<1>3. Init => Machine!Init
  BY DEF Init, Machine!Init
<1>. QED BY <1>1, <1>2, <1>3, OverlapInvariance, PTL
         DEF Spec, DecisionIsFinal, DocumentFollowsMachine

=============================================================================
