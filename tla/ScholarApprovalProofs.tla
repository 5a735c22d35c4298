----------------------- MODULE ScholarApprovalProofs -----------------------
(***************************************************************************)
(* Theorems about ScholarApproval, for every set of calls, users, tasks    *)
(* and records, and however the calls overlap.  A call is stale once       *)
(* another has written since it read; no lock of the service excludes it,  *)
(* so the invariant says what its write can change and what it cannot.     *)
(***************************************************************************)
EXTENDS ScholarApproval, FiniteSetTheorems, TLAPS

-----------------------------------------------------------------------------
(* Types, and the unique index.                                            *)

Inv == TypeOK /\ OneActivePerLevel

\* A call that begins with a well-formed write changes no record.
LEMMA BeginInv ==
  ASSUME Inv, NEW r \in Req, NEW call \in {Idle} \union Insert \union Update,
         UNCHANGED <<approvals, deciders, late>>, stale' \subseteq stale,
         txn' = [txn EXCEPT ![r] = call]
  PROVE  Inv'
BY DEF Inv, TypeOK, OneActivePerLevel, ActiveIds

\* The call of some approver at some level.
ApproveAny(r) ==
  \E u \in Users, t \in Tasks, level \in Levels, a \in Ids,
     validUntil \in Validities :
    Approve(r, u, t, level, validUntil, a)

\* The role that each level asks for.
RoleOf(level) ==
  {u \in Users : /\ level = "scholar" => u \in Scholars
                 /\ level = "board"   => u \in Admins}

\* What the write of any call in flight fits, also that of a stale one: an insert
\* is of a new record, by someone with the role of its level who is not the
\* uploader, and an update is of records there are.
Writable(call) ==
  /\ call.op = "insert" =>
       /\ approvals[call.id].status = "absent"
       /\ call.row.status = "active"
       /\ call.row.approver # Uploader
       /\ call.row.approver \in RoleOf(call.row.level)
  /\ call.op = "update" => \A a \in call.ids : approvals[a].status # "absent"

\* What the write of a call that is not stale fits as well: the approver of an
\* insert has no active approval, and the records of an update are active.
UpToDate(call) ==
  /\ call.op = "insert" => \A a \in ActiveIds : approvals[a].approver # call.row.approver
  /\ call.op = "update" => call.ids \subseteq ActiveIds

\* no insert in flight is of the same record
OwnId(call) == call.op = "insert" => \A q \in Req : txn[q].op = "insert" => txn[q].id # call.id

\* What Approve prepares is a well-formed insert that fits the records.
LEMMA ApproveType ==
  ASSUME NEW r \in Req, ApproveAny(r)
  PROVE  \E call \in Insert :
           Begin(r, call) /\ Writable(call) /\ UpToDate(call) /\ OwnId(call)
<1>1. PICK u \in Users, t \in Tasks, level \in Levels, a \in Ids,
           validUntil \in Validities :
        Approve(r, u, t, level, validUntil, a)
  BY DEF ApproveAny
<1> DEFINE row  == [level |-> level, approver |-> u,
                    validUntil |-> validUntil, status |-> "active"]
           call == [op |-> "insert", id |-> a, row |-> row]
<1>2. row \in Approval
  BY ValidityAssumption DEF Approval
<1>3. call \in Insert
  BY <1>2 DEF Insert
<1>4. Begin(r, call)
  BY <1>1 DEF Approve
<1>5. Writable(call)
  BY <1>1 DEF Approve, FreshId, NoApproval, SeparateDuties, LevelRole, RoleOf, Writable
<1>6. UpToDate(call)
  BY <1>1 DEF Approve, SeparateDuties, UpToDate
<1>7. OwnId(call)
  BY <1>1 DEF Approve, FreshId, OwnId
<1> QED
  BY <1>3, <1>4, <1>5, <1>6, <1>7

\* What Revoke and ExpireApprovals prepare is a well-formed update of records
\* that were active.
LEMMA UpdateType ==
  ASSUME NEW r \in Req,
         ExpireApprovals(r) \/ \E u \in Users, a \in Ids : Revoke(r, u, a)
  PROVE  \E call \in Update : Begin(r, call) /\ call.ids \subseteq ActiveIds
<1>1. CASE ExpireApprovals(r)
  <2> DEFINE call == [op |-> "update", ids |-> LapsedIds, status |-> "expired"]
  <2>1. LapsedIds \subseteq ActiveIds /\ ActiveIds \subseteq Ids
    BY DEF LapsedIds, ActiveIds
  <2>2. call \in Update
    BY <2>1 DEF Update
  <2> QED
    BY <1>1, <2>1, <2>2 DEF ExpireApprovals
<1>2. CASE \E u \in Users, a \in Ids : Revoke(r, u, a)
  <2>1. PICK u \in Users, a \in Ids : Revoke(r, u, a)
    BY <1>2
  <2> DEFINE call == [op |-> "update", ids |-> {a}, status |-> "revoked"]
  <2>2. {a} \subseteq ActiveIds
    BY <2>1 DEF Revoke, ActiveIds
  <2>3. call \in Update
    BY DEF Update
  <2> QED
    BY <2>1, <2>2, <2>3 DEF Revoke
<1> QED
  BY <1>1, <1>2

\* An insert that the unique index accepts leaves one active record per level.
LEMMA CommitInsertInv ==
  ASSUME Inv, NEW r \in Req, CommitInsert(r)
  PROVE  Inv'
<1>1. txn[r] \in Insert
  BY DEF Inv, TypeOK, CommitInsert, Idle, Update
<1>2. TypeOK'
  BY <1>1 DEF Inv, TypeOK, CommitInsert, Insert, Overtaken
<1>3. OneActivePerLevel'
  BY DEF CommitInsert, UniqueActiveLevel, OneActivePerLevel, ActiveIds
<1> QED
  BY <1>2, <1>3 DEF Inv

\* An update only ends records.
LEMMA CommitUpdateInv ==
  ASSUME Inv, NEW r \in Req, CommitUpdate(r)
  PROVE  /\ Inv'
         /\ \A a \in Ids : approvals'[a] =
              IF a \in txn[r].ids
              THEN [approvals[a] EXCEPT !.status = txn[r].status]
              ELSE approvals[a]
         /\ txn[r].status \in {"expired", "revoked"}
         /\ ActiveIds' \subseteq ActiveIds
<1>1. txn[r] \in Update
  BY DEF Inv, TypeOK, CommitUpdate, Idle, Insert
<1>2. txn[r].status \in {"expired", "revoked"}
  BY <1>1 DEF Update
<1>3. \A a \in Ids : approvals'[a] =
        IF a \in txn[r].ids
        THEN [approvals[a] EXCEPT !.status = txn[r].status]
        ELSE approvals[a]
  BY DEF CommitUpdate
<1>4. \A a \in Ids : approvals[a] \in Approval
  BY DEF Inv, TypeOK
<1>5. \A a \in Ids : approvals'[a] \in Approval
  BY <1>2, <1>3, <1>4 DEF Approval
<1>6. TypeOK'
  BY <1>5 DEF Inv, TypeOK, CommitUpdate, Overtaken
<1>7. \A a \in Ids : approvals'[a].level = approvals[a].level
  BY <1>3, <1>4 DEF Approval
<1>8. ActiveIds' \subseteq ActiveIds
  BY <1>2, <1>3, <1>4 DEF ActiveIds, Approval
<1>9. OneActivePerLevel'
  BY <1>7, <1>8 DEF Inv, OneActivePerLevel, ActiveIds
<1> QED
  BY <1>2, <1>3, <1>6, <1>8, <1>9 DEF Inv

\* Time and decisions leave the status, level and approver of every record.
LEMMA LapseInv ==
  ASSUME Inv, NEW a \in Ids, Lapse(a)
  PROVE  /\ Inv'
         /\ \A b \in Ids : /\ approvals'[b].status = approvals[b].status
                           /\ approvals'[b].level = approvals[b].level
                           /\ approvals'[b].approver = approvals[b].approver
<1>1. \A b \in Ids : approvals[b] \in Approval
  BY DEF Inv, TypeOK
<1>2. \A b \in Ids : approvals'[b] =
        IF b = a THEN [approvals[b] EXCEPT !.validUntil = "past"] ELSE approvals[b]
  BY DEF Lapse, Inv, TypeOK
<1>3. \A b \in Ids : /\ approvals'[b] \in Approval
                     /\ approvals'[b].status = approvals[b].status
                     /\ approvals'[b].level = approvals[b].level
                     /\ approvals'[b].approver = approvals[b].approver
  <2>1. ASSUME NEW row \in Approval
        PROVE  /\ [row EXCEPT !.validUntil = "past"] \in Approval
               /\ [row EXCEPT !.validUntil = "past"].status = row.status
               /\ [row EXCEPT !.validUntil = "past"].level = row.level
               /\ [row EXCEPT !.validUntil = "past"].approver = row.approver
    BY DEF Approval
  <2> QED
    BY <1>1, <1>2, <2>1
<1>4. TypeOK'
  BY <1>3 DEF Inv, TypeOK, Lapse
<1>5. OneActivePerLevel'
  BY <1>3 DEF Inv, OneActivePerLevel, ActiveIds
<1> QED
  BY <1>3, <1>4, <1>5 DEF Inv

LEMMA InitInv == Init => Inv
BY PeopleAssumption
   DEF Init, Inv, TypeOK, OneActivePerLevel, ActiveIds, NoApproval, Approval, Levels

LEMMA Invariance == Inv /\ [Next]_vars => Inv'
<1> SUFFICES ASSUME Inv, [Next]_vars PROVE Inv'
  OBVIOUS
<1>1. ASSUME NEW a \in Ids, Lapse(a) PROVE Inv'
  BY <1>1, LapseInv
<1>2. ASSUME NEW r \in Req, NEW u \in Deciders, RecordDecision(r, u) PROVE Inv'
  BY <1>2, PeopleAssumption
     DEF RecordDecision, Inv, TypeOK, OneActivePerLevel, ActiveIds, Overtaken
<1>3. ASSUME NEW r \in Req, CommitInsert(r) PROVE Inv'
  BY <1>3, CommitInsertInv
<1>4. ASSUME NEW r \in Req, CommitUpdate(r) PROVE Inv'
  BY <1>4, CommitUpdateInv
<1>5. ASSUME NEW r \in Req, Abort(r) PROVE Inv'
  BY <1>5, BeginInv DEF Abort
<1>6. ASSUME NEW r \in Req,
             ExpireApprovals(r) \/ \E u \in Users, a \in Ids : Revoke(r, u, a)
      PROVE  Inv'
  BY <1>6, UpdateType, BeginInv DEF Begin
<1>7. ASSUME NEW r \in Req, ApproveAny(r) PROVE Inv'
  <2>1. PICK call \in Insert : Begin(r, call)
    BY <1>7, ApproveType
  <2> QED
    BY <2>1, BeginInv DEF Begin
<1>8. CASE UNCHANGED vars
  BY <1>8 DEF vars, Inv, TypeOK, OneActivePerLevel, ActiveIds
<1>9. CASE \E r \in Req :
             \/ \E u \in Deciders : RecordDecision(r, u)
             \/ CommitInsert(r)
             \/ CommitUpdate(r)
             \/ Abort(r)
             \/ ExpireApprovals(r)
             \/ \E u \in Users, a \in Ids : Revoke(r, u, a)
  BY <1>2, <1>3, <1>4, <1>5, <1>6, <1>9
<1>10. CASE \E r \in Req : ApproveAny(r)
  BY <1>7, <1>10
<1> QED
  BY <1>1, <1>8, <1>9, <1>10 DEF Next, ApproveAny

\* Every reachable record and call in flight is well formed.
THEOREM TypeCorrect == Spec => []TypeOK
<1>1. Inv => TypeOK
  BY DEF Inv
<1> QED
  BY <1>1, InitInv, Invariance, PTL DEF Spec

\* However many calls overlap, a level of a version has one active approval.
THEOREM OneActive == Spec => []OneActivePerLevel
<1>1. Inv => OneActivePerLevel
  BY DEF Inv
<1> QED
  BY <1>1, InitInv, Invariance, PTL DEF Spec

-----------------------------------------------------------------------------
(* What a stale call can break, and what it cannot.                        *)

\* Nobody approves what he or she uploaded, nor above his or her role.
ByOthers ==
  \A a \in ActiveIds : /\ approvals[a].approver # Uploader
                       /\ approvals[a].approver \in RoleOf(approvals[a].level)

OwnIds == \A r, q \in Req :
  r # q /\ txn[r].op = "insert" /\ txn[q].op = "insert" => txn[r].id # txn[q].id

PendingFits == \A r \in Req : Writable(txn[r]) /\ (r \in stale \/ UpToDate(txn[r]))

OverlapInv == DistinctApprovers /\ ByOthers /\ OwnIds /\ PendingFits

\* What a step leaves of the records that are no longer active.
Final ==
  \A a \in Ids : approvals[a].status \in {"expired", "revoked"} =>
    /\ approvals'[a].status \in {"expired", "revoked"}
    /\ StaleCommit \/ approvals'[a].status = approvals[a].status

LEMMA InitOverlap == Init => OverlapInv
BY DEF Init, OverlapInv, DistinctApprovers, ByOthers, OwnIds, PendingFits, Writable, UpToDate,
       ActiveIds, NoApproval, Idle

\* A call begins, or ends without writing.
LEMMA BeginOverlap ==
  ASSUME Inv, OverlapInv, NEW r \in Req, NEW call,
         UNCHANGED <<approvals, deciders, late>>,
         stale' \in {stale, stale \ {r}},
         txn' = [txn EXCEPT ![r] = call],
         Writable(call), UpToDate(call), OwnId(call)
  PROVE  OverlapInv' /\ Final
<1>1. ActiveIds' = ActiveIds
  BY DEF ActiveIds
<1>2. DistinctApprovers' /\ ByOthers'
  BY <1>1 DEF OverlapInv, DistinctApprovers, ByOthers
<1>3. \A q \in Req : txn'[q] = IF q = r THEN call ELSE txn[q]
  BY DEF Inv, TypeOK
<1>4. OwnIds'
  BY <1>3 DEF OverlapInv, OwnIds, OwnId
<1>5. \A c : (Writable(c) => Writable(c)') /\ (UpToDate(c) => UpToDate(c)')
  BY <1>1 DEF Writable, UpToDate
<1>6. ASSUME NEW q \in Req
      PROVE  (Writable(txn[q]) /\ (q \in stale \/ UpToDate(txn[q])))'
  <2>1. CASE q = r
    <3>1. txn'[q] = call
      BY <1>3, <2>1
    <3> QED
      BY <1>1, <3>1 DEF Writable, UpToDate
  <2>2. CASE q # r
    <3>1. txn'[q] = txn[q] /\ (q \in stale <=> q \in stale')
      BY <1>3, <2>2
    <3> QED
      BY <1>1, <3>1 DEF OverlapInv, PendingFits, Writable, UpToDate
  <2> QED
    BY <2>1, <2>2
<1>7. PendingFits'
  BY <1>6 DEF PendingFits
<1> QED
  BY <1>2, <1>4, <1>7 DEF OverlapInv, Final

\* After a write every other call in flight is stale.
LEMMA OthersAreStale ==
  ASSUME Inv, NEW r \in Req, Overtaken(r), txn' = [txn EXCEPT ![r] = Idle]
  PROVE  \A q \in Req : /\ txn'[q] \in {Idle, txn[q]}
                        /\ q \in stale' \/ UpToDate(txn[q])'
BY DEF Inv, TypeOK, Overtaken, Free, UpToDate, Idle

LEMMA CommitInsertOverlap ==
  ASSUME Inv, OverlapInv, NEW r \in Req, CommitInsert(r)
  PROVE  OverlapInv' /\ Final
<1> DEFINE c == txn[r]
<1>1. c \in Insert
  BY DEF Inv, TypeOK, CommitInsert, Idle, Update
<1>2. /\ c.id \in Ids
      /\ approvals[c.id].status = "absent"
      /\ c.row.status = "active"
      /\ c.row.approver # Uploader
      /\ c.row.approver \in RoleOf(c.row.level)
      /\ r \in stale \/ \A a \in ActiveIds : approvals[a].approver # c.row.approver
  BY <1>1 DEF OverlapInv, PendingFits, Writable, UpToDate, CommitInsert, Insert
<1>3. \A a \in Ids : approvals'[a] = IF a = c.id THEN c.row ELSE approvals[a]
  BY DEF CommitInsert, Inv, TypeOK
<1>4. ActiveIds' = ActiveIds \union {c.id}
  BY <1>2, <1>3 DEF ActiveIds
<1>5. late \subseteq late' /\ (r \in stale => c.id \in late')
  BY DEF CommitInsert
<1>6. DistinctApprovers'
  BY <1>2, <1>3, <1>4, <1>5 DEF OverlapInv, DistinctApprovers, ActiveIds
<1>7. ByOthers'
  BY <1>2, <1>3, <1>4 DEF OverlapInv, ByOthers, ActiveIds
<1>8. \A q \in Req : /\ txn'[q] \in {Idle, txn[q]}
                     /\ q \in stale' \/ UpToDate(txn[q])'
  BY OthersAreStale DEF CommitInsert
<1>9. OwnIds'
  BY <1>8 DEF OverlapInv, OwnIds, Idle
<1>10. \A q \in Req : Writable(txn[q])'
  <2>1. ASSUME NEW q \in Req
        PROVE  Writable(txn[q])'
    <3>1. txn'[q] = IF q = r THEN Idle ELSE txn[q]
      BY DEF CommitInsert, Inv, TypeOK
    <3>2. CASE q = r
      BY <3>1, <3>2 DEF Writable, Idle
    <3>3. CASE q # r
      <4>1. txn'[q] = txn[q] /\ Writable(txn[q])
        BY <3>1, <3>3 DEF OverlapInv, PendingFits
      <4>2. txn[q].op = "insert" => txn[q].id # c.id /\ txn[q].id \in Ids
        BY <3>3 DEF OverlapInv, OwnIds, CommitInsert, Inv, TypeOK, Idle, Insert, Update
      <4>3. txn[q].op = "update" => txn[q].ids \subseteq Ids
        BY DEF Inv, TypeOK, Idle, Insert, Update
      <4> QED
        BY <1>2, <1>3, <4>1, <4>2, <4>3 DEF Writable
    <3> QED
      BY <3>2, <3>3
  <2> QED
    BY <2>1
<1>11. PendingFits'
  BY <1>8, <1>10 DEF PendingFits
<1>12. Final
  BY <1>2, <1>3 DEF Final
<1> QED
  BY <1>6, <1>7, <1>9, <1>11, <1>12 DEF OverlapInv

LEMMA CommitUpdateOverlap ==
  ASSUME Inv, OverlapInv, NEW r \in Req, CommitUpdate(r)
  PROVE  OverlapInv' /\ Final
<1> DEFINE c == txn[r]
<1>1. /\ \A a \in Ids : approvals'[a] =
           IF a \in c.ids THEN [approvals[a] EXCEPT !.status = c.status]
                          ELSE approvals[a]
      /\ c.status \in {"expired", "revoked"}
      /\ ActiveIds' \subseteq ActiveIds
  BY CommitUpdateInv
<1>2. \A a \in Ids : approvals[a] \in Approval
  BY DEF Inv, TypeOK
<1>3. \A a \in Ids : /\ approvals'[a].approver = approvals[a].approver
                     /\ approvals'[a].level = approvals[a].level
                     /\ approvals'[a].status = IF a \in c.ids THEN c.status
                                                              ELSE approvals[a].status
  BY <1>1, <1>2 DEF Approval
<1>4. late' = late
  BY DEF CommitUpdate
<1>5. DistinctApprovers' /\ ByOthers'
  BY <1>1, <1>3, <1>4 DEF OverlapInv, DistinctApprovers, ByOthers, ActiveIds
<1>6. \A q \in Req : /\ txn'[q] \in {Idle, txn[q]}
                     /\ q \in stale' \/ UpToDate(txn[q])'
  BY OthersAreStale DEF CommitUpdate
<1>7. OwnIds'
  BY <1>6 DEF OverlapInv, OwnIds, Idle
<1>8. /\ c.ids \subseteq Ids
      /\ \A a \in c.ids : approvals[a].status # "absent"
      /\ r \in stale \/ c.ids \subseteq ActiveIds
  BY DEF OverlapInv, PendingFits, Writable, UpToDate, CommitUpdate, Inv, TypeOK, Idle, Insert, Update
<1>9. \A a \in Ids : approvals'[a].status = "absent" <=> approvals[a].status = "absent"
  BY <1>1, <1>3, <1>8
<1>10. \A q \in Req : Writable(txn[q])'
  <2>1. ASSUME NEW q \in Req
        PROVE  Writable(txn[q])'
    <3>1. CASE txn'[q] = Idle
      BY <3>1 DEF Writable, Idle
    <3>2. CASE txn'[q] = txn[q]
      <4>1. Writable(txn[q])
        BY DEF OverlapInv, PendingFits
      <4>2. txn[q].op = "insert" => txn[q].id \in Ids
        BY DEF Inv, TypeOK, Idle, Insert, Update
      <4>3. txn[q].op = "update" => txn[q].ids \subseteq Ids
        BY DEF Inv, TypeOK, Idle, Insert, Update
      <4> QED
        BY <1>9, <3>2, <4>1, <4>2, <4>3 DEF Writable
    <3> QED
      BY <1>6, <3>1, <3>2
  <2> QED
    BY <2>1
<1>11. PendingFits'
  BY <1>6, <1>10 DEF PendingFits
<1>12. Final
  <2>1. r \in stale => StaleCommit
    BY DEF StaleCommit
  <2>2. r \notin stale => \A a \in c.ids : approvals[a].status = "active"
    BY <1>8 DEF ActiveIds
  <2> QED
    BY <1>1, <1>3, <2>1, <2>2 DEF Final
<1> QED
  BY <1>5, <1>7, <1>11, <1>12 DEF OverlapInv

LEMMA LapseOverlap ==
  ASSUME Inv, OverlapInv, NEW a \in Ids, Lapse(a)
  PROVE  OverlapInv' /\ Final
<1>1. \A b \in Ids : /\ approvals'[b].status = approvals[b].status
                     /\ approvals'[b].level = approvals[b].level
                     /\ approvals'[b].approver = approvals[b].approver
  BY LapseInv
<1>2. ActiveIds' = ActiveIds /\ UNCHANGED <<txn, stale, late>>
  BY <1>1 DEF ActiveIds, Lapse
<1>3. DistinctApprovers' /\ ByOthers' /\ OwnIds'
  BY <1>1, <1>2 DEF OverlapInv, DistinctApprovers, ByOthers, OwnIds, ActiveIds
<1>4. \A r \in Req : /\ txn[r].op = "insert" => txn[r].id \in Ids
                     /\ txn[r].op = "update" => txn[r].ids \subseteq Ids
  BY DEF Inv, TypeOK, Idle, Insert, Update
<1>5. PendingFits'
  BY <1>1, <1>2, <1>4 DEF OverlapInv, PendingFits, Writable, UpToDate, ActiveIds
<1> QED
  BY <1>1, <1>3, <1>5 DEF OverlapInv, Final

LEMMA DecisionOverlap ==
  ASSUME Inv, OverlapInv, NEW r \in Req, NEW u \in Deciders, RecordDecision(r, u)
  PROVE  OverlapInv' /\ Final
<1>1. UNCHANGED <<approvals, txn, late>> /\ ActiveIds' = ActiveIds
  BY DEF RecordDecision, ActiveIds
<1>2. DistinctApprovers' /\ ByOthers' /\ OwnIds'
  BY <1>1 DEF OverlapInv, DistinctApprovers, ByOthers, OwnIds
<1>3. \A q \in Req : q \in stale' \/ txn[q] = Idle
  BY DEF RecordDecision, Overtaken, Free
<1>4. PendingFits'
  BY <1>1, <1>3 DEF OverlapInv, PendingFits, Writable, UpToDate, Idle
<1> QED
  BY <1>1, <1>2, <1>4 DEF OverlapInv, Final

\* Every step keeps the invariant, and moves no record out of a final status.
LEMMA OverlapStep ==
  ASSUME Inv, OverlapInv, [Next]_vars
  PROVE  OverlapInv' /\ Final
<1>1. ASSUME NEW a \in Ids, Lapse(a) PROVE OverlapInv' /\ Final
  BY <1>1, LapseOverlap
<1>2. ASSUME NEW r \in Req, NEW u \in Deciders, RecordDecision(r, u)
      PROVE  OverlapInv' /\ Final
  BY <1>2, DecisionOverlap
<1>3. ASSUME NEW r \in Req, CommitInsert(r) PROVE OverlapInv' /\ Final
  BY <1>3, CommitInsertOverlap
<1>4. ASSUME NEW r \in Req, CommitUpdate(r) PROVE OverlapInv' /\ Final
  BY <1>4, CommitUpdateOverlap
<1>5. ASSUME NEW r \in Req, Abort(r) PROVE OverlapInv' /\ Final
  <2>1. Writable(Idle) /\ UpToDate(Idle) /\ OwnId(Idle)
    BY DEF Writable, UpToDate, OwnId, Idle
  <2> QED
    BY <1>5, <2>1, BeginOverlap DEF Abort
<1>6. ASSUME NEW r \in Req,
             ExpireApprovals(r) \/ \E u \in Users, a \in Ids : Revoke(r, u, a)
      PROVE  OverlapInv' /\ Final
  <2>1. PICK call \in Update : Begin(r, call) /\ call.ids \subseteq ActiveIds
    BY <1>6, UpdateType
  <2>2. call.op = "update"
    BY DEF Update
  <2>3. Writable(call) /\ UpToDate(call) /\ OwnId(call)
    BY <2>1, <2>2 DEF Writable, UpToDate, OwnId, ActiveIds
  <2> QED
    BY <2>1, <2>3, BeginOverlap DEF Begin
<1>7. ASSUME NEW r \in Req, ApproveAny(r) PROVE OverlapInv' /\ Final
  <2>1. PICK call \in Insert :
          Begin(r, call) /\ Writable(call) /\ UpToDate(call) /\ OwnId(call)
    BY <1>7, ApproveType
  <2> QED
    BY <2>1, BeginOverlap DEF Begin
<1>8. CASE UNCHANGED vars
  BY <1>8 DEF vars, OverlapInv, DistinctApprovers, ByOthers, OwnIds, PendingFits, Writable,
              UpToDate, ActiveIds, Final
<1>9. CASE \E r \in Req :
             \/ \E u \in Deciders : RecordDecision(r, u)
             \/ CommitInsert(r)
             \/ CommitUpdate(r)
             \/ Abort(r)
             \/ ExpireApprovals(r)
             \/ \E u \in Users, a \in Ids : Revoke(r, u, a)
  BY <1>2, <1>3, <1>4, <1>5, <1>6, <1>9
<1>10. CASE \E r \in Req : ApproveAny(r)
  BY <1>7, <1>10
<1> QED
  BY <1>1, <1>8, <1>9, <1>10 DEF Next, ApproveAny

LEMMA OverlapInvariance == Spec => [](Inv /\ OverlapInv)
<1>1. Init => Inv /\ OverlapInv
  BY InitInv, InitOverlap
<1>2. Inv /\ OverlapInv /\ [Next]_vars => (Inv /\ OverlapInv)'
  BY Invariance, OverlapStep
<1> QED
  BY <1>1, <1>2, PTL DEF Spec

\* However calls overlap, two active approvals of a version are by different
\* people, unless an overtaken call inserted one of them
\* (docs/governance/scholar-approval.md).
THEOREM Distinct == Spec => []DistinctApprovers
<1>1. OverlapInv => DistinctApprovers
  BY DEF OverlapInv
<1> QED
  BY <1>1, OverlapInvariance, PTL

\* However calls overlap, an approval that was expired or revoked never counts
\* again, and only an overtaken call changes which of the two it was.
THEOREM EndIsFinal == Spec => TerminalIsFinal
<1>1. Inv /\ OverlapInv /\ [Next]_vars =>
        [\A a \in Ids : approvals[a].status \in {"expired", "revoked"} =>
           /\ approvals'[a].status \in {"expired", "revoked"}
           /\ StaleCommit \/ approvals'[a].status = approvals[a].status]_vars
  BY OverlapStep DEF Final
<1> QED
  BY <1>1, OverlapInvariance, PTL DEF Spec, TerminalIsFinal

\* Three different elements of a finite set.
LEMMA ThreeMembers ==
  ASSUME NEW S, IsFiniteSet(S), NEW x \in S, NEW y \in S, NEW z \in S,
         x # y, x # z, y # z
  PROVE  Cardinality(S) >= 3
<1>1. IsFiniteSet({x}) /\ Cardinality({x}) = 1
  BY FS_Singleton
<1>2. IsFiniteSet({x} \union {y}) /\ Cardinality({x} \union {y}) = 2
  <2>1. y \notin {x}
    OBVIOUS
  <2>2. /\ IsFiniteSet({x} \union {y})
        /\ Cardinality({x} \union {y}) = Cardinality({x}) + 1
    BY <1>1, <2>1, FS_AddElement, Zenon
  <2> QED
    BY <1>1, <2>2
<1>3. /\ IsFiniteSet(({x} \union {y}) \union {z})
      /\ Cardinality(({x} \union {y}) \union {z}) = 3
  <2>1. z \notin {x} \union {y}
    OBVIOUS
  <2>2. /\ IsFiniteSet(({x} \union {y}) \union {z})
        /\ Cardinality(({x} \union {y}) \union {z}) = Cardinality({x} \union {y}) + 1
    BY <1>2, <2>1, FS_AddElement, Zenon
  <2> QED
    BY <1>2, <2>2
<1>4. ({x} \union {y}) \union {z} \subseteq S
  OBVIOUS
<1>5. Cardinality(S) \in Nat
  BY FS_CardinalityType
<1> QED
  BY <1>3, <1>4, <1>5, FS_Subset

\* However calls overlap, no active approval is by the uploader or by somebody
\* without the role of its level, and a version that counts as ready at the
\* "restricted" risk, none of whose approvals is of an overtaken call, was approved
\* by three people.
THEOREM NeedsThree ==
  ASSUME IsFiniteSet(Ids)
  PROVE  Spec => []RestrictedNeedsThree
<1>1. Inv /\ OverlapInv => RestrictedNeedsThree
  <2> SUFFICES ASSUME Inv, OverlapInv PROVE RestrictedNeedsThree
    OBVIOUS
  <2>1. \A a \in ActiveIds :
          /\ approvals[a].approver # Uploader
          /\ approvals[a].level = "board" => approvals[a].approver \in Admins
          /\ approvals[a].level = "scholar" => approvals[a].approver \in Scholars
    BY DEF OverlapInv, ByOthers, RoleOf
  <2>2. ASSUME ReadyForPublish("restricted"), CurrentIds \intersect late = {}
        PROVE  Cardinality({approvals[a].approver : a \in CurrentIds}) >= 3
    <3>1. PICK x, y, z \in CurrentIds : /\ approvals[x].level = "initial"
                                        /\ approvals[y].level = "scholar"
                                        /\ approvals[z].level = "board"
      BY <2>2 DEF ReadyForPublish, RequiredLevels, SatisfiedLevels
    <3>2. CurrentIds \subseteq ActiveIds /\ CurrentIds \subseteq Ids
      BY DEF CurrentIds, ActiveIds
    <3>3. \A a, b \in CurrentIds : approvals[a].approver = approvals[b].approver => a = b
      BY <2>2, <3>2 DEF OverlapInv, DistinctApprovers
    <3>4. /\ approvals[x].approver # approvals[y].approver
          /\ approvals[x].approver # approvals[z].approver
          /\ approvals[y].approver # approvals[z].approver
      BY <3>1, <3>3
    <3> DEFINE people == {approvals[a].approver : a \in CurrentIds}
               of == [a \in CurrentIds |-> approvals[a].approver]
    <3>5. IsFiniteSet(people)
      <4>1. IsFiniteSet(CurrentIds)
        BY <3>2, FS_Subset
      <4>2. of \in Surjection(CurrentIds, people)
        BY DEF Surjection
      <4> QED
        BY <4>1, <4>2, FS_Surjection
    <3>6. /\ approvals[x].approver \in people
          /\ approvals[y].approver \in people
          /\ approvals[z].approver \in people
      OBVIOUS
    <3> HIDE DEF people
    <3>7. Cardinality(people) >= 3
      BY <3>4, <3>5, <3>6, ThreeMembers
    <3> QED
      BY <3>7 DEF people
  <2> QED
    BY <2>1, <2>2 DEF RestrictedNeedsThree
<1> QED
  BY <1>1, OverlapInvariance, PTL

=============================================================================
