---------------------------- MODULE Publication ----------------------------
(***************************************************************************)
(* What retrieval may serve of one document: publishing a version          *)
(* (document_publishing.py), suspending, archiving and rolling the document*)
(* back (document_lifecycle.py), and the citation registered for a         *)
(* version's content (citation_registry.py).                               *)
(*                                                                         *)
(* A call is a transaction of a unit of work: an operation's action reads  *)
(* and validates, Commit writes the columns it changed, and other calls may*)
(* commit in between.  The chunks of a version, which every operation hides*)
(* or shows together, are one column of the version's row, and so is its   *)
(* citation.  Versions other than the uploaded one come from imports and   *)
(* fixtures: no service adds a second version to a document.               *)
(***************************************************************************)
EXTENDS StateMachines, UnitOfWork

CONSTANTS
  Req,        \* the calls that may be in flight at the same time
  Versions,   \* the document's versions
  NoVersion,  \* the NULL of documents.published_version_id
  Risks       \* the content risks that publishing metadata declare

ASSUME VersionAssumption == NoVersion \notin Versions
ASSUME RiskAssumption ==
  Risks # {} /\ Risks \subseteq {"routine", "sensitive", "restricted"}

VARIABLES
  doc,        \* documents: review_status, published_version_id
  ver,        \* document_versions, with its chunks and its citation
  approved,   \* the levels whose approvals count, per version (ScholarApproval)
  txn,        \* the calls in flight
  stale,      \* history: those another call has written under since they read
  crossed     \* history: one of those has committed

vars == <<doc, ver, approved, txn, stale, crossed>>

-----------------------------------------------------------------------------
RequiredLevels(risk) ==
  CASE risk = "routine"    -> {"initial"}
    [] risk = "sensitive"  -> {"initial", "scholar"}
    [] risk = "restricted" -> {"initial", "scholar", "board"}

\* the levels that some publication may require
Levels == UNION {RequiredLevels(risk) : risk \in Risks}

DocRow == [status: DocStatuses, published: Versions \union {NoVersion}]

\* "risk" is the content_risk of the publishing metadata, written on publish
VerRow == [status: DocStatuses \union {"parsed"}, frozen: BOOLEAN,
           risk: Risks \union {"none"},
           chunks: {"none", "hidden", "visible"},
           citation: {"none", "active", "invalid"}]

BlankDoc == [status |-> "draft", published |-> NoVersion]
BlankVer == [status |-> "parsed", frozen |-> FALSE, risk |-> "none",
             chunks |-> "none", citation |-> "none"]

\* what full-text and vector search may return (_base_statement)
Served == {v \in Versions : /\ ver[v].chunks = "visible"
                            /\ doc.status = "published"
                            /\ ver[v].status = "published"
                            /\ ver[v].frozen}

-----------------------------------------------------------------------------
(* Calls in flight.                                                        *)

Idle == [op |-> "idle"]

Write == [op: {"write"},
          docChanged: SUBSET {"status", "published"}, docNew: DocRow,
          verChanged: [Versions -> SUBSET {"status", "frozen", "risk",
                                           "chunks", "citation"}],
          verNew: [Versions -> VerRow],
          inserts: SUBSET (Versions \X {"chunks", "citation"}),
          replaces: SUBSET Versions, holds: SUBSET Versions]

\* The call that leaves the document and its versions as newDoc and newVer.  It
\* inserts rows where there were none, replaces the chunk rows of some versions
\* and holds those of others: it updates them or refers to them by id.
Call(newDoc, newVer, inserts, replaces, holds) ==
  LET loaded == [v \in Versions |-> IF v \in replaces
                                    THEN [ver[v] EXCEPT !.chunks = "none"]
                                    ELSE ver[v]]
  IN  [op |-> "write",
       docChanged |-> Changed(doc, newDoc),
       docNew     |-> Assigned(doc, newDoc, BlankDoc),
       verChanged |-> [v \in Versions |-> Changed(loaded[v], newVer[v])],
       verNew     |-> [v \in Versions |-> Assigned(loaded[v], newVer[v], BlankVer)],
       inserts    |-> inserts, replaces |-> replaces, holds |-> holds]

Free(r) == txn[r] = Idle

\* the calls that are left with what they read before this write
Overtaken == stale' = {q \in Req : txn'[q] # Idle}

Begin(r, call) ==
  /\ txn' = [txn EXCEPT ![r] = call]
  /\ UNCHANGED <<doc, ver, approved, stale, crossed>>

Abort(r) ==
  /\ ~ Free(r)
  /\ txn' = [txn EXCEPT ![r] = Idle]
  /\ stale' = stale \ {r}
  /\ UNCHANGED <<doc, ver, approved, crossed>>

\* An INSERT fails on the rows another call inserted first: the chunk index
\* of a version is unique, and a citation's id derives from its reference.
\* Chunks cannot be deleted under their citation (ON DELETE RESTRICT).
CanCommit(c) ==
  /\ \A i \in c.inserts : ver[i[1]][i[2]] = "none"
  /\ \A v \in c.replaces : ver[v].citation = "none"

\* The chunk rows a call holds are gone once another call has replaced them:
\* its UPDATE matches no row, its citation refers to none, and it fails.
LosesRows(q, c) == txn[q] # Idle /\ txn[q].holds \intersect c.replaces # {}

Commit(r) ==
  LET c == txn[r]
  IN  /\ c # Idle
      /\ CanCommit(c)
      /\ doc' = Flush(doc, c.docChanged, c.docNew)
      /\ ver' = [v \in Versions |-> Flush(ver[v], c.verChanged[v], c.verNew[v])]
      /\ txn' = [q \in Req |-> IF q = r \/ LosesRows(q, c) THEN Idle ELSE txn[q]]
      /\ Overtaken
      /\ crossed' = (crossed \/ r \in stale)
      /\ UNCHANGED approved

-----------------------------------------------------------------------------
(* document_publishing.py.  A retry for the published version returns what *)
(* is there.  A denied licence or an empty text writes an audit row only.  *)

AlreadyPublished(v) ==
  /\ doc = [status |-> "published", published |-> v]
  /\ ver[v].status = "published" /\ ver[v].frozen

StatusAllowsPublish(v) ==
  \/ doc = [status |-> "published", published |-> v]
  \/ /\ doc.published \in {NoVersion, v}
     /\ doc.status = "scholar_approved"
     /\ CanMoveDoc(doc.status, "published")
     /\ ver[v].status \in {"scholar_approved", "parsed"}

\* seeded fault: only the first level is asked for
InitialReady(v, risk) == "initial" \in approved[v]

ApprovalsReady(v, risk) == RequiredLevels(risk) \subseteq approved[v]

CanPublish(v, risk) ==
  /\ ~ AlreadyPublished(v)
  /\ StatusAllowsPublish(v)
  /\ ApprovalsReady(v, risk)

\* seeded fault: the visibility flip is forgotten
PublishedHidden(row, risk) ==
  [row EXCEPT !.status = "published", !.frozen = TRUE, !.risk = risk,
              !.chunks = "hidden"]

PublishedRow(row, risk) ==
  [row EXCEPT !.status = "published", !.frozen = TRUE, !.risk = risk,
              !.chunks = "visible"]

\* the version's chunks are deleted, if it has any, and built again
Publish(r, v, risk) ==
  LET fresh == ver[v].chunks = "none"
  IN  /\ Free(r)
      /\ CanPublish(v, risk)
      /\ Begin(r, Call([status |-> "published", published |-> v],
                       [ver EXCEPT ![v] = PublishedRow(@, risk)],
                       IF fresh THEN {<<v, "chunks">>} ELSE {},
                       IF fresh THEN {} ELSE {v}, {}))

-----------------------------------------------------------------------------
(* document_lifecycle.py                                                   *)

\* seeded fault: the citations are forgotten
HideContent(row) == [row EXCEPT !.chunks = IF @ = "visible" THEN "hidden" ELSE @]

Hide(row) == [row EXCEPT
  !.chunks   = IF @ = "visible" THEN "hidden" ELSE @,
  !.citation = IF @ = "active" THEN "invalid" ELSE @]

\* the versions with p's content hidden and p left in the given status
Retired(p, status) ==
  IF p = NoVersion THEN ver
  ELSE [ver EXCEPT ![p] = [Hide(@) EXCEPT !.status = status]]

Suspend(r) ==
  /\ Free(r)
  /\ doc.status = "published"
  /\ doc.published # NoVersion
  /\ CanMoveDoc(doc.status, "suspended")
  /\ Begin(r, Call([doc EXCEPT !.status = "suspended"],
                   Retired(doc.published, "suspended"), {}, {}, {doc.published}))

Archive(r) ==
  /\ Free(r)
  /\ doc.status \in {"published", "suspended"}
  /\ CanMoveDoc(doc.status, "archived")
  /\ Begin(r, Call([status |-> "archived", published |-> NoVersion],
                   Retired(doc.published, "archived"),
                   {}, {}, {doc.published} \ {NoVersion}))

\* seeded fault: the document's own status is not checked
CanRollbackAnyStatus(v) ==
  /\ v # doc.published
  /\ ver[v].status \in {"published", "scholar_approved"}
  /\ ver[v].chunks # "none"

CanRollback(v) ==
  /\ doc.status \in {"published", "suspended"}
  /\ v # doc.published
  /\ ver[v].status \in {"published", "scholar_approved"}
  /\ ver[v].chunks # "none"

Rollback(r, v) ==
  /\ Free(r)
  /\ CanRollback(v)
  /\ Begin(r, Call([status |-> "published", published |-> v],
       [Retired(doc.published, "suspended") EXCEPT
          ![v] = [@ EXCEPT !.chunks = "visible", !.status = "published",
                           !.frozen = TRUE]],
       {}, {}, {doc.published, v} \ {NoVersion}))

-----------------------------------------------------------------------------
(* citation_registry.py: registering again returns the row that is there.  *)

RegisterCitation(r, v) ==
  /\ Free(r)
  /\ ver[v].chunks # "none"
  /\ ver[v].citation = "none"
  /\ Begin(r, Call(doc, [ver EXCEPT ![v].citation = "active"],
                   {<<v, "citation">>}, {}, {v}))

InvalidateCitation(r, v) ==
  /\ Free(r)
  /\ ver[v].citation = "active"
  /\ Begin(r, Call(doc, [ver EXCEPT ![v].citation = "invalid"], {}, {}, {}))

-----------------------------------------------------------------------------
(* Calls of other components, each a call that reads and writes at once.   *)

\* the scholar's decision on the document (ReviewWorkflow)
Decide(r, choice) ==
  /\ Free(r)
  /\ CanMoveDoc(doc.status, choice)
  /\ choice \in {"scholar_approved", "rejected"}
  /\ doc' = [doc EXCEPT !.status = choice]
  /\ UNCHANGED <<ver, approved, txn, crossed>>
  /\ Overtaken

Approve(r, v, level) ==
  /\ Free(r)
  /\ level \notin approved[v]
  /\ approved' = [approved EXCEPT ![v] = @ \union {level}]
  /\ UNCHANGED <<doc, ver, txn, crossed>>
  /\ Overtaken

Revoke(r, v, level) ==
  /\ Free(r)
  /\ level \in approved[v]
  /\ approved' = [approved EXCEPT ![v] = @ \ {level}]
  /\ UNCHANGED <<doc, ver, txn, crossed>>
  /\ Overtaken

-----------------------------------------------------------------------------
Init ==
  /\ doc = [status |-> "scholar_review", published |-> NoVersion]
  /\ ver \in [Versions ->
       {[BlankVer EXCEPT !.status = s, !.chunks = c] :
          s \in {"parsed", "scholar_approved"}, c \in {"none", "hidden"}}]
  /\ approved = [v \in Versions |-> {}]
  /\ txn = [r \in Req |-> Idle]
  /\ stale = {} /\ crossed = FALSE

Operation(r) ==
  \/ \E v \in Versions, risk \in Risks : Publish(r, v, risk)
  \/ Suspend(r)
  \/ Archive(r)
  \/ \E v \in Versions :
       Rollback(r, v) \/ RegisterCitation(r, v) \/ InvalidateCitation(r, v)

Elsewhere(r) ==
  \/ \E choice \in DocStatuses : Decide(r, choice)
  \/ \E v \in Versions, level \in Levels : Approve(r, v, level) \/ Revoke(r, v, level)

Next == \E r \in Req : Commit(r) \/ Abort(r) \/ Operation(r) \/ Elsewhere(r)

Spec == Init /\ [][Next]_vars

-----------------------------------------------------------------------------
(* Properties.                                                             *)

\* Every row and every call in flight is well formed.
TypeOK ==
  /\ doc \in DocRow
  /\ ver \in [Versions -> VerRow]
  /\ approved \in [Versions -> SUBSET Levels]
  /\ txn \in [Req -> {Idle} \union Write]
  /\ stale \in SUBSET Req /\ crossed \in BOOLEAN

\* Retrieval serves the published version of a published document and nothing
\* else: no other version stays visible, and the published one is not missing.
ServedIsPublishedVersion ==
  Served = IF doc.status = "published" THEN {doc.published} ELSE {}

\* With several versions, calls may overlap in any way and retrieval still serves
\* the published one, until a call commits what another has written under.
ServedUntilCrossed == ~ crossed => ServedIsPublishedVersion

\* A version is only ever published while the approvals its content risk
\* requires are in force.
PublishNeedsApprovals ==
  [][\A v \in Versions : ver[v].risk = "none" /\ ver'[v].risk # "none" =>
       RequiredLevels(ver'[v].risk) \subseteq approved[v]]_vars

\* the one step nothing in the code makes safe: no row is locked and none has a
\* version, so a call may commit what it decided on rows that have changed
StaleCommit == \E r \in stale : Commit(r)

\* Only a call that was overtaken publishes a version whose approvals are not in
\* force; a call that begins after a revocation does not, whatever it overlaps.
OnlyStalePublishesUnapproved ==
  [][StaleCommit \/ \A v \in Versions :
       ver[v].risk = "none" /\ ver'[v].risk # "none" =>
         RequiredLevels(ver'[v].risk) \subseteq approved[v]]_vars

\* Published content that leaves retrieval takes its citation with it, unless the
\* call that hides it was overtaken, as by a registration.
HidingInvalidates ==
  [][StaleCommit \/ (doc.published \in Served \ Served' =>
       ver'[doc.published].citation # "active")]_vars

\* The status column only moves along the edges of DocumentStateMachine, but for
\* the calls that were overtaken.
Machine == INSTANCE DocumentStatusMachine WITH status <- doc.status
StatusFollowsMachine == [][StaleCommit \/ Machine!Next]_(doc.status)

=============================================================================
