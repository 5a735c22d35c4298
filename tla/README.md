# Formal models of the Zayd knowledge assistant

Zayd answers questions about Islamic knowledge in Thai from documents that were
uploaded, reviewed by people, approved by scholars and published. Two things
must not go wrong: retrieval must serve what was approved and nothing else, and
the answer workflow must rather abstain than answer without evidence. Both are
promises about interleavings: staff work on the same rows from three API
replicas, and answers are computed by coroutines around providers that fail and
hang. The modules here model those services, what stands around them (accounts, the
permissions of the API, uploads, prompts and models, incidents, reports) and the
algorithms that judge evidence. TLC checks small instances, and TLAPS proves the most
important facts for instances of any size.

Short paths below: `S/` is `src/services/common/src/zayd_common/`, `O/` is
`src/services/orchestrator/src/zayd_service_orchestrator/`, `R/` is
`src/services/retrieval/src/zayd_service_retrieval/`, `A/` is
`src/services/api/src/zayd_service_api/`.

## 1. The system

| Component | State | Operations | What makes it correct |
|---|---|---|---|
| State machines (`S/state_machines.py`, `S/enums.py`) | none | `validate_transition` | every status a service writes is a move of the table |
| Unit of work (`S/database/unit_of_work.py`) | a session | begin, commit, rollback | all or nothing of one call |
| Review queue (`S/review_tasks.py`, `S/review_queue.py`) | `review_tasks` | create, claim, release, assign, escalate | one active task per level |
| Document review (`S/document_review.py`) | `review_revisions`, `review_decisions`, `documents.review_status` | apply_edit, decide | no accepted edit is lost, decisions are final, approval is by independent people |
| Scholar approvals (`S/scholar_approval.py`) | `review_approvals` | approve, revoke, expire_approvals, get_requirements | one active approval per level, distinct approvers |
| Publishing, lifecycle (`S/document_publishing.py`, `S/document_lifecycle.py`) | `document_versions`, `document_chunks`, `published_version_id` | publish; suspend, archive, rollback | what is visible is the published version, and it is approved |
| Citation registry (`O/citation_registry.py`) | `citations` | register, invalidate | no active citation of hidden content |
| Sources, licences (`S/sources.py`, `S/licenses.py`, `S/license_policy.py`) | their rows | create, suspend, replace; decide | the decisions on one licence agree |
| Documents (`S/documents.py`, `S/storage.py`, `S/malware_scanning.py`) | `documents`, object store | upload, scan, parser gate | no row without its object while commits are answered, nothing infected goes on |
| Retrieval (`R/hybrid_search.py`, `R/reranker.py`) | `retrieval_runs`, `retrieval_results` | search, rerank | better is ahead, what is stored is what was served |
| Evidence (`R/evidence_sufficiency.py`) | the run's flag | evaluate | sufficiency is found, not made; no candidate hides a flaw of another |
| Citation verification (`O/citation_verification.py`) | none | verify | a withdrawn citation supports nothing |
| Answer orchestration (`O/answer_orchestration.py`) | idempotency store in memory | `answer()` | an answer is grounded, work is bounded, a request ends once |
| Providers (`O/openai_llm_adapter.py`, `S/embeddings.py`) | none | generate, stream; embed | everything comes in its place, failures are given up |
| Chat streaming (`O/chat_streaming.py`) | queues, handles, history in memory; conversations, messages, answers | start, cancel, snapshot; the stream task | a cancelled stream stores nothing, a told answer is stored |
| Conversations, saved answers (`S/conversations.py`, `S/saved_answers.py`) | their rows | delete; save, unsave | saved once, by the owner |
| Answer invalidation (`S/answer_invalidation.py`) | `answer_invalidations` | invalidate | a warning exactly where a record or a withdrawal of content is the reason |
| Accounts (`S/auth.py`, `S/user_admin.py`, `S/rbac.py`) | users, sessions, tokens, roles | register, login, refresh, reset, disable, grant | a session that ended cannot be continued |
| Second factor (`S/mfa.py`) | secrets, recovery codes, challenges | enrol, verify, reset, rotate | access needs the secret in force, a recovery code is used once |
| Guests (`S/guest.py`) | `guest_sessions` | validate, consume_quota, convert | the quota |
| HTTP API (`A/app.py`) | request limiter in memory | every endpoint and its checks | a change was allowed to who made it |
| Prompt registry, providers (`S/prompt_registry.py`, `S/provider_admin.py`, `O/prompt_orchestrator.py`) | versions, models and their status | approve, rollback, seed; default routing | no draft is used, a default is handed over |
| Feedback (`S/feedback.py`, `S/feedback_review.py`) | `feedback` | submit, assign, resolve | a closed report keeps its resolution |
| Incidents (`S/incident_management.py`, `S/incident_regressions.py`) | incidents and their timeline | create, transition, assign | announced before stored; the timeline is the history |
| Audit (`S/audit.py`, `S/database/models.py`) | `audit_logs` | append | a chain without loose ends |
| Parsing, chunking, classification, evaluation, worker, ingestion | files; nothing | text processing; offline runs; stubs | not modelled (section 6) |
| Web applications (`src/apps`, `src/packages`) | UI state | — | not modelled |

`PROJECT.json` lists every component with what is modelled or why it is not.

**How calls run.** The API runs as three replicas
(`src/infra/compose/production.yml:124`). A service call is one or several
`with self.uow:` blocks: one SQLAlchemy session and one transaction at READ
COMMITTED each, with `autoflush=False`. No model has a `version_id_col`, no statement
takes a row lock, and an ORM `UPDATE` names the changed columns and the primary
key only. So a call reads rows, decides, and writes later; anything may commit in
between, and the `row_version` checks of the services compare with the row the
call itself loaded. Unique indexes are the only thing that is checked at commit.
A call may also be abandoned (crash, lost connection, rollback) at any time.

**How coroutines run.** `answer()` and the stream task run on one event loop and
switch only where they really suspend. Putting an event on an unbounded
`asyncio.Queue` does not suspend; awaiting a provider does. With Python 3.12
(`==3.12.3`), `asyncio.wait_for` awaits inside the caller's task.

**What is hard.** Check-then-write across transactions; unique indexes as the last
line of defence; operations of two or more transactions (`escalate_task`,
`consume_quota`, `require_permission`, seeding the defaults); effects outside the
transaction (the object store, alerts and notices); operations whose effect spans
three tables (suspend, publish); a policy that depends on which of two searches won;
nested retries, revisions and one timeout; cancellation and disconnect while a result
is being stored; reconnection. The `hazards` of `PROJECT.json` name the line of each
and the properties that cover it.

## 2. The modules

```
StateMachines ─┬─ DocumentStatusMachine  (abstract: the status column of a document)
               ├─ ReviewWorkflow ── ReviewWorkflowProofs
UnitOfWork ────┤
               └─ Publication ── PublicationProofs
AnswerTask (abstract) ─┬─ AnswerWorkflow                            implements AnswerTask
                       └─ ChatStream ── ChatStreamProofs            uses AnswerTask
EvidenceSufficiency ── Retrieval

ScholarApproval ── ScholarApprovalProofs

Compositions, each with the proofs about it:
MCAnswerPipeline    AnswerWorkflow, Retrieval, CitationVerification, Embeddings,
                    LlmAdapter                             AnswerWorkflowProofs
MCAccounts          Accounts, Mfa, GuestSession, RateLimit, RequestLimiter,
                    HttpApi                                AccountsProofs
MCRecords           Ingestion, LicensePolicy, AuditChain, PromptRegistry,
                    ProviderAdmin, FeedbackReview, IncidentManagement,
                    AnswerInvalidation, SavedAnswers       RecordsProofs
MC…: the small instances TLC checks, one .cfg per run
```

An MC module may hold instances of several modules that share no row
(`MCAccounts`, `MCRecords`, `MCAnswerPipeline`).
A variable `subject` is chosen at the start and a behaviour keeps to it: the state
space is the sum, not the product, of those of the parts. Their sizes are
constants, so that the proofs about an MC module hold for every size.

Operators commented `seeded fault` are not part of a model: each states how a
definition would look with a plausible bug, and is used to see that the property
next to it in `PROJECT.json` (`mutants`) would notice. Variables commented `history`
record what happened for a property and are read by no guard. Two of them recur in the
services of staff. A call is in `stale` from the moment another call commits what it has
read until it ends: its write is then a decision about rows that are gone. `crossed` (and
`late`, for the records an overtaken approval inserted) is what such a commit has written
to. Nothing in the code prevents these commits, so the properties do not exclude them:
they say which promises only such a commit breaks, and which ones even it keeps.

### Documents: from file to retrieval

**StateMachines, UnitOfWork.** The transition tables, and what one transaction does to
a row: `Changed` and `Assigned` say which columns an `UPDATE` carries, `Flush` applies
it to a row that may have changed meanwhile.

**Ingestion.** Sources and licences as they gate an upload, the upload (object first,
then the row; the object is deleted when the commit raises), the scan and what it
commits, the parser gate. The object store can fail and lose its answer, a commit can
take effect and lose its answer (`unanswered`), and the process can stop between any two
steps.

**LicensePolicy.** Every decision of the policy engine on one licence and one day,
as operators; there is no state. It is checked over all storable licences of a
small set of fields and days.

**ReviewWorkflow.** State: `docStatus`, `task` (rows by id), `revisions`, `decisions`,
and `txn`, what each call in flight has read and is going to write. `CreateTask`,
`Claim`, `Release`, `Assign`, `Escalate`/`CreateEscalated` (two transactions, as in
the code), `LoadTask`/`ReadDraft`/`ApplyEdit` (the queries of an edit) and `Decide`
are the services; `Commit` applies a call if the unique indexes allow it, and `Abort`
gives it up. `Prepare` is external: whatever moves a document from its upload to
`in_review`, which no service in the repository does. The unique index on open tasks
is the one of the migration (`src/database/migrations/0007_review_tasks.up.sql:18`);
the ORM model declares a different constraint, which production does not have.

**ScholarApproval.** State: `approvals`, `deciders` (who recorded an approving
decision) and `txn`. `Approve` carries the three checks of the code (level and role,
task, separation of duties), `Revoke` and `ExpireApprovals` write, `Lapse` is the clock
passing `valid_until`, and `ReadyForPublish` is `get_requirements`. Nothing in the
repository schedules `expire_approvals`; the model lets it run whenever.

**Publication.** State: `doc`, `ver` (a version with its chunks and its citation),
`approved` (abstracts ScholarApproval to the levels in force) and `txn`. `Publish`,
`Suspend`, `Archive`, `Rollback`, `RegisterCitation`, `InvalidateCitation`, with
`Decide`, `Approve` and `Revoke` as the environment the other modules describe in
detail. `Commit` also models what the schema refuses: chunk rows another call
replaced, and chunks a citation refers to (`ON DELETE RESTRICT`). `Served` is the
visibility filter of full-text and vector search. A second version of a document
comes from imports and fixtures only; it is part of the initial state.

### Answers: from question to stream

**AnswerTask and AnswerWorkflow.** `AnswerTask` is what callers of `answer()` rely on:
a request begins once, ends in a terminal status or with an exception, and keeps its
outcome. `AnswerWorkflow` is the code: `run[q].stage` is the await a request is in, and
an action runs from one await to the next. `found` records what each of the two
searches found, `context` whose candidates the generator is given, `evidence` the
decision that allowed it; the code keeps the last two in step by replacing them
together (`O/answer_orchestration.py:669`). `Put` is the store's `setdefault`.
`StrictVerifier` selects the verifier: `DeterministicAnswerVerifier` (the default)
refuses evidence that is not sufficient, `CitationVerificationAnswerVerifier` does not
look at it. The four allowing actions of the policy engine behave alike and are one.

**EvidenceSufficiency and Retrieval.** The first is the decision on a sequence of
candidates, as operators. The second is three calls (hybrid search with its scores,
fusion, order and page; reranking; the decision) with a transaction of their own each
on the row of the retrieval run. Each of the three writes that row only where it is asked to,
the search by `persist_run`, the others by a unit of work and the id of a run:
`query.writers` says which do. The orchestrator gives the judgement no run
(`O/answer_orchestration.py:887`). What the two searches find of each chunk (how its text
matches, how many terms of the query it has, how long it is, how similar its vector is), the
page and the number of terms of the `query` are chosen at the start. `Sorted` is the order of a set by its keys, which
is what the code's sorts compute: every key ends in the chunk, so no two are equal.
Scores are integers, in units small enough for the code's weights to be exact.

**CitationVerification.** The checks of one claim and of a draft, the answer of the
verifier, with evidence packs made of what the candidates say and with the fallback
without them. Texts are sets of words, of passages and of the parts of a reference.

**Embeddings, LlmAdapter.** The calls of the providers with their batches, retries,
placing of rows and lines of a stream.

**ChatStream.** One instance of `ChatStreamingService` with streams of signed-in
users. `pc[s]` is where the stream's task stands; `history`, `active`, `completed` are
the service's dictionaries; `read` and `view` are the queue and what the client has
seen; `conversation` and `answers` are the database, which other replicas change too.
The workflow is `AnswerTask`, so whatever `AnswerWorkflow` may end with, the stream has
to cope with. The API builds a new instance per request (`A/app.py:2737`), so over
HTTP `CancelStream` and `Reconnect` never find their stream; the actions are what the
class offers and its unit tests use.

**SavedAnswers, AnswerInvalidation.** Bookmarks with their soft deletion and partial
unique index, and the deletion of conversations under them. An answer is
invalidated by a reviewer, with a key, a notice before the commit and a record
(`Invalidate`, `Notify`), and by the withdrawal of content it was built on
(`Withdraw`: suspending, archiving or rolling back a document, invalidating a citation), which
keeps no record and reaches every answer on that content. Both read the warnings as one value
and write it back (`Write`).

### Accounts and the API

**Accounts.** Users with their status and admin role, sessions, refresh tokens, reset
tokens. Rotation with reuse detection, logout, reset, disabling and the last-admin
guard are calls that read and then commit. A password is the number of times it was
set. **Mfa.** One account's secret (a generation number), recovery codes and
challenges. Each of the seven calls reads in one step (`StartEnrollment` … `RotateRecoveryCodes`)
and writes in another (`Enroll`, `Confirm`, `InsertChallenge`, `Verify`, `Consume`, `Reset`,
`Rotate`), the columns it changed and nothing else, over whatever the rows are by then;
`reset_mfa` accepts a recovery code or a reset token. **GuestSession.** The
quota in its two transactions, revocation, and conversion in three. **RateLimit** and
**RequestLimiter** are the limiter of logins and resets (a row) and that of the API (a
dictionary under a lock). **HttpApi.** The permission matrix, every endpoint with what
it requires and what it may change, and a request that passes the checks of
`require_permission` one transaction at a time while the account changes. A request to a chat
endpoint resolves the streaming service first (`A/app.py:2737`), which may seed the registry
(`Streaming`) before it is known who asks.

### Configuration and operations

**PromptRegistry.** Versions of the answer prompt, approval and rollback, and the chat
requests that resolve one twice and seed the defaults when anything is missing.
**ProviderAdmin.** Default routing, disabling and fallback. **FeedbackReview**,
**IncidentManagement**: reports and incidents with their timelines; a call loads the
row, decides, writes the changed columns. **AuditChain.** The hash each audit record
continues from, over flushes, commits and rollbacks.


## 3. What TLC checks

| Run | Instance | Shows |
|---|---|---|
| `review_race` | 2 calls, 2 staff, 2 tasks, 2 texts, 3 row versions | one active task per level; `scholar_approved` only after two independent approvals in order; revision numbers have no gap and no repetition; only stale calls start an edit from an old text, touch a decided task or leave the state machine of documents |
| `approval_race` | 2 calls, 4 staff, 3 records | one active approval per level, ended records do not count again; only overtaken calls let one person approve twice |
| `publication_race` | 2 calls, 2 versions | what is served is the published version until an overtaken call commits; only such a commit publishes unapproved, leaves a citation of hidden content, or leaves the state machine |
| `answer_workflow` | six parts, below | an answer is grounded, its work bounded, its evidence earned; refinement of `AnswerTask` with its liveness |
| `chat_stream` | 2 streams, 2 users, 1 conversation | a cancellation wins, a told answer is stored, replay is exact, messages of the owner, every stream ends |
| `accounts` | ten subjects, below | sessions end, factors are proven, limits hold, changes were allowed |
| `records` | fifteen subjects, below | what the services keep about their rows |
| `review_lost_edit` (violation) | 2 calls, 1 task | two overlapping edits are accepted and one text is lost |
| `publication_revoked` (violation) | 2 calls, 2 versions | a version is published after its approval was revoked |
| `answer_conflict` (violation) | 1 request, citation verifier | an answer completes over conflicting evidence |
| `infected_scan` (violation) | 1 call | the verdict on an infected file is rolled back with its incident |
| `prompt_activation` (violation) | 1 call, 2 versions | a chat request replaces the prompt a manager activated |

**Calls that overlap.** The runs about staff have two calls or more in flight, and two are
enough for most of what can go wrong, because each of the races is between one reader and one
writer. Some promises hold however calls overlap, because an index or the order of writes keeps
them; they are stated without a condition. Others a stale call can break: they are stated as what
only such a call does, and where a document of the repository promises more, section 5 says so. In `accounts` and `records` a subject called "racing" has overlapping calls; its
counterpart with one call at a time checks what is promised of that.

**review_race.** `MaxRow = 3` allows two edits in a row, the first link of a chain, and
`MaxDecisions = 2` one decision per level. The constraint `RacesWithAReview` leaves out calls that
span the preparation of the document (`uploaded` to `ai_extracted`), two queue calls that overlap
without a reviewer once it is past draft, and calls that begin after the second decision;
`EditsOfOneTask` lets a task be edited during the review, before the second decision and while there
is no other task. The proofs have no such limits.

`DecisionIsFinal` says that nothing but the commit of a stale call changes a decided task, its
edits or its decisions; `DocumentFollowsMachine` that every other step implements
`DocumentStatusMachine`. `EditsAreChained` is about the tasks no stale call has written: their
`row_version` counts what was accepted, and each edit starts from the text before it.

**publication_race.** `ServedUntilCrossed` is an invariant; `OnlyStalePublishesUnapproved`,
`HidingInvalidates` and `StatusFollowsMachine` are action properties, of every step but the commit
of a call that another one has written under. That a document with one version, which is what
the services create, serves it whatever overlaps is a theorem (section 4).

**answer_workflow.** A behaviour takes one of these parts:

| Part | Instance | Properties |
|---|---|---|
| answer | 2 requests with 1 key, 1 retry, 1 revision, strict verifier | `CompletedIsGrounded`, `ConflictNeverAnswered`, `WorkIsBounded`, `FirstAnswerWins`, `KeepsAnswerTask` |
| retrieval | 3 chunks with any of 9 signals, a page of 3 for a query of 2 terms or the second page of 2 for one of 40, the run written by nobody, by some or by all, 2 candidates reranked with 3 scores | `RetrievalIsKept`: what is stored is what was served, better signals are ahead (a better kind of match up to 25 terms), the flag is the decision where the judgement writes it; `EvidenceIsEarned`: the reranker does not make evidence sufficient |
| evidence | at most 2 candidates around every threshold | `EvidenceIsEarned`: a better candidate never lowers the status, a flaw is not hidden by another candidate |
| verification | drafts of 1 claim or none over 2 citations and a token that was not offered | `EvidenceIsEarned`: a withdrawal is noticed, claims stand alone, evidence adds up |
| embeddings | at most 3 texts with blanks, batches of 2, 1 retry | `CallsKeepTheirPlaces`: every vector is that of its text, attempts are bounded |
| adapter | 2 retries, streams of 4 lines | `CallsKeepTheirPlaces`: a failure is given up, text comes in order |

One retry and one revision distinguish the first, a middle and the last attempt of
each loop.

**accounts.**

| Property | Subjects and bounds |
|---|---|
| `SessionsEnd` | racing accounts (2 calls, 1 account): a reused token ends its session. accounts (1 call, 2 accounts, 2 sessions, 3 tokens): also one live token, a reset leaves no old session, a disabled account has none, an admin remains |
| `FactorIsProven` | mfa (1 call, 3 codes, 3 challenges), racing mfa (2 calls, 3 codes, 1 challenge), racing codes (2 calls, 1 code, 3 challenges): access by a proven secret and codes of that secret, unless a call that had read what a reset replaced wrote to it; a code consumes at most one challenge per call in flight, so one where calls do not overlap |
| `LimitsHold` | guest, racing guest (3 calls, quota 2, at most 6 sent): the quota; with overlap, beyond the quota and one message per overlapping call only when counts overwrote each other; after a revocation only what was in flight. limiter (3 in 2 units), request limiter (3, strict 2, in 3 units), time to 6: a bound for every stretch of the window |
| `PermissionsHold` | http (at most 2 changes of the account during a request, 2 roles): what was changed was allowed after the request arrived; what each role cannot do; before the checks only the defaults of the registry are written |

**records.**

| Property | Subjects and bounds |
|---|---|
| `UploadsAreKept` | upload, racing uploads (2 documents, 2 contents, one infected): rows have objects unless the answer to their commit was lost, orphans come from crashes and a failing store only, nothing unscanned is reviewed; with 1 call, a content is one row |
| `AuditIsLinked` | audit, racing audit (5 records, 2 per flush): no record continues from one that was rolled back; with 1 call, the chain is a line |
| `LicenceDecisionsAgree` | licence (days 0 to 3): the decisions agree on every day |
| `ChatStaysConfigured` | prompt, racing prompts (3 versions, 3 approvals), providers (2 providers, 3 models of 2 types): drafts are not used, one prompt is approved, seeding suffices, the default route is handed over |
| `ReportsAreClosed` | report, racing reports (2 reviewers): a closed report keeps its resolution |
| `IncidentsAreTraced` | incident, racing incidents (6 and 5 events): announced before stored, steps are moves, cases are confirmed; with 1 call, the timeline is the history |
| `AnswersAreAccountedFor` | withdrawals (2 calls, 2 keys, 1 withdrawal, 2 answers, 2 notices per key), bookmark, racing bookmarks (2 rows): invalidated exactly when recorded or withdrawn; a warning for every reason, and the first time stays, on the answers no call wrote while another had read them; saved once by the owner |

**Bounds.** Each bound is named in its module or in the MC module. `Ids` are three
approval records (one per level, or an expired one and its successor). Two tasks are one per
level. Counters that only say "how often" (`MaxBegun`, `MaxSent`, `MaxNotices`, `MaxEvents`,
`MaxRecords`) are larger than the number of calls in flight, so that the last of them comes
after a complete round of the others. Symmetry is used for calls, tasks and records, in runs
of safety properties only.

**Fairness.** The modules of staff services assume none: a call may never commit.
`AnswerWorkflow` assumes only that the timer of `asyncio.wait_for` fires (`WF(Timeout)`); a
provider may hang for ever. `ChatStream` assumes that the event loop runs a task that can run,
and that a workflow ends, which is the promise of `AnswerTask` that `answer_workflow`
checks. Nothing is assumed of the client.

**Deadlock** is not checked: in every instance all work may be done, a decided review,
an archived document, answered requests.

**Abstraction of reads.** A call's queries are one atomic step, except where they can
disagree and the code depends on it: an edit and a decision in `ReviewWorkflow`, the two
resolutions of a prompt in `PromptRegistry`, the transactions of `GuestSession`, the
checks of a request in `HttpApi`. Elsewhere interleavings of one call's reads with another's
commits are not explored; those of its reads and its own commit are.

## 4. What is proved

TLAPS, for every value of the constants that satisfies the named assumptions.

**ReviewWorkflowProofs** (`UsersAssumption`, `TextAssumption`): `TypeCorrect`,
`RevisionNumbering`, `UniqueTask`. `RevisionsNumbered` is not inductive: an edit commits a
number it computed from an earlier query. The invariant adds `PendingFollows`, that
whatever a call in flight is about to insert follows a stored revision or is a first one
(true when it was computed, and kept because revisions are never deleted), and `HasLatest`,
that a task with revisions has a highest number, which makes `CHOOSE` in `LatestNumber`
meaningful for unbounded sets. `UniqueNumbers` at commit then keeps numbers
distinct. `UniqueTask` rests on the unique index alone, whatever the checks before it saw.

`EarnedApproval` is `ScholarApprovalEarned` for any overlap. Decisions are only appended,
and a stored task keeps its level and its creator, so what a call found when it decided
still holds when it commits. The invariant `EarnedInv` says that decisions name stored
tasks, that a document in `scholar_review` has its initial approval (`HasInitial`), and that
a call in flight is about to insert a row nobody else inserts (`Creates`) or to update a
stored one with a decision that was earned (`Updates`).

`EditsChained` and `GoesForward` are for any overlap, too. `OverlapInv` has two halves. For every
call that is not stale, what it has read still holds (`Settled`): the row and the text are those
stored, and what it is about to write is a move of an open task (`Moves`), an edit that continues
the latest text (`Edits`), or a decision along an edge of the document's machine (`Decides`). For
every task no stale call has written (`Kept`), `Counted` equates `row_version` with one plus the
accepted edits and decisions, for any finite number. A commit makes stale whatever had read the
rows it changes, so the calls that are left keep what they have read (`SettledStays`), and the
commit of a stale call is excused by the properties themselves.

**ScholarApprovalProofs** (`PeopleAssumption`, `ValidityAssumption`). `TypeCorrect` and
`OneActive` rest on the unique index, since an insert is accepted only when the rows it leaves
satisfy it and an update only ends records. For `Distinct`, `EndIsFinal` and `NeedsThree` the
invariant says of every insert in flight, stale or not, that it is of a new record, by somebody
with the role of its level who is not the uploader (`Writable`), and of the calls that are not stale
that its approver has no active approval and that the records it ends are active (`UpToDate`).
Hence one person holds two active approvals only by a record in `late`, which an overtaken call
inserted; the roles of the three levels hold for all records. `NeedsThree` assumes that the records
are finite.

**PublicationProofs**. For any overlap: `TypeCorrect`, and `ServesOneVersion`, that a document
with one version serves it exactly while it is published. For one version the columns that
make it visible are written together by every service, so each commit leaves a row that
fits (`OneFits`), whatever was read before. With two versions this is false: two overlapping
publishes leave both of them visible. `ServesUntilCrossed` and `OnlyStaleBreaks` are for any number
of versions. Their invariant relates the published version to the visible one
(`VisibleIsPublished`) until an overtaken call commits, and says of the calls that were not
overtaken that what they are about to write is the `Effect` of one of the operations on the rows as
they are (`Ready`); the status, citations and approvals of such a commit follow from what
kind of write it is (`EffectIsOrderly`).

**AnswerWorkflowProofs**. About the workflow (`KeyAssumption`, `BudgetAssumption`): `TypeCorrect`,
`BoundedWork`, `FailsClosed`, `ConflictsEscalate`, `FirstWins`, `ImplementsTask`. The
invariant says per await what the row has earned so far (`Stage`): while expanding,
the decision is that of the first search; while generating, the decision is that of the
search whose candidates are used; the searches made are bounded by the retries used.
`Earned` carries this through the store: a result, of a request or under a
key, belongs to a request that has ended and, with the strict verifier, was
grounded. For `ConflictsEscalate` it adds that a search is expanded only after a decision
that asks for more, and that evidence that is sufficient while generating follows
searches without a conflict. A step is shown once, as one of three shapes (goes on, ends
with a result, leaves with a failure: lemmas `ContinueKeeps`, `ReturnKeeps`,
`LeaveKeeps`), and each of them gives the invariant, a step of `AnswerTask` and the
rule of the store together (`Fits`). `PipelineRunsWorkflow` says that
`MCAnswerPipeline` leaves the workflow as it is, so that all of this holds in the run, too.

About the other parts of `MCAnswerPipeline` the invariant `PipelineCorrect` has a conjunct for
each, and the assumptions say what the data are: signals and scores are numbers in their
ranges (`RetrievalAssumption`, `EvidenceAssumption`), a pack and a draft have their fields
(`VerificationAssumption`), inputs are sequences and batches are not empty (`CallsAssumption`).

- `RetrievalIsTrue`, for any finite set of chunks, any signals and any page. `Sorted` and the
  maxima are `CHOOSE`s, so it is first shown that there is something to choose: a finite set
  with distinct keys has an order (`Insertion`, one member at a time), and the order
  holds every member once. A page of results in descending order is in descending order, and so
  is a reranking (`Hits`). Normalising, halving and adding up with positive weights are
  monotone in each signal, which gives `BetterIsAhead`; between kinds of match it holds for
  queries of at most 25 terms only, since single terms count one each and the whole query 25. `RunRows` relates the stored rows to
  the results handed on between the three transactions.
- `EvidenceIsTrue`. Sufficient evidence was found and not made: the top score asked for is 0.70,
  of which a reranker can add 0.30, so some result has a hybrid score of 4/7 (`RunEarned`).
  For samples of any length, sums and maxima are monotone in each score, and what makes a
  candidate flawed or a sample conflicting stays when others are added. For drafts with any
  number of claims, a withdrawn citation leaves no claim that cites it supported, and a draft is
  verified exactly when all its claims are supported.
- `CallsInOrder`, for any texts, batch size and number of retries. `BatchesCorrect` counts the
  batches done: the vectors are those of the texts sent so far, and posts are bounded by the
  attempts of the batches done and of the one in flight. `KeepsPlaces` is the lemma about one
  answer: rows in any order whose indices are right are put at the places of their texts, and
  whatever the indices, an answer that is taken fills every place. In `AdapterCorrect`, the
  failures before an attempt are as many as the attempts made, all of them of the server.

Definitions by recursion (the texts sent on, the sum of scores, the claims stated) are recursive
functions; the lemma `Recursion` shows that they exist, for steps given as a function, from
the least number for which they would not.

**ChatStreamProofs** (`RequestAssumption`): `TypeCorrect`, `CancellationWins`,
`AnswerStored`, `OwnMessages`, `PrefixSeen`. The invariant `Told` says that a
stream is silent until it ends and that its cancel event is not set while it writes:
cancellation runs on the event loop, which is held from the last look
at the event to the end of the task. `Owned` carries what a stream found when it looked
for the conversation to its commit: an owner never changes, and an insert succeeds only
over no row. `Seen` relates a client's events to the queue's position. The steps
that store nothing share one lemma (`TalkKeeps`), and so do the client's (`ClientKeeps`).

**AccountsProofs** (`AccountsAssumption`) proves the four properties of `accounts` and the types of
its rows, for any number of calls, accounts, sessions, tokens, codes and challenges, and any limits and windows.

- `AccountsWellFormed`, `SessionsAreEnded`. `AccountInv` holds whatever overlaps: a reused token's
  session is revoked, a call that notices a reuse ends the token's session and adds only rows
  that were unused (`Sound`), and no two calls add the same one (`Apart`). One call at a time, `AccountSerial`
  says that between calls the sessions are those of the accounts as they are (`Settled`), and
  that what the call is about to write leaves them so (`Fits`): it ends every session of an
  account it disables or gives a new password, it uses the token it replaces, and one active
  admin is left.
- `FactorProven`, for any number of calls at once. A confirmed secret is the one whose code was
  proven (`SecretInv`), and a valid recovery code is of the generation in force (`CodesInv`), or the
  generation is in `crossed`; what a call has read is of that generation or of one before it
  (`CallsInv`), and generations only grow, so a generation that was not crossed was only written to
  by calls that had read it. `UsesInv` counts: what a code has opened and the calls that are about to
  consume it are together no more than the calls there are, since a call starts to consume a code
  only while it is valid, which is before it has opened anything.
- `LimitsKept`. For a guest, `GuestInv` counts the calls that have passed the check
  (`Sending`): unless counts overwrote each other, what is sent and what is about to be sent
  stay within the quota and one message per overlapping call. An attempt at this proof
  showed that the bound without that exception, which two calls satisfy, fails for three: the first two
  overwrite each other's count, and the third is then let through. For the attempts,
  `AttemptsInv` orders the admitted times around the start of the current window; for the
  requests, `RequestsInv` says that the kept history is the end of what was admitted.
- `PermissionsKept`. `HttpInv` says of a request between two checks which of them it has
  passed and that what it was allowed then, it was allowed after it arrived.

**RecordsProofs** (`RecordsAssumption`) proves the seven properties of `records`. Most
invariants come twice: for any calls `R` that overlap, and a stronger one for one call at a time.

- `UploadsKept`. A document whose upload is in flight has no row, and its object once it is
  stored (`UploadPending`), or is being undone after a commit whose outcome it does not know; only one call has it (`OwnDocument`). Serially, nobody registers
  the content a call looked for.
- `AuditLinked`. Every open transaction has a latest record among those it sees, which
  gives `CHOOSE` its meaning; what it flushes continues from there. Serially, every record but the
  latest is continued, and by one.
- `LicencesAgree`. The decisions are functions of the terms and the day; the
  proof is by cases over them, for any dates and any number of days.
- `ReportsClosed`. What a call will write is fixed when it begins: a reviewer, or an
  outcome with its resolution, so a commit over any row leaves one that fits.
- `IncidentsTraced`. A timeline only grows, so a status that was read stays one its
  events led to; serially, the last move is to the status of the row.
- `AnswersAccountedFor`. A call has read warnings whose reasons are recorded or withdrawn, and both
  only grow (`WithdrawalInv`). On an answer that was not crossed, no commit came between the reading and the
  writing of another call, so what a call writes back extends what is stored. A conversation keeps
  its owner, and a saved row its user and answer.
- `ChatConfigured`. To bound the approved versions by the calls, `Owned` names for each of
  them a call that would replace it, no two the same; an approval takes over what
  it replaces. `Latest`, that any approved versions have a newest among them, gives the choice of
  the active one its meaning. Serially, what a call has read still holds and seeding goes on
  where it stopped; a provider's call works out columns whose effect on the rows is
  known (`WrittenRows`), and these are routed: one default of each type that has one, fallbacks
  of the same type (`Routed`).

`OneAtATime` is a hypothesis of those theorems of the last two modules that also state something of
one call at a time; it is about `Req`, the calls of the subjects not called racing. `Calls` and `GuestCalls` overlap
without restriction.

**Only model-checked.** Liveness (`StreamEnds`, the fairness part of `AnswerTask`): `ENABLED` is
out of the prover's reach. Every safety property of a run that passes has a theorem.

**Only proved.** The types of the rows of approvals, publications and accounts, `NeedsThree` and
`ServesOneVersion` are theorems and no properties of a run.

## 5. Where the code and its documents disagree

Five are runs (`findings` in `PROJECT.json`): the lost edit, the revoked approval, the
conflicting evidence, the infected scan and the prompt activation. Met while modelling, and not
among the runs:

*Documents and accounts*

- Two overlapping approvals by one actor at two levels are both recorded
  (`S/scholar_approval.py:410`, against `docs/governance/scholar-approval.md:20`).
- A suspend that overlaps an archive moves the document out of its terminal
  status (`S/document_lifecycle.py:277`, against `docs/architecture/state-machines.md:34`).
- Two overlapping publishes of two versions of a document leave both visible to retrieval.
- A suspended document with one version has no way back: `publish` wants a
  `scholar_approved` document and `rollback` refuses the version in question
  (`S/document_lifecycle.py:157`, against `docs/operations/content-suspension.md:7`). The
  version a rollback replaces is suspended and no target of a later one (`:208`), and no
  service takes a document out of `changes_requested` (`S/document_review.py:418`).
- Two overlapping calls answer two challenges with one recovery code: the code is read as unused
  and marked used at the commit, without a condition (`S/mfa.py:324`, against
  `docs/security/mfa.md:23,31`).
- A confirmation, a rotation or a reset that read the second factor before a reset replaced it
  confirms the new secret unproven, or adds codes to it (`S/mfa.py:161`, against
  `docs/security/mfa.md:19`).
- Every request to a chat endpoint, whoever sends it, may seed and approve prompt, policy and model
  before its permission is looked at (`A/app.py:3649`, `:2737`, against
  `docs/governance/prompt-management.md:28,64`).
- A commit of an upload whose answer is lost leaves a version whose object the service deletes
  (`S/documents.py:325-330`).
- Of two calls that add a warning to one answer at the same time, one warning is lost
  (`S/answer_invalidation.py:112`, `S/document_lifecycle.py:503`, against
  `docs/operations/content-suspension.md:17-23`).
- `release_task` moves a task from `in_progress` to `open`, an edge the task's state machine
  does not have.
- `update_model(is_default=False)` takes the default from a model without handing it to
  another (`S/provider_admin.py:543`, against `docs/user/provider-management.md:60`).
- Seeding the defaults inserts the model it misses; when that row exists and is only not the
  default, the unique index refuses the insert and the chat request fails.
- The limiter of reports belongs to a `FeedbackService`, of which the API makes one per
  request (`A/app.py:2691`, against `docs/api/feedback.md:75,80`).

*Answers*

- The orchestrator gives the judgement no run (`O/answer_orchestration.py:887`), so
  `evidence_sufficient` of a stored run goes on saying that the search found something.
- No service writes the conflict signal that `R/evidence_sufficiency.py:238` reads.
- Nothing writes the `citation_id` and `chunk_content` the citation verifier looks for, so
  it always takes its fallback; the verifier and `load_evidence_packs` are wired nowhere.
- The citations of a draft are not compared with the allowed ones when claims are
  stated (`O/citation_verification.py:1006`); `require_all_claims_supported` has no effect and
  `failed` is never returned (`:131`, `:243`).
- A claim's own madhhab precedes the requested one, and one pack of the general school
  excuses a mismatch (`:768`, `:794`); a reference fits when it is contained in another, so
  that 2:25 fits 2:255 (`:623`).
- An error of the vector search fails the hybrid search, the full-text results with it.
- A row of an embedding response with an index past the batch raises an `IndexError`
  (`S/embeddings.py:334`); a stream that is closed early ends as one that said `[DONE]`
  (`O/openai_llm_adapter.py:316-320`).
- Reconnect, explicit cancellation and rate limiting of streams work within
  one service instance, and the API makes one per request
  (against `docs/api/streaming-chat.md:59-71`).
- A disconnect does not stop the workflow that is running
  (`O/chat_streaming.py:211`, against `docs/api/streaming-chat.md:67`).

## 6. What is not modelled

- **Text processing**: parsing, metadata extraction, normalisation, chunking,
  classification of questions, query expansion, prompt layout. What they do is in their
  strings; a model would abstract it away.
- **Data of modelled services**: texts, formats, hashes, vectors, reason codes that lead
  to the same decision, response schemas, descriptive fields of sources and licences.
- **Reads that change nothing**: lists, dashboards, exports, comparison of prompts.
- **The SQL of the searches**: what the two searches find is any of the given
  signals; which content is visible to them is `Served` of `Publication`.
- **Guests in chat streams, the rate limit of streams**: the second works per instance only.
- **Evaluation, worker and ingestion stubs, web applications, deployment**: offline, empty, or
  user interfaces; the constraints of the migrations are used as facts.

`PROJECT.json` says the same per component.

## 7. Plan

Done: documents from upload to retrieval, answers from question to stream, accounts and
permissions, configuration and operations; every safety property of the runs that pass is
stated by a theorem.

Next, by importance of the behaviour:

1. The services of `records` and the sessions of `accounts` whose promises are checked for one call at
   a time, stated for overlapping calls as those of review and publication are: the timeline of an
   incident, the reports in review, the line of tokens, the one line of the audit log.
2. A composition of `ScholarApproval` and `Publication` in which `approved` is a
   refinement of the approval records.
3. Theorems about one document: `ScholarApproval` and `Publication` together, once composed.
4. The decision table of the risk policy, with classification as an input.
5. Guests in chat streams.
