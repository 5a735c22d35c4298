--------------------------- MODULE AnswerWorkflow ---------------------------
(***************************************************************************)
(* AnswerOrchestrator.answer() (answer_orchestration.py): requests that run*)
(* on one event loop, share the idempotency store and call a retriever and *)
(* a generator that may fail, hang or answer at any time.                  *)
(*                                                                         *)
(* Coroutines switch only where they await, so an action runs from one     *)
(* await to the next.  A request's stage is what it awaits.  Python 3.12's *)
(* asyncio.wait_for awaits the workflow in the same task: its last step,   *)
(* the store's put and the return are one step too.                        *)
(***************************************************************************)
EXTENDS Naturals

CONSTANTS
  Requests,     \* the calls of answer()
  Keys,         \* idempotency keys
  NoKey,        \* a request without one
  KeyOf,        \* each request's key
  MaxRetries,   \* request.max_retries
  MaxRevisions, \* request.max_revision_attempts
  StrictVerifier \* which verifier is wired: DeterministicAnswerVerifier (TRUE)
                 \* or CitationVerificationAnswerVerifier (FALSE)

ASSUME KeyAssumption == NoKey \notin Keys /\ KeyOf \in [Requests -> Keys \union {NoKey}]

ASSUME BudgetAssumption ==
  /\ MaxRetries \in 0..5
  /\ MaxRevisions \in Nat
  /\ StrictVerifier \in BOOLEAN

VARIABLES
  run,     \* the local state of each request
  store,   \* the idempotency store: the request whose result a key returns
  result   \* what each request ended with

vars == <<run, store, result>>

-----------------------------------------------------------------------------
Actions  == {"allow", "escalate_to_scholar", "restrict"}
Evidence == {"SUFFICIENT", "PARTIALLY_SUFFICIENT", "CONFLICTING", "INSUFFICIENT"}

\* _evidence_rank
Rank(evidence) ==
  CASE evidence = "INSUFFICIENT"         -> 0
    [] evidence = "CONFLICTING"          -> 1
    [] evidence = "PARTIALLY_SUFFICIENT" -> 2
    [] evidence = "SUFFICIENT"           -> 3

\* EvidenceSufficiencyDecision.should_search_more
SearchMore(evidence) == evidence \in {"INSUFFICIENT", "PARTIALLY_SUFFICIENT"}

Awaiting == {"classify", "retrieve", "expand", "generate"}

Searches == {"retrieve", "expand"}

\* "found" is the status of each search's candidates, "context" the search whose
\* candidates the generator is given and "evidence" the decision that lets it;
\* searches and drafts count the calls of providers
Run == [stage: {"new", "done"} \union Awaiting, action: Actions,
        found: [Searches -> Evidence \union {"unknown"}],
        evidence: Evidence \union {"unknown"}, context: Searches,
        tries: Nat, searches: Nat, drafts: Nat]

NewRun == [stage |-> "new", action |-> "allow",
           found |-> [s \in Searches |-> "unknown"],
           evidence |-> "unknown", context |-> "retrieve",
           tries |-> 0, searches |-> 0, drafts |-> 0]

Statuses == {"completed", "abstained", "escalated", "restricted", "failed"}
Results == [status: Statuses \union {"cancelled", "raised"}, by: Requests]
Nobody   == [status |-> "none"]

-----------------------------------------------------------------------------
\* seeded fault: the store keeps the last result
LastWins(q, status) ==
  IF KeyOf[q] # NoKey THEN [store EXCEPT ![KeyOf[q]] = [status |-> status, by |-> q]]
  ELSE store

\* store.put, which keeps what is there (setdefault)
Put(q, status) ==
  IF KeyOf[q] # NoKey /\ store[KeyOf[q]] = Nobody
  THEN [store EXCEPT ![KeyOf[q]] = [status |-> status, by |-> q]]
  ELSE store

\* q ends with a result of the workflow, which is stored
Return(q, row, status) ==
  /\ run' = [run EXCEPT ![q] = [row EXCEPT !.stage = "done"]]
  /\ result' = [result EXCEPT ![q] = [status |-> status, by |-> q]]
  /\ store' = Put(q, status)

\* a failure, an exception or a cancellation passes the store by
Leave(q, status) ==
  /\ run' = [run EXCEPT ![q].stage = "done"]
  /\ result' = [result EXCEPT ![q] = [status |-> status, by |-> q]]
  /\ UNCHANGED store

Continue(q, row) ==
  /\ run' = [run EXCEPT ![q] = row]
  /\ UNCHANGED <<store, result>>

Await(q, row, stage) == Continue(q, [row EXCEPT !.stage = stage, !.tries = 0])

-----------------------------------------------------------------------------
Cached(q) == KeyOf[q] # NoKey /\ store[KeyOf[q]] # Nobody

\* _validate_request, which may refuse the request, and the look into the store
Start(q) ==
  /\ run[q].stage = "new"
  /\ \/ Leave(q, "failed")
     \/ /\ Cached(q)
        /\ run' = [run EXCEPT ![q].stage = "done"]
        /\ result' = [result EXCEPT ![q] = store[KeyOf[q]]]
        /\ UNCHANGED store
     \/ ~ Cached(q) /\ Await(q, run[q], "classify")

Classify(q) ==
  /\ run[q].stage = "classify"
  /\ \E action \in Actions :
       LET row == [run[q] EXCEPT !.action = action]
       IN  IF action = "restrict" THEN Return(q, row, "restricted")
                                  ELSE Await(q, row, "retrieve")

\* the steps after the last evidence decision, up to the next await or the end
AfterEvidence(q, row) ==
  \/ row.evidence = "INSUFFICIENT" /\ Return(q, row, "abstained")
  \/ row.evidence = "CONFLICTING" /\ Return(q, row, "escalated")
  \/ /\ row.evidence \in {"SUFFICIENT", "PARTIALLY_SUFFICIENT"}
     /\ IF row.action = "escalate_to_scholar" THEN Return(q, row, "escalated")
                                              ELSE Await(q, row, "generate")

\* a search of the retriever ends with candidates of this status
Searched(row, search, found) ==
  [row EXCEPT !.found[search] = found, !.searches = @ + 1]

Retrieve(q) ==
  /\ run[q].stage = "retrieve"
  /\ \E found \in Evidence :
       LET row == [Searched(run[q], "retrieve", found) EXCEPT !.evidence = found]
       IN  IF SearchMore(found) THEN Await(q, row, "expand")
                                ELSE AfterEvidence(q, row)

\* seeded fault: the candidates of the first search are kept
BetterDecisionOnly(row, found) ==
  IF Rank(found) > Rank(row.evidence) THEN [row EXCEPT !.evidence = found] ELSE row

Better(row, found) ==
  IF Rank(found) > Rank(row.evidence)
  THEN [row EXCEPT !.evidence = found, !.context = "expand"]
  ELSE row

Expand(q) ==
  /\ run[q].stage = "expand"
  /\ \E found \in Evidence :
       AfterEvidence(q, Better(Searched(run[q], "expand", found), found))

\* seeded fault: one attempt too many
RetriesPlusOne(q) == run[q].tries <= MaxRetries

\* whether _retry_retrieve tries again after this failure
Retries(q) == run[q].tries < MaxRetries

SearchFails(q) ==
  /\ run[q].stage \in {"retrieve", "expand"}
  /\ IF Retries(q)
     THEN Continue(q, [run[q] EXCEPT !.tries = @ + 1, !.searches = @ + 1])
     ELSE Leave(q, "failed")

\* seeded fault: the verifier looks at the draft alone
DraftVerdicts(q) == {"verified", "needs_revision"}

\* the verdicts the verifier may reach on a draft
Verdicts(q) ==
  IF StrictVerifier /\ run[q].evidence # "SUFFICIENT"
  THEN {"needs_revision"}
  ELSE {"verified", "needs_revision"}

\* generate, verify and, while revisions are left, generate again
Generate(q) ==
  /\ run[q].stage = "generate"
  /\ LET row == [run[q] EXCEPT !.drafts = @ + 1]
     IN  \E verdict \in Verdicts(q) :
           \/ verdict = "verified" /\ Return(q, row, "completed")
           \/ /\ verdict = "needs_revision"
              /\ IF row.drafts <= MaxRevisions THEN Continue(q, row)
                                               ELSE Return(q, row, "abstained")

\* ProviderSDKError becomes a failed result; nothing else is caught
GenerateFails(q) ==
  /\ run[q].stage = "generate"
  /\ \E status \in {"failed", "raised"} : Leave(q, status)

\* seeded fault: only the calls of providers are timed
TimeoutInProviderOnly(q) ==
  /\ run[q].stage \in {"retrieve", "expand"}
  /\ Leave(q, "failed")

\* seeded fault: the failure has a status nobody knows
TimeoutUnknownStatus(q) ==
  /\ run[q].stage \in Awaiting
  /\ Leave(q, "timed_out")

\* asyncio.wait_for gives up: ANSWER_TIMEOUT
Timeout(q) ==
  /\ run[q].stage \in Awaiting
  /\ Leave(q, "failed")

\* the caller's task is cancelled
Cancel(q) ==
  /\ run[q].stage \in Awaiting
  /\ Leave(q, "cancelled")

-----------------------------------------------------------------------------
Init ==
  /\ run = [q \in Requests |-> NewRun]
  /\ store = [k \in Keys |-> Nobody]
  /\ result = [q \in Requests |-> Nobody]

Step(q) ==
  \/ Start(q)
  \/ Classify(q)
  \/ Retrieve(q)
  \/ Expand(q)
  \/ SearchFails(q)
  \/ Generate(q)
  \/ GenerateFails(q)
  \/ Timeout(q)
  \/ Cancel(q)

Next == \E q \in Requests : Step(q)

\* The event loop runs the timer of asyncio.wait_for; a provider may hang.
Fairness == \A q \in Requests : WF_vars(Timeout(q))

Spec == Init /\ [][Next]_vars /\ Fairness

-----------------------------------------------------------------------------
(* Properties.                                                             *)

\* The rows are well formed.
TypeOK ==
  /\ run \in [Requests -> Run]
  /\ store \in [Keys -> Results \union {Nobody}]
  /\ result \in [Requests -> Results \union {Nobody}]

Completed(q) == result[q] # Nobody /\ result[q].status = "completed"

\* The workflow fails closed: a completed answer was allowed by the policy and
\* written from the very candidates that were judged sufficient, although the
\* expanded search may have replaced them and the answer may be a stored one.
CompletedIsGrounded ==
  \A q \in Requests : Completed(q) =>
    LET row == run[result[q].by]
    IN  row.action = "allow" /\ row.found[row.context] = "SUFFICIENT"

\* "Conflicting evidence escalates instead of forcing a single conclusion"
\* (docs/architecture/answer-orchestrator.md): no completed answer follows a
\* search that found conflicting evidence.
ConflictNeverAnswered ==
  \A q \in Requests : Completed(q) =>
    \A s \in Searches : run[result[q].by].found[s] # "CONFLICTING"

\* Retries and revisions stay within their budgets, and a restricted question
\* reaches neither the retriever nor the generator.
WorkIsBounded ==
  \A q \in Requests :
    /\ run[q].searches <= 2 * (MaxRetries + 1)
    /\ run[q].drafts <= 1 + MaxRevisions
    /\ run[q].action = "restrict" => run[q].searches + run[q].drafts = 0

\* Requests that share a key and run at the same time end with different
\* results; the key keeps the first, and no failure is ever stored under it.
FirstAnswerWins ==
  [][\A k \in Keys : store'[k] # store[k] =>
       store[k] = Nobody /\ store'[k].status \in Statuses \ {"failed"}]_vars

\* Every request keeps the promise of AnswerTask: it ends, whatever its
\* providers do, and what it ended with stays.
Outcome(q) ==
  CASE run[q].stage = "new"      -> "none"
    [] run[q].stage \in Awaiting -> "running"
    [] run[q].stage = "done"     -> result[q].status

Task == INSTANCE AnswerTask WITH outcome <- [q \in Requests |-> Outcome(q)]
KeepsAnswerTask == Task!Spec

=============================================================================
