------------------------ MODULE AnswerWorkflowProofs ------------------------
(***************************************************************************)
(* Proofs about AnswerWorkflow, for any number of requests and keys and    *)
(* any budget of retries and revisions, and about the parts that           *)
(* MCAnswerPipeline puts beside it: Retrieval, EvidenceSufficiency,        *)
(* CitationVerification, Embeddings and LlmAdapter, for any data.          *)
(***************************************************************************)
EXTENDS MCAnswerPipeline, FiniteSetTheorems, SequenceTheorems, WellFoundedInduction, TLAPS

-----------------------------------------------------------------------------
(* The inductive invariant.                                                *)

NoConflict(row) == \A s \in Searches : row.found[s] # "CONFLICTING"

\* what holds of a request at each of its awaits: the decision so far is that
\* of the search its context names, a sufficient one follows no conflict, and the
\* counts are within the budget
Stage(row) ==
  /\ row.stage \in {"new", "classify", "retrieve"} =>
       row.context = "retrieve" /\ row.drafts = 0 /\ NoConflict(row)
  /\ row.stage \in {"new", "classify"} => row.searches = 0
  /\ row.stage = "retrieve" => row.searches = row.tries
  /\ row.stage = "expand" =>
       /\ row.context = "retrieve" /\ row.drafts = 0
       /\ row.evidence = row.found["retrieve"] /\ SearchMore(row.evidence)
       /\ row.searches <= MaxRetries + 1 + row.tries
  /\ row.stage \in {"retrieve", "expand"} =>
       row.action # "restrict" /\ row.tries <= MaxRetries
  /\ row.stage = "generate" =>
       /\ row.action = "allow"
       /\ row.evidence = row.found[row.context]
       /\ row.evidence = "SUFFICIENT" => NoConflict(row)
       /\ row.drafts <= MaxRevisions

Bounded(row) ==
  /\ row.searches <= 2 * (MaxRetries + 1)
  /\ row.drafts <= 1 + MaxRevisions
  /\ row.action = "restrict" => row.searches = 0 /\ row.drafts = 0

Good(row) == row \in Run /\ Stage(row) /\ Bounded(row)

\* what a row must say for its request to complete: the verifier sees to it
Grounded(row) ==
  StrictVerifier =>
    row.action = "allow" /\ row.found[row.context] = "SUFFICIENT" /\ NoConflict(row)

\* what a recorded result, of a request or in the store, says of the request
\* that produced it
Earned(res) ==
  /\ res # Nobody => run[res.by].stage = "done"
  /\ res # Nobody /\ res.status = "completed" => Grounded(run[res.by])

Inv ==
  /\ TypeOK
  /\ \A q \in Requests : Good(run[q])
  /\ \A q \in Requests : run[q].stage = "done" => result[q] # Nobody
  /\ \A q \in Requests : Earned(result[q])
  /\ \A k \in Keys : Earned(store[k])

\* What every step of a request does: it keeps the invariant, it is a step of
\* AnswerTask or leaves the outcomes alone, and it respects what the store holds.
Outcomes == [q \in Requests |-> Outcome(q)]

Fits(q) ==
  /\ Inv'
  /\ Task!Begin(q) \/ Task!Finish(q) \/ Outcomes' = Outcomes
  /\ \A k \in Keys : store'[k] # store[k] =>
       store[k] = Nobody /\ store'[k].status \in Statuses \ {"failed"}

-----------------------------------------------------------------------------
(* Rows.                                                                   *)

LEMMA BudgetIsNat == MaxRetries \in Nat /\ MaxRevisions \in Nat
BY BudgetAssumption

LEMMA RunFields ==
  ASSUME NEW row \in Run
  PROVE  /\ row.stage \in {"new", "done"} \union Awaiting
         /\ row.action \in Actions
         /\ row.context \in Searches
         /\ row.tries \in Nat /\ row.searches \in Nat /\ row.drafts \in Nat
BY DEF Run

\* The next await changes the stage and the count of tries only.
LEMMA AwaitRow ==
  ASSUME NEW row \in Run, NEW await \in Awaiting
  PROVE  LET next == [row EXCEPT !.stage = await, !.tries = 0]
         IN  /\ next \in Run
             /\ next.stage = await /\ next.tries = 0
             /\ next.action = row.action /\ next.found = row.found
             /\ next.evidence = row.evidence /\ next.context = row.context
             /\ next.searches = row.searches /\ next.drafts = row.drafts
BY DEF Run

\* A search that ends counts and records what it found, and nothing else.
LEMMA FoundRow ==
  ASSUME NEW row \in Run, NEW search \in Searches, NEW outcome \in Evidence
  PROVE  /\ Searched(row, search, outcome) \in Run
         /\ Searched(row, search, outcome).found[search] = outcome
         /\ \A s \in Searches \ {search} :
              Searched(row, search, outcome).found[s] = row.found[s]
         /\ Searched(row, search, outcome).searches = row.searches + 1
         /\ Searched(row, search, outcome).action = row.action
         /\ Searched(row, search, outcome).evidence = row.evidence
         /\ Searched(row, search, outcome).context = row.context
         /\ Searched(row, search, outcome).drafts = row.drafts
<1>. DEFINE next == Searched(row, search, outcome)
            record == [row.found EXCEPT ![search] = outcome]
<1>1. row.found \in [Searches -> Evidence \union {"unknown"}]
  BY DEF Run
<1>2. row.searches + 1 \in Nat
  BY RunFields
<1>3. /\ record \in [Searches -> Evidence \union {"unknown"}]
      /\ record[search] = outcome
      /\ \A s \in Searches \ {search} : record[s] = row.found[s]
  BY <1>1
<1>4. next = [row EXCEPT !.found = record, !.searches = row.searches + 1]
  BY DEF Run, Searched
<1>5. next.found = record /\ next.searches = row.searches + 1
  BY <1>4 DEF Run
<1>6. /\ next.action = row.action /\ next.evidence = row.evidence
      /\ next.context = row.context /\ next.drafts = row.drafts
  BY <1>4 DEF Run
<1>7. ASSUME NEW f \in [Searches -> Evidence \union {"unknown"}], NEW n \in Nat
      PROVE  [row EXCEPT !.found = f, !.searches = n] \in Run
  BY DEF Run
<1>8. next \in Run
  <2>. HIDE DEF next, record
  <2>1. [row EXCEPT !.found = record, !.searches = row.searches + 1] \in Run
    BY <1>2, <1>3, <1>7
  <2>. QED BY <1>4, <2>1
<1>. HIDE DEF record
<1>. QED BY <1>3, <1>5, <1>6, <1>8

\* A search that is tried again counts, and nothing else.
LEMMA TriedRow ==
  ASSUME NEW row \in Run
  PROVE  LET next == [row EXCEPT !.tries = @ + 1, !.searches = @ + 1]
         IN  /\ next \in Run
             /\ next.tries = row.tries + 1 /\ next.searches = row.searches + 1
             /\ next.stage = row.stage /\ next.action = row.action
             /\ next.found = row.found /\ next.evidence = row.evidence
             /\ next.context = row.context /\ next.drafts = row.drafts
<1>1. row.tries + 1 \in Nat /\ row.searches + 1 \in Nat
  BY RunFields
<1>2. ASSUME NEW m \in Nat, NEW n \in Nat
      PROVE  [row EXCEPT !.tries = m, !.searches = n] \in Run
  BY DEF Run
<1>. QED BY <1>1, <1>2 DEF Run

-----------------------------------------------------------------------------
(* The three ways a step ends keep the invariant.                          *)

\* A request that goes on touches its row only, and no recorded result is its own.
LEMMA ContinueKeeps ==
  ASSUME Inv, NEW q \in Requests, NEW row, Good(row),
         run[q].stage # "done", row.stage \in Awaiting, Continue(q, row)
  PROVE  Fits(q)
<1>1. /\ run' = [run EXCEPT ![q] = row]
      /\ store' = store /\ result' = result
  BY DEF Continue
<1>2. \A p \in Requests : run'[p] = IF p = q THEN row ELSE run[p]
  BY <1>1 DEF Inv, TypeOK
<1>3. TypeOK'
  BY <1>1, <1>2 DEF Inv, TypeOK, Good
<1>4. \A p \in Requests : Good(run'[p])
  BY <1>2 DEF Inv
<1>5. \A p \in Requests : run'[p].stage = "done" => result'[p] # Nobody
  BY <1>1, <1>2 DEF Inv, Awaiting
<1>6. ASSUME NEW res \in Results \union {Nobody}, Earned(res)
      PROVE  Earned(res)'
  <2>1. res # Nobody => res.by \in Requests
    BY DEF Results
  <2>2. res # Nobody => run'[res.by] = run[res.by]
    BY <1>2, <1>6, <2>1 DEF Earned
  <2>. QED BY <1>6, <2>2 DEF Earned, Grounded
<1>7. \A p \in Requests : Earned(result[p])'
  BY <1>1, <1>6 DEF Inv, TypeOK
<1>8. \A k \in Keys : Earned(store[k])'
  BY <1>1, <1>6 DEF Inv, TypeOK
<1>9. Task!Begin(q) \/ Outcomes' = Outcomes
  <2>1. Outcome(q)' = "running"
    BY <1>2 DEF Outcome, Awaiting
  <2>2. \A p \in Requests \ {q} : Outcome(p)' = Outcome(p)
    BY <1>1, <1>2 DEF Outcome
  <2>3. Outcomes' = [Outcomes EXCEPT ![q] = "running"]
    BY <2>1, <2>2 DEF Outcomes
  <2>4. CASE run[q].stage = "new"
    <3>1. Outcome(q) = "none"
      BY <2>4 DEF Outcome, Awaiting
    <3>. QED BY <2>3, <3>1 DEF Task!Begin, Outcomes
  <2>5. CASE run[q].stage # "new"
    <3>1. Outcome(q) = "running"
      BY <2>5, RunFields DEF Inv, Good, Outcome, Awaiting
    <3>. QED BY <2>3, <3>1 DEF Outcomes
  <2>. QED BY <2>4, <2>5
<1>. QED BY <1>1, <1>3, <1>4, <1>5, <1>7, <1>8, <1>9 DEF Inv, Good, Fits

\* A request that ends with an earned result leaves the recorded results earned.
LEMMA EndKeeps ==
  ASSUME Inv, NEW q \in Requests, NEW row, Good(row),
         run[q].stage # "done", row.stage = "done",
         NEW res \in Results,
         run' = [run EXCEPT ![q] = row],
         result' = [result EXCEPT ![q] = res],
         store' \in [Keys -> Results \union {Nobody}],
         \A k \in Keys : \/ store'[k] = store[k]
                         \/ /\ store[k] = Nobody /\ store'[k] = res
                            /\ res.status \in Statuses \ {"failed"},
         \/ res.by = q /\ (res.status = "completed" => Grounded(row))
         \/ Earned(res)
  PROVE  Fits(q)
<1>1. \A p \in Requests : /\ run'[p] = IF p = q THEN row ELSE run[p]
                          /\ result'[p] = IF p = q THEN res ELSE result[p]
  BY DEF Inv, TypeOK
<1>2. TypeOK'
  BY <1>1 DEF Inv, TypeOK, Good
<1>3. \A p \in Requests : Good(run'[p])
  BY <1>1 DEF Inv
<1>4. res # Nobody
  BY DEF Results, Nobody
<1>5. \A p \in Requests : run'[p].stage = "done" => result'[p] # Nobody
  BY <1>1, <1>4 DEF Inv
<1>6. ASSUME NEW old \in Results \union {Nobody}, Earned(old)
      PROVE  Earned(old)'
  <2>1. old # Nobody => old.by \in Requests
    BY DEF Results
  <2>2. old # Nobody => run'[old.by] = run[old.by]
    BY <1>1, <1>6, <2>1 DEF Earned
  <2>. QED BY <1>6, <2>2 DEF Earned, Grounded
<1>7. Earned(res)'
  <2>1. CASE Earned(res)
    BY <2>1, <1>6
  <2>2. CASE res.by = q /\ (res.status = "completed" => Grounded(row))
    BY <2>2, <1>1 DEF Earned, Grounded
  <2>. QED BY <2>1, <2>2
<1>8. \A p \in Requests : Earned(result[p])'
  BY <1>1, <1>6, <1>7 DEF Inv, TypeOK
<1>9. \A k \in Keys : Earned(store[k])'
  BY <1>6, <1>7 DEF Inv, TypeOK
<1>10. Task!Begin(q) \/ Task!Finish(q)
  <2>1. res.status \in Task!Outcomes
    BY DEF Results, Statuses, Task!Outcomes, Task!Statuses
  <2>2. \A p \in Requests \ {q} : Outcome(p)' = Outcome(p)
    BY <1>1 DEF Outcome
  <2>3. Outcome(q)' = res.status
    BY <1>1 DEF Outcome, Awaiting
  <2>4. Outcomes' = [Outcomes EXCEPT ![q] = res.status]
    BY <2>2, <2>3 DEF Outcomes
  <2>5. Outcome(q) \in {"none", "running"}
    BY RunFields DEF Inv, Good, Outcome, Awaiting
  <2>. QED BY <2>1, <2>4, <2>5 DEF Task!Begin, Task!Finish, Outcomes
<1>. QED BY <1>2, <1>3, <1>5, <1>8, <1>9, <1>10 DEF Inv, Good, Fits

\* Ending a row keeps what holds of it.
LEMMA DoneIsGood ==
  ASSUME NEW row \in Run, Bounded(row)
  PROVE  /\ Good([row EXCEPT !.stage = "done"])
         /\ [row EXCEPT !.stage = "done"].stage = "done"
         /\ Grounded(row) => Grounded([row EXCEPT !.stage = "done"])
BY DEF Run, Good, Stage, Bounded, Grounded, NoConflict

\* store.put gives a key at most the result that is put.
LEMMA PutKeeps ==
  ASSUME TypeOK, NEW q \in Requests, NEW status \in Statuses
  PROVE  /\ Put(q, status) \in [Keys -> Results \union {Nobody}]
         /\ \A k \in Keys : \/ Put(q, status)[k] = store[k]
                            \/ /\ store[k] = Nobody
                               /\ Put(q, status)[k] = [status |-> status, by |-> q]
BY KeyAssumption DEF TypeOK, Put, Results

LEMMA ReturnKeeps ==
  ASSUME Inv, NEW q \in Requests, NEW row \in Run, Bounded(row), run[q].stage # "done",
         NEW status \in Statuses \ {"failed"}, status = "completed" => Grounded(row),
         Return(q, row, status)
  PROVE  Fits(q)
<1>. DEFINE end == [row EXCEPT !.stage = "done"]
            res == [status |-> status, by |-> q]
<1>1. Good(end) /\ end.stage = "done" /\ (status = "completed" => Grounded(end))
  BY DoneIsGood
<1>2. res \in Results /\ res.by = q /\ res.status = status
  BY DEF Results
<1>3. /\ store' \in [Keys -> Results \union {Nobody}]
      /\ \A k \in Keys : \/ store'[k] = store[k]
                         \/ store[k] = Nobody /\ store'[k] = res
  BY PutKeeps DEF Inv, Return
<1>4. run' = [run EXCEPT ![q] = end] /\ result' = [result EXCEPT ![q] = res]
  BY DEF Return
<1>. HIDE DEF end, res
<1>. QED BY <1>1, <1>2, <1>3, <1>4, EndKeeps

LEMMA LeaveKeeps ==
  ASSUME Inv, NEW q \in Requests, run[q].stage # "done",
         NEW status \in {"failed", "raised", "cancelled"}, Leave(q, status)
  PROVE  Fits(q)
<1>. DEFINE end == [run[q] EXCEPT !.stage = "done"]
            res == [status |-> status, by |-> q]
<1>1. Good(end) /\ end.stage = "done"
  BY DoneIsGood DEF Inv, TypeOK, Good
<1>2. res \in Results /\ res.by = q /\ res.status # "completed"
  BY DEF Results, Statuses
<1>3. /\ store' \in [Keys -> Results \union {Nobody}]
      /\ \A k \in Keys : store'[k] = store[k]
  BY DEF Inv, TypeOK, Leave
<1>4. run' = [run EXCEPT ![q] = end] /\ result' = [result EXCEPT ![q] = res]
  BY DEF Leave, Inv, TypeOK
<1>. HIDE DEF end, res
<1>. QED BY <1>1, <1>2, <1>3, <1>4, EndKeeps

LEMMA AwaitKeeps ==
  ASSUME Inv, NEW q \in Requests, NEW row \in Run, Bounded(row), run[q].stage # "done",
         NEW await \in Awaiting, Await(q, row, await),
         Stage([row EXCEPT !.stage = await, !.tries = 0])
  PROVE  Fits(q)
<1>. DEFINE next == [row EXCEPT !.stage = await, !.tries = 0]
<1>1. /\ next \in Run /\ next.stage = await
      /\ next.action = row.action
      /\ next.searches = row.searches /\ next.drafts = row.drafts
  BY AwaitRow
<1>2. Stage(next) /\ Continue(q, next)
  BY DEF Await
<1>. HIDE DEF next
<1>3. Good(next) /\ next.stage \in Awaiting
  BY <1>1, <1>2 DEF Good, Bounded, Awaiting
<1>. QED BY <1>2, <1>3, ContinueKeeps

-----------------------------------------------------------------------------
(* Every action keeps the invariant.                                       *)

\* what follows the last evidence decision
LEMMA AfterEvidenceKeeps ==
  ASSUME Inv, NEW q \in Requests, NEW row \in Run, Bounded(row),
         run[q].stage # "done",
         row.drafts = 0, row.action # "restrict", row.evidence = row.found[row.context],
         row.evidence = "SUFFICIENT" => NoConflict(row),
         AfterEvidence(q, row)
  PROVE  Fits(q)
<1>1. CASE row.evidence = "INSUFFICIENT" /\ Return(q, row, "abstained")
  BY <1>1, ReturnKeeps DEF Statuses
<1>2. CASE Return(q, row, "escalated")
  BY <1>2, ReturnKeeps DEF Statuses
<1>3. CASE row.action # "escalate_to_scholar" /\ Await(q, row, "generate")
  <2>. DEFINE next == [row EXCEPT !.stage = "generate", !.tries = 0]
  <2>1. /\ next.stage = "generate"
        /\ next.action = row.action /\ next.found = row.found
        /\ next.evidence = row.evidence /\ next.context = row.context
        /\ next.drafts = row.drafts
    BY AwaitRow DEF Awaiting
  <2>2. row.action = "allow"
    BY <1>3, RunFields DEF Actions
  <2>. HIDE DEF next
  <2>3. Stage(next)
    BY <2>1, <2>2, BudgetIsNat DEF Stage, NoConflict
  <2>. QED BY <1>3, <2>3, AwaitKeeps DEF Awaiting, next
<1>. QED BY <1>1, <1>2, <1>3 DEF AfterEvidence

LEMMA StartKeeps ==
  ASSUME Inv, NEW q \in Requests, Start(q)
  PROVE  Fits(q)
<1>1. run[q].stage = "new" /\ Good(run[q])
  BY DEF Start, Inv
<1>2. CASE Leave(q, "failed")
  BY <1>1, <1>2, LeaveKeeps
<1>3. CASE /\ Cached(q)
           /\ run' = [run EXCEPT ![q].stage = "done"]
           /\ result' = [result EXCEPT ![q] = store[KeyOf[q]]]
           /\ UNCHANGED store
  <2>. DEFINE end == [run[q] EXCEPT !.stage = "done"]
              res == store[KeyOf[q]]
  <2>1. Good(end) /\ end.stage = "done"
    BY <1>1, DoneIsGood DEF Good
  <2>2. res \in Results /\ Earned(res)
    BY <1>3, KeyAssumption DEF Cached, Inv, TypeOK
  <2>3. /\ store' \in [Keys -> Results \union {Nobody}]
        /\ \A k \in Keys : store'[k] = store[k]
    BY <1>3 DEF Inv, TypeOK
  <2>4. run' = [run EXCEPT ![q] = end] /\ result' = [result EXCEPT ![q] = res]
    BY <1>3 DEF Inv, TypeOK
  <2>. HIDE DEF end, res
  <2>. QED BY <1>1, <2>1, <2>2, <2>3, <2>4, EndKeeps
<1>4. CASE Await(q, run[q], "classify")
  <2>. DEFINE next == [run[q] EXCEPT !.stage = "classify", !.tries = 0]
  <2>1. /\ next.stage = "classify" /\ next.context = run[q].context
        /\ next.searches = run[q].searches /\ next.drafts = run[q].drafts
        /\ next.found = run[q].found
    BY <1>1, AwaitRow DEF Awaiting, Good
  <2>. HIDE DEF next
  <2>2. Stage(next)
    BY <1>1, <2>1 DEF Good, Stage, NoConflict
  <2>. QED BY <1>1, <1>4, <2>2, AwaitKeeps DEF Awaiting, Good, next
<1>. QED BY <1>2, <1>3, <1>4 DEF Start

LEMMA ClassifyKeeps ==
  ASSUME Inv, NEW q \in Requests, Classify(q)
  PROVE  Fits(q)
<1>1. run[q].stage = "classify" /\ Good(run[q])
  BY DEF Classify, Inv
<1>2. PICK action \in Actions :
        LET row == [run[q] EXCEPT !.action = action]
        IN  IF action = "restrict" THEN Return(q, row, "restricted")
                                   ELSE Await(q, row, "retrieve")
  BY DEF Classify
<1>. DEFINE row == [run[q] EXCEPT !.action = action]
<1>3. row \in Run /\ Bounded(row)
  BY <1>1 DEF Run, Good, Stage, Bounded, Awaiting
<1>4. CASE action = "restrict"
  <2>1. Return(q, row, "restricted")
    BY <1>2, <1>4
  <2>. HIDE DEF row
  <2>. QED BY <1>1, <1>3, <2>1, ReturnKeeps DEF Statuses
<1>5. CASE action # "restrict"
  <2>. DEFINE next == [row EXCEPT !.stage = "retrieve", !.tries = 0]
  <2>1. /\ row.context = "retrieve" /\ row.searches = 0 /\ row.drafts = 0
        /\ row.action = action /\ NoConflict(row)
    BY <1>1 DEF Run, Good, Stage, NoConflict
  <2>2. Await(q, row, "retrieve")
    BY <1>2, <1>5
  <2>. HIDE DEF row
  <2>3. /\ next.stage = "retrieve" /\ next.tries = 0
        /\ next.action = row.action /\ next.context = row.context
        /\ next.searches = row.searches /\ next.drafts = row.drafts
        /\ next.found = row.found
    BY <1>3, AwaitRow DEF Awaiting
  <2>. HIDE DEF next
  <2>4. Stage(next)
    BY <1>5, <2>1, <2>3, BudgetIsNat DEF Stage, NoConflict
  <2>. QED BY <1>1, <1>3, <2>2, <2>4, AwaitKeeps DEF Awaiting, next
<1>. QED BY <1>4, <1>5

LEMMA RetrieveKeeps ==
  ASSUME Inv, NEW q \in Requests, Retrieve(q)
  PROVE  Fits(q)
<1>1. run[q].stage = "retrieve" /\ Good(run[q])
  BY DEF Retrieve, Inv
<1>2. PICK outcome \in Evidence :
        LET row == [Searched(run[q], "retrieve", outcome) EXCEPT !.evidence = outcome]
        IN  IF SearchMore(outcome) THEN Await(q, row, "expand") ELSE AfterEvidence(q, row)
  BY DEF Retrieve
<1>. DEFINE old == Searched(run[q], "retrieve", outcome)
            row == [old EXCEPT !.evidence = outcome]
<1>3. /\ row \in Run
      /\ row.drafts = run[q].drafts /\ row.action = run[q].action
      /\ row.context = run[q].context
      /\ row.evidence = outcome /\ row.found["retrieve"] = outcome
      /\ row.found["expand"] = run[q].found["expand"]
      /\ row.searches = run[q].searches + 1
  <2>1. run[q] \in Run /\ "retrieve" \in Searches /\ "expand" \in Searches \ {"retrieve"}
    BY <1>1 DEF Good, Searches
  <2>2. /\ old \in Run /\ old.found["retrieve"] = outcome
        /\ old.found["expand"] = run[q].found["expand"]
        /\ old.searches = run[q].searches + 1
        /\ old.drafts = run[q].drafts /\ old.action = run[q].action
        /\ old.context = run[q].context
    BY <2>1, FoundRow
  <2>. HIDE DEF old
  <2>. QED BY <2>2 DEF Run
<1>4. IF SearchMore(outcome) THEN Await(q, row, "expand") ELSE AfterEvidence(q, row)
  BY <1>2
<1>. HIDE DEF row
<1>5. /\ row.drafts = 0 /\ row.action # "restrict" /\ row.context = "retrieve"
      /\ row.searches <= MaxRetries + 1
  BY <1>1, <1>3, BudgetIsNat, RunFields DEF Good, Stage
<1>6. Bounded(row)
  BY <1>3, <1>5, BudgetIsNat, RunFields DEF Bounded
<1>7. row.evidence = "SUFFICIENT" => NoConflict(row)
  BY <1>1, <1>3 DEF Good, Stage, NoConflict, Searches
<1>8. CASE SearchMore(outcome)
  <2>. DEFINE next == [row EXCEPT !.stage = "expand", !.tries = 0]
  <2>1. /\ next.stage = "expand" /\ next.tries = 0
        /\ next.action = row.action /\ next.found = row.found
        /\ next.evidence = row.evidence /\ next.context = row.context
        /\ next.searches = row.searches /\ next.drafts = row.drafts
    BY <1>3, AwaitRow DEF Awaiting
  <2>. HIDE DEF next
  <2>2. Stage(next)
    BY <1>3, <1>5, <1>8, <2>1, BudgetIsNat DEF Stage
  <2>. QED BY <1>1, <1>3, <1>4, <1>6, <1>8, <2>2, AwaitKeeps DEF Awaiting, next
<1>9. CASE ~ SearchMore(outcome)
  BY <1>1, <1>3, <1>4, <1>5, <1>6, <1>7, <1>9, AfterEvidenceKeeps
<1>. QED BY <1>8, <1>9

LEMMA ExpandKeeps ==
  ASSUME Inv, NEW q \in Requests, Expand(q)
  PROVE  Fits(q)
<1>1. run[q].stage = "expand" /\ Good(run[q])
  BY DEF Expand, Inv
<1>2. PICK outcome \in Evidence :
        AfterEvidence(q, Better(Searched(run[q], "expand", outcome), outcome))
  BY DEF Expand
<1>. DEFINE old == Searched(run[q], "expand", outcome)
            row == Better(old, outcome)
<1>3. /\ old \in Run
      /\ old.drafts = run[q].drafts /\ old.action = run[q].action
      /\ old.context = run[q].context /\ old.evidence = run[q].evidence
      /\ old.found["retrieve"] = run[q].found["retrieve"]
      /\ old.found["expand"] = outcome
      /\ old.searches = run[q].searches + 1
  <2>1. run[q] \in Run /\ "expand" \in Searches /\ "retrieve" \in Searches \ {"expand"}
    BY <1>1 DEF Good, Searches
  <2>. QED BY <2>1, FoundRow
<1>4. AfterEvidence(q, row)
  BY <1>2
<1>. HIDE DEF old
<1>5. /\ old.drafts = 0 /\ old.action # "restrict" /\ old.context = "retrieve"
      /\ old.evidence = old.found["retrieve"] /\ SearchMore(old.evidence)
      /\ old.searches <= 2 * (MaxRetries + 1)
  BY <1>1, <1>3, BudgetIsNat, RunFields DEF Good, Stage
<1>6. /\ row \in Run /\ row.drafts = 0 /\ row.action # "restrict"
      /\ row.evidence = row.found[row.context]
      /\ row.evidence = "SUFFICIENT" => NoConflict(row)
      /\ row.searches <= 2 * (MaxRetries + 1)
  <2>1. CASE row = old
    BY <1>3, <1>5, <2>1 DEF SearchMore
  <2>2. CASE row = [old EXCEPT !.evidence = outcome, !.context = "expand"]
    <3>1. row \in Run
      BY <1>3, <1>5, <2>2 DEF Run, Searches
    <3>2. /\ row.evidence = outcome /\ row.context = "expand" /\ row.found = old.found
          /\ row.drafts = old.drafts /\ row.action = old.action /\ row.searches = old.searches
      BY <1>3, <2>2 DEF Run
    <3>3. row.evidence = "SUFFICIENT" => NoConflict(row)
      BY <1>3, <1>5, <3>2 DEF SearchMore, NoConflict, Searches
    <3>. QED BY <1>3, <1>5, <3>1, <3>2, <3>3
  <2>. QED BY <2>1, <2>2 DEF Better
<1>. HIDE DEF row
<1>7. Bounded(row)
  BY <1>6, BudgetIsNat, RunFields DEF Bounded
<1>. QED BY <1>1, <1>4, <1>6, <1>7, AfterEvidenceKeeps

LEMMA SearchFailsKeeps ==
  ASSUME Inv, NEW q \in Requests, SearchFails(q)
  PROVE  Fits(q)
<1>1. run[q].stage \in {"retrieve", "expand"} /\ Good(run[q])
  BY DEF SearchFails, Inv
<1>2. CASE Retries(q)
  <2>. DEFINE next == [run[q] EXCEPT !.tries = @ + 1, !.searches = @ + 1]
  <2>1. /\ next \in Run
        /\ next.tries = run[q].tries + 1 /\ next.searches = run[q].searches + 1
        /\ next.stage = run[q].stage /\ next.action = run[q].action
        /\ next.found = run[q].found /\ next.evidence = run[q].evidence
        /\ next.context = run[q].context /\ next.drafts = run[q].drafts
    BY <1>1, TriedRow DEF Good
  <2>2. Continue(q, next)
    BY <1>2 DEF SearchFails
  <2>. HIDE DEF next
  <2>3. run[q].tries \in Nat /\ run[q].searches \in Nat /\ run[q].drafts \in Nat
    BY <1>1, RunFields DEF Good
  <2>4. Stage(next)
    BY <1>1, <1>2, <2>1, <2>3, BudgetIsNat DEF Good, Stage, Retries, NoConflict
  <2>5. Bounded(next)
    BY <1>1, <1>2, <2>1, <2>3, BudgetIsNat DEF Good, Stage, Bounded, Retries
  <2>. QED BY <1>1, <2>1, <2>2, <2>4, <2>5, ContinueKeeps DEF Good, Awaiting
<1>3. CASE ~ Retries(q)
  BY <1>1, <1>3, LeaveKeeps DEF SearchFails
<1>. QED BY <1>2, <1>3

LEMMA GenerateKeeps ==
  ASSUME Inv, NEW q \in Requests, Generate(q)
  PROVE  Fits(q)
<1>1. run[q].stage = "generate" /\ Good(run[q])
  BY DEF Generate, Inv
<1>. DEFINE row == [run[q] EXCEPT !.drafts = @ + 1]
<1>2. PICK verdict \in Verdicts(q) :
           \/ verdict = "verified" /\ Return(q, row, "completed")
           \/ /\ verdict = "needs_revision"
              /\ IF row.drafts <= MaxRevisions THEN Continue(q, row)
                                               ELSE Return(q, row, "abstained")
  BY DEF Generate
<1>3. /\ row \in Run /\ Bounded(row) /\ row.stage = "generate" /\ row.action = "allow"
      /\ row.evidence = run[q].evidence /\ row.evidence = row.found[row.context]
      /\ row.evidence = "SUFFICIENT" => NoConflict(row)
  BY <1>1, BudgetAssumption DEF Run, Good, Stage, Bounded, Awaiting, NoConflict
<1>. HIDE DEF row
<1>4. CASE verdict = "verified" /\ Return(q, row, "completed")
  <2>1. Grounded(row)
    BY <1>3, <1>4 DEF Verdicts, Grounded
  <2>. QED BY <1>1, <1>3, <1>4, <2>1, ReturnKeeps DEF Statuses
<1>5. CASE row.drafts <= MaxRevisions /\ Continue(q, row)
  <2>1. Good(row) /\ row.stage \in Awaiting
    BY <1>1, <1>3, <1>5 DEF Good, Stage, Awaiting
  <2>. QED BY <1>1, <1>5, <2>1, ContinueKeeps
<1>6. CASE Return(q, row, "abstained")
  BY <1>1, <1>3, <1>6, ReturnKeeps DEF Statuses
<1>. QED BY <1>2, <1>4, <1>5, <1>6

LEMMA LeavingKeeps ==
  ASSUME Inv, NEW q \in Requests, GenerateFails(q) \/ Timeout(q) \/ Cancel(q)
  PROVE  Fits(q)
BY LeaveKeeps DEF GenerateFails, Timeout, Cancel, Awaiting

LEMMA StepFits ==
  ASSUME Inv, NEW q \in Requests, Step(q)
  PROVE  Fits(q)
BY StartKeeps, ClassifyKeeps, RetrieveKeeps, ExpandKeeps, SearchFailsKeeps, GenerateKeeps,
   LeavingKeeps DEF Step

LEMMA Invariance == Spec => []Inv
<1>1. Init => Inv
  BY BudgetAssumption DEF Init, Inv, TypeOK, Good, Stage, Bounded, Earned, Run, NewRun,
                          Actions, Searches, NoConflict
<1>2. ASSUME Inv, [Next]_vars
      PROVE  Inv'
  <2>1. CASE UNCHANGED vars
    BY <1>2, <2>1 DEF vars, Inv, TypeOK, Good, Earned, Grounded
  <2>2. CASE Next
    BY <1>2, <2>2, StepFits DEF Next, Fits
  <2>. QED BY <1>2, <2>1, <2>2
<1>. QED BY <1>1, <1>2, PTL DEF Spec

-----------------------------------------------------------------------------
(* The theorems.                                                           *)

\* The rows, the store and the results are well formed in every reachable state.
THEOREM TypeCorrect == Spec => []TypeOK
<1>1. Inv => TypeOK
  BY DEF Inv
<1>. QED BY <1>1, Invariance, PTL

\* However many requests run, and whatever fails, no request searches or drafts
\* more often than its budget, and a restricted one does neither.
THEOREM BoundedWork == Spec => []WorkIsBounded
<1>1. ASSUME Inv, NEW q \in Requests
      PROVE  /\ run[q].searches <= 2 * (MaxRetries + 1)
             /\ run[q].drafts <= 1 + MaxRevisions
             /\ run[q].action = "restrict" => run[q].searches + run[q].drafts = 0
  <2>1. Bounded(run[q])
    BY <1>1 DEF Inv, Good
  <2>. QED BY <2>1 DEF Bounded
<1>2. Inv => WorkIsBounded
  BY <1>1 DEF WorkIsBounded
<1>. QED BY <1>2, Invariance, PTL

\* With the strict verifier every completed answer, a stored one too, rests on
\* the very candidates that were judged sufficient.
THEOREM FailsClosed == Spec => [](StrictVerifier => CompletedIsGrounded)
<1>1. Inv => (StrictVerifier => CompletedIsGrounded)
  BY DEF Inv, CompletedIsGrounded, Completed, Earned, Grounded
<1>. QED BY <1>1, Invariance, PTL

\* With the strict verifier no completed answer, a stored one neither, follows a
\* search that found conflicting evidence, although the decision of that search may
\* have been dropped for that of the other one.
THEOREM ConflictsEscalate == Spec => [](StrictVerifier => ConflictNeverAnswered)
<1>1. Inv => (StrictVerifier => ConflictNeverAnswered)
  BY DEF Inv, ConflictNeverAnswered, Completed, Earned, Grounded, NoConflict
<1>. QED BY <1>1, Invariance, PTL

\* The first result under a key stays, however many requests race for it, and a
\* failure is never stored.
THEOREM FirstWins == Spec => FirstAnswerWins
<1>. DEFINE A == \A k \in Keys : store'[k] # store[k] =>
                   store[k] = Nobody /\ store'[k].status \in Statuses \ {"failed"}
<1>1. Inv /\ [Next]_vars => [A]_vars
  BY StepFits DEF Next, Fits
<1>. QED BY <1>1, Invariance, PTL DEF Spec, FirstAnswerWins

\* Every behaviour of the workflow is one of AnswerTask, as far as safety goes: a
\* request begins once, ends once, and what it ended with stays.
THEOREM ImplementsTask == Spec => Task!Safety
<1>1. ASSUME Init
      PROVE  Task!Init
  <2>1. \A q \in Requests : run[q].stage = "new"
    BY <1>1 DEF Init, NewRun
  <2>2. \A q \in Requests : Outcome(q) = "none"
    BY <2>1 DEF Outcome, Awaiting
  <2>. QED BY <2>2 DEF Task!Init
<1>2. Inv /\ [Next]_vars => [Task!Next]_Outcomes
  <2>1. UNCHANGED vars => UNCHANGED Outcomes
    BY DEF vars, Outcomes, Outcome
  <2>2. Inv /\ Next => [Task!Next]_Outcomes
    BY StepFits DEF Next, Fits, Task!Next
  <2>. QED BY <2>1, <2>2
<1>3. Inv /\ [Next]_vars => [Task!Next]_([q \in Requests |-> Outcome(q)])
  BY <1>2 DEF Outcomes
<1>. QED BY <1>1, <1>3, Invariance, PTL DEF Spec, Task!Safety

-----------------------------------------------------------------------------
(* Sets of numbers, and functions defined by recursion.                    *)

\* a set of numbers has a smallest one
LEMMA Smallest ==
  ASSUME NEW T \in SUBSET Nat, T # {}
  PROVE  \E n \in T : \A m \in T : n <= m
<1>. DEFINE U == {0..n : n \in T}
<1>0. ASSUME NEW n \in T PROVE 0..n \in FiniteSubsetsOf(Nat)
  <2>1. IsFiniteSet(0..n) /\ 0..n \in SUBSET Nat
    BY FS_Interval
  <2>. QED BY <2>1 DEF FiniteSubsetsOf
<1>1. U \subseteq FiniteSubsetsOf(Nat) /\ U # {}
  BY <1>0
<1>2. PICK I \in U : \A J \in U : ~ (<<J, I>> \in StrictSubsetOrdering(Nat))
  BY <1>1, FS_StrictSubsetOrderingWellFounded, WFMin
<1>3. \A J \in U : J \subseteq I => J = I
  BY <1>1, <1>2 DEF StrictSubsetOrdering, FiniteSubsetsOf
<1>4. PICK n \in T : I = 0..n
  BY <1>2
<1>5. ASSUME NEW m \in T PROVE n <= m
  <2>1. m \in Nat /\ n \in Nat /\ 0..m \in U
    OBVIOUS
  <2>2. m < n => 0..m \subseteq I /\ n \in I /\ n \notin 0..m
    BY <1>4, <2>1
  <2>3. m < n => 0..m = I
    BY <1>3, <2>1, <2>2
  <2>. QED BY <2>1, <2>2, <2>3
<1>. QED BY <1>5

\* a function is defined by its first value and by what follows a value
Follows(f, X, n, base, step) ==
  /\ f \in [0..n -> X] /\ f[0] = base
  /\ \A i \in 1..n : f[i] = step[i][f[i - 1]]

\* Such a function exists: induction over a natural number, by its least exception.
LEMMA Recursion ==
  ASSUME NEW X, NEW base \in X, NEW n \in Nat, NEW step \in [1..n -> [X -> X]]
  PROVE  \E f : Follows(f, X, n, base, step)
<1>. DEFINE Goes(m, f) == f[0] = base /\ \A i \in 1..m : f[i] = step[i][f[i - 1]]
            T == {m \in 0..n : ~ \E f \in [0..m -> X] : Goes(m, f)}
<1>1. SUFFICES ASSUME T # {} PROVE FALSE
  <2>1. n \in 0..n
    OBVIOUS
  <2>2. \E f \in [0..n -> X] : Goes(n, f)
    BY <2>1
  <2>. QED BY <2>2 DEF Follows
<1>2. PICK m \in T : \A k \in T : m <= k
  <2>1. T \in SUBSET Nat
    OBVIOUS
  <2>. HIDE DEF T
  <2>. QED BY <1>1, <2>1, Smallest
<1>3. CASE m = 0
  <2>1. [i \in 0..0 |-> base] \in [0..0 -> X] /\ Goes(0, [i \in 0..0 |-> base])
    OBVIOUS
  <2>. QED BY <1>2, <1>3, <2>1
<1>4. CASE m # 0
  <2>1. m - 1 \in 0..n /\ m - 1 \notin T /\ m \in 1..n
    BY <1>2, <1>4
  <2>2. PICK g \in [0..(m - 1) -> X] : Goes(m - 1, g)
    BY <2>1
  <2>3. step[m][g[m - 1]] \in X
    BY <2>1, <2>2
  <2>4. PICK f : f = [i \in 0..m |-> IF i = m THEN step[m][g[m - 1]] ELSE g[i]]
    OBVIOUS
  <2>5. f \in [0..m -> X]
    BY <2>1, <2>2, <2>3, <2>4
  <2>6. Goes(m, f)
    <3>1. f[0] = base
      BY <2>1, <2>2, <2>4
    <3>2. ASSUME NEW i \in 1..m PROVE f[i] = step[i][f[i - 1]]
      <4>1. i - 1 \in 0..m /\ i - 1 # m /\ f[i - 1] = g[i - 1]
        BY <2>1, <2>4
      <4>2. i # m => i \in 1..(m - 1) /\ f[i] = g[i]
        BY <2>1, <2>4
      <4>3. i = m => f[i] = step[m][g[m - 1]]
        BY <2>1, <2>4
      <4>. QED BY <2>2, <4>1, <4>2, <4>3
    <3>. QED BY <3>1, <3>2
  <2>. QED BY <1>2, <2>5, <2>6
<1>. QED BY <1>3, <1>4

-----------------------------------------------------------------------------
(* Embeddings: batches, their retries and the places of their texts.       *)

\* A product grows with its factor.
LEMMA Products ==
  ASSUME NEW a \in Int, NEW b \in Int, a <= b, NEW c \in Nat
  PROVE  a * c <= b * c
<1>1. (b - a) * c >= 0 /\ (b - a) * c = b * c - a * c
  OBVIOUS
<1>. QED BY <1>1

\* a number of whole batches is a quotient
LEMMA WholeBatches ==
  ASSUME NEW k \in Nat, NEW d \in Nat, NEW size \in Nat \ {0}, d * size <= k
  PROVE  k \div size \in Nat /\ d <= k \div size
<1>1. PICK q : q = k \div size
  OBVIOUS
<1>2. q \in Int /\ k = q * size + (k % size) /\ k % size \in 0..(size - 1)
  BY <1>1
<1>3. q + 1 <= d => (q + 1) * size <= d * size
  BY <1>2, Products
<1>4. q + 1 <= 0 => (q + 1) * size <= 0 * size
  BY <1>2, Products
<1>5. PICK m \in Int : m = q * size /\ (q + 1) * size = m + size /\ 0 * size = 0
  BY <1>2
<1>6. k = m + (k % size) /\ k % size < size
  BY <1>2, <1>5
<1>7. PICK p \in Int : p = d * size
  OBVIOUS
<1>8. ~ (q + 1 <= 0) /\ ~ (q + 1 <= d)
  <2>1. k < m + size /\ p <= k
    BY <1>2, <1>6, <1>7
  <2>. QED BY <1>2, <1>3, <1>4, <1>5, <1>7, <2>1
<1>9. q \in Int
  BY <1>2
<1>10. q \in Nat /\ d <= q
  BY <1>8, <1>9
<1>. QED BY <1>1, <1>10


\* what is sent on are texts the caller gave
LEMMA SentIsGiven ==
  ASSUME texts \in Inputs
  PROVE  Batches!Sent \in Seq(ToSet(texts))
<1>. DEFINE S == ToSet(texts)
            step == [i \in 1..Len(texts) |->
                       [s \in Seq(S) |-> IF texts[i] = blank THEN s ELSE Append(s, texts[i])]]
            Sends(f) == f = [i \in 0..Len(texts) |->
                               IF i = 0 THEN <<>>
                               ELSE IF texts[i] = blank THEN f[i - 1] ELSE Append(f[i - 1], texts[i])]
<1>1. texts \in Seq(S) /\ Len(texts) \in Nat
  BY CallsAssumption, LenProperties
<1>2. step \in [1..Len(texts) -> [Seq(S) -> Seq(S)]]
  <2>. SUFFICES ASSUME NEW i \in 1..Len(texts), NEW s \in Seq(S)
                PROVE  (IF texts[i] = blank THEN s ELSE Append(s, texts[i])) \in Seq(S)
    OBVIOUS
  <2>1. texts[i] \in S
    BY <1>1, ElementOfSeq
  <2>. QED BY <2>1, AppendProperties
<1>3. PICK f \in [0..Len(texts) -> Seq(S)] :
         f[0] = <<>> /\ \A i \in 1..Len(texts) : f[i] = step[i][f[i - 1]]
  <2>1. <<>> \in Seq(S)
    OBVIOUS
  <2>2. PICK X, n, base, go : X = Seq(S) /\ n = Len(texts) /\ base = <<>> /\ go = step
    OBVIOUS
  <2>3. base \in X /\ n \in Nat /\ go \in [1..n -> [X -> X]]
    BY <1>1, <1>2, <2>1, <2>2
  <2>4. \E f : Follows(f, X, n, base, go)
    BY <2>3, Recursion
  <2>. HIDE DEF S, step
  <2>. QED BY <2>2, <2>4 DEF Follows
<1>4. Sends(f)
  <2>. SUFFICES ASSUME NEW i \in 0..Len(texts)
                PROVE  f[i] = IF i = 0 THEN <<>>
                              ELSE IF texts[i] = blank THEN f[i - 1] ELSE Append(f[i - 1], texts[i])
    OBVIOUS
  <2>1. i # 0 => i \in 1..Len(texts) /\ i - 1 \in 0..Len(texts)
    BY <1>1
  <2>2. i # 0 => f[i - 1] \in Seq(S)
    BY <1>3, <2>1
  <2>3. i # 0 => f[i] = step[i][f[i - 1]]
    BY <1>3, <2>1
  <2>. QED BY <1>3, <2>1, <2>2, <2>3
<1>5. PICK g : g = (CHOOSE h : Sends(h))
  OBVIOUS
<1>6. Sends(g)
  BY <1>4, <1>5
<1>7. Batches!Sent = g[Len(texts)]
  BY <1>5 DEF Batches!Sent
<1>8. g = f
  <2>. DEFINE T == {i \in 0..Len(texts) : g[i] # f[i]}
  <2>1. T = {}
    <3>. SUFFICES ASSUME T # {} PROVE FALSE
      OBVIOUS
    <3>1. PICK i \in T : \A j \in T : i <= j
      <4>1. T \in SUBSET Nat
        BY <1>1
      <4>. HIDE DEF T
      <4>. QED BY <4>1, Smallest
    <3>2. i # 0
      BY <1>1, <1>4, <1>6, <3>1
    <3>3. i - 1 \in 0..Len(texts) /\ g[i - 1] = f[i - 1]
      BY <1>1, <3>1, <3>2
    <3>4. PICK n, e, h : n = i - 1 /\ e = g[n] /\ h = IF texts[i] = blank THEN e ELSE Append(e, texts[i])
      OBVIOUS
    <3>5. i \in 0..Len(texts)
      OBVIOUS
    <3>6. g[i] = h
      BY <1>6, <3>2, <3>4, <3>5
    <3>7. f[i] = h
      BY <1>4, <3>2, <3>3, <3>4, <3>5
    <3>. QED BY <3>1, <3>6, <3>7
  <2>2. \A i \in 0..Len(texts) : g[i] = f[i]
    BY <2>1
  <2>. HIDE DEF T
  <2>. QED BY <1>4, <1>6, <2>2
<1>. QED BY <1>1, <1>3, <1>7, <1>8

\* A set of numbers up to n has a largest one.
LEMMA Largest ==
  ASSUME NEW n \in Nat, NEW T \in SUBSET (1..n), T # {}
  PROVE  \E i \in T : \A j \in T : j <= i
<1>. DEFINE U == {n - i : i \in T}
<1>1. U \in SUBSET Nat /\ U # {}
  <2>1. \A i \in T : i \in 1..n
    OBVIOUS
  <2>2. \A i \in T : n - i \in Nat
    BY <2>1
  <2>. QED BY <2>2
<1>2. PICK u \in U : \A v \in U : u <= v
  <2>. HIDE DEF U
  <2>. QED BY <1>1, Smallest
<1>3. PICK i \in T : u = n - i
  BY <1>2
<1>4. ASSUME NEW j \in T PROVE j <= i
  <2>1. n - j \in U
    OBVIOUS
  <2>2. u <= n - j /\ i \in 1..n /\ j \in 1..n
    BY <1>2, <1>3, <2>1
  <2>. QED BY <1>3, <2>2
<1>. QED BY <1>4

\* The inductive invariant of a call for embeddings.  The vectors are as many as the
\* whole batches done and perhaps a last one, and a batch takes its attempts.
BatchesCorrect ==
  /\ texts \in Inputs
  /\ embedding \in {"new", "post", "returned"} \union Batches!Errors
  /\ vectors \in Seq(ToSet(texts)) /\ Len(vectors) <= Len(Batches!Sent)
  /\ attempt \in 0..EmbeddingRetries /\ posts \in Nat /\ honest \in BOOLEAN
  /\ embedding = "new" => vectors = <<>> /\ attempt = 0 /\ posts = 0
  /\ embedding = "post" => Len(vectors) < Len(Batches!Sent)
  /\ embedding = "returned" => Len(vectors) = Len(Batches!Sent)
  /\ honest => \A i \in 1..Len(vectors) : vectors[i] = Batches!Sent[i]
  /\ \E done \in Nat :
       /\ done * BatchSize <= Len(vectors)
       /\ posts <= (1 + done) * (EmbeddingRetries + 1)
       /\ embedding = "post" => posts <= done * (EmbeddingRetries + 1) + attempt

\* the texts of a batch are the next ones
LEMMA BatchIsNext ==
  ASSUME BatchesCorrect, embedding = "post"
  PROVE  /\ Len(Batches!Batch) \in 1..BatchSize
         /\ Batches!Batch \in [1..Len(Batches!Batch) -> ToSet(texts)]
         /\ Len(vectors) + Len(Batches!Batch) <= Len(Batches!Sent)
         /\ \A i \in 1..Len(Batches!Batch) : Batches!Batch[i] = Batches!Sent[Len(vectors) + i]
         /\ \/ Len(Batches!Batch) = BatchSize
            \/ Len(vectors) + Len(Batches!Batch) = Len(Batches!Sent)
<1>1. PICK W, S, k : W = ToSet(texts) /\ S = Batches!Sent /\ k = Len(vectors)
  OBVIOUS
<1>2. S \in Seq(W) /\ k \in Nat /\ Len(S) \in Nat /\ k < Len(S)
  BY <1>1, SentIsGiven, LenProperties DEF BatchesCorrect
<1>3. BatchSize \in Nat \ {0}
  BY CallsAssumption
<1>4. PICK m \in (k + 1)..Len(S) :
        /\ m = IF k + BatchSize < Len(S) THEN k + BatchSize ELSE Len(S)
  BY <1>2, <1>3
<1>5. Batches!Batch = SubSeq(S, k + 1, m)
  BY <1>1, <1>4 DEF Batches!Batch
<1>6. /\ SubSeq(S, k + 1, m) \in Seq(W)
      /\ Len(SubSeq(S, k + 1, m)) = m - k
      /\ \A i \in 1..(m - k) : SubSeq(S, k + 1, m)[i] = S[k + i]
  <2>1. k + 1 \in 1..(Len(S) + 1) /\ m \in k..Len(S)
    BY <1>2, <1>4
  <2>. QED BY <1>2, <2>1, <1>4, SubSeqProperties
<1>7. SubSeq(S, k + 1, m) \in [1..(m - k) -> W]
  BY <1>6, LenProperties
<1>. QED BY <1>1, <1>2, <1>3, <1>4, <1>5, <1>6, <1>7

\* every place of an accepted answer has the text of a row
RowsOf(order, index, n, batch) ==
  [i \in 1..n |-> [index |-> index[i], text |-> batch[order[i]]]]

\* the texts of an answer, each in the place its index names
PlacedOf(order, index, n, batch) == Batches!Placed(RowsOf(order, index, n, batch), n)

\* they are texts of the batch, and the batch itself when every index is right
KeepsPlaces(order, index, n, batch, W) ==
  /\ PlacedOf(order, index, n, batch) \in [1..n -> W]
  /\ (\A i \in 1..n : index[i] = order[i] - 1) => PlacedOf(order, index, n, batch) = batch

\* An answer that fills every place has texts of the batch, in order when its indices are.
LEMMA PlacedIsGiven ==
  ASSUME NEW n \in Nat, NEW W, NEW order \in [1..n -> 1..n],
         NEW index \in [1..n -> (-n)..n], NEW batch \in [1..n -> W],
         missing \notin ToSet(PlacedOf(order, index, n, batch))
  PROVE  KeepsPlaces(order, index, n, batch, W)
<1>0. PICK rows : rows = RowsOf(order, index, n, batch)
  OBVIOUS
<1>1. PICK placed : placed = Batches!Placed(rows, n)
  OBVIOUS
<1>2. PICK claims : claims = [place \in 1..n |-> {i \in 1..n : rows[i].index \in {place - 1, place - 1 - n}}]
  OBVIOUS
<1>3. /\ placed = [place \in 1..n |-> placed[place]]
      /\ \A place \in 1..n :
           placed[place] = IF claims[place] = {} THEN missing
                           ELSE rows[CHOOSE i \in claims[place] : \A j \in claims[place] : j <= i].text
  BY <1>1, <1>2 DEF Batches!Placed
<1>4. \A place \in 1..n : claims[place] # {}
  <2>1. \A place \in 1..n : placed[place] # missing
    BY <1>0, <1>1, <1>3 DEF ToSet, PlacedOf
  <2>. QED BY <1>3, <2>1
<1>5. \A place \in 1..n : \E i \in claims[place] : placed[place] = rows[i].text
  <2>. SUFFICES ASSUME NEW place \in 1..n
                PROVE  \E i \in claims[place] : placed[place] = rows[i].text
    OBVIOUS
  <2>1. PICK T : T = claims[place]
    OBVIOUS
  <2>2. T \in SUBSET (1..n) /\ T # {}
    BY <1>2, <1>4, <2>1
  <2>3. \E i \in T : \A j \in T : j <= i
    BY <2>2, Largest
  <2>4. (CHOOSE i \in T : \A j \in T : j <= i) \in T
    BY <2>3
  <2>5. placed[place] = rows[CHOOSE i \in T : \A j \in T : j <= i].text
    BY <1>3, <1>4, <2>1
  <2>. QED BY <2>1, <2>4, <2>5
<1>6. \A i \in 1..n : rows[i].text = batch[order[i]] /\ rows[i].index = index[i]
  BY <1>0 DEF RowsOf
<1>7. \A place \in 1..n : placed[place] \in W
  <2>. SUFFICES ASSUME NEW place \in 1..n PROVE placed[place] \in W
    OBVIOUS
  <2>1. PICK i \in claims[place] : placed[place] = rows[i].text
    BY <1>5
  <2>2. i \in 1..n
    BY <1>2
  <2>3. order[i] \in 1..n
    BY <2>2
  <2>4. batch[order[i]] \in W
    BY <2>3
  <2>. QED BY <1>6, <2>1, <2>2, <2>4
<1>8. placed \in [1..n -> W]
  BY <1>3, <1>7
<1>9. ASSUME \A i \in 1..n : index[i] = order[i] - 1
      PROVE  placed = batch
  <2>1. ASSUME NEW place \in 1..n PROVE placed[place] = batch[place]
    <3>1. PICK i \in claims[place] : placed[place] = rows[i].text
      BY <1>5
    <3>2. i \in 1..n /\ rows[i].index \in {place - 1, place - 1 - n}
      BY <1>2
    <3>3. order[i] \in 1..n /\ order[i] - 1 \in {place - 1, place - 1 - n}
      BY <1>6, <1>9, <3>2
    <3>4. PICK o \in 1..n : o = order[i] /\ o - 1 \in {place - 1, place - 1 - n}
      BY <3>3
    <3>5. o - 1 = place - 1 \/ o - 1 = place - 1 - n
      BY <3>4
    <3>6. o = place
      BY ONLY <3>5, n \in Nat, o \in 1..n, place \in 1..n
    <3>. QED BY <1>6, <3>1, <3>2, <3>4, <3>6
  <2>. QED BY <1>3, <2>1
<1>. QED BY <1>0, <1>1, <1>8, <1>9 DEF PlacedOf, KeepsPlaces

\* what holds of a batch that is still to be done
Pending(done) ==
  /\ done * BatchSize <= Len(vectors)
  /\ posts <= done * (EmbeddingRetries + 1) + attempt

\* another post stays within the attempts of the batch
LEMMA PostIsWithin ==
  ASSUME BatchesCorrect, embedding = "post", posts' = posts + 1
  PROVE  \E done \in Nat :
           /\ done * BatchSize <= Len(vectors)
           /\ (done + 1) * BatchSize = done * BatchSize + BatchSize
           /\ posts' <= (1 + done) * (EmbeddingRetries + 1)
           /\ posts' <= done * (EmbeddingRetries + 1) + attempt + 1
<1>1. PICK done \in Nat : Pending(done)
  BY DEF BatchesCorrect, Pending
<1>2. /\ EmbeddingRetries \in Nat /\ BatchSize \in Nat
      /\ attempt \in 0..EmbeddingRetries /\ posts \in Nat
  BY CallsAssumption DEF BatchesCorrect
<1>3. PICK p \in Int : p = done * (EmbeddingRetries + 1)
  BY <1>2
<1>4. (1 + done) * (EmbeddingRetries + 1) = p + EmbeddingRetries + 1
  BY <1>2, <1>3
<1>5. (done + 1) * BatchSize = done * BatchSize + BatchSize
  BY <1>2
<1>6. posts' <= p + attempt + 1
  BY <1>1, <1>2, <1>3 DEF Pending
<1>7. posts' <= p + EmbeddingRetries + 1
  BY <1>2, <1>6
<1>. QED BY <1>1, <1>3, <1>4, <1>5, <1>6, <1>7 DEF Pending

\* a call that ends leaves everything as it is
LEMMA EndKeepsBatches ==
  ASSUME BatchesCorrect, embedding \in {"new", "post"}, NEW error \in Batches!Errors, Batches!End(error),
         posts' = posts \/ (embedding = "post" /\ posts' = posts + 1)
  PROVE  BatchesCorrect'
<1>1. /\ embedding' = error /\ texts' = texts /\ vectors' = vectors
      /\ attempt' = attempt /\ honest' = honest
  BY DEF Batches!End
<1>2. Batches!Sent' = Batches!Sent
  BY <1>1 DEF Batches!Sent
<1>3. \E done \in Nat : /\ done * BatchSize <= Len(vectors)
                        /\ posts' <= (1 + done) * (EmbeddingRetries + 1)
  BY PostIsWithin DEF BatchesCorrect
<1>4. posts' \in Nat
  BY DEF BatchesCorrect
<1>5. error \notin {"new", "post", "returned"}
  BY DEF Batches!Errors
<1>. QED BY <1>1, <1>2, <1>3, <1>4, <1>5 DEF BatchesCorrect

\* the provider answered with the texts of a batch in an order, under some indices
AnsweredWith(order, index, n, batch) ==
  LET placed == PlacedOf(order, index, n, batch)
  IN  IF \E i \in 1..n : index[i] = n
      THEN Batches!End("IndexError")
      ELSE IF missing \in Batches!ToSet(placed)
      THEN Batches!End("RESPONSE_INVALID")
      ELSE /\ vectors' = vectors \o placed
           /\ embedding' = IF Len(vectors') = Len(Batches!Sent) THEN "returned" ELSE "post"
           /\ attempt' = 0
           /\ honest' = (honest /\ \A i \in 1..n : index[i] = order[i] - 1)
           /\ UNCHANGED texts

\* An answer that is taken adds its batch, in order when the provider is honest.
LEMMA AnswerKeepsBatches ==
  ASSUME BatchesCorrect, Batches!Answer
  PROVE  BatchesCorrect'
<1>1. embedding = "post" /\ posts' = posts + 1 /\ posts' \in Nat
  BY DEF Batches!Answer, BatchesCorrect
<1>2. PICK n, batch : n = Len(Batches!Batch) /\ batch = Batches!Batch
  OBVIOUS
<1>3. PICK W, S, k : W = ToSet(texts) /\ S = Batches!Sent /\ k = Len(vectors)
  OBVIOUS
<1>4. /\ n \in 1..BatchSize /\ batch \in [1..n -> W] /\ k + n <= Len(S)
      /\ \A i \in 1..n : batch[i] = S[k + i]
      /\ n = BatchSize \/ k + n = Len(S)
  BY <1>1, <1>2, <1>3, BatchIsNext
<1>5. /\ S \in Seq(W) /\ k \in Nat /\ Len(S) \in Nat /\ vectors \in Seq(W)
      /\ n \in Nat /\ BatchSize \in Nat \ {0}
  BY <1>3, <1>4, SentIsGiven, LenProperties, CallsAssumption DEF BatchesCorrect
<1>6. PICK order \in Batches!SetToSeqs(1..n) : \E index \in [1..n -> (-n)..n] :
        AnsweredWith(order, index, n, batch)
  <2>1. \E order \in Batches!SetToSeqs(1..Len(Batches!Batch)) :
        \E index \in [1..Len(Batches!Batch) -> (-Len(Batches!Batch))..Len(Batches!Batch)] :
          AnsweredWith(order, index, Len(Batches!Batch), Batches!Batch)
    BY DEF Batches!Answer, AnsweredWith, RowsOf, PlacedOf
  <2>. QED BY <1>2, <2>1
<1>7. order \in [1..n -> 1..n]
  <2>1. Batches!Cardinality(1..n) = Cardinality(1..n)
    BY DEF Batches!Cardinality, Cardinality
  <2>2. Cardinality(1..n) = n
    BY <1>5, FS_Interval
  <2>. QED BY <2>1, <2>2 DEF Batches!SetToSeqs
<1>8. PICK index \in [1..n -> (-n)..n] : AnsweredWith(order, index, n, batch)
  BY <1>6
<1>9. PICK placed :
        /\ placed = PlacedOf(order, index, n, batch)
        /\ \/ Batches!End("IndexError") \/ Batches!End("RESPONSE_INVALID")
           \/ /\ missing \notin ToSet(placed)
              /\ vectors' = vectors \o placed
              /\ embedding' = IF Len(vectors') = Len(Batches!Sent) THEN "returned" ELSE "post"
              /\ attempt' = 0
              /\ honest' = (honest /\ \A i \in 1..n : index[i] = order[i] - 1)
              /\ texts' = texts
  BY <1>8 DEF AnsweredWith, Batches!ToSet, ToSet
<1>10. CASE Batches!End("IndexError") \/ Batches!End("RESPONSE_INVALID")
  BY <1>1, <1>10, EndKeepsBatches DEF Batches!Errors
<1>11. CASE /\ missing \notin ToSet(placed)
            /\ vectors' = vectors \o placed
            /\ embedding' = IF Len(vectors') = Len(Batches!Sent) THEN "returned" ELSE "post"
            /\ attempt' = 0
            /\ honest' = (honest /\ \A i \in 1..n : index[i] = order[i] - 1)
            /\ texts' = texts
  <2>1. /\ placed \in [1..n -> W]
        /\ (\A i \in 1..n : index[i] = order[i] - 1) => placed = batch
    <3>1. /\ n \in Nat /\ order \in [1..n -> 1..n] /\ index \in [1..n -> (-n)..n]
          /\ batch \in [1..n -> W]
          /\ missing \notin ToSet(PlacedOf(order, index, n, batch))
      BY <1>4, <1>5, <1>7, <1>8, <1>9, <1>11
    <3>2. KeepsPlaces(order, index, n, batch, W)
      BY <3>1, PlacedIsGiven
    <3>. QED BY <1>9, <3>2 DEF KeepsPlaces
  <2>2. placed \in Seq(W) /\ Len(placed) = n
    BY <1>5, <2>1
  <2>3. /\ vectors' \in Seq(W) /\ Len(vectors') = k + n
        /\ \A i \in 1..(k + n) : vectors'[i] = IF i <= k THEN vectors[i] ELSE placed[i - k]
    <3>1. vectors' = vectors \o placed
      BY <1>11
    <3>2. /\ vectors \o placed \in Seq(W) /\ Len(vectors \o placed) = k + n
          /\ \A i \in 1..(k + n) :
               (vectors \o placed)[i] = IF i <= k THEN vectors[i] ELSE placed[i - k]
      <4>1. vectors \in Seq(W) /\ Len(vectors) = k
        BY <1>3, <1>5
      <4>2. /\ vectors \o placed \in Seq(W)
            /\ Len(vectors \o placed) = Len(vectors) + Len(placed)
            /\ \A i \in 1..(Len(vectors) + Len(placed)) :
                 (vectors \o placed)[i] = IF i <= Len(vectors) THEN vectors[i]
                                                              ELSE placed[i - Len(vectors)]
        BY <2>2, <4>1, ConcatProperties
      <4>. QED BY <2>2, <4>1, <4>2
    <3>. QED BY <3>1, <3>2
  <2>4. Batches!Sent' = S /\ ToSet(texts)' = W
    BY <1>3, <1>11 DEF Batches!Sent, ToSet
  <2>5. embedding' = IF k + n = Len(S) THEN "returned" ELSE "post"
    BY <1>3, <1>11, <2>3
  <2>6. ASSUME honest', NEW i \in 1..(k + n) PROVE vectors'[i] = S[i]
    <3>1. honest /\ placed = batch
      BY <1>11, <2>1, <2>6
    <3>2. CASE i <= k
      <4>1. i \in 1..k
        BY <1>5, <3>2
      <4>. QED BY <1>3, <2>3, <3>1, <3>2, <4>1 DEF BatchesCorrect
    <3>3. CASE ~ (i <= k)
      <4>1. i - k \in 1..n /\ k + (i - k) = i
        BY <1>5, <3>3
      <4>. QED BY <1>4, <2>3, <3>1, <3>3, <4>1
    <3>. QED BY <3>2, <3>3
  <2>7. \E done \in Nat :
          /\ done * BatchSize <= k + n
          /\ posts' <= (1 + done) * (EmbeddingRetries + 1)
          /\ embedding' = "post" => posts' <= done * (EmbeddingRetries + 1) + 0
    <3>1. PICK done \in Nat :
            /\ done * BatchSize <= k
            /\ (done + 1) * BatchSize = done * BatchSize + BatchSize
            /\ posts' <= (1 + done) * (EmbeddingRetries + 1)
      BY <1>1, <1>3, PostIsWithin
    <3>2. PICK p \in Int : p = done * BatchSize
      BY <1>5
    <3>3. p <= k + n /\ (n = BatchSize => p + BatchSize <= k + n)
      BY <1>4, <1>5, <3>1, <3>2
    <3>4. CASE embedding' = "post"
      <4>1. n = BatchSize
        BY <1>4, <2>5, <3>4
      <4>2. (done + 1) * BatchSize <= k + n
        BY <3>1, <3>2, <3>3, <4>1
      <4>3. PICK next \in Nat : next = done + 1 /\ next = 1 + done
        OBVIOUS
      <4>4. /\ next * BatchSize <= k + n
            /\ posts' <= next * (EmbeddingRetries + 1)
        BY <3>1, <4>2, <4>3
      <4>5. EmbeddingRetries \in Nat /\ posts' \in Nat
        BY <1>1, CallsAssumption
      <4>6. PICK q \in Nat : q = next * (EmbeddingRetries + 1) /\ (1 + next) * (EmbeddingRetries + 1) = q + EmbeddingRetries + 1
        BY <4>5
      <4>7. posts' <= q + EmbeddingRetries + 1 /\ posts' <= q + 0
        BY <4>4, <4>5, <4>6
      <4>. QED BY <4>4, <4>6, <4>7
    <3>5. CASE embedding' # "post"
      BY <3>1, <3>2, <3>3, <3>5
    <3>. QED BY <3>4, <3>5
  <2>8. honest' \in BOOLEAN /\ attempt' \in 0..EmbeddingRetries
    BY <1>11, CallsAssumption DEF BatchesCorrect
  <2>9. texts' \in Inputs
    BY <1>11 DEF BatchesCorrect
  <2>10. k + n <= Len(S) /\ (k + n # Len(S) => k + n < Len(S))
    BY <1>4, <1>5
  <2>. QED BY <1>1, <1>11, <2>3, <2>4, <2>5, <2>6, <2>7, <2>8, <2>9, <2>10 DEF BatchesCorrect
<1>. QED BY <1>9, <1>10, <1>11

\* Every step of a call for embeddings keeps the invariant.
LEMMA BatchesKept ==
  ASSUME BatchesCorrect, Batches!Next
  PROVE  BatchesCorrect'
<1>1. CASE Batches!EmbedDocuments
  <2>1. CASE Batches!Sent = <<>>
    BY <1>1, <2>1, EndKeepsBatches DEF Batches!EmbedDocuments, Batches!Errors
  <2>2. CASE Batches!Sent # <<>>
    <3>1. /\ embedding = "new" /\ embedding' = "post" /\ texts' = texts /\ vectors' = vectors
          /\ attempt' = attempt /\ honest' = honest /\ posts' = posts
      BY <1>1, <2>2 DEF Batches!EmbedDocuments
    <3>2. Batches!Sent' = Batches!Sent
      BY <3>1 DEF Batches!Sent
    <3>3. Batches!Sent \in Seq(ToSet(texts)) /\ vectors = <<>> /\ attempt = 0 /\ posts = 0
      BY <3>1, SentIsGiven DEF BatchesCorrect
    <3>4. Len(vectors) = 0 /\ Len(Batches!Sent) \in Nat /\ Len(Batches!Sent) # 0
      BY <2>2, <3>3, EmptySeq, LenProperties
    <3>5. 0 * BatchSize <= 0 /\ 0 <= (1 + 0) * (EmbeddingRetries + 1) /\ 0 <= 0 * (EmbeddingRetries + 1) + 0
      BY CallsAssumption
    <3>6. \E done \in Nat :
       /\ done * BatchSize <= Len(vectors)
       /\ posts <= (1 + done) * (EmbeddingRetries + 1)
       /\ posts <= done * (EmbeddingRetries + 1) + attempt
      BY <3>3, <3>4, <3>5
    <3>7. Len(vectors) < Len(Batches!Sent)
      BY <3>4
    <3>. QED BY <3>1, <3>2, <3>3, <3>6, <3>7 DEF BatchesCorrect
  <2>. QED BY <2>1, <2>2
<1>2. CASE Batches!PostFails
  <2>1. embedding = "post" /\ posts' = posts + 1
    BY <1>2 DEF Batches!PostFails
  <2>2. PICK error \in {"TIMEOUT", "UNAVAILABLE", "AUTH_FAILED", "RESPONSE_INVALID"} :
          IF Batches!Retries(error)
          THEN attempt' = attempt + 1 /\ UNCHANGED <<texts, embedding, vectors, honest>>
          ELSE Batches!End(error)
    BY <1>2 DEF Batches!PostFails
  <2>3. CASE Batches!Retries(error)
    <3>1. /\ attempt < EmbeddingRetries /\ attempt' = attempt + 1 /\ embedding' = embedding
          /\ texts' = texts /\ vectors' = vectors /\ honest' = honest
      BY <2>2, <2>3 DEF Batches!Retries
    <3>2. Batches!Sent' = Batches!Sent
      BY <3>1 DEF Batches!Sent
    <3>3. PICK done \in Nat :
           /\ done * BatchSize <= Len(vectors)
           /\ posts' <= (1 + done) * (EmbeddingRetries + 1)
           /\ posts' <= done * (EmbeddingRetries + 1) + attempt + 1
      BY <2>1, PostIsWithin
    <3>4. attempt' \in 0..EmbeddingRetries /\ posts' \in Nat
      BY <2>1, <3>1, CallsAssumption DEF BatchesCorrect
    <3>5. posts' <= done * (EmbeddingRetries + 1) + attempt'
      <4>1. PICK p \in Int : p = done * (EmbeddingRetries + 1)
        BY CallsAssumption
      <4>2. attempt \in Nat
        BY DEF BatchesCorrect
      <4>. QED BY <3>1, <3>3, <4>1, <4>2
    <3>. QED BY <2>1, <3>1, <3>2, <3>3, <3>4, <3>5 DEF BatchesCorrect
  <2>4. CASE ~ Batches!Retries(error)
    BY <2>1, <2>2, <2>4, EndKeepsBatches DEF Batches!Errors
  <2>. QED BY <2>3, <2>4
<1>3. CASE Batches!Answer
  BY <1>3, AnswerKeepsBatches
<1>4. CASE Batches!BadAnswer
  BY <1>4, EndKeepsBatches DEF Batches!BadAnswer, Batches!Errors
<1>. QED BY <1>1, <1>2, <1>3, <1>4 DEF Batches!Next

\* The invariant says what the runs check.
LEMMA BatchesInPlace ==
  ASSUME BatchesCorrect
  PROVE  Batches!VectorsFitTexts /\ Batches!PostsBounded
<1>1. PICK S, k : S = Batches!Sent /\ k = Len(vectors)
  OBVIOUS
<1>2. /\ S \in Seq(ToSet(texts)) /\ k \in Nat /\ vectors \in Seq(ToSet(texts))
      /\ k <= Len(S) /\ Len(S) \in Nat
  BY <1>1, SentIsGiven, LenProperties DEF BatchesCorrect
<1>3. ASSUME honest PROVE vectors = SubSeq(S, 1, k)
  <2>1. /\ SubSeq(S, 1, k) \in Seq(ToSet(texts)) /\ Len(SubSeq(S, 1, k)) = k
        /\ \A i \in 1..k : SubSeq(S, 1, k)[i] = S[i]
    BY <1>2, SubSeqProperties
  <2>2. \A i \in 1..k : vectors[i] = S[i]
    BY <1>1, <1>3 DEF BatchesCorrect
  <2>. QED BY <1>1, <1>2, <2>1, <2>2, SeqEqual
<1>4. missing \notin Batches!ToSet(vectors)
  <2>1. missing \notin ToSet(texts)
    BY CallsAssumption DEF BatchesCorrect
  <2>. QED BY <1>2, <2>1 DEF Batches!ToSet
<1>5. posts <= (1 + k \div BatchSize) * (EmbeddingRetries + 1)
  <2>1. PICK done \in Nat : done * BatchSize <= k /\ posts <= (1 + done) * (EmbeddingRetries + 1)
    BY <1>1 DEF BatchesCorrect
  <2>2. BatchSize \in Nat \ {0} /\ EmbeddingRetries + 1 \in Nat /\ posts \in Nat
    BY CallsAssumption DEF BatchesCorrect
  <2>3. PICK q \in Nat : q = k \div BatchSize /\ done <= q
    BY <1>2, <2>1, <2>2, WholeBatches
  <2>4. PICK a, b, c : a = 1 + done /\ b = 1 + q /\ c = EmbeddingRetries + 1
    OBVIOUS
  <2>5. a \in Int /\ b \in Int /\ a <= b /\ c \in Nat
    BY <2>2, <2>3, <2>4
  <2>6. a * c <= b * c /\ a * c \in Int /\ b * c \in Int
    BY <2>5, Products
  <2>. QED BY <2>1, <2>2, <2>3, <2>4, <2>6
<1>. QED BY <1>1, <1>3, <1>4, <1>5 DEF Batches!VectorsFitTexts, Batches!PostsBounded, BatchesCorrect

-----------------------------------------------------------------------------
(* The adapter: attempts, and the lines of a stream.                       *)

\* The inductive invariant of a call of the adapter: as many failures as attempts
\* before the answer, all of them worth a retry.
AdapterCorrect ==
  /\ mode \in {"generate", "stream"}
  /\ tried \in 0..AdapterRetries
  /\ failures \in Seq(Adapter!PostErrors)
  /\ lines \in Seq({"text", "broken"}) /\ yielded \in Seq(Nat)
  /\ Adapter!GenerateGivesUp /\ Adapter!StreamInOrder
  /\ mode = "generate" /\ call = "post" =>
       Len(failures) = tried /\ \A i \in 1..Len(failures) : failures[i] = "server"

\* A post that fails is tried again within the attempts, or the call ends.
LEMMA PostFailsKeepsAdapter ==
  ASSUME AdapterCorrect, Adapter!PostFails
  PROVE  AdapterCorrect'
<1>1. /\ mode = "generate" /\ call = "post"
      /\ mode' = mode /\ lines' = lines /\ yielded' = yielded
  BY DEF Adapter!PostFails
<1>2. PICK error \in Adapter!PostErrors :
        /\ failures' = Append(failures, error)
        /\ IF Adapter!Retries(error) THEN tried' = tried + 1 /\ call' = call
           ELSE call' = "ProviderSDKError" /\ tried' = tried
  BY DEF Adapter!PostFails, Adapter!Wrapped
<1>3. PICK n \in Nat : n = Len(failures)
  BY LenProperties DEF AdapterCorrect
<1>4. /\ failures' \in Seq(Adapter!PostErrors) /\ Len(failures') = n + 1
      /\ \A i \in 1..n : failures'[i] = failures[i]
      /\ failures'[n + 1] = error
  BY <1>2, <1>3, AppendProperties DEF AdapterCorrect
<1>5. tried \in Nat /\ n = tried /\ tried <= AdapterRetries /\ AdapterRetries \in Nat
  BY <1>1, <1>3, CallsAssumption DEF AdapterCorrect
<1>6. \A i \in 1..n : failures'[i] = "server"
  BY <1>1, <1>3, <1>4 DEF AdapterCorrect
<1>7. Len(failures') <= AdapterRetries + 1
  BY <1>4, <1>5
<1>8. \A i \in 1..(Len(failures') - 1) : failures'[i] = "server"
  BY <1>4, <1>6
<1>9. Adapter!StreamInOrder'
  BY <1>1 DEF AdapterCorrect, Adapter!StreamInOrder
<1>10. CASE Adapter!Retries(error)
  <2>1. tried' = tried + 1 /\ call' = call /\ error = "server" /\ tried < AdapterRetries
    BY <1>2, <1>10 DEF Adapter!Retries
  <2>2. \A i \in 1..(n + 1) : failures'[i] = "server"
    BY <1>4, <1>6, <2>1
  <2>3. Adapter!GenerateGivesUp'
    BY <1>1, <1>7, <1>8, <2>1 DEF Adapter!GenerateGivesUp
  <2>4. tried' \in 0..AdapterRetries /\ Len(failures') = tried'
    BY <1>4, <1>5, <2>1
  <2>. QED BY <1>1, <1>4, <1>9, <2>1, <2>2, <2>3, <2>4 DEF AdapterCorrect
<1>11. CASE ~ Adapter!Retries(error)
  <2>1. tried' = tried /\ call' = "ProviderSDKError"
    BY <1>2, <1>11
  <2>2. Adapter!GenerateGivesUp'
    BY <1>1, <1>7, <1>8, <2>1 DEF Adapter!GenerateGivesUp
  <2>. QED BY <1>1, <1>4, <1>9, <2>1, <2>2 DEF AdapterCorrect
<1>. QED BY <1>10, <1>11

\* the numbers in ys are those of the lines of text in ls
TextLines(ls, n, ys, m) ==
  /\ \A i \in 1..m : ys[i] \in 1..n /\ ls[ys[i]] = "text"
  /\ \A i \in 1..n : ls[i] = "text" => \E j \in 1..m : ys[j] = i

\* what was yielded are the places of the readable lines
Yields(ls, ys) == {ys[i] : i \in DOMAIN ys} = {i \in DOMAIN ls : ls[i] = "text"}

\* A readable line is yielded once it is read, a broken one never.
LEMMA TextLinesAreYielded ==
  ASSUME NEW n, NEW m, NEW ls, NEW ys, DOMAIN ls = 1..n, DOMAIN ys = 1..m
  PROVE  TextLines(ls, n, ys, m) <=> Yields(ls, ys)
<1>1. PICK A, B : A = {ys[i] : i \in DOMAIN ys} /\ B = {i \in DOMAIN ls : ls[i] = "text"}
  OBVIOUS
<1>2. \A y : y \in A <=> \E i \in 1..m : ys[i] = y
  BY <1>1
<1>3. \A i : i \in B <=> i \in 1..n /\ ls[i] = "text"
  BY <1>1
<1>4. TextLines(ls, n, ys, m) => \A y : y \in A <=> y \in B
  BY <1>2, <1>3 DEF TextLines
<1>5. A = B => TextLines(ls, n, ys, m)
  BY <1>2, <1>3 DEF TextLines
<1>. QED BY <1>1, <1>4, <1>5 DEF Yields

\* A line that is read keeps what was yielded in order.
LEMMA LineKeepsAdapter ==
  ASSUME AdapterCorrect, Adapter!Line
  PROVE  AdapterCorrect'
<1>1. /\ call = "lines" /\ mode' = mode /\ call' = call /\ tried' = tried /\ failures' = failures
  BY DEF Adapter!Line
<1>2. PICK line \in {"text", "broken"} :
        /\ lines' = Append(lines, line)
        /\ yielded' = IF line = "text" THEN Append(yielded, Len(lines')) ELSE yielded
  BY DEF Adapter!Line
<1>3. mode = "stream" /\ tried = 0
  BY <1>1 DEF AdapterCorrect, Adapter!GenerateGivesUp, Adapter!StreamInOrder
<1>4. PICK n \in Nat, m \in Nat : n = Len(lines) /\ m = Len(yielded)
  BY LenProperties DEF AdapterCorrect
<1>5. /\ lines' \in Seq({"text", "broken"}) /\ Len(lines') = n + 1 /\ DOMAIN lines' = 1..(n + 1)
      /\ DOMAIN lines = 1..n /\ \A i \in 1..n : lines'[i] = lines[i]
      /\ lines'[n + 1] = line
  BY <1>2, <1>4, AppendProperties, LenProperties DEF AdapterCorrect
<1>0. DOMAIN yielded = 1..m
  BY <1>4, LenProperties DEF AdapterCorrect
<1>9. TextLines(lines, n, yielded, m)
  <2>1. Yields(lines, yielded)
    BY DEF AdapterCorrect, Adapter!StreamInOrder, Yields
  <2>. QED BY <1>0, <1>5, <2>1, TextLinesAreYielded
<1>6. \A i \in 1..m : yielded[i] \in 1..n /\ lines[yielded[i]] = "text"
  BY <1>9 DEF TextLines
<1>7. \A i \in 1..n : lines[i] = "text" => \E j \in 1..m : yielded[j] = i
  BY <1>9 DEF TextLines
<1>8. \A i, j \in 1..m : i < j => yielded[i] < yielded[j]
  BY <1>0 DEF AdapterCorrect, Adapter!StreamInOrder
<1>11. CASE line = "text"
  <2>1. /\ yielded' \in Seq(Nat) /\ Len(yielded') = m + 1 /\ DOMAIN yielded' = 1..(m + 1)
        /\ \A i \in 1..m : yielded'[i] = yielded[i]
        /\ yielded'[m + 1] = n + 1
    <3>1. yielded \in Seq(Nat) /\ n + 1 \in Nat /\ yielded' = Append(yielded, n + 1)
      BY <1>2, <1>4, <1>5, <1>11 DEF AdapterCorrect
    <3>. QED BY <1>4, <3>1, AppendProperties, LenProperties
  <2>2. \A i, j \in 1..(m + 1) : i < j => yielded'[i] < yielded'[j]
    <3>. SUFFICES ASSUME NEW i \in 1..(m + 1), NEW j \in 1..(m + 1), i < j
                  PROVE  yielded'[i] < yielded'[j]
      OBVIOUS
    <3>1. i \in 1..m /\ yielded'[i] = yielded[i] /\ yielded[i] \in 1..n
      BY <1>6, <2>1
    <3>2. CASE j = m + 1
      BY <2>1, <3>1, <3>2
    <3>3. CASE j # m + 1
      <4>1. j \in 1..m
        BY <3>3
      <4>. QED BY <1>8, <2>1, <3>1, <4>1
    <3>. QED BY <3>2, <3>3
  <2>3. \A i \in 1..(m + 1) : yielded'[i] \in 1..(n + 1) /\ lines'[yielded'[i]] = "text"
    <3>. SUFFICES ASSUME NEW i \in 1..(m + 1)
                  PROVE  yielded'[i] \in 1..(n + 1) /\ lines'[yielded'[i]] = "text"
      OBVIOUS
    <3>1. CASE i = m + 1
      BY <1>5, <1>11, <2>1, <3>1
    <3>2. CASE i # m + 1
      <4>1. i \in 1..m
        BY <3>2
      <4>2. yielded'[i] = yielded[i] /\ yielded[i] \in 1..n /\ lines[yielded[i]] = "text"
        BY <1>6, <2>1, <4>1
      <4>. QED BY <1>5, <4>2
    <3>. QED BY <3>1, <3>2
  <2>4. \A i \in 1..(n + 1) : lines'[i] = "text" => \E j \in 1..(m + 1) : yielded'[j] = i
    <3>. SUFFICES ASSUME NEW i \in 1..(n + 1), lines'[i] = "text"
                  PROVE  \E j \in 1..(m + 1) : yielded'[j] = i
      OBVIOUS
    <3>1. CASE i = n + 1
      BY <2>1, <3>1
    <3>2. CASE i # n + 1
      <4>1. i \in 1..n /\ lines[i] = "text"
        BY <1>5, <3>2
      <4>2. PICK j \in 1..m : yielded[j] = i
        BY <1>7, <4>1
      <4>. QED BY <2>1, <4>2
    <3>. QED BY <3>1, <3>2
  <2>5. Yields(lines', yielded')
    <3>1. TextLines(lines', n + 1, yielded', m + 1)
      BY <2>3, <2>4 DEF TextLines
    <3>. QED BY <1>5, <2>1, <3>1, TextLinesAreYielded
  <2>6. Adapter!StreamInOrder'
    BY <1>1, <1>3, <2>1, <2>2, <2>5 DEF Adapter!StreamInOrder, Yields
  <2>. QED BY <1>1, <1>3, <1>5, <2>1, <2>6 DEF AdapterCorrect, Adapter!GenerateGivesUp
<1>10. CASE line # "text"
  <2>1. yielded' = yielded /\ line = "broken"
    BY <1>2, <1>10
  <2>2. Yields(lines', yielded)
    <3>1. \A i \in 1..(n + 1) : lines'[i] = "text" <=> i \in 1..n /\ lines[i] = "text"
      BY <1>5, <2>1
    <3>2. TextLines(lines', n + 1, yielded, m)
      BY <1>6, <1>7, <3>1 DEF TextLines
    <3>. QED BY <1>0, <1>5, <3>2, TextLinesAreYielded
  <2>3. Adapter!StreamInOrder'
    BY <1>1, <1>3, <2>1, <2>2 DEF AdapterCorrect, Adapter!StreamInOrder, Yields
  <2>. QED BY <1>1, <1>3, <1>5, <2>1, <2>3 DEF AdapterCorrect, Adapter!GenerateGivesUp
<1>. QED BY <1>11, <1>10

\* Every step of the adapter keeps the invariant.
LEMMA AdapterKept ==
  ASSUME AdapterCorrect, Adapter!Next
  PROVE  AdapterCorrect'
<1>1. CASE Adapter!PostFails
  BY <1>1, PostFailsKeepsAdapter
<1>2. CASE Adapter!Line
  BY <1>2, LineKeepsAdapter
<1>3. CASE Adapter!Generate \/ Adapter!Stream \/ Adapter!StreamEnds
  <2>1. /\ mode' = mode /\ tried' = tried /\ failures' = failures /\ lines' = lines /\ yielded' = yielded
        /\ call' # "post" /\ (mode = "generate" => call' = "ended")
    BY <1>3 DEF Adapter!Generate, Adapter!Stream, Adapter!StreamEnds, Adapter!WrappedInStream,
                Adapter!PostErrors, AdapterCorrect, Adapter!GenerateGivesUp
  <2>. QED BY <2>1 DEF AdapterCorrect, Adapter!GenerateGivesUp, Adapter!StreamInOrder
<1>. QED BY <1>1, <1>2, <1>3 DEF Adapter!Next

-----------------------------------------------------------------------------
(* Evidence: a sequence of candidates of any length.                       *)

\* candidates with scores that can be added
Scored(s) == \A i \in 1..Len(s) : s[i].score \in Int

\* the sum of scores grows from candidate to candidate
SumUpTo(f, s) ==
  /\ f \in [0..Len(s) -> Int] /\ f[0] = 0
  /\ \A i \in 1..Len(s) : f[i] = f[i - 1] + s[i].score
  /\ Judgement!SumOfScores(s) = f[Len(s)]

\* The recursive sum of the scores exists and is the one that follows each score.
LEMMA ScoresAddUp ==
  ASSUME NEW s, Len(s) \in Nat, Scored(s)
  PROVE  \E f : SumUpTo(f, s)
<1>. DEFINE step == [i \in 1..Len(s) |-> [x \in Int |-> x + s[i].score]]
            Sums(f) == f = [i \in 0..Len(s) |-> IF i = 0 THEN 0 ELSE f[i - 1] + s[i].score]
<1>1. step \in [1..Len(s) -> [Int -> Int]]
  BY DEF Scored
<1>2. PICK f \in [0..Len(s) -> Int] :
         f[0] = 0 /\ \A i \in 1..Len(s) : f[i] = step[i][f[i - 1]]
  <2>1. PICK X, n, base, go : X = Int /\ n = Len(s) /\ base = 0 /\ go = step
    OBVIOUS
  <2>2. base \in X /\ n \in Nat /\ go \in [1..n -> [X -> X]]
    BY <1>1, <2>1
  <2>3. \E f : Follows(f, X, n, base, go)
    BY <2>2, Recursion
  <2>. HIDE DEF step
  <2>. QED BY <2>1, <2>3 DEF Follows
<1>3. ASSUME NEW i \in 1..Len(s)
      PROVE  i - 1 \in 0..Len(s) /\ f[i - 1] \in Int /\ f[i] = f[i - 1] + s[i].score
  <2>1. i - 1 \in 0..Len(s)
    OBVIOUS
  <2>2. f[i - 1] \in Int
    BY <2>1
  <2>3. step[i][f[i - 1]] = f[i - 1] + s[i].score
    BY <2>2
  <2>. HIDE DEF step
  <2>. QED BY <1>2, <2>1, <2>2, <2>3
<1>4. Sums(f)
  <2>. SUFFICES ASSUME NEW i \in 0..Len(s)
                PROVE  f[i] = IF i = 0 THEN 0 ELSE f[i - 1] + s[i].score
    BY <1>2
  <2>1. i # 0 => i \in 1..Len(s)
    OBVIOUS
  <2>. QED BY <1>2, <1>3, <2>1
<1>5. PICK g : g = (CHOOSE h : Sums(h))
  OBVIOUS
<1>6. Sums(g)
  BY <1>4, <1>5
<1>7. Judgement!SumOfScores(s) = g[Len(s)]
  BY <1>5 DEF Judgement!SumOfScores
<1>8. g = f
  <2>. DEFINE T == {i \in 0..Len(s) : g[i] # f[i]}
  <2>1. T = {}
    <3>. SUFFICES ASSUME T # {} PROVE FALSE
      OBVIOUS
    <3>1. PICK i \in T : \A j \in T : i <= j
      <4>1. T \in SUBSET Nat
        OBVIOUS
      <4>. HIDE DEF T
      <4>. QED BY <4>1, Smallest
    <3>2. i # 0
      BY <1>4, <1>6, <3>1
    <3>3. i - 1 \in 0..Len(s) /\ g[i - 1] = f[i - 1]
      BY <3>1, <3>2
    <3>. QED BY <1>4, <1>6, <3>1, <3>2, <3>3
  <2>2. \A i \in 0..Len(s) : g[i] = f[i]
    BY <2>1
  <2>. HIDE DEF T
  <2>. QED BY <1>4, <1>6, <2>2
<1>. QED BY <1>2, <1>3, <1>7, <1>8 DEF SumUpTo

\* better scores have a greater sum
LEMMA SumIsMonotone ==
  ASSUME NEW s, NEW t, Len(s) \in Nat, Len(t) = Len(s), Scored(s), Scored(t),
         \A i \in 1..Len(s) : s[i].score <= t[i].score
  PROVE  /\ Judgement!SumOfScores(s) \in Int /\ Judgement!SumOfScores(t) \in Int
         /\ Judgement!SumOfScores(s) <= Judgement!SumOfScores(t)
<1>1. PICK f, g : SumUpTo(f, s) /\ SumUpTo(g, t)
  BY ScoresAddUp
<1>2. PICK n \in Nat : n = Len(s)
  OBVIOUS
<1>3. /\ f \in [0..n -> Int] /\ g \in [0..n -> Int] /\ f[0] = 0 /\ g[0] = 0
      /\ \A i \in 1..n : f[i] = f[i - 1] + s[i].score /\ g[i] = g[i - 1] + t[i].score
      /\ Judgement!SumOfScores(s) = f[n] /\ Judgement!SumOfScores(t) = g[n]
  BY <1>1, <1>2 DEF SumUpTo
<1>. DEFINE T == {i \in 0..n : ~ (f[i] <= g[i])}
<1>4. T = {}
  <2>. SUFFICES ASSUME T # {} PROVE FALSE
    OBVIOUS
  <2>1. PICK i \in T : \A j \in T : i <= j
    <3>1. T \in SUBSET Nat
      OBVIOUS
    <3>. HIDE DEF T
    <3>. QED BY <3>1, Smallest
  <2>2. i \in 1..n /\ i - 1 \in 0..n /\ i - 1 \notin T
    BY <1>3, <2>1
  <2>3. f[i - 1] <= g[i - 1] /\ f[i - 1] \in Int /\ g[i - 1] \in Int
    BY <1>3, <2>2
  <2>4. s[i].score \in Int /\ t[i].score \in Int /\ s[i].score <= t[i].score
    BY <1>2, <2>2 DEF Scored
  <2>5. f[i] = f[i - 1] + s[i].score /\ g[i] = g[i - 1] + t[i].score
    BY <1>3, <2>2
  <2>6. f[i] <= g[i]
    <3>1. PICK a \in Int : a = f[i - 1]
      BY <2>3
    <3>2. PICK b \in Int : b = g[i - 1]
      BY <2>3
    <3>3. PICK c \in Int : c = s[i].score
      BY <2>4
    <3>4. PICK d \in Int : d = t[i].score
      BY <2>4
    <3>5. a <= b /\ c <= d
      BY <2>3, <2>4, <3>1, <3>2, <3>3, <3>4
    <3>6. a + c <= b + d
      BY <3>5
    <3>. QED BY <2>5, <3>1, <3>2, <3>3, <3>4, <3>6
  <2>. QED BY <2>1, <2>6
<1>5. n \in 0..n /\ n \notin T
  BY <1>4
<1>. QED BY <1>3, <1>5

\* one of the first m has the greatest score
Greatest(f, m) == \E i \in 1..m : \A j \in 1..m : f[j] <= f[i]

\* Finitely many numbers have a greatest one.
LEMMA GreatestExists ==
  ASSUME NEW n \in Nat \ {0}, NEW f \in [1..n -> Int]
  PROVE  Greatest(f, n)
<1>. DEFINE T == {m \in 1..n : ~ Greatest(f, m)}
<1>1. T = {}
  <2>. SUFFICES ASSUME T # {} PROVE FALSE
    OBVIOUS
  <2>1. PICK m \in T : \A p \in T : m <= p
    <3>1. T \in SUBSET Nat
      OBVIOUS
    <3>. HIDE DEF T
    <3>. QED BY <3>1, Smallest
  <2>2. m \in 1..n /\ ~ Greatest(f, m)
    BY <2>1
  <2>3. m # 1
    <3>1. ASSUME m = 1 PROVE Greatest(f, m)
      <4>1. 1 \in 1..m /\ \A j \in 1..m : j = 1
        BY <3>1
      <4>2. f[1] \in Int
        OBVIOUS
      <4>3. \A j \in 1..m : f[j] <= f[1]
        BY <4>1, <4>2
      <4>. QED BY <4>1, <4>3 DEF Greatest
    <3>. QED BY <2>2, <3>1
  <2>4. m - 1 \in 1..n /\ m - 1 < m
    BY <2>2, <2>3
  <2>5. Greatest(f, m - 1)
    <3>1. m - 1 \notin T
      BY <2>1, <2>2, <2>4
    <3>. QED BY <2>4, <3>1
  <2>6. PICK i \in 1..(m - 1) : \A j \in 1..(m - 1) : f[j] <= f[i]
    BY <2>5 DEF Greatest
  <2>7. i \in 1..m /\ m \in 1..m /\ i \in 1..n
    BY <2>2
  <2>8. \A j \in 1..m : j \in 1..(m - 1) \/ j = m
    BY <2>2
  <2>9. f[i] \in Int /\ f[m] \in Int /\ \A j \in 1..m : f[j] \in Int
    BY <2>2, <2>7
  <2>10. CASE f[m] <= f[i]
    <3>1. \A j \in 1..m : f[j] <= f[i]
      BY <2>6, <2>8, <2>10
    <3>. QED BY <2>2, <2>7, <3>1 DEF Greatest
  <2>11. CASE ~ (f[m] <= f[i])
    <3>1. f[i] <= f[m] /\ f[m] <= f[m]
      BY <2>9, <2>11
    <3>2. \A j \in 1..m : f[j] <= f[m]
      BY <2>6, <2>8, <2>9, <3>1
    <3>. QED BY <2>2, <2>7, <3>2 DEF Greatest
  <2>. QED BY <2>10, <2>11
<1>2. n \in 1..n
  OBVIOUS
<1>. QED BY <1>1, <1>2

\* the members of a finite set in some order
LEMMA Numbered ==
  ASSUME NEW S, IsFiniteSet(S)
  PROVE  \E f : /\ f \in [1..Cardinality(S) -> S] /\ Cardinality(S) \in Nat
               /\ \A x \in S : \E n \in 1..Cardinality(S) : f[n] = x
               /\ \A i, j \in 1..Cardinality(S) : f[i] = f[j] => i = j
<1>1. Cardinality(S) \in Nat /\ ExistsBijection(1..Cardinality(S), S)
  BY FS_CardinalityType
<1>. QED BY <1>1 DEF ExistsBijection, Bijection, Injection, Surjection, IsInjective

\* the greatest of finitely many numbers
LEMMA MaxIsGreatest ==
  ASSUME NEW S \in SUBSET Int, IsFiniteSet(S), S # {}
  PROVE  Max(S) \in S /\ \A x \in S : x <= Max(S)
<1>1. PICK f : /\ f \in [1..Cardinality(S) -> S] /\ Cardinality(S) \in Nat
               /\ \A x \in S : \E i \in 1..Cardinality(S) : f[i] = x
  BY Numbered
<1>2. PICK n : n = Cardinality(S)
  OBVIOUS
<1>3. n \in Nat \ {0} /\ f \in [1..n -> Int] /\ \A i \in 1..n : f[i] \in S
  <2>1. n \in Nat /\ f \in [1..n -> S]
    BY <1>1, <1>2
  <2>2. n # 0
    <3>1. PICK x \in S : TRUE
      OBVIOUS
    <3>2. PICK i \in 1..n : f[i] = x
      BY <1>1, <1>2, <3>1
    <3>. QED BY <2>1, <3>2
  <2>. QED BY <2>1, <2>2
<1>4. PICK i \in 1..n : \A j \in 1..n : f[j] <= f[i]
  BY <1>3, GreatestExists DEF Greatest
<1>5. f[i] \in S /\ \A x \in S : x <= f[i]
  BY <1>1, <1>2, <1>3, <1>4
<1>6. \E x \in S : \A y \in S : x >= y
  BY <1>5
<1>7. Max(S) \in S /\ \A y \in S : Max(S) >= y
  BY <1>6 DEF Max
<1>. QED BY <1>7

\* What a function makes of a finite set is finite.
LEMMA ImageIsFinite ==
  ASSUME NEW S, IsFiniteSet(S), NEW T, NEW f \in [S -> T], \A y \in T : \E x \in S : f[x] = y
  PROVE  IsFiniteSet(T)
<1>1. f \in Surjection(S, T)
  BY DEF Surjection
<1>. QED BY <1>1, FS_Surjection

-----------------------------------------------------------------------------
\* a sequence of candidates as the model states them
Candidates(s) ==
  /\ s \in Seq(ToSet(s)) /\ Len(s) \in Nat /\ DOMAIN s = 1..Len(s)
  /\ \A i \in 1..Len(s) : s[i].score \in Int /\ s[i].reliability \in Int

\* The top score is a score, and none is above it.
LEMMA TopIsGreatest ==
  ASSUME NEW s, Candidates(s), Len(s) # 0
  PROVE  /\ Judgement!TopScore(s) \in Int
         /\ \E i \in 1..Len(s) : s[i].score = Judgement!TopScore(s)
         /\ \A i \in 1..Len(s) : s[i].score <= Judgement!TopScore(s)
<1>1. PICK S : S = {c.score : c \in ToSet(s)}
  OBVIOUS
<1>2. PICK n \in Nat \ {0} : n = Len(s)
  BY DEF Candidates
<1>3. DOMAIN s = 1..n /\ \A i \in 1..n : s[i].score \in Int
  BY <1>2 DEF Candidates
<1>4. \A x : x \in S <=> \E i \in 1..n : s[i].score = x
  BY <1>1, <1>3 DEF ToSet
<1>5. S \in SUBSET Int /\ S # {}
  <2>1. 1 \in 1..n
    BY <1>2
  <2>. QED BY <1>3, <1>4, <2>1
<1>6. IsFiniteSet(S)
  <2>1. PICK f : f = [i \in 1..n |-> s[i].score]
    OBVIOUS
  <2>2. f \in [1..n -> S] /\ \A y \in S : \E i \in 1..n : f[i] = y
    BY <1>4, <2>1
  <2>3. IsFiniteSet(1..n)
    BY <1>2, FS_Interval
  <2>. QED BY <2>2, <2>3, ImageIsFinite
<1>7. Judgement!TopScore(s) = Max(S)
  BY <1>1 DEF Judgement!TopScore, Judgement!Max, Max, Judgement!ToSet, ToSet
<1>8. Max(S) \in S /\ \A x \in S : x <= Max(S)
  BY <1>5, <1>6, MaxIsGreatest
<1>. QED BY <1>2, <1>4, <1>5, <1>7, <1>8

\* Only the empty sequence has no candidate.
LEMMA EmptyHasNoLength ==
  ASSUME NEW s, Candidates(s)
  PROVE  s = <<>> <=> Len(s) = 0
BY EmptySeq DEF Candidates

\* conflicts are read from the signals, groups and stances alone
LEMMA ConflictsStay ==
  ASSUME NEW s, NEW t, Candidates(s), Candidates(t), Len(t) = Len(s),
         \A i \in 1..Len(s) : Judgement!AtLeast(t[i], s[i])
  PROVE  Judgement!Conflicting(t) = Judgement!Conflicting(s)
<1>1. PICK n : n = Len(s)
  OBVIOUS
<1>2. DOMAIN s = 1..n /\ DOMAIN t = 1..n
  BY <1>1 DEF Candidates
<1>3. \A i \in 1..n : t[i].signal = s[i].signal /\ t[i].group = s[i].group /\ t[i].stance = s[i].stance
  BY <1>1 DEF Judgement!AtLeast
<1>4. /\ \A c : c \in Judgement!ToSet(s) <=> \E i \in 1..n : s[i] = c
      /\ \A c : c \in Judgement!ToSet(t) <=> \E i \in 1..n : t[i] = c
  BY <1>2 DEF Judgement!ToSet
<1>5. Judgement!Conflicting(s) <=>
        \/ \E i \in 1..n : s[i].signal
        \/ \E i, j \in 1..n : /\ s[i].group = s[j].group /\ s[i].stance # s[j].stance
                             /\ noGroup \notin {s[i].group, s[i].stance, s[j].stance}
  BY <1>4 DEF Judgement!Conflicting
<1>6. Judgement!Conflicting(t) <=>
        \/ \E i \in 1..n : t[i].signal
        \/ \E i, j \in 1..n : /\ t[i].group = t[j].group /\ t[i].stance # t[j].stance
                             /\ noGroup \notin {t[i].group, t[i].stance, t[j].stance}
  BY <1>4 DEF Judgement!Conflicting
<1>7. Judgement!Conflicting(t) <=> Judgement!Conflicting(s)
  BY <1>3, <1>5, <1>6
<1>8. Judgement!Conflicting(t) \in BOOLEAN /\ Judgement!Conflicting(s) \in BOOLEAN
  BY DEF Judgement!Conflicting
<1>. QED BY <1>7, <1>8

\* A better candidate leaves no reason against the quality that was not there before.
LEMMA QualityStays ==
  ASSUME NEW s, NEW t, Candidates(s), Candidates(t), Len(t) = Len(s), NEW school,
         \A i \in 1..Len(s) : Judgement!AtLeast(t[i], s[i]),
         Judgement!QualityReason(t, school)
  PROVE  Judgement!QualityReason(s, school)
<1>1. PICK n : n = Len(s)
  OBVIOUS
<1>2. DOMAIN s = 1..n /\ DOMAIN t = 1..n
  BY <1>1 DEF Candidates
<1>3. /\ \A c : c \in Judgement!ToSet(s) <=> \E i \in 1..n : s[i] = c
      /\ \A c : c \in Judgement!ToSet(t) <=> \E i \in 1..n : t[i] = c
  BY <1>2 DEF Judgement!ToSet
<1>4. {c.source : c \in Judgement!ToSet(t)} = {c.source : c \in Judgement!ToSet(s)}
  <2>1. \A i \in 1..n : t[i].source = s[i].source
    BY <1>1 DEF Judgement!AtLeast
  <2>. QED BY <1>3, <2>1
<1>5. ASSUME NEW d \in Judgement!ToSet(t), Judgement!Flawed(d, school)
      PROVE  \E c \in Judgement!ToSet(s) : Judgement!Flawed(c, school)
  <2>1. PICK i \in 1..n : d = t[i]
    BY <1>3
  <2>2. /\ t[i].reliability \in Int /\ s[i].reliability \in Int /\ t[i].reliability >= s[i].reliability
        /\ s[i].cited => t[i].cited
        /\ s[i].eligible => t[i].eligible
        /\ t[i].school = s[i].school
    BY <1>1 DEF Candidates, Judgement!AtLeast
  <2>3. Judgement!MinReliability \in Int
    BY DEF Judgement!MinReliability
  <2>4. t[i].reliability < Judgement!MinReliability => s[i].reliability < Judgement!MinReliability
    BY <2>2, <2>3
  <2>5. Judgement!Flawed(s[i], school)
    BY <1>5, <2>1, <2>2, <2>4 DEF Judgement!Flawed
  <2>. QED BY <1>3, <2>5
<1>. QED BY <1>4, <1>5 DEF Judgement!QualityReason

\* A better candidate puts no threshold out of reach.
LEMMA ThresholdsStay ==
  ASSUME NEW s, NEW t, Candidates(s), Candidates(t), Len(t) = Len(s), Len(s) # 0,
         \A i \in 1..Len(s) : Judgement!AtLeast(t[i], s[i])
  PROVE  /\ Judgement!BelowPartial(t) => Judgement!BelowPartial(s)
         /\ Judgement!BelowSufficient(t) => Judgement!BelowSufficient(s)
<1>1. PICK n \in Nat : n = Len(s) /\ n = Len(t)
  BY DEF Candidates
<1>2. \A i \in 1..n : s[i].score \in Int /\ t[i].score \in Int /\ s[i].score <= t[i].score
  BY <1>1 DEF Candidates, Judgement!AtLeast
<1>3. PICK a, b : a = Judgement!TopScore(s) /\ b = Judgement!TopScore(t)
  OBVIOUS
<1>4. /\ a \in Int /\ b \in Int
      /\ \E i \in 1..n : s[i].score = a
      /\ \A i \in 1..n : t[i].score <= b
  BY <1>1, <1>3, TopIsGreatest
<1>5. a <= b
  BY <1>2, <1>4
<1>6. PICK p, q : p = Judgement!SumOfScores(s) /\ q = Judgement!SumOfScores(t)
  OBVIOUS
<1>7. p \in Int /\ q \in Int /\ p <= q
  BY <1>1, <1>2, <1>6, SumIsMonotone DEF Scored
<1>8. /\ Judgement!MinPartialTop \in Int /\ Judgement!MinSufficientTop \in Int
      /\ Len(s) * Judgement!MinSufficientAverage \in Int
  BY <1>1 DEF Judgement!MinPartialTop, Judgement!MinSufficientTop, Judgement!MinSufficientAverage
<1>9. /\ b < Judgement!MinPartialTop => a < Judgement!MinPartialTop
      /\ b < Judgement!MinSufficientTop => a < Judgement!MinSufficientTop
      /\ q < Len(s) * Judgement!MinSufficientAverage => p < Len(s) * Judgement!MinSufficientAverage
  BY <1>4, <1>5, <1>7, <1>8
<1>. QED BY <1>1, <1>3, <1>6, <1>9 DEF Judgement!BelowPartial, Judgement!BelowSufficient

\* better candidates have no lower status
LEMMA StatusStays ==
  ASSUME NEW s, NEW t, Candidates(s), Candidates(t), Len(t) = Len(s), NEW school,
         \A i \in 1..Len(s) : Judgement!AtLeast(t[i], s[i]), ~ Judgement!Conflicting(s)
  PROVE  Judgement!Grade(Judgement!Status(t, school)) >= Judgement!Grade(Judgement!Status(s, school))
<1>1. ~ Judgement!Conflicting(t)
  BY ConflictsStay
<1>2. CASE Len(s) = 0
  <2>1. s = <<>> /\ t = <<>>
    BY <1>2, EmptyHasNoLength
  <2>. QED BY <2>1 DEF Judgement!Status, Judgement!Grade
<1>3. CASE Len(s) # 0
  <2>1. s # <<>> /\ t # <<>>
    BY <1>3, EmptyHasNoLength
  <2>2. /\ Judgement!BelowPartial(t) => Judgement!BelowPartial(s)
        /\ Judgement!BelowSufficient(t) => Judgement!BelowSufficient(s)
    BY <1>3, ThresholdsStay
  <2>3. Judgement!QualityReason(t, school) => Judgement!QualityReason(s, school)
    BY QualityStays
  <2>4. PICK u, v : u = Judgement!Status(s, school) /\ v = Judgement!Status(t, school)
    OBVIOUS
  <2>5. /\ u \in {"INSUFFICIENT", "PARTIALLY_SUFFICIENT", "SUFFICIENT"}
        /\ v \in {"INSUFFICIENT", "PARTIALLY_SUFFICIENT", "SUFFICIENT"}
        /\ v = "INSUFFICIENT" => u = "INSUFFICIENT"
        /\ v = "PARTIALLY_SUFFICIENT" => u # "SUFFICIENT"
    BY <1>1, <2>1, <2>2, <2>3, <2>4 DEF Judgement!Status
  <2>6. /\ Judgement!Grade("INSUFFICIENT") = 0 /\ Judgement!Grade("PARTIALLY_SUFFICIENT") = 1
        /\ Judgement!Grade("SUFFICIENT") = 2
    BY DEF Judgement!Grade
  <2>7. Judgement!Grade(v) >= Judgement!Grade(u)
    BY <2>5, <2>6
  <2>. QED BY <2>4, <2>7
<1>. QED BY <1>2, <1>3

\* Every sample is a sequence of candidates as the model states them.
LEMMA SamplesAreCandidates ==
  ASSUME NEW n \in Nat, NEW s \in [1..n -> Samples]
  PROVE  Candidates(s) /\ Len(s) = n
<1>1. DOMAIN s = 1..n /\ \A i \in 1..n : s[i] \in Samples /\ s[i] \in ToSet(s)
  BY DEF ToSet
<1>2. s \in [1..n -> ToSet(s)]
  BY <1>1
<1>3. s \in Seq(ToSet(s)) /\ Len(s) = n
  BY <1>1, <1>2
<1>4. \A i \in 1..n : s[i].score \in Int /\ s[i].reliability \in Int
  BY <1>1, EvidenceAssumption
<1>. QED BY <1>1, <1>3, <1>4 DEF Candidates

\* a candidate is at least as good as itself
LEMMA BetterInPlace ==
  ASSUME NEW n \in Nat, NEW s \in [1..n -> Samples], NEW i \in 1..n, NEW b \in Samples,
         Judgement!AtLeast(b, s[i]), NEW t, t = [s EXCEPT ![i] = b]
  PROVE  t \in [1..n -> Samples] /\ \A j \in 1..n : Judgement!AtLeast(t[j], s[j])
<1>1. t \in [1..n -> Samples]
  OBVIOUS
<1>2. ASSUME NEW j \in 1..n PROVE Judgement!AtLeast(t[j], s[j])
  <2>1. CASE j = i
    BY <2>1
  <2>2. CASE j # i
    <3>1. t[j] = s[j] /\ s[j].score \in Int /\ s[j].reliability \in Int
      BY <2>2, EvidenceAssumption
    <3>. QED BY <3>1 DEF Judgement!AtLeast
  <2>. QED BY <2>1, <2>2
<1>. QED BY <1>1, <1>2

\* For any number of candidates a better one never lowers the status, and a further
\* one hides neither a conflict nor a flaw.
LEMMA EvidenceJudged ==
  ASSUME NEW n \in Nat, NEW s \in [1..n -> Samples], NEW school
  PROVE  /\ Judgement!BetterIsNoWorse(s, Samples, school)
         /\ Judgement!FlawsStay(s, Samples, school)
<1>1. Candidates(s) /\ Len(s) = n /\ DOMAIN s = 1..n
  BY SamplesAreCandidates
<1>2. ASSUME ~ Judgement!Conflicting(s), NEW i \in DOMAIN s, NEW b \in Samples, Judgement!AtLeast(b, s[i])
      PROVE  Judgement!Grade(Judgement!Status([s EXCEPT ![i] = b], school))
               >= Judgement!Grade(Judgement!Status(s, school))
  <2>1. PICK t : t = [s EXCEPT ![i] = b]
    OBVIOUS
  <2>2. i \in 1..n
    BY <1>1
  <2>3. t \in [1..n -> Samples] /\ \A j \in 1..n : Judgement!AtLeast(t[j], s[j])
    BY <1>2, <2>1, <2>2, BetterInPlace
  <2>4. Candidates(t) /\ Len(t) = n
    BY <2>3, SamplesAreCandidates
  <2>5. Judgement!Grade(Judgement!Status(t, school)) >= Judgement!Grade(Judgement!Status(s, school))
    BY <1>1, <1>2, <2>3, <2>4, StatusStays
  <2>. QED BY <2>1, <2>5
<1>3. ASSUME NEW c \in Samples
      PROVE  /\ Judgement!Status(s, school) = "CONFLICTING"
                  => Judgement!Status(Append(s, c), school) = "CONFLICTING"
             /\ (\E d \in Judgement!ToSet(s) : Judgement!Flawed(d, school))
                  => Judgement!Status(Append(s, c), school) # "SUFFICIENT"
  <2>1. PICK t : t = Append(s, c)
    OBVIOUS
  <2>2. t \in [1..(n + 1) -> Samples] /\ \A i \in 1..n : t[i] = s[i]
    <3>1. s \in Seq(Samples) /\ Len(s) = n
      BY <1>1
    <3>2. t \in Seq(Samples) /\ Len(t) = n + 1 /\ \A i \in 1..n : t[i] = s[i]
      BY <2>1, <3>1, AppendProperties
    <3>. QED BY <3>2, LenProperties
  <2>3. Candidates(t) /\ Len(t) = n + 1 /\ DOMAIN t = 1..(n + 1)
    BY <2>2, SamplesAreCandidates
  <2>4. t # <<>>
    BY <2>3, EmptyHasNoLength
  <2>5. \A d : d \in Judgement!ToSet(s) => d \in Judgement!ToSet(t)
    <3>1. \A i \in 1..n : i \in 1..(n + 1)
      OBVIOUS
    <3>. QED BY <1>1, <2>2, <2>3, <3>1 DEF Judgement!ToSet
  <2>6. Judgement!Conflicting(s) => Judgement!Conflicting(t)
    BY <2>5 DEF Judgement!Conflicting
  <2>7. Judgement!Status(s, school) = "CONFLICTING" => Judgement!Conflicting(s)
    BY DEF Judgement!Status
  <2>8. Judgement!Conflicting(t) => Judgement!Status(t, school) = "CONFLICTING"
    BY <2>4 DEF Judgement!Status
  <2>9. ASSUME NEW d \in Judgement!ToSet(s), Judgement!Flawed(d, school)
        PROVE  Judgement!Status(t, school) # "SUFFICIENT"
    <3>1. Judgement!QualityReason(t, school)
      BY <2>5, <2>9 DEF Judgement!QualityReason
    <3>. QED BY <3>1 DEF Judgement!Status
  <2>. QED BY <2>1, <2>6, <2>7, <2>8, <2>9
<1>4. Judgement!BetterIsNoWorse(s, Samples, school)
  BY <1>2 DEF Judgement!BetterIsNoWorse
<1>5. Judgement!FlawsStay(s, Samples, school)
  BY <1>3 DEF Judgement!FlawsStay
<1>. QED BY <1>4, <1>5

-----------------------------------------------------------------------------
(* Verification: a draft, its claims and their citations.                  *)

\* the context with one field of one pack withdrawn
Withdrawn(context, token, field) == [context EXCEPT ![token] = [@ EXCEPT ![field] = FALSE]]

\* a withdrawn citation fits no claim, and the others are as they were
LEMMA WithdrawnFitsNothing ==
  ASSUME NEW context \in [Tokens -> Packs \union {none}], NEW token \in Tokens, context[token] # none,
         NEW field \in {"active", "published", "registered"},
         NEW w, w = Withdrawn(context, token, field)
  PROVE  /\ DOMAIN w = DOMAIN context /\ w[token] # none
         /\ \A claim : ~ Citations!TokenFits(token, claim, w)
         /\ \A t \in DOMAIN context : t # token => w[t] = context[t]
<1>1. PICK pack \in Packs : pack = context[token]
  OBVIOUS
<1>2. PICK hidden : hidden = [pack EXCEPT ![field] = FALSE]
  OBVIOUS
<1>3. hidden # none /\ field \in DOMAIN pack
  BY <1>2, VerificationAssumption
<1>4. hidden[field] = FALSE
  BY <1>2, <1>3
<1>5. w[token] = hidden /\ DOMAIN w = DOMAIN context /\ \A t \in DOMAIN context : t # token => w[t] = context[t]
  BY <1>1, <1>2 DEF Withdrawn
<1>6. ~ hidden.active \/ ~ hidden.published \/ ~ hidden.registered
  BY <1>4
<1>7. \A claim : ~ Citations!TokenFits(token, claim, w)
  BY <1>5, <1>6 DEF Citations!TokenFits
<1>. QED BY <1>3, <1>5, <1>7

\* A draft that cites a withdrawn pack is not verified; another one is as before.
LEMMA WithdrawalNoticed ==
  ASSUME NEW draft, NEW context \in [Tokens -> Packs \union {none}], NEW requested,
         NEW requirePacks \in BOOLEAN
  PROVE  Citations!WithdrawalIsNoticed(draft, context, requested, requirePacks)
<1>. SUFFICES ASSUME NEW token \in DOMAIN context, context[token] # none,
                     NEW field \in {"active", "published", "registered"},
                     NEW w, w = Withdrawn(context, token, field)
              PROVE  IF Citations!Cites(draft, token)
                     THEN Citations!Verify(draft, w, requested, requirePacks) # "verified"
                     ELSE Citations!Verify(draft, w, requested, requirePacks)
                            = Citations!Verify(draft, context, requested, requirePacks)
  BY DEF Citations!WithdrawalIsNoticed, Withdrawn
<1>1. /\ DOMAIN w = DOMAIN context /\ w[token] # none
      /\ \A claim : ~ Citations!TokenFits(token, claim, w)
      /\ \A t \in DOMAIN context : t # token => w[t] = context[t]
  BY WithdrawnFitsNothing
<1>2. PICK claims : claims = Citations!ClaimsFromDraft(draft)
  OBVIOUS
<1>3. Citations!Cites(draft, token) <=>
        \E claim \in Citations!ToSet(claims) : token \in Citations!ToSet(claim.tokens)
  BY <1>2 DEF Citations!Cites
<1>4. Citations!Verify(draft, w, requested, requirePacks)
        = IF Citations!EngineStatus(claims, w, requested) = "verified" /\ ~ Citations!TextFits(draft)
          THEN "needs_revision" ELSE Citations!EngineStatus(claims, w, requested)
  BY <1>1, <1>2 DEF Citations!Verify
<1>5. Citations!Verify(draft, context, requested, requirePacks)
        = IF Citations!EngineStatus(claims, context, requested) = "verified" /\ ~ Citations!TextFits(draft)
          THEN "needs_revision" ELSE Citations!EngineStatus(claims, context, requested)
  BY <1>1, <1>2 DEF Citations!Verify
<1>6. ASSUME NEW claim \in Citations!ToSet(claims), token \in Citations!ToSet(claim.tokens)
      PROVE  Citations!EngineStatus(claims, w, requested) # "verified"
  <2>1. claim.tokens # <<>>
    BY <1>6 DEF Citations!ToSet
  <2>2. Citations!ClaimStatus(claim, w, requested) = "invalid_citation"
    BY <1>1, <1>6, <2>1 DEF Citations!ClaimStatus
  <2>3. PICK statuses : statuses = {Citations!ClaimStatus(c, w, requested) : c \in Citations!ToSet(claims)}
    OBVIOUS
  <2>4. "invalid_citation" \in statuses
    BY <2>2, <2>3
  <2>5. Citations!Overall(statuses) # "verified"
    BY <2>4 DEF Citations!Overall
  <2>. QED BY <2>3, <2>5 DEF Citations!EngineStatus
<1>7. ASSUME ~ Citations!Cites(draft, token)
      PROVE  Citations!EngineStatus(claims, w, requested) = Citations!EngineStatus(claims, context, requested)
  <2>1. ASSUME NEW claim \in Citations!ToSet(claims)
        PROVE  Citations!ClaimStatus(claim, w, requested) = Citations!ClaimStatus(claim, context, requested)
    <3>1. \A t \in Citations!ToSet(claim.tokens) : t # token
      BY <1>3, <1>7
    <3>2. \A t \in Citations!ToSet(claim.tokens) :
            Citations!TokenFits(t, claim, w) <=> Citations!TokenFits(t, claim, context)
      BY <1>1, <3>1 DEF Citations!TokenFits
    <3>3. (\E t \in Citations!ToSet(claim.tokens) : ~ Citations!TokenFits(t, claim, w))
             <=> (\E t \in Citations!ToSet(claim.tokens) : ~ Citations!TokenFits(t, claim, context))
      BY <3>2
    <3>4. ASSUME \A t \in Citations!ToSet(claim.tokens) : Citations!TokenFits(t, claim, context)
          PROVE  Citations!Cited(claim, w) = Citations!Cited(claim, context)
      <4>1. \A t \in Citations!ToSet(claim.tokens) : w[t] = context[t]
        BY <1>1, <3>1, <3>4 DEF Citations!TokenFits
      <4>. QED BY <4>1 DEF Citations!Cited
    <3>5. CASE \E t \in Citations!ToSet(claim.tokens) : ~ Citations!TokenFits(t, claim, context)
      BY <3>3, <3>5 DEF Citations!ClaimStatus
    <3>6. CASE \A t \in Citations!ToSet(claim.tokens) : Citations!TokenFits(t, claim, context)
      <4>1. PICK packs : packs = Citations!Cited(claim, w) /\ packs = Citations!Cited(claim, context)
        BY <3>4, <3>6
      <4>. QED BY <3>3, <4>1 DEF Citations!ClaimStatus
    <3>. QED BY <3>5, <3>6
  <2>2. {Citations!ClaimStatus(c, w, requested) : c \in Citations!ToSet(claims)}
          = {Citations!ClaimStatus(c, context, requested) : c \in Citations!ToSet(claims)}
    BY <2>1
  <2>. QED BY <2>2 DEF Citations!EngineStatus
<1>. QED BY <1>3, <1>4, <1>5, <1>6, <1>7

\* a draft all of whose claims have a text states just these
LEMMA StatedInFull ==
  ASSUME NEW draft, NEW S, draft.claims \in Seq(S), draft.claims # <<>>,
         \A claim \in Citations!ToSet(draft.claims) : claim.text
  PROVE  Citations!ClaimsFromDraft(draft) = draft.claims
<1>1. PICK c, n : c = draft.claims /\ n = Len(draft.claims)
  OBVIOUS
<1>2. /\ c \in Seq(S) /\ n \in Nat /\ n = Len(c) /\ c # <<>>
      /\ \A i \in 1..n : c[i] \in S /\ c[i].text
  <2>1. c \in Seq(S) /\ n \in Nat /\ n = Len(c) /\ DOMAIN c = 1..n /\ c # <<>>
    BY <1>1, LenProperties
  <2>2. \A i \in 1..n : c[i] \in Citations!ToSet(c)
    BY <2>1 DEF Citations!ToSet
  <2>3. \A i \in 1..n : c[i].text
    BY <1>1, <2>2
  <2>4. \A i \in 1..n : c[i] \in S
    BY <2>1, ElementOfSeq
  <2>. QED BY <2>1, <2>3, <2>4
<1>. DEFINE Stated(g) == g = [i \in 0..n |-> IF i = 0 THEN <<>>
                                             ELSE IF c[i].text THEN Append(g[i - 1], c[i])
                                             ELSE g[i - 1]]
<1>3. PICK f : f = [i \in 0..n |-> SubSeq(c, 1, i)]
  OBVIOUS
<1>4. ASSUME NEW i \in 1..n PROVE f[i] = Append(f[i - 1], c[i])
  <2>1. i - 1 \in 0..n /\ i \in 0..n
    BY <1>2
  <2>2. f[i] = SubSeq(c, 1, i) /\ f[i - 1] = SubSeq(c, 1, i - 1)
    BY <1>3, <2>1
  <2>3. 1 \in 1..Len(c) /\ i \in 1..Len(c)
    BY <1>2
  <2>4. SubSeq(c, 1, i) = SubSeq(c, 1, i - 1) \o <<c[i]>>
    <3>1. i \in 1..Len(c) /\ 1 <= i
      BY <1>2
    <3>. QED BY <1>2, <2>3, <3>1, SubSeqRecursiveSecond
  <2>5. SubSeq(c, 1, i - 1) \in Seq(S)
    <3>1. \A j \in 1..(i - 1) : c[j] \in S
      BY <1>2
    <3>. QED BY <1>2, <3>1, SubSeqProperties
  <2>6. Append(SubSeq(c, 1, i - 1), c[i]) = SubSeq(c, 1, i - 1) \o <<c[i]>>
    BY <1>2, <2>5, AppendIsConcat
  <2>. QED BY <2>2, <2>4, <2>6
<1>5. f[0] = <<>> /\ f[n] = c
  <2>1. SubSeq(c, 1, 0) = <<>>
    BY SubSeqEmpty
  <2>2. SubSeq(c, 1, n) = c
    BY <1>2, SubSeqFull
  <2>. QED BY <1>2, <1>3, <2>1, <2>2
<1>6. Stated(f)
  <2>. SUFFICES ASSUME NEW i \in 0..n
                PROVE  f[i] = IF i = 0 THEN <<>>
                              ELSE IF c[i].text THEN Append(f[i - 1], c[i]) ELSE f[i - 1]
    BY <1>3
  <2>1. i # 0 => i \in 1..n
    BY <1>2
  <2>. QED BY <1>2, <1>4, <1>5, <2>1
<1>7. PICK g : g = (CHOOSE h : Stated(h))
  OBVIOUS
<1>8. Stated(g)
  BY <1>6, <1>7
<1>9. Citations!ClaimsFromDraft(draft)
        = IF g[n] # <<>> THEN g[n]
          ELSE <<[id |-> "claim-1", text |-> draft.text # "blank", tokens |-> draft.citations,
                  words |-> draft.words, quote |-> draft.quote, school |-> none,
                  reference |-> {}]>>
  BY <1>1, <1>7 DEF Citations!ClaimsFromDraft
<1>10. \A i \in 0..n : g[i] = f[i]
  <2>. DEFINE T == {i \in 0..n : g[i] # f[i]}
  <2>1. T = {}
    <3>. SUFFICES ASSUME T # {} PROVE FALSE
      OBVIOUS
    <3>1. PICK i \in T : \A j \in T : i <= j
      <4>1. T \in SUBSET Nat
        BY <1>2
      <4>. HIDE DEF T
      <4>. QED BY <4>1, Smallest
    <3>2. i # 0
      BY <1>2, <1>6, <1>8, <3>1
    <3>3. i - 1 \in 0..n /\ g[i - 1] = f[i - 1]
      BY <1>2, <3>1, <3>2
    <3>4. i \in 1..n /\ i \in 0..n /\ c[i].text
      BY <1>2, <3>1, <3>2
    <3>5. g[i] = Append(g[i - 1], c[i])
      BY <1>8, <3>2, <3>4
    <3>6. f[i] = Append(f[i - 1], c[i])
      BY <1>4, <3>4
    <3>. QED BY <3>1, <3>3, <3>5, <3>6
  <2>. QED BY <2>1
<1>11. g[n] = c
  BY <1>2, <1>5, <1>10
<1>. QED BY <1>1, <1>2, <1>9, <1>11

\* what verifies a list of claims
LEMMA EngineVerifies ==
  ASSUME NEW claims, NEW context, NEW requested, \E claim : claim \in Citations!ToSet(claims)
  PROVE  Citations!EngineStatus(claims, context, requested) = "verified" <=>
           /\ ~ Citations!Refused(claims)
           /\ \A claim \in Citations!ToSet(claims) :
                Citations!ClaimStatus(claim, context, requested) = "supported"
<1>1. PICK statuses : statuses = {Citations!ClaimStatus(c, context, requested) : c \in Citations!ToSet(claims)}
  OBVIOUS
<1>2. statuses # {}
  BY <1>1
<1>3. statuses = {"supported"} <=>
        \A claim \in Citations!ToSet(claims) : Citations!ClaimStatus(claim, context, requested) = "supported"
  BY <1>1, <1>2
<1>4. Citations!Overall(statuses) = "verified" <=> statuses = {"supported"}
  BY <1>2 DEF Citations!Overall
<1>. QED BY <1>1, <1>3, <1>4 DEF Citations!EngineStatus

\* what verifies a draft all of whose claims have a text
Allowed(draft, context, requirePacks) ==
  ~ requirePacks /\ \A token \in DOMAIN context : context[token] = none

\* What verifies a draft that states claims, apart from its claims.
LEMMA DraftVerifies ==
  ASSUME NEW draft \in Drafts, NEW S, NEW claims \in Seq(S), claims # <<>>,
         \A claim \in Citations!ToSet(claims) : claim.text,
         NEW context, NEW requested, NEW requirePacks,
         NEW d, d = [draft EXCEPT !.claims = claims]
  PROVE  Citations!Verify(d, context, requested, requirePacks) = "verified" <=>
           IF Allowed(draft, context, requirePacks)
           THEN Citations!WithoutEvidence(draft, context) = "verified"
           ELSE /\ Citations!EngineStatus(claims, context, requested) = "verified"
                /\ Citations!TextFits(draft)
<1>1. DOMAIN draft = {"text", "prohibited", "citations", "words", "quote", "claims"}
  BY VerificationAssumption
<1>2. d.claims = claims /\ d.text = draft.text /\ d.prohibited = draft.prohibited /\ d.citations = draft.citations
  BY <1>1
<1>3. Citations!ClaimsFromDraft(d) = claims
  BY <1>2, StatedInFull
<1>4. Citations!TextFits(d) <=> Citations!TextFits(draft)
  BY <1>2 DEF Citations!TextFits
<1>5. Citations!WithoutEvidence(d, context) = Citations!WithoutEvidence(draft, context)
  BY <1>2, <1>4 DEF Citations!WithoutEvidence
<1>. QED BY <1>3, <1>4, <1>5 DEF Citations!Verify, Allowed

\* A claim that is appended verifies with the others exactly when it does alone.
LEMMA ClaimsAlone ==
  ASSUME NEW draft \in Drafts, NEW context, NEW requested, NEW requirePacks
  PROVE  Citations!ClaimsStandAlone(draft, OtherClaims, context, requested, requirePacks)
<1>1. ASSUME NEW other \in OtherClaims, draft.claims # <<>>, other.text,
             \A claim \in Citations!ToSet(draft.claims) : claim.text /\ claim.id # other.id,
             NEW both, NEW own, NEW alone,
             both = [draft EXCEPT !.claims = Append(draft.claims, other)],
             own = [draft EXCEPT !.claims = draft.claims], alone = [draft EXCEPT !.claims = <<other>>]
      PROVE  Citations!Verify(both, context, requested, requirePacks) = "verified" <=>
               /\ Citations!Verify(own, context, requested, requirePacks) = "verified"
               /\ Citations!Verify(alone, context, requested, requirePacks) = "verified"
  <2>1. PICK c, S, n : c = draft.claims /\ S = ToSet(draft.claims) \union {other} /\ n = Len(draft.claims)
    OBVIOUS
  <2>2. c \in Seq(ToSet(draft.claims)) /\ c # <<>> /\ n = Len(c)
    BY <1>1, <2>1, VerificationAssumption
  <2>3. c \in Seq(S) /\ other \in S
    BY <2>1, <2>2, SeqMonotonic
  <2>4. n \in Nat /\ n # 0 /\ DOMAIN c = 1..n
    BY <2>2, <2>3, EmptySeq, LenProperties
  <2>5. PICK b, a : b = Append(c, other) /\ a = <<other>>
    OBVIOUS
  <2>6. /\ b \in Seq(S) /\ b # <<>> /\ DOMAIN b = 1..(n + 1)
        /\ \A i \in 1..n : b[i] = c[i]
        /\ b[n + 1] = other
    BY <2>2, <2>3, <2>5, AppendProperties, LenProperties
  <2>7. a \in Seq(S) /\ a # <<>> /\ DOMAIN a = 1..1 /\ a[1] = other
    BY <2>3, <2>5
  <2>8. /\ \A x : x \in Citations!ToSet(c) <=> \E i \in 1..n : c[i] = x
        /\ \A x : x \in Citations!ToSet(b) <=> x \in Citations!ToSet(c) \/ x = other
        /\ \A x : x \in Citations!ToSet(a) <=> x = other
    <3>1. \A x : x \in Citations!ToSet(c) <=> \E i \in 1..n : c[i] = x
      BY <2>4 DEF Citations!ToSet
    <3>2. \A x : x \in Citations!ToSet(b) <=> \E i \in 1..(n + 1) : b[i] = x
      BY <2>6 DEF Citations!ToSet
    <3>3. \A i : i \in 1..(n + 1) <=> i \in 1..n \/ i = n + 1
      BY <2>4
    <3>4. \A x : x \in Citations!ToSet(b) <=> x \in Citations!ToSet(c) \/ x = other
      BY <2>6, <3>1, <3>2, <3>3
    <3>5. \A x : x \in Citations!ToSet(a) <=> x = other
      BY <2>7 DEF Citations!ToSet
    <3>. QED BY <3>1, <3>4, <3>5
  <2>9. \A claim \in Citations!ToSet(c) : claim.text /\ claim.id # other.id
    BY <1>1, <2>1
  <2>10. Citations!Refused(b) <=> Citations!Refused(c)
    <3>1. \A i \in 1..n : c[i].id # other.id
      BY <2>8, <2>9
    <3>2. \A i : i \in 1..(n + 1) <=> i \in 1..n \/ i = n + 1
      BY <2>4
    <3>3. (\E i, j \in DOMAIN b : i # j /\ b[i].id = b[j].id)
            <=> (\E i, j \in DOMAIN c : i # j /\ c[i].id = c[j].id)
      BY <2>4, <2>6, <3>1, <3>2
    <3>. QED BY <1>1, <2>8, <3>3 DEF Citations!Refused
  <2>11. ~ Citations!Refused(a)
    <3>1. \A i, j \in DOMAIN a : i = j
      BY <2>7
    <3>. QED BY <1>1, <2>8, <3>1 DEF Citations!Refused
  <2>12. PICK x \in Citations!ToSet(c) : TRUE
    <3>1. 1 \in 1..n
      BY <2>4
    <3>. QED BY <2>8, <3>1
  <2>13. Citations!EngineStatus(b, context, requested) = "verified" <=>
           /\ Citations!EngineStatus(c, context, requested) = "verified"
           /\ Citations!EngineStatus(a, context, requested) = "verified"
    <3>1. /\ \E claim : claim \in Citations!ToSet(a)
          /\ \E claim : claim \in Citations!ToSet(b)
          /\ \E claim : claim \in Citations!ToSet(c)
      BY <2>8, <2>12
    <3>2. Citations!EngineStatus(a, context, requested) = "verified" <=>
            Citations!ClaimStatus(other, context, requested) = "supported"
      BY <2>8, <2>11, <3>1, EngineVerifies
    <3>3. Citations!EngineStatus(c, context, requested) = "verified" <=>
           /\ ~ Citations!Refused(c)
           /\ \A claim \in Citations!ToSet(c) : Citations!ClaimStatus(claim, context, requested) = "supported"
      BY <3>1, EngineVerifies
    <3>4. Citations!EngineStatus(b, context, requested) = "verified" <=>
           /\ ~ Citations!Refused(b)
           /\ \A claim \in Citations!ToSet(b) : Citations!ClaimStatus(claim, context, requested) = "supported"
      BY <3>1, EngineVerifies
    <3>. QED BY <2>8, <2>10, <3>2, <3>3, <3>4
  <2>14. /\ \A claim \in Citations!ToSet(a) : claim.text
         /\ \A claim \in Citations!ToSet(b) : claim.text
         /\ \A claim \in Citations!ToSet(c) : claim.text
    BY <1>1, <2>8, <2>9
  <2>15. /\ both = [draft EXCEPT !.claims = b] /\ own = [draft EXCEPT !.claims = c]
         /\ alone = [draft EXCEPT !.claims = a]
    BY <1>1, <2>1, <2>5
  <2>16. Citations!Verify(both, context, requested, requirePacks) = "verified" <=>
           IF Allowed(draft, context, requirePacks)
           THEN Citations!WithoutEvidence(draft, context) = "verified"
           ELSE /\ Citations!EngineStatus(b, context, requested) = "verified"
                /\ Citations!TextFits(draft)
    BY <2>6, <2>14, <2>15, DraftVerifies
  <2>17. Citations!Verify(own, context, requested, requirePacks) = "verified" <=>
           IF Allowed(draft, context, requirePacks)
           THEN Citations!WithoutEvidence(draft, context) = "verified"
           ELSE /\ Citations!EngineStatus(c, context, requested) = "verified"
                /\ Citations!TextFits(draft)
    BY <2>2, <2>3, <2>14, <2>15, DraftVerifies
  <2>18. Citations!Verify(alone, context, requested, requirePacks) = "verified" <=>
           IF Allowed(draft, context, requirePacks)
           THEN Citations!WithoutEvidence(draft, context) = "verified"
           ELSE /\ Citations!EngineStatus(a, context, requested) = "verified"
                /\ Citations!TextFits(draft)
    BY <2>7, <2>14, <2>15, DraftVerifies
  <2>. QED BY <2>13, <2>16, <2>17, <2>18
<1>. QED BY <1>1 DEF Citations!ClaimsStandAlone

\* the support of a claim, of the words it shares with what it cites
LEMMA SupportGrows ==
  ASSUME NEW claim, NEW more, IsFiniteSet(claim.words), more.words = claim.words,
         NEW packs, NEW others, packs \subseteq others
  PROVE  /\ Citations!Support(claim, packs) = "supported" => Citations!Support(more, others) = "supported"
         /\ Citations!Support(claim, packs) = "partial" =>
              Citations!Support(more, others) \in {"supported", "partial"}
<1>1. PICK W, A, B : /\ W = claim.words
                     /\ A = W \intersect UNION {pack.words : pack \in packs}
                     /\ B = W \intersect UNION {pack.words : pack \in others}
  OBVIOUS
<1>2. A \subseteq B /\ B \subseteq W /\ IsFiniteSet(W)
  BY <1>1
<1>3. /\ IsFiniteSet(A) /\ IsFiniteSet(B)
      /\ Cardinality(A) <= Cardinality(B)
  BY <1>2, FS_Subset
<1>4. PICK a, b, w : a = Cardinality(A) /\ b = Cardinality(B) /\ w = Cardinality(W)
  OBVIOUS
<1>5. a \in Nat /\ b \in Nat /\ w \in Nat /\ a <= b
  BY <1>2, <1>3, <1>4, FS_CardinalityType
<1>6. /\ Citations!Cardinality(A) = a /\ Citations!Cardinality(B) = b /\ Citations!Cardinality(W) = w
  BY <1>4 DEF Citations!Cardinality, Cardinality
<1>7. Citations!Overlap(claim, packs) = a /\ Citations!Overlap(more, others) = b
  BY <1>1, <1>6 DEF Citations!Overlap
<1>8. /\ 100 * a >= 25 * w => 100 * b >= 25 * w
      /\ 100 * a >= 12 * w => 100 * b >= 12 * w
      /\ 100 * a >= 25 * w => 100 * a >= 12 * w
  BY <1>5
<1>9. Citations!Support(claim, packs) = IF w > 0 /\ 100 * a >= 25 * w THEN "supported"
                                       ELSE IF w > 0 /\ 100 * a >= 12 * w THEN "partial"
                                       ELSE "unsupported"
  BY <1>1, <1>6, <1>7 DEF Citations!Support, Citations!MinSupportedOverlap, Citations!MinPartialOverlap
<1>10. Citations!Support(more, others) = IF w > 0 /\ 100 * b >= 25 * w THEN "supported"
                                         ELSE IF w > 0 /\ 100 * b >= 12 * w THEN "partial"
                                         ELSE "unsupported"
  BY <1>1, <1>6, <1>7 DEF Citations!Support, Citations!MinSupportedOverlap, Citations!MinPartialOverlap
<1>. QED BY <1>8, <1>9, <1>10

\* One more sound citation keeps the support of a claim.
LEMMA EvidenceAdds ==
  ASSUME NEW draft \in Drafts, NEW claim \in Citations!ToSet(draft.claims), NEW context
  PROVE  Citations!EvidenceAddsUp(claim, context)
<1>. SUFFICES ASSUME NEW token \in DOMAIN context, NEW more,
                     more = [claim EXCEPT !.tokens = Append(@, token)],
                     claim.school = none, Citations!TokenFits(token, claim, context),
                     Citations!ClaimStatus(claim, context, none) \in {"supported", "partial"}
              PROVE  Citations!ClaimStatus(more, context, none)
                       \in {"supported", Citations!ClaimStatus(claim, context, none)}
  BY DEF Citations!EvidenceAddsUp
<1>1. /\ DOMAIN claim = {"id", "text", "tokens", "words", "quote", "school", "reference"}
      /\ claim.tokens \in Seq(ToSet(claim.tokens)) /\ IsFiniteSet(claim.words)
  BY VerificationAssumption DEF Citations!ToSet, ToSet
<1>2. /\ more.tokens = Append(claim.tokens, token) /\ more.words = claim.words /\ more.quote = claim.quote
      /\ more.school = none /\ more.reference = claim.reference
  BY <1>1
<1>3. /\ more.tokens # <<>>
      /\ \A t : t \in Citations!ToSet(more.tokens) <=> t \in Citations!ToSet(claim.tokens) \/ t = token
  <2>1. PICK s, S, n : s = claim.tokens /\ S = ToSet(claim.tokens) \union {token} /\ n = Len(claim.tokens)
    OBVIOUS
  <2>2. s \in Seq(S) /\ token \in S /\ n = Len(s)
    BY <1>1, <2>1, SeqMonotonic
  <2>3. n \in Nat /\ DOMAIN s = 1..n
    BY <2>2, LenProperties
  <2>4. PICK m : m = Append(s, token)
    OBVIOUS
  <2>5. /\ m \in Seq(S) /\ m # <<>> /\ DOMAIN m = 1..(n + 1)
        /\ \A i \in 1..n : m[i] = s[i]
        /\ m[n + 1] = token
    BY <2>2, <2>4, AppendProperties, LenProperties
  <2>6. \A i : i \in 1..(n + 1) <=> i \in 1..n \/ i = n + 1
    BY <2>3
  <2>7. \A t : t \in Citations!ToSet(s) <=> \E i \in 1..n : s[i] = t
    BY <2>3 DEF Citations!ToSet
  <2>8. \A t : t \in Citations!ToSet(m) <=> \E i \in 1..(n + 1) : m[i] = t
    BY <2>5 DEF Citations!ToSet
  <2>9. \A t : t \in Citations!ToSet(m) <=> t \in Citations!ToSet(s) \/ t = token
    BY <2>5, <2>6, <2>7, <2>8
  <2>. QED BY <1>2, <2>1, <2>4, <2>5, <2>9
<1>4. PICK packs, others : packs = Citations!Cited(claim, context) /\ others = Citations!Cited(more, context)
  OBVIOUS
<1>5. packs \subseteq others
  BY <1>3, <1>4 DEF Citations!Cited
<1>6. /\ Citations!Support(claim, packs) = "supported" => Citations!Support(more, others) = "supported"
      /\ Citations!Support(claim, packs) = "partial" =>
           Citations!Support(more, others) \in {"supported", "partial"}
  BY <1>1, <1>2, <1>5, SupportGrows
<1>7. \A t : Citations!TokenFits(t, more, context) <=> Citations!TokenFits(t, claim, context)
  BY <1>2 DEF Citations!TokenFits
<1>8. /\ \A t \in Citations!ToSet(claim.tokens) : Citations!TokenFits(t, claim, context)
      /\ Citations!QuoteFits(claim, packs)
      /\ Citations!ClaimStatus(claim, context, none) = Citations!Support(claim, packs)
  BY <1>4 DEF Citations!ClaimStatus
<1>9. \A t \in Citations!ToSet(more.tokens) : Citations!TokenFits(t, more, context)
  BY <1>3, <1>7, <1>8
<1>10. Citations!QuoteFits(more, others)
  BY <1>2, <1>5, <1>8 DEF Citations!QuoteFits
<1>11. Citations!SchoolFits(more, others, none)
  BY <1>2 DEF Citations!SchoolFits
<1>12. Citations!ClaimStatus(more, context, none) = Citations!Support(more, others)
  BY <1>3, <1>4, <1>9, <1>10, <1>11 DEF Citations!ClaimStatus
<1>. QED BY <1>6, <1>8, <1>12

-----------------------------------------------------------------------------
(* Sorting: a finite set in the order of its keys.                         *)

\* the keys of a sort: rows of n numbers
LEMMA BeforeIsTotal ==
  ASSUME NEW n \in Nat, NEW a \in [1..n -> Int], NEW b \in [1..n -> Int], a # b
  PROVE  Search!Before(a, b) \/ Search!Before(b, a)
<1>. DEFINE T == {i \in 1..n : a[i] # b[i]}
<1>1. T \in SUBSET Nat /\ T # {}
  OBVIOUS
<1>2. PICK i \in T : \A j \in T : i <= j
  <2>. HIDE DEF T
  <2>. QED BY <1>1, Smallest
<1>3. i \in 1..n /\ a[i] # b[i] /\ a[i] \in Int /\ b[i] \in Int
  BY <1>2
<1>4. \A j \in 1..(i - 1) : a[j] = b[j]
  <2>. SUFFICES ASSUME NEW j \in 1..(i - 1) PROVE a[j] = b[j]
    OBVIOUS
  <2>1. j \in 1..n /\ ~ (i <= j)
    BY <1>3
  <2>2. j \notin T
    BY <1>2, <2>1
  <2>. QED BY <2>1, <2>2
<1>5. a[i] > b[i] \/ b[i] > a[i]
  BY <1>3
<1>. QED BY <1>3, <1>4, <1>5 DEF Search!Before

\* No key is before itself.
LEMMA BeforeIsStrict ==
  ASSUME NEW n \in Nat, NEW a \in [1..n -> Int]
  PROVE  ~ Search!Before(a, a)
BY DEF Search!Before

\* Keys before others are before those behind them.
LEMMA BeforeIsTransitive ==
  ASSUME NEW n \in Nat, NEW a \in [1..n -> Int], NEW b \in [1..n -> Int], NEW c \in [1..n -> Int],
         Search!Before(a, b), Search!Before(b, c)
  PROVE  Search!Before(a, c)
<1>1. PICK i \in 1..n : a[i] > b[i] /\ \A p \in 1..(i - 1) : a[p] = b[p]
  BY DEF Search!Before
<1>2. PICK j \in 1..n : b[j] > c[j] /\ \A p \in 1..(j - 1) : b[p] = c[p]
  BY DEF Search!Before
<1>3. PICK m \in 1..n : m <= i /\ m <= j /\ (m = i \/ m = j)
  <2>1. CASE i <= j
    <3>1. i \in 1..n /\ i <= i
      OBVIOUS
    <3>. QED BY <2>1, <3>1
  <2>2. CASE ~ (i <= j)
    <3>1. j \in 1..n /\ j <= j /\ j <= i
      BY <2>2
    <3>. QED BY <3>1
  <2>. QED BY <2>1, <2>2
<1>4. \A p \in 1..(m - 1) : a[p] = c[p]
  <2>1. \A p \in 1..(m - 1) : p \in 1..(i - 1) /\ p \in 1..(j - 1)
    BY <1>3
  <2>. QED BY <1>1, <1>2, <2>1
<1>5. a[m] > c[m]
  <2>1. a[m] \in Int /\ b[m] \in Int /\ c[m] \in Int
    OBVIOUS
  <2>2. CASE m = i /\ m = j
    BY <1>1, <1>2, <2>1, <2>2
  <2>3. CASE m = i /\ m # j
    <3>1. m \in 1..(j - 1)
      BY <1>3, <2>3
    <3>2. b[m] = c[m]
      BY <1>2, <3>1
    <3>. QED BY <1>1, <2>3, <3>2
  <2>4. CASE m # i
    <3>1. m \in 1..(i - 1) /\ m = j
      BY <1>3, <2>4
    <3>2. a[m] = b[m]
      BY <1>1, <3>1
    <3>. QED BY <1>2, <3>1, <3>2
  <2>. QED BY <2>2, <2>3, <2>4
<1>. QED BY <1>4, <1>5 DEF Search!Before

\* s brings n members of a set in the order of their keys
Orders(s, n, S, key) ==
  /\ s \in [1..n -> S]
  /\ \A i, j \in 1..n : i < j => Search!Before(key[s[i]], key[s[j]])

\* every member of a set has a key of its own
Keyed(S, key, n) ==
  /\ key \in [S -> [1..n -> Int]]
  /\ \A x, y \in S : x # y => key[x] # key[y]

\* a member is inserted where it belongs
LEMMA Insertion ==
  ASSUME NEW S, NEW n \in Nat, NEW key, Keyed(S, key, n), NEW R \in SUBSET S, NEW x \in S, x \notin R,
         NEW m \in Nat, NEW s, Orders(s, m, R, key)
  PROVE  \E t : Orders(t, m + 1, R \union {x}, key)
<1>. DEFINE P == {i \in 1..(m + 1) : i = m + 1 \/ Search!Before(key[x], key[s[i]])}
<1>1. P \in SUBSET Nat /\ P # {}
  OBVIOUS
<1>2. PICK p \in P : \A i \in P : p <= i
  <2>. HIDE DEF P
  <2>. QED BY <1>1, Smallest
<1>3. p \in 1..(m + 1) /\ (p = m + 1 \/ Search!Before(key[x], key[s[p]]))
  BY <1>2
<1>4. s \in [1..m -> R] /\ \A i, j \in 1..m : i < j => Search!Before(key[s[i]], key[s[j]])
  BY DEF Orders
<1>5. /\ key[x] \in [1..n -> Int]
      /\ \A i \in 1..m : s[i] \in R /\ key[s[i]] \in [1..n -> Int] /\ key[s[i]] # key[x]
  BY <1>4 DEF Keyed
<1>6. \A i \in 1..m : i < p => Search!Before(key[s[i]], key[x])
  <2>. SUFFICES ASSUME NEW i \in 1..m, i < p PROVE Search!Before(key[s[i]], key[x])
    OBVIOUS
  <2>1. i \in 1..(m + 1) /\ ~ (p <= i)
    BY <1>3
  <2>2. i \notin P
    BY <1>2, <2>1
  <2>3. ~ Search!Before(key[x], key[s[i]])
    BY <2>1, <2>2
  <2>. QED BY <1>5, <2>3, BeforeIsTotal
<1>7. \A i \in 1..m : p <= i => Search!Before(key[x], key[s[i]])
  <2>. SUFFICES ASSUME NEW i \in 1..m, p <= i PROVE Search!Before(key[x], key[s[i]])
    OBVIOUS
  <2>1. p \in 1..m /\ Search!Before(key[x], key[s[p]])
    BY <1>3
  <2>2. CASE i = p
    BY <2>1, <2>2
  <2>3. CASE i # p
    <3>1. Search!Before(key[s[p]], key[s[i]])
      BY <1>4, <2>1, <2>3
    <3>. QED BY <1>5, <2>1, <3>1, BeforeIsTransitive
  <2>. QED BY <2>2, <2>3
<1>8. PICK t : t = [i \in 1..(m + 1) |-> IF i < p THEN s[i] ELSE IF i = p THEN x ELSE s[i - 1]]
  OBVIOUS
<1>9. /\ \A i \in 1..(m + 1) : i < p => t[i] = s[i] /\ i \in 1..m
      /\ \A i \in 1..(m + 1) : i > p => t[i] = s[i - 1] /\ i - 1 \in 1..m /\ p <= i - 1
      /\ t[p] = x
  BY <1>3, <1>8
<1>10. t \in [1..(m + 1) -> R \union {x}]
  <2>1. \A i \in 1..(m + 1) : i < p \/ i = p \/ i > p
    BY <1>3
  <2>2. \A i \in 1..(m + 1) : t[i] \in R \union {x}
    BY <1>5, <1>9, <2>1
  <2>. QED BY <1>8, <2>2
<1>11. ASSUME NEW i \in 1..(m + 1), NEW j \in 1..(m + 1), i < j
       PROVE  Search!Before(key[t[i]], key[t[j]])
  <2>1. CASE j < p
    <3>1. i < p
      BY <1>3, <1>11, <2>1
    <3>. QED BY <1>4, <1>9, <1>11, <2>1, <3>1
  <2>2. CASE j = p
    BY <1>6, <1>9, <1>11, <2>2
  <2>3. CASE j > p /\ i < p
    <3>1. i < j - 1
      BY <1>3, <2>3
    <3>. QED BY <1>4, <1>9, <2>3, <3>1
  <2>4. CASE i = p
    BY <1>7, <1>9, <1>11, <2>4
  <2>5. CASE i > p
    <3>1. j > p /\ i - 1 < j - 1
      BY <1>3, <1>11, <2>5
    <3>. QED BY <1>4, <1>9, <2>5, <3>1
  <2>. QED BY <1>3, <1>11, <2>1, <2>2, <2>3, <2>4, <2>5
<1>. QED BY <1>10, <1>11 DEF Orders

\* a set can be brought in the order of its keys
Ordered(S, key) == \E s : Orders(s, Cardinality(S), S, key)

\* Every finite set can: insertion of a member into the order of the others.
LEMMA OrderExists ==
  ASSUME NEW S, IsFiniteSet(S), NEW n \in Nat, NEW key, Keyed(S, key, n)
  PROVE  Ordered(S, key)
<1>. DEFINE T == {m \in Nat : \E R \in SUBSET S : Cardinality(R) = m /\ ~ Ordered(R, key)}
<1>1. T = {}
  <2>. SUFFICES ASSUME T # {} PROVE FALSE
    OBVIOUS
  <2>1. PICK m \in T : \A p \in T : m <= p
    <3>1. T \in SUBSET Nat
      OBVIOUS
    <3>. HIDE DEF T
    <3>. QED BY <3>1, Smallest
  <2>2. PICK R \in SUBSET S : Cardinality(R) = m /\ ~ Ordered(R, key)
    BY <2>1
  <2>3. IsFiniteSet(R) /\ m \in Nat
    BY <2>1, FS_Subset
  <2>4. R # {}
    <3>1. ASSUME R = {} PROVE Ordered(R, key)
      <4>1. Cardinality(R) = 0
        BY <3>1, FS_EmptySet
      <4>2. PICK s : s = [i \in 1..0 |-> i]
        OBVIOUS
      <4>3. Orders(s, 0, R, key)
        BY <4>2 DEF Orders
      <4>. QED BY <4>1, <4>3 DEF Ordered
    <3>. QED BY <2>2, <3>1
  <2>5. PICK x \in R : TRUE
    BY <2>4
  <2>6. PICK Q : Q = R \ {x}
    OBVIOUS
  <2>7. IsFiniteSet(Q) /\ Cardinality(Q) = m - 1 /\ Q \in SUBSET S /\ x \notin Q /\ R = Q \union {x} /\ x \in S
    BY <2>2, <2>3, <2>5, <2>6, FS_RemoveElement
  <2>8. Cardinality(Q) \in Nat
    BY <2>7, FS_CardinalityType
  <2>9. Ordered(Q, key)
    <3>1. ~ (m <= m - 1)
      BY <2>3
    <3>2. m - 1 \notin T
      BY <2>1, <3>1
    <3>. QED BY <2>7, <2>8, <3>2
  <2>10. PICK s : Orders(s, m - 1, Q, key)
    BY <2>7, <2>9 DEF Ordered
  <2>11. PICK k0 \in Nat : k0 = m - 1
    BY <2>7, <2>8
  <2>12. PICK t : Orders(t, k0 + 1, Q \union {x}, key)
    BY <2>7, <2>10, <2>11, Insertion
  <2>13. k0 + 1 = m
    BY <2>3, <2>11
  <2>. QED BY <2>2, <2>7, <2>12, <2>13 DEF Ordered
<1>2. Cardinality(S) \in Nat /\ Cardinality(S) \notin T
  BY <1>1, FS_CardinalityType
<1>. QED BY <1>2

\* the sort brings every member once, each before those of lower keys
LEMMA SortedIsOrder ==
  ASSUME NEW S, IsFiniteSet(S), NEW n \in Nat, NEW key, Keyed(S, key, n),
         NEW s, s = Search!Sorted(S, key)
  PROVE  /\ Cardinality(S) \in Nat /\ Orders(s, Cardinality(S), S, key)
         /\ \A i, j \in 1..Cardinality(S) : i # j => s[i] # s[j]
         /\ \A x \in S : \E i \in 1..Cardinality(S) : s[i] = x
<1>1. PICK m \in Nat : m = Cardinality(S)
  BY FS_CardinalityType
<1>2. Search!SetToSeqs(S) = {f \in [1..m -> S] : \A i, j \in 1..m : i # j => f[i] # f[j]}
  <2>1. Search!Cardinality(S) = m
    BY <1>1 DEF Search!Cardinality, Cardinality
  <2>. QED BY <2>1 DEF Search!SetToSeqs
<1>3. PICK t : Orders(t, m, S, key)
  BY <1>1, OrderExists DEF Ordered
<1>4. t \in Search!SetToSeqs(S)
  <2>1. ASSUME NEW i \in 1..m, NEW j \in 1..m, i # j PROVE t[i] # t[j]
    <3>1. key[t[i]] \in [1..n -> Int] /\ key[t[j]] \in [1..n -> Int]
      BY <1>3 DEF Orders, Keyed
    <3>2. i < j \/ j < i
      BY <2>1
    <3>3. Search!Before(key[t[i]], key[t[j]]) \/ Search!Before(key[t[j]], key[t[i]])
      BY <1>3, <3>2 DEF Orders
    <3>. QED BY <3>1, <3>3, BeforeIsStrict
  <2>. QED BY <1>2, <1>3, <2>1 DEF Orders
<1>5. \A i, j \in DOMAIN t : i < j => Search!Before(key[t[i]], key[t[j]])
  BY <1>3 DEF Orders
<1>6. /\ s \in Search!SetToSeqs(S)
      /\ \A i, j \in DOMAIN s : i < j => Search!Before(key[s[i]], key[s[j]])
  BY <1>4, <1>5 DEF Search!Sorted
<1>7. s \in [1..m -> S] /\ \A i, j \in 1..m : i # j => s[i] # s[j]
  BY <1>2, <1>6
<1>8. Orders(s, m, S, key)
  BY <1>6, <1>7 DEF Orders
<1>9. \A x \in S : \E i \in 1..m : s[i] = x
  <2>1. s \in Injection(1..m, S)
    BY <1>7 DEF Injection, IsInjective
  <2>2. Cardinality(1..m) = m
    BY FS_Interval
  <2>3. s \in Surjection(1..m, S)
    BY <1>1, <2>1, <2>2, FS_Injection
  <2>. QED BY <2>3 DEF Surjection
<1>. QED BY <1>1, <1>7, <1>8, <1>9

-----------------------------------------------------------------------------
(* Scores: what the searches find, normalised and added up.                *)

\* Division keeps an order.
LEMMA DivisionIsMonotone ==
  ASSUME NEW a \in Nat, NEW b \in Nat, a <= b, NEW m \in Nat \ {0}
  PROVE  a \div m \in Nat /\ b \div m \in Nat /\ a \div m <= b \div m
<1>1. PICK q : q = a \div m
  OBVIOUS
<1>2. q \in Nat
  <2>1. 0 * m <= a
    OBVIOUS
  <2>. QED BY <1>1, <2>1, WholeBatches
<1>3. q * m <= a
  <2>1. a = m * q + (a % m) /\ a % m \in 0..(m - 1)
    BY <1>1, Z3
  <2>2. m * q = q * m /\ q * m \in Int
    BY <1>2
  <2>3. PICK p \in Int, r \in Nat : p = q * m /\ r = a % m
    BY <2>1, <2>2
  <2>4. a = p + r
    BY <2>1, <2>2, <2>3
  <2>. QED BY <2>3, <2>4
<1>4. q * m <= b
  <2>1. PICK p \in Int : p = q * m
    BY <1>2
  <2>. QED BY <1>3, <2>1
<1>5. b \div m \in Nat /\ q <= b \div m
  BY <1>2, <1>4, WholeBatches
<1>. QED BY <1>1, <1>2, <1>5

\* Normalising by the best match keeps the order of matches.
LEMMA NormalizedIsMonotone ==
  ASSUME NEW v \in Nat, NEW w \in Nat, v <= w, NEW m \in Nat
  PROVE  /\ Search!Normalized(v, m) \in Nat /\ Search!Normalized(w, m) \in Nat
         /\ Search!Normalized(v, m) <= Search!Normalized(w, m)
<1>1. CASE m = 0
  BY <1>1 DEF Search!Normalized
<1>2. CASE m # 0
  <2>1. PICK a \in Nat, b \in Nat : a = 1000 * v /\ b = 1000 * w
    OBVIOUS
  <2>2. a <= b /\ m \in Nat \ {0}
    BY <1>2, <2>1
  <2>3. a \div m \in Nat /\ b \div m \in Nat /\ a \div m <= b \div m
    BY <2>2, DivisionIsMonotone
  <2>4. PICK p \in Nat, q \in Nat : p = a \div m /\ q = b \div m /\ p <= q
    BY <2>3
  <2>5. /\ Search!Normalized(v, m) = IF v <= 0 THEN 0 ELSE p
        /\ Search!Normalized(w, m) = IF w <= 0 THEN 0 ELSE q
    BY <1>2, <2>1, <2>4 DEF Search!Normalized
  <2>. QED BY <2>4, <2>5
<1>. QED BY <1>1, <1>2

\* a similarity in thousandths
Cosine(s) == s \in (-1000)..1000

\* The normalised similarity keeps the order of similarities.
LEMMA SimilarityIsMonotone ==
  ASSUME NEW s, NEW t, Cosine(s), Cosine(t), s <= t
  PROVE  /\ Search!Similarity(s) \in Nat /\ Search!Similarity(t) \in Nat
         /\ Search!Similarity(s) <= Search!Similarity(t)
<1>1. s # noScore /\ t # noScore
  BY RetrievalAssumption DEF Cosine
<1>2. PICK a \in Nat, b \in Nat : a = s + 1000 /\ b = t + 1000 /\ a <= b
  BY DEF Cosine
<1>3. a \div 2 \in Nat /\ b \div 2 \in Nat /\ a \div 2 <= b \div 2
  BY <1>2, DivisionIsMonotone
<1>4. Search!Similarity(s) = a \div 2 /\ Search!Similarity(t) = b \div 2
  BY <1>1, <1>2 DEF Search!Similarity
<1>. QED BY <1>3, <1>4

\* A chunk without embedding counts as the opposite.
LEMMA NoSimilarity == Search!Similarity(noScore) = 0
BY DEF Search!Similarity

\* what the searches find of each chunk for a query
Found == query \in Queries /\ found \in [Chunks -> Signals] /\ Search!Possible

\* The share of a query in a content is a number, no greater than its terms.
LEMMA ShareIsNumber ==
  ASSUME NEW t \in Nat, NEW w \in Nat \ {0}
  PROVE  /\ (1000 * t) \div w \in Nat
         /\ (1000 * t) \div w <= 1000 * t
<1>1. PICK a \in Nat : a = 1000 * t
  OBVIOUS
<1>2. a \div w \in Nat /\ a \div w <= a
  BY Z3
<1>. QED BY <1>1, <1>2

\* Every match is worth a number.
LEMMA MatchesAreNumbers ==
  ASSUME query.terms \in Nat, NEW f,
         f.match \in {"reference", "prefix", "content", "word", "none"},
         f.hits \in Nat, f.words \in Nat \ {0}
  PROVE  Search!Exact(f.match) \in Nat /\ Search!FullText(f) \in Nat
<1>1. PICK m, h, v :
        /\ m = f.match /\ h = 1000 * f.hits /\ v = (1000 * query.terms) \div f.words
        /\ h \in Nat /\ v \in Nat
  <2>1. 1000 * f.hits \in Nat
    OBVIOUS
  <2>2. (1000 * query.terms) \div f.words \in Nat
    BY ShareIsNumber
  <2>. QED BY <2>1, <2>2
<1>2. /\ m = "reference" => Search!FullText(f) = 1000000
      /\ m = "prefix" => Search!FullText(f) = 150000
      /\ m = "content" => Search!FullText(f) = 25000 + v
      /\ m = "word" => Search!FullText(f) = h
      /\ m = "none" => Search!FullText(f) = 0
  BY <1>1 DEF Search!FullText
<1>3. Search!Exact(m) \in Nat
  BY DEF Search!Exact
<1>. QED BY <1>1, <1>2, <1>3

\* A better kind of match is a better score, up to 25 terms.
LEMMA BetterKind ==
  ASSUME query.terms \in Nat, query.terms <= 25, NEW f, NEW g,
         f.match \in {"reference", "prefix", "content", "word", "none"},
         g.match \in {"reference", "prefix", "content", "word", "none"},
         f.hits \in Nat, f.words \in Nat \ {0}, g.hits \in Nat, g.words \in Nat \ {0},
         g.hits <= query.terms, Search!MatchRank(f.match) > Search!MatchRank(g.match)
  PROVE  /\ Search!Exact(g.match) <= Search!Exact(f.match)
         /\ Search!FullText(g) <= Search!FullText(f)
<1>1. PICK m, n, h, k, v, w :
        /\ m = f.match /\ h = 1000 * f.hits /\ v = (1000 * query.terms) \div f.words
        /\ n = g.match /\ k = 1000 * g.hits /\ w = (1000 * query.terms) \div g.words
        /\ h \in Nat /\ k \in Nat /\ v \in Nat /\ w \in Nat
  <2>1. 1000 * f.hits \in Nat /\ 1000 * g.hits \in Nat
    OBVIOUS
  <2>2. (1000 * query.terms) \div f.words \in Nat /\ (1000 * query.terms) \div g.words \in Nat
    BY ShareIsNumber
  <2>. QED BY <2>1, <2>2
<1>2. /\ m = "reference" => Search!FullText(f) = 1000000
      /\ m = "prefix" => Search!FullText(f) = 150000
      /\ m = "content" => Search!FullText(f) = 25000 + v
      /\ m = "word" => Search!FullText(f) = h
      /\ m = "none" => Search!FullText(f) = 0
  BY <1>1 DEF Search!FullText
<1>3. /\ n = "reference" => Search!FullText(g) = 1000000
      /\ n = "prefix" => Search!FullText(g) = 150000
      /\ n = "content" => Search!FullText(g) = 25000 + w
      /\ n = "word" => Search!FullText(g) = k
      /\ n = "none" => Search!FullText(g) = 0
  BY <1>1 DEF Search!FullText
<1>4. k <= 25000 /\ w <= 25000
  <2>1. (1000 * query.terms) \div g.words <= 1000 * query.terms
    BY ShareIsNumber
  <2>. QED BY <1>1, <2>1
<1>5. /\ m \in {"reference", "prefix", "content", "word"} /\ n \in {"prefix", "content", "word", "none"}
      /\ m = "prefix" => n \in {"content", "word", "none"}
      /\ m = "content" => n \in {"word", "none"}
      /\ m = "word" => n = "none"
  BY <1>1 DEF Search!MatchRank
<1>6. Search!FullText(g) <= Search!FullText(f)
  BY <1>1, <1>2, <1>3, <1>4, <1>5
<1>7. Search!Exact(n) <= Search!Exact(m)
  BY <1>5 DEF Search!Exact
<1>. QED BY <1>1, <1>6, <1>7

\* What is found of a chunk are numbers the scores are made of.
LEMMA FoundIsTyped ==
  ASSUME Found, NEW c \in Chunks
  PROVE  /\ c \in Int
         /\ found[c].match \in {"reference", "prefix", "content", "word", "none"}
         /\ (found[c].similarity = noScore \/ Cosine(found[c].similarity))
         /\ found[c].reliability \in Nat
         /\ found[c].hits \in Nat /\ found[c].hits <= query.terms
         /\ found[c].words \in Nat \ {0} /\ query.terms \in Nat
         /\ Search!Exact(found[c].match) \in Nat /\ Search!FullText(found[c]) \in Nat
         /\ Search!Similarity(found[c].similarity) \in Nat
<1>1. found[c] \in Signals
  BY DEF Found
<1>2. PICK m, x, r : m = found[c].match /\ x = found[c].similarity /\ r = found[c].reliability
  OBVIOUS
<1>3. /\ m \in {"reference", "prefix", "content", "word", "none"}
      /\ (x = noScore \/ Cosine(x))
      /\ r \in Nat
  <2>1. PICK f \in Signals : f = found[c]
    BY <1>1
  <2>2. /\ f.match \in {"reference", "prefix", "content", "word", "none"}
        /\ f.similarity \in (-1000)..1000 \union {noScore}
        /\ f.reliability \in Nat
    BY RetrievalAssumption
  <2>3. m = f.match /\ x = f.similarity /\ r = f.reliability
    BY <1>2, <2>1
  <2>4. x \in (-1000)..1000 \union {noScore}
    BY <2>2, <2>3
  <2>. QED BY <2>2, <2>3, <2>4 DEF Cosine
<1>4. Search!Similarity(x) \in Nat
  <2>1. CASE x = noScore
    BY <2>1, NoSimilarity
  <2>2. CASE x # noScore
    <3>1. Cosine(x)
      BY <1>3, <2>2
    <3>2. x <= x
      BY <3>1 DEF Cosine
    <3>. QED BY <3>1, <3>2, SimilarityIsMonotone
  <2>. QED BY <2>1, <2>2
<1>5. /\ found[c].hits \in Nat /\ found[c].words \in Nat \ {0} /\ query.terms \in Nat
      /\ found[c].hits <= query.terms
  BY <1>1, RetrievalAssumption DEF Found, Search!Possible
<1>6. Search!Exact(found[c].match) \in Nat /\ Search!FullText(found[c]) \in Nat
  BY <1>2, <1>3, <1>5, MatchesAreNumbers
<1>7. c \in Int
  BY RetrievalAssumption
<1>. QED BY <1>2, <1>3, <1>4, <1>5, <1>6, <1>7

\* The candidates are some of the chunks, finitely many.
LEMMA CandidatesAreChunks ==
  /\ Search!Candidates \subseteq Chunks /\ IsFiniteSet(Search!Candidates)
<1>1. Search!Candidates \in SUBSET Chunks
  BY DEF Search!Candidates
<1>2. IsFiniteSet(Chunks)
  BY RetrievalAssumption
<1>. QED BY <1>1, <1>2, FS_Subset

\* The best matches are numbers.
LEMMA MaximaAreNumbers ==
  ASSUME Found
  PROVE  Search!MaxExact \in Nat /\ Search!MaxFullText \in Nat
<1>1. PICK C : C = Search!Candidates /\ C \subseteq Chunks /\ IsFiniteSet(C)
  BY CandidatesAreChunks
<1>2. ASSUME NEW f \in [C -> Nat], NEW S, S = {f[c] : c \in C} \union {0}
      PROVE  Max(S) \in Nat
  <2>1. PICK I : I = {f[c] : c \in C}
    OBVIOUS
  <2>2. f \in [C -> I] /\ \A y \in I : \E c \in C : f[c] = y
    BY <2>1
  <2>3. IsFiniteSet(I)
    <3>1. IsFiniteSet(C)
      BY <1>1
    <3>. QED BY <2>2, <3>1, ImageIsFinite
  <2>4. IsFiniteSet(S) /\ S # {} /\ S \in SUBSET Int /\ S \subseteq Nat
    <3>1. S = I \union {0} /\ I \subseteq Nat
      BY <1>2, <2>1
    <3>2. IsFiniteSet(I \union {0})
      BY <2>3, FS_AddElement
    <3>. QED BY <3>1, <3>2
  <2>. QED BY <2>4, MaxIsGreatest
<1>3. PICK f, g : f = [c \in C |-> Search!Exact(found[c].match)] /\ g = [c \in C |-> Search!FullText(found[c])]
  OBVIOUS
<1>4. f \in [C -> Nat] /\ g \in [C -> Nat]
  BY <1>1, <1>3, FoundIsTyped
<1>5. PICK S, T : S = {f[c] : c \in C} \union {0} /\ T = {g[c] : c \in C} \union {0}
  OBVIOUS
<1>6. Max(S) \in Nat /\ Max(T) \in Nat
  BY <1>2, <1>4, <1>5
<1>7. /\ S = {Search!Exact(found[c].match) : c \in Search!Candidates} \union {0}
      /\ T = {Search!FullText(found[c]) : c \in Search!Candidates} \union {0}
  BY <1>1, <1>3, <1>5
<1>8. Search!MaxExact = Max(S) /\ Search!MaxFullText = Max(T)
  BY <1>7 DEF Search!MaxExact, Search!MaxFullText, Search!Max, Max
<1>. QED BY <1>6, <1>8

\* the parts of a hybrid score
Parts(c, a, b, s, r) ==
  /\ a \in Nat /\ b \in Nat /\ s \in Nat /\ r \in Nat
  /\ a = Search!Normalized(Search!Exact(found[c].match), Search!MaxExact)
  /\ b = Search!Normalized(Search!FullText(found[c]), Search!MaxFullText)
  /\ s = Search!Similarity(found[c].similarity)
  /\ r = found[c].reliability
  /\ Search!Hybrid(c) = 100 * (35 * a + 25 * b + 30 * s + 10 * 200 * r)

\* A hybrid score is the sum of its parts.
LEMMA HybridIsSum ==
  ASSUME Found, NEW c \in Chunks
  PROVE  \E a, b, s, r : Parts(c, a, b, s, r)
<1>1. PICK e \in Nat, t \in Nat : e = Search!Exact(found[c].match) /\ t = Search!FullText(found[c])
  BY FoundIsTyped
<1>2. /\ Search!Normalized(e, Search!MaxExact) \in Nat
      /\ Search!Normalized(t, Search!MaxFullText) \in Nat
  BY MaximaAreNumbers, NormalizedIsMonotone, e <= e, t <= t
<1>3. Search!Similarity(found[c].similarity) \in Nat /\ found[c].reliability \in Nat
  BY FoundIsTyped
<1>4. PICK a, b, s, r : /\ a = Search!Normalized(e, Search!MaxExact)
                        /\ b = Search!Normalized(t, Search!MaxFullText)
                        /\ s = Search!Similarity(found[c].similarity)
                        /\ r = found[c].reliability
  OBVIOUS
<1>5. Parts(c, a, b, s, r)
  BY <1>1, <1>2, <1>3, <1>4 DEF Parts, Search!Hybrid
<1>. QED BY <1>5

\* No part of the hybrid score is lower for a chunk that is no worse.
LEMMA BetterAhead ==
  ASSUME Found
  PROVE  Search!BetterIsAhead
<1>. SUFFICES ASSUME NEW c \in Search!Candidates, NEW d \in Search!Candidates, Search!Dominates(c, d)
              PROVE  Search!Hybrid(c) >= Search!Hybrid(d)
  BY DEF Search!BetterIsAhead
<1>1. c \in Chunks /\ d \in Chunks
  BY CandidatesAreChunks
<1>2. PICK a1, b1, s1x, r1 : Parts(c, a1, b1, s1x, r1)
  BY <1>1, HybridIsSum
<1>3. PICK a2, b2, s2x, r2 : Parts(d, a2, b2, s2x, r2)
  BY <1>1, HybridIsSum
<1>4. /\ Search!Exact(found[d].match) <= Search!Exact(found[c].match)
      /\ Search!FullText(found[d]) <= Search!FullText(found[c])
  <2>1. CASE /\ found[c].match = found[d].match
             /\ Search!FullText(found[c]) >= Search!FullText(found[d])
    <3>1. Search!Exact(found[c].match) \in Nat
      BY <1>1, FoundIsTyped
    <3>2. /\ Search!FullText(found[c]) \in Nat /\ Search!FullText(found[d]) \in Nat
      BY <1>1, FoundIsTyped
    <3>. QED BY <2>1, <3>1, <3>2
  <2>2. CASE /\ Search!MatchRank(found[c].match) > Search!MatchRank(found[d].match)
             /\ query.terms <= 25
    BY <1>1, <2>2, FoundIsTyped, BetterKind
  <2>. QED BY <2>1, <2>2 DEF Search!Dominates, Search!BetterMatch
<1>5. a2 <= a1 /\ b2 <= b1
  <2>1. /\ Search!Exact(found[c].match) \in Nat /\ Search!Exact(found[d].match) \in Nat
        /\ Search!FullText(found[c]) \in Nat /\ Search!FullText(found[d]) \in Nat
        /\ Search!MaxExact \in Nat /\ Search!MaxFullText \in Nat
    BY <1>1, FoundIsTyped, MaximaAreNumbers
  <2>2. /\ Search!Normalized(Search!Exact(found[d].match), Search!MaxExact)
             <= Search!Normalized(Search!Exact(found[c].match), Search!MaxExact)
        /\ Search!Normalized(Search!FullText(found[d]), Search!MaxFullText)
             <= Search!Normalized(Search!FullText(found[c]), Search!MaxFullText)
    BY <1>4, <2>1, NormalizedIsMonotone
  <2>. QED BY <1>2, <1>3, <2>2 DEF Parts
<1>6. s2x <= s1x
  <2>1. PICK x, y : x = found[c].similarity /\ y = found[d].similarity
    OBVIOUS
  <2>2. s1x = Search!Similarity(x) /\ s2x = Search!Similarity(y) /\ s1x \in Nat
    BY <1>2, <1>3, <2>1 DEF Parts
  <2>3. CASE y = noScore
    <3>1. s2x = 0
      BY <2>2, <2>3, NoSimilarity
    <3>. QED BY <2>2, <3>1
  <2>4. CASE y # noScore
    <3>1. (x = noScore \/ Cosine(x)) /\ (y = noScore \/ Cosine(y))
      BY <1>1, <2>1, FoundIsTyped
    <3>2. x # noScore /\ x >= y
      BY <2>1, <2>4 DEF Search!Dominates
    <3>3. Cosine(x) /\ Cosine(y)
      BY <2>4, <3>1, <3>2
    <3>4. y <= x
      BY <3>2, <3>3 DEF Cosine
    <3>5. Search!Similarity(y) <= Search!Similarity(x)
      BY <3>3, <3>4, SimilarityIsMonotone
    <3>. QED BY <2>2, <3>5
  <2>. QED BY <2>3, <2>4
<1>7. r2 <= r1
  BY <1>2, <1>3 DEF Parts, Search!Dominates
<1>8. /\ Search!Hybrid(c) = 100 * (35 * a1 + 25 * b1 + 30 * s1x + 10 * 200 * r1)
      /\ Search!Hybrid(d) = 100 * (35 * a2 + 25 * b2 + 30 * s2x + 10 * 200 * r2)
      /\ a1 \in Nat /\ b1 \in Nat /\ s1x \in Nat /\ r1 \in Nat
      /\ a2 \in Nat /\ b2 \in Nat /\ s2x \in Nat /\ r2 \in Nat
  BY <1>2, <1>3 DEF Parts
<1>. QED BY <1>5, <1>6, <1>7, <1>8

-----------------------------------------------------------------------------
(* Rankings: the search, its page and the reranking.                       *)

\* A key is not before one with a higher first number.
LEMMA BeforeComparesFirst ==
  ASSUME NEW n \in Nat, 1 <= n, NEW a \in [1..n -> Int], NEW b \in [1..n -> Int], Search!Before(a, b)
  PROVE  a[1] >= b[1]
<1>1. PICK i \in 1..n : a[i] > b[i] /\ \A j \in 1..(i - 1) : a[j] = b[j]
  BY DEF Search!Before
<1>2. a[1] \in Int /\ b[1] \in Int
  OBVIOUS
<1>3. CASE i = 1
  BY <1>1, <1>2, <1>3
<1>4. CASE i # 1
  <2>1. 1 \in 1..(i - 1)
    BY <1>4
  <2>. QED BY <1>1, <1>2, <2>1
<1>. QED BY <1>3, <1>4

\* the results that are handed from one call to the next
Entries == [chunk : Chunks, hybrid : Nat, reranker : RerankScores \union {noScore},
            final : Nat, rank : Nat]

\* the final score of a result is its hybrid score or weighed with the reranker's
Weighed(e) ==
  /\ e.reranker = noScore => e.final = e.hybrid
  /\ e.reranker # noScore => e.final = (7 * e.hybrid) \div 10 + 3000 * e.reranker

\* m results of different chunks, best first
Descending(s, m) ==
  /\ m \in Nat /\ s \in [1..m -> Entries]
  /\ \A i \in 1..m : Weighed(s[i])
  /\ \A i, j \in 1..m : i < j => s[i].chunk # s[j].chunk /\ s[i].final >= s[j].final

\* their ranks follow each other without a gap
Numbers(s, m) == \A i, j \in 1..m : i < j => s[j].rank = s[i].rank + (j - i)

\* what each of the calls hands on
Hits(s, m) == Descending(s, m) /\ Numbers(s, m)

\* results no reranker has scored
Plain(s, m) == \A i \in 1..m : s[i].reranker = noScore

\* Results in descending order are numbered by their place.
LEMMA RankedAreResults ==
  ASSUME NEW m, NEW s, Descending(s, m)
  PROVE  /\ Hits(Search!Ranked(s), m)
         /\ \A i \in 1..m : /\ Search!Ranked(s)[i].chunk = s[i].chunk
                            /\ Search!Ranked(s)[i].reranker = s[i].reranker
<1>1. PICK t : t = Search!Ranked(s)
  OBVIOUS
<1>2. m \in Nat /\ s \in [1..m -> Entries]
  BY DEF Descending
<1>3. t = [i \in 1..m |-> [s[i] EXCEPT !.rank = i]]
  BY <1>1, <1>2 DEF Search!Ranked
<1>4. ASSUME NEW i \in 1..m
      PROVE  /\ t[i] \in Entries /\ Weighed(t[i]) /\ t[i].rank = i
             /\ t[i].chunk = s[i].chunk /\ t[i].final = s[i].final
             /\ t[i].reranker = s[i].reranker
  <2>1. s[i] \in Entries /\ Weighed(s[i]) /\ t[i] = [s[i] EXCEPT !.rank = i]
    BY <1>2, <1>3 DEF Descending
  <2>2. PICK e : e = s[i]
    OBVIOUS
  <2>3. PICK f : f = t[i]
    OBVIOUS
  <2>4. e \in Entries /\ f = [e EXCEPT !.rank = i] /\ i \in Nat
    BY <1>2, <2>1, <2>2, <2>3
  <2>5. /\ f \in Entries /\ f.rank = i
        /\ f.chunk = e.chunk /\ f.final = e.final /\ f.hybrid = e.hybrid /\ f.reranker = e.reranker
    BY <2>4 DEF Entries
  <2>6. Weighed(e)
    BY <2>1, <2>2
  <2>7. Weighed(f)
    BY <2>5, <2>6 DEF Weighed
  <2>. QED BY <2>2, <2>3, <2>5, <2>7
<1>5. t \in [1..m -> Entries]
  BY <1>3, <1>4
<1>6. Descending(t, m)
  <2>1. \A i, j \in 1..m : i < j => t[i].chunk # t[j].chunk /\ t[i].final >= t[j].final
    BY <1>4 DEF Descending
  <2>. QED BY <1>2, <1>4, <1>5, <2>1 DEF Descending
<1>7. Numbers(t, m)
  <2>1. \A i, j \in 1..m : i < j => j = i + (j - i)
    BY <1>2
  <2>. QED BY <1>4, <2>1 DEF Numbers
<1>. QED BY <1>1, <1>4, <1>6, <1>7 DEF Hits

\* A hybrid score is a number.
LEMMA HybridIsNumber ==
  ASSUME Found, NEW c \in Chunks
  PROVE  Search!Hybrid(c) \in Nat
<1>1. PICK a, b, s, r : Parts(c, a, b, s, r)
  BY HybridIsSum
<1>. QED BY <1>1 DEF Parts

\* The keys of the search are numbers, and no two chunks share one.
LEMMA HybridKeysDiffer ==
  ASSUME Found, NEW S \in SUBSET Chunks, NEW key, key = [c \in S |-> Search!HybridKey(c)]
  PROVE  Keyed(S, key, 5) /\ \A c \in S : key[c][1] = Search!Hybrid(c)
<1>1. ASSUME NEW c \in S
      PROVE  key[c] \in [1..5 -> Int] /\ key[c][5] = c /\ key[c][1] = Search!Hybrid(c)
  <2>1. PICK h, e, t, v : /\ h = Search!Hybrid(c) /\ e = Search!Exact(found[c].match)
                          /\ t = Search!FullText(found[c]) /\ v = Search!Similarity(found[c].similarity)
    OBVIOUS
  <2>2. h \in Nat /\ e \in Nat /\ t \in Nat /\ v \in Nat /\ c \in Int
    BY <2>1, FoundIsTyped, HybridIsNumber
  <2>3. key[c] = <<h, e, t, v, c>>
    BY <2>1 DEF Search!HybridKey
  <2>. QED BY <2>1, <2>2, <2>3
<1>. QED BY <1>1 DEF Keyed

\* The search ranks its candidates: each once, best first, numbered.
LEMMA HybridRankingIsResults ==
  ASSUME Found
  PROVE  \E m : Hits(Search!HybridRanking, m) /\ Plain(Search!HybridRanking, m)
<1>1. PICK S : S = Search!Candidates /\ S \in SUBSET Chunks /\ IsFiniteSet(S)
  BY CandidatesAreChunks
<1>2. PICK key : key = [c \in S |-> Search!HybridKey(c)]
  OBVIOUS
<1>3. Keyed(S, key, 5) /\ \A c \in S : key[c][1] = Search!Hybrid(c)
  BY <1>1, <1>2, HybridKeysDiffer
<1>4. PICK o : o = Search!Sorted(S, key)
  OBVIOUS
<1>5. PICK m : m = Cardinality(S)
  OBVIOUS
<1>6. /\ m \in Nat /\ Orders(o, m, S, key)
      /\ \A i, j \in 1..m : i # j => o[i] # o[j]
  BY <1>1, <1>3, <1>4, <1>5, SortedIsOrder
<1>7. PICK s : s = [i \in 1..m |-> [chunk |-> o[i], hybrid |-> Search!Hybrid(o[i]), reranker |-> noScore,
                                    final |-> Search!Hybrid(o[i]), rank |-> 0]]
  OBVIOUS
<1>8. o \in [1..m -> S]
  BY <1>6 DEF Orders
<1>9. Search!HybridRanking = Search!Ranked(s)
  BY <1>1, <1>2, <1>4, <1>7, <1>8 DEF Search!HybridRanking
<1>10. ASSUME NEW i \in 1..m
       PROVE  /\ s[i] \in Entries /\ Weighed(s[i]) /\ s[i].chunk = o[i]
              /\ s[i].final = Search!Hybrid(o[i]) /\ s[i].final \in Nat
  <2>1. PICK c \in S : c = o[i]
    BY <1>8
  <2>2. PICK h \in Nat : h = Search!Hybrid(c)
    BY <1>1, <2>1, HybridIsNumber
  <2>3. s[i] = [chunk |-> c, hybrid |-> h, reranker |-> noScore, final |-> h, rank |-> 0]
    BY <1>7, <2>1, <2>2
  <2>4. c \in Chunks
    BY <1>1
  <2>. QED BY <2>1, <2>2, <2>3, <2>4 DEF Entries, Weighed
<1>11. \A i, j \in 1..m : i < j => s[i].chunk # s[j].chunk /\ s[i].final >= s[j].final
  <2>. SUFFICES ASSUME NEW i \in 1..m, NEW j \in 1..m, i < j
                PROVE  s[i].chunk # s[j].chunk /\ s[i].final >= s[j].final
    OBVIOUS
  <2>1. o[i] # o[j]
    BY <1>6
  <2>2. PICK a, b : a = key[o[i]] /\ b = key[o[j]]
    OBVIOUS
  <2>3. PICK n \in Nat : n = 5 /\ 1 <= n
    OBVIOUS
  <2>7. a \in [1..n -> Int] /\ b \in [1..n -> Int]
    BY <1>3, <1>8, <2>2, <2>3 DEF Keyed
  <2>4. Search!Before(a, b)
    BY <1>6, <2>2 DEF Orders
  <2>5. a[1] >= b[1]
    BY <2>3, <2>4, <2>7, BeforeComparesFirst
  <2>6. a[1] = Search!Hybrid(o[i]) /\ b[1] = Search!Hybrid(o[j])
    BY <1>3, <1>8, <2>2
  <2>. QED BY <1>10, <2>1, <2>5, <2>6
<1>12. s \in [1..m -> Entries]
  BY <1>7, <1>10
<1>13. Descending(s, m)
  BY <1>6, <1>10, <1>11, <1>12 DEF Descending
<1>14. Hits(Search!Ranked(s), m)
  BY <1>13, RankedAreResults
<1>15. \A i \in 1..m : s[i].reranker = noScore
  BY <1>7
<1>16. Plain(Search!Ranked(s), m)
  BY <1>13, <1>15, RankedAreResults DEF Plain
<1>. QED BY <1>9, <1>14, <1>16

\* The minimum of two numbers is the lesser one.
LEMMA LesserOfTwo ==
  ASSUME NEW a \in Nat, NEW b \in Nat
  PROVE  Search!Min({a, b}) = IF a <= b THEN a ELSE b
BY DEF Search!Min

\* A page of results, at any offset and of any limit, keeps their order and ranks.
LEMMA PageIsResults ==
  ASSUME NEW n, NEW s, Hits(s, n), Plain(s, n), query \in Queries
  PROVE  \E m : Hits(Search!Page(s), m) /\ Plain(Search!Page(s), m)
<1>1. PICK a, b : a = query.offset /\ b = query.offset + query.limit
  OBVIOUS
<1>2. a \in Nat /\ b \in Nat /\ n \in Nat /\ s \in [1..n -> Entries]
  BY <1>1, RetrievalAssumption DEF Hits, Descending
<1>3. PICK h \in Nat : h = Search!Min({b, n}) /\ h <= n
  BY <1>2, LesserOfTwo
<1>4. Len(s) = n
  BY <1>2
<1>5. PICK t : t = Search!Page(s)
  OBVIOUS
<1>6. t = SubSeq(s, a + 1, h)
  BY <1>1, <1>3, <1>4, <1>5 DEF Search!Page
<1>7. a + 1 \in Int /\ h \in Int /\ \A i \in (a + 1)..h : s[i] \in Entries
  <2>1. a + 1 \in Int /\ h \in Int
    BY <1>2
  <2>2. \A i \in (a + 1)..h : i \in 1..n
    BY <1>2, <1>3
  <2>. QED BY <1>2, <2>1, <2>2
<1>8. PICK m \in Nat : m = IF a + 1 <= h THEN h - (a + 1) + 1 ELSE 0
  <2>1. CASE a + 1 <= h
    <3>1. h - (a + 1) + 1 \in Nat
      BY <1>2, <2>1
    <3>. QED BY <2>1, <3>1
  <2>. QED BY <2>1
<1>9. t \in Seq(Entries) /\ Len(t) = m /\ \A i \in 1..(h - (a + 1) + 1) : t[i] = s[a + 1 + i - 1]
  BY <1>6, <1>7, <1>8, SubSeqProperties
<1>10. \A i \in 1..m : /\ i \in 1..(h - (a + 1) + 1) /\ i + a \in 1..n
                       /\ a + 1 + i - 1 = i + a
  BY <1>2, <1>3, <1>8
<1>11. t \in [1..m -> Entries] /\ \A i \in 1..m : t[i] = s[i + a]
  BY <1>9, <1>10
<1>12. \A i, j \in 1..m : i < j => i + a < j + a /\ (j + a) - (i + a) = j - i
  BY <1>2
<1>13. Descending(t, m)
  <2>1. ASSUME NEW i \in 1..m, NEW j \in 1..m, i < j
        PROVE  t[i].chunk # t[j].chunk /\ t[i].final >= t[j].final
    <3>1. PICK x \in 1..n, y \in 1..n : x = i + a /\ y = j + a /\ x < y
      BY <1>10, <1>12, <2>1
    <3>2. t[i] = s[x] /\ t[j] = s[y]
      BY <1>11, <3>1
    <3>3. s[x].chunk # s[y].chunk /\ s[x].final >= s[y].final
      BY <3>1 DEF Hits, Descending
    <3>. QED BY <3>2, <3>3
  <2>2. \A i \in 1..m : Weighed(t[i])
    BY <1>10, <1>11 DEF Hits, Descending
  <2>. QED BY <1>11, <2>1, <2>2 DEF Descending
<1>14. Numbers(t, m)
  <2>1. ASSUME NEW i \in 1..m, NEW j \in 1..m, i < j
        PROVE  t[j].rank = t[i].rank + (j - i)
    <3>1. PICK x \in 1..n, y \in 1..n : x = i + a /\ y = j + a /\ x < y /\ y - x = j - i
      BY <1>10, <1>12, <2>1
    <3>2. t[i] = s[x] /\ t[j] = s[y]
      BY <1>11, <3>1
    <3>3. s[y].rank = s[x].rank + (y - x)
      BY <3>1 DEF Hits, Numbers
    <3>. QED BY <3>1, <3>2, <3>3
  <2>. QED BY <2>1 DEF Numbers
<1>15. Plain(t, m)
  BY <1>10, <1>11 DEF Plain
<1>. QED BY <1>5, <1>13, <1>14, <1>15 DEF Hits

\* the set of results of a sequence
LEMMA MembersOf ==
  ASSUME NEW s, NEW m, DOMAIN s = 1..m
  PROVE  /\ Search!ToSet(s) = ToSet(s)
         /\ \A i \in 1..m : s[i] \in Search!ToSet(s)
         /\ \A e \in Search!ToSet(s) : \E i \in 1..m : s[i] = e
BY DEF Search!ToSet, ToSet

\* The scores and ranks of a result are numbers.
LEMMA EntryIsNumbers ==
  ASSUME NEW e \in Entries
  PROVE  /\ e.chunk \in Chunks /\ e.chunk \in Int
         /\ e.hybrid \in Nat /\ e.final \in Nat /\ e.rank \in Nat
         /\ e.reranker # noScore => e.reranker \in 0..1000 /\ e.reranker \in RerankScores
<1>1. /\ e.chunk \in Chunks /\ e.hybrid \in Nat /\ e.final \in Nat /\ e.rank \in Nat
      /\ e.reranker \in RerankScores \union {noScore}
  BY DEF Entries
<1>2. PICK c \in Chunks, r \in RerankScores \union {noScore} : c = e.chunk /\ r = e.reranker
  BY <1>1
<1>3. Chunks \subseteq Int /\ RerankScores \subseteq 0..1000
  BY RetrievalAssumption
<1>4. c \in Int
  BY <1>3
<1>5. r # noScore => r \in RerankScores /\ r \in 0..1000
  BY <1>3
<1>. QED BY <1>1, <1>2, <1>4, <1>5

\* what a reranker gives
Scoring(scores) == \A c \in DOMAIN scores : scores[c] \in RerankScores \union {noScore}

\* A result that is weighed keeps its chunk.
LEMMA BlendedIsEntry ==
  ASSUME NEW e \in Entries, Weighed(e), NEW scores, Scoring(scores),
         NEW f, f = Search!Blended(e, scores)
  PROVE  f \in Entries /\ Weighed(f) /\ f.chunk = e.chunk
<1>1. CASE e.chunk \notin DOMAIN scores \/ scores[e.chunk] = noScore
  BY <1>1 DEF Search!Blended
<1>2. CASE e.chunk \in DOMAIN scores /\ scores[e.chunk] # noScore
  <2>1. PICK r : r = scores[e.chunk]
    OBVIOUS
  <2>2. r \in RerankScores /\ r # noScore
    BY <1>2, <2>1 DEF Scoring
  <2>3. r \in Nat
    BY <2>2, RetrievalAssumption
  <2>4. PICK h \in Nat, g \in Nat : h = e.hybrid /\ g = (7 * h) \div 10 + 3000 * r
    <3>1. PICK h \in Nat : h = e.hybrid
      BY DEF Entries
    <3>2. PICK p \in Nat, q \in Nat \ {0} : p = 7 * h /\ q = 10 /\ p <= p
      OBVIOUS
    <3>3. p \div q \in Nat
      BY <3>2, DivisionIsMonotone
    <3>4. PICK x \in Nat : x = p \div q
      BY <3>3
    <3>5. x + 3000 * r \in Nat /\ x = (7 * h) \div 10
      BY <2>3, <3>2, <3>4
    <3>. QED BY <3>1, <3>5
  <2>5. f = [e EXCEPT !.reranker = r, !.final = g]
    BY <1>2, <2>1, <2>4 DEF Search!Blended
  <2>6. f \in Entries /\ f.reranker = r /\ f.final = g /\ f.hybrid = h /\ f.chunk = e.chunk
    <3>1. r \in RerankScores \union {noScore} /\ h = e.hybrid
      BY <2>2, <2>4
    <3>. QED BY <2>5, <3>1 DEF Entries
  <2>. QED BY <2>2, <2>4, <2>6 DEF Weighed
<1>. QED BY <1>1, <1>2

\* the reranked sequence brings the same chunks, in the order of their scores
LEMMA RerankingIsResults ==
  ASSUME NEW n, Hits(ranking, n), NEW scores, Scoring(scores), NEW t, t = Search!Reranking(scores)
  PROVE  /\ \E m : Hits(t, m)
         /\ \A e \in Search!ToSet(ranking) : \E f \in Search!ToSet(t) : f.chunk = e.chunk
         /\ \A f \in Search!ToSet(t) : \E e \in Search!ToSet(ranking) : f.chunk = e.chunk
<1>1. /\ n \in Nat /\ ranking \in [1..n -> Entries]
      /\ \A i \in 1..n : Weighed(ranking[i])
      /\ \A i, j \in 1..n : i < j => ranking[i].chunk # ranking[j].chunk
  BY DEF Hits, Descending
<1>2. PICK S : S = {Search!Blended(e, scores) : e \in Search!ToSet(ranking)}
  OBVIOUS
<1>3. /\ \A i \in 1..n : ranking[i] \in Search!ToSet(ranking)
      /\ \A e \in Search!ToSet(ranking) : \E i \in 1..n : ranking[i] = e
  <2>1. DOMAIN ranking = 1..n
    BY <1>1
  <2>. QED BY <2>1, MembersOf
<1>4. PICK g : g = [i \in 1..n |-> Search!Blended(ranking[i], scores)]
  OBVIOUS
<1>5. \A i \in 1..n : g[i] \in Entries /\ Weighed(g[i]) /\ g[i].chunk = ranking[i].chunk
  BY <1>1, <1>4, BlendedIsEntry
<1>6. \A e \in S : \E i \in 1..n : g[i] = e
  BY <1>2, <1>4, <1>3
<1>7. \A i \in 1..n : g[i] \in S
  BY <1>2, <1>4, <1>3
<1>8. IsFiniteSet(S)
  <2>1. IsFiniteSet(1..n)
    BY <1>1, FS_Interval
  <2>2. g \in [1..n -> S]
    BY <1>4, <1>7
  <2>. QED BY <1>6, <2>1, <2>2, ImageIsFinite
<1>9. PICK key : key = [e \in S |-> Search!RerankKey(e)]
  OBVIOUS
<1>10. ASSUME NEW e \in S
       PROVE  /\ e \in Entries /\ Weighed(e)
              /\ key[e] \in [1..4 -> Int] /\ key[e][4] = e.chunk /\ key[e][1] = e.final
  <2>1. e \in Entries /\ Weighed(e)
    BY <1>5, <1>6
  <2>2. PICK a, b, c, d : /\ a = e.final /\ b = (IF e.reranker = noScore THEN 0 ELSE e.reranker)
                          /\ c = e.hybrid /\ d = e.chunk
    OBVIOUS
  <2>3. a \in Int /\ c \in Int /\ d \in Int
    BY <2>1, <2>2, EntryIsNumbers
  <2>4. b \in Int
    BY <2>1, <2>2, EntryIsNumbers
  <2>5. key[e] = <<a, b, c, d>>
    BY <1>9, <2>2 DEF Search!RerankKey
  <2>. QED BY <2>1, <2>2, <2>3, <2>4, <2>5
<1>11. \A e, f \in S : e # f => e.chunk # f.chunk
  <2>. SUFFICES ASSUME NEW e \in S, NEW f \in S, e # f PROVE e.chunk # f.chunk
    OBVIOUS
  <2>1. PICK i \in 1..n, j \in 1..n : g[i] = e /\ g[j] = f
    BY <1>6
  <2>2. i < j \/ j < i
    BY <1>1, <2>1
  <2>. QED BY <1>1, <1>5, <2>1, <2>2
<1>12. Keyed(S, key, 4)
  BY <1>9, <1>10, <1>11 DEF Keyed
<1>13. PICK o : o = Search!Sorted(S, key)
  OBVIOUS
<1>14. PICK m : m = Cardinality(S)
  OBVIOUS
<1>15. /\ m \in Nat /\ Orders(o, m, S, key)
       /\ \A i, j \in 1..m : i # j => o[i] # o[j]
       /\ \A e \in S : \E i \in 1..m : o[i] = e
  BY <1>8, <1>12, <1>13, <1>14, 4 \in Nat, SortedIsOrder
<1>16. o \in [1..m -> S]
  BY <1>15 DEF Orders
<1>17. Descending(o, m)
  <2>1. o \in [1..m -> Entries] /\ \A i \in 1..m : Weighed(o[i])
    BY <1>10, <1>16
  <2>2. ASSUME NEW i \in 1..m, NEW j \in 1..m, i < j
        PROVE  o[i].chunk # o[j].chunk /\ o[i].final >= o[j].final
    <3>1. PICK e \in S, f \in S : e = o[i] /\ f = o[j]
      BY <1>16
    <3>2. e # f
      BY <1>15, <2>2, <3>1
    <3>3. PICK a, b : a = key[e] /\ b = key[f]
      OBVIOUS
    <3>4. PICK q \in Nat : q = 4 /\ 1 <= q
      OBVIOUS
    <3>5. a \in [1..q -> Int] /\ b \in [1..q -> Int]
      BY <1>10, <3>3, <3>4
    <3>6. Search!Before(a, b)
      BY <1>15, <2>2, <3>1, <3>3 DEF Orders
    <3>7. a[1] >= b[1]
      BY <3>4, <3>5, <3>6, BeforeComparesFirst
    <3>8. e.chunk # f.chunk
      BY <1>11, <3>2
    <3>9. e.final = a[1] /\ f.final = b[1]
      BY <1>10, <3>3
    <3>. QED BY <3>1, <3>7, <3>8, <3>9
  <2>. QED BY <1>15, <2>1, <2>2 DEF Descending
<1>18. t = Search!Ranked(o)
  BY <1>2, <1>9, <1>13 DEF Search!Reranking
<1>19. Hits(t, m) /\ \A i \in 1..m : t[i].chunk = o[i].chunk
  BY <1>17, <1>18, RankedAreResults
<1>20. t \in [1..m -> Entries]
  BY <1>19 DEF Hits, Descending
<1>21. /\ \A i \in 1..m : t[i] \in Search!ToSet(t)
       /\ \A e \in Search!ToSet(t) : \E i \in 1..m : t[i] = e
  <2>1. DOMAIN t = 1..m
    BY <1>20
  <2>. QED BY <2>1, MembersOf
<1>22. \A e \in Search!ToSet(ranking) : \E f \in Search!ToSet(t) : f.chunk = e.chunk
  <2>. SUFFICES ASSUME NEW e \in Search!ToSet(ranking) PROVE \E f \in Search!ToSet(t) : f.chunk = e.chunk
    OBVIOUS
  <2>1. PICK i \in 1..n : ranking[i] = e
    BY <1>3
  <2>2. PICK j \in 1..m : o[j] = g[i]
    BY <1>7, <1>15
  <2>3. t[j] \in Search!ToSet(t)
    BY <1>21
  <2>4. t[j].chunk = e.chunk
    BY <1>5, <1>19, <2>1, <2>2
  <2>. QED BY <2>3, <2>4
<1>23. \A f \in Search!ToSet(t) : \E e \in Search!ToSet(ranking) : f.chunk = e.chunk
  <2>. SUFFICES ASSUME NEW f \in Search!ToSet(t) PROVE \E e \in Search!ToSet(ranking) : f.chunk = e.chunk
    OBVIOUS
  <2>1. PICK j \in 1..m : t[j] = f
    BY <1>21
  <2>2. PICK i \in 1..n : g[i] = o[j]
    BY <1>6, <1>16
  <2>3. ranking[i] \in Search!ToSet(ranking)
    BY <1>3
  <2>4. f.chunk = ranking[i].chunk
    BY <1>5, <1>19, <2>1, <2>2
  <2>. QED BY <2>3, <2>4
<1>. QED BY <1>19, <1>22, <1>23

-----------------------------------------------------------------------------
(* A retrieval: the rows of its run, its decision and its steps.           *)

\* the same chunks
Rechunks(R, t) ==
  /\ \A e \in R : \E f \in Search!ToSet(t) : f.chunk = e.chunk
  /\ \A f \in Search!ToSet(t) : \E e \in R : f.chunk = e.chunk

\* the rows stored after a reranking are those of its results
LEMMA RowsFollow ==
  ASSUME NEW m, NEW t, Hits(t, m), NEW R, Rechunks(R, t)
  PROVE  Search!RowsReranked({Search!Row(e) : e \in R}, t) = {Search!Row(e) : e \in Search!ToSet(t)}
<1>1. /\ m \in Nat /\ t \in [1..m -> Entries]
      /\ \A i, j \in 1..m : i < j => t[i].chunk # t[j].chunk
  BY DEF Hits, Descending
<1>2. /\ \A i \in 1..m : t[i] \in Search!ToSet(t)
      /\ \A e \in Search!ToSet(t) : \E i \in 1..m : t[i] = e
  <2>1. DOMAIN t = 1..m
    BY <1>1
  <2>. QED BY <2>1, MembersOf
<1>3. ASSUME NEW f \in Search!ToSet(t), NEW g \in Search!ToSet(t), f.chunk = g.chunk
      PROVE  f = g
  <2>1. PICK i \in 1..m, j \in 1..m : t[i] = f /\ t[j] = g
    BY <1>2
  <2>2. i = j \/ i < j \/ j < i
    BY <1>1
  <2>. QED BY <1>1, <1>3, <2>1, <2>2
<1>4. PICK N : N = [row \in {Search!Row(e) : e \in R} |->
                      IF \E e \in Search!ToSet(t) : e.chunk = row.chunk
                      THEN Search!Row(CHOOSE e \in Search!ToSet(t) : e.chunk = row.chunk)
                      ELSE row]
  OBVIOUS
<1>5. ASSUME NEW e \in R, NEW f \in Search!ToSet(t), f.chunk = e.chunk
      PROVE  N[Search!Row(e)] = Search!Row(f)
  <2>1. PICK row : row = Search!Row(e)
    OBVIOUS
  <2>2. row.chunk = e.chunk
    BY <2>1 DEF Search!Row
  <2>3. PICK g : g = CHOOSE x \in Search!ToSet(t) : x.chunk = row.chunk
    OBVIOUS
  <2>4. g \in Search!ToSet(t) /\ g.chunk = row.chunk
    BY <1>5, <2>2, <2>3
  <2>5. g = f
    BY <1>3, <1>5, <2>2, <2>4
  <2>6. N[row] = Search!Row(g)
    BY <1>4, <1>5, <2>1, <2>2, <2>3
  <2>. QED BY <2>1, <2>5, <2>6
<1>6. Search!RowsReranked({Search!Row(e) : e \in R}, t) = {N[Search!Row(e)] : e \in R}
  <2>1. PICK rows : rows = {Search!Row(e) : e \in R}
    OBVIOUS
  <2>2. Search!RowsReranked(rows, t) = {N[row] : row \in rows}
    BY <1>4, <2>1 DEF Search!RowsReranked
  <2>3. {N[row] : row \in rows} = {N[Search!Row(e)] : e \in R}
    BY <2>1
  <2>. QED BY <2>1, <2>2, <2>3
<1>7. {N[Search!Row(e)] : e \in R} \subseteq {Search!Row(e) : e \in Search!ToSet(t)}
  <2>. SUFFICES ASSUME NEW e \in R
                PROVE  \E f \in Search!ToSet(t) : N[Search!Row(e)] = Search!Row(f)
    OBVIOUS
  <2>1. PICK f \in Search!ToSet(t) : f.chunk = e.chunk
    BY DEF Rechunks
  <2>. QED BY <1>5, <2>1
<1>8. {Search!Row(e) : e \in Search!ToSet(t)} \subseteq {N[Search!Row(e)] : e \in R}
  <2>. SUFFICES ASSUME NEW f \in Search!ToSet(t)
                PROVE  \E e \in R : Search!Row(f) = N[Search!Row(e)]
    OBVIOUS
  <2>1. PICK e \in R : f.chunk = e.chunk
    BY DEF Rechunks
  <2>. QED BY <1>5, <2>1
<1>. QED BY <1>6, <1>7, <1>8

\* the least score of a sufficient decision, and of the search behind it
Enough     == 7000000
\* and what the search must have given it, seven times over
EnoughLeft == 40000000

\* what a sufficient status says of the candidates it is given
LEMMA SufficientSays ==
  ASSUME NEW m \in Nat, NEW T, NEW s \in [1..m -> T], \A i \in 1..m : s[i].score \in Nat, NEW school,
         Search!Status(s, school) = "SUFFICIENT"
  PROVE  /\ m >= 2 /\ \A i \in 1..m : s[i].cited
         /\ \E i \in 1..m : s[i].score >= Enough
<1>1. /\ s # <<>> /\ ~ Search!QualityReason(s, school)
      /\ ~ Search!BelowSufficient(s)
  BY DEF Search!Status
<1>2. /\ \A i \in 1..m : s[i] \in Search!ToSet(s)
      /\ \A e \in Search!ToSet(s) : \E i \in 1..m : s[i] = e
  <2>1. DOMAIN s = 1..m
    OBVIOUS
  <2>. QED BY <2>1, MembersOf
<1>3. \A i \in 1..m : s[i].cited
  BY <1>1, <1>2 DEF Search!QualityReason, Search!Flawed
<1>4. m >= 2
  <2>1. ~ (Len(s) < 2)
    BY <1>1 DEF Search!BelowSufficient, Search!MinSufficientResults
  <2>2. Len(s) = m
    OBVIOUS
  <2>. QED BY <2>1, <2>2
<1>5. PICK S : S = {c.score : c \in Search!ToSet(s)}
  OBVIOUS
<1>6. IsFiniteSet(S) /\ S # {} /\ S \subseteq Nat
  <2>1. PICK f : f = [i \in 1..m |-> s[i].score]
    OBVIOUS
  <2>2. \A y \in S : \E i \in 1..m : f[i] = y
    BY <1>2, <1>5, <2>1
  <2>3. f \in [1..m -> S]
    BY <1>2, <1>5, <2>1
  <2>4. IsFiniteSet(1..m)
    BY FS_Interval
  <2>5. IsFiniteSet(S)
    BY <2>2, <2>3, <2>4, ImageIsFinite
  <2>6. S \subseteq Nat
    BY <1>2, <1>5
  <2>7. S # {}
    <3>1. 1 \in 1..m
      BY <1>4
    <3>. QED BY <2>3, <3>1
  <2>. QED BY <2>5, <2>6, <2>7
<1>7. Max(S) \in S
  BY <1>6, MaxIsGreatest
<1>8. Search!TopScore(s) = Max(S)
  BY <1>5 DEF Search!TopScore, Search!Max, Max
<1>9. ~ (Search!TopScore(s) < Enough)
  <2>1. Search!MinSufficientTop = Enough
    BY SMT DEF Enough, Search!MinSufficientTop
  <2>. QED BY <1>1, <2>1 DEF Search!BelowSufficient
<1>10. Max(S) >= Enough
  <2>1. PICK x \in Nat : x = Max(S)
    BY <1>6, <1>7
  <2>2. ~ (x < Enough)
    BY <1>8, <1>9, <2>1
  <2>3. x >= Enough
    BY <2>2, SMT DEF Enough
  <2>. QED BY <2>1, <2>3
<1>11. PICK i \in 1..m : s[i].score = Max(S)
  BY <1>2, <1>5, <1>7
<1>. QED BY <1>3, <1>4, <1>10, <1>11

\* A final score that is enough has a hybrid score of 4/7 at least: the reranker adds
\* 0.30 at most.
LEMMA TopIsFound ==
  ASSUME NEW e \in Entries, Weighed(e), e.final >= Enough
  PROVE  7 * e.hybrid >= EnoughLeft
<1>1. PICK h \in Nat, f \in Nat : h = e.hybrid /\ f = e.final /\ f >= Enough
  BY EntryIsNumbers
<1>2. CASE e.reranker = noScore
  BY <1>1, <1>2, SMT DEF Weighed, Enough, EnoughLeft
<1>3. CASE e.reranker # noScore
  <2>1. PICK r \in 0..1000 : r = e.reranker
    BY <1>3, EntryIsNumbers
  <2>2. f = (7 * h) \div 10 + 3000 * r
    BY <1>1, <1>3, <2>1 DEF Weighed
  <2>3. 7 * h >= EnoughLeft
    BY <1>1, <2>2, Z3 DEF Enough, EnoughLeft
  <2>. QED BY <1>1, <2>3
<1>. QED BY <1>2, <1>3

\* A sufficient decision rests on two chunks, all cited, one of them found by the search.
LEMMA SufficiencyIsFound ==
  ASSUME Found, NEW n, Hits(ranking, n), NEW school,
         Search!Status([i \in DOMAIN ranking |-> Search!Candidate(ranking[i])], school) = "SUFFICIENT"
  PROVE  /\ \E e \in Search!ToSet(ranking) : 7 * e.hybrid >= EnoughLeft
         /\ Search!Cardinality({e.chunk : e \in Search!ToSet(ranking)}) >= 2
         /\ \A e \in Search!ToSet(ranking) : found[e.chunk].cited
<1>1. /\ n \in Nat /\ ranking \in [1..n -> Entries] /\ DOMAIN ranking = 1..n
      /\ \A i \in 1..n : Weighed(ranking[i])
      /\ \A i, j \in 1..n : i < j => ranking[i].chunk # ranking[j].chunk
  BY DEF Hits, Descending
<1>2. /\ \A i \in 1..n : ranking[i] \in Search!ToSet(ranking)
      /\ \A e \in Search!ToSet(ranking) : \E i \in 1..n : ranking[i] = e
  BY <1>1, MembersOf
<1>3. PICK s : s = [i \in DOMAIN ranking |-> Search!Candidate(ranking[i])]
  OBVIOUS
<1>4. \A i \in 1..n : s[i].score = ranking[i].final /\ s[i].cited = found[ranking[i].chunk].cited
  BY <1>1, <1>3 DEF Search!Candidate
<1>5. DOMAIN s = 1..n /\ \A i \in 1..n : s[i].score \in Nat
  <2>1. \A i \in 1..n : ranking[i].final \in Nat
    BY <1>1, EntryIsNumbers
  <2>. QED BY <1>1, <1>3, <1>4, <2>1
<1>6. /\ n >= 2 /\ \A i \in 1..n : s[i].cited
      /\ \E i \in 1..n : s[i].score >= Enough
  <2>1. PICK T : T = {Search!Candidate(ranking[i]) : i \in 1..n}
    OBVIOUS
  <2>2. s \in [1..n -> T]
    BY <1>1, <1>3, <2>1
  <2>3. Search!Status(s, school) = "SUFFICIENT"
    BY <1>3
  <2>. QED BY <1>1, <1>5, <2>2, <2>3, SufficientSays
<1>7. \E e \in Search!ToSet(ranking) : 7 * e.hybrid >= EnoughLeft
  BY <1>1, <1>2, <1>4, <1>6, TopIsFound
<1>8. \A e \in Search!ToSet(ranking) : found[e.chunk].cited
  BY <1>2, <1>4, <1>6
<1>9. PICK S : S = {e.chunk : e \in Search!ToSet(ranking)}
  OBVIOUS
<1>10. PICK c, d : c \in S /\ d \in S /\ c # d
  <2>1. 1 \in 1..n /\ 2 \in 1..n /\ 1 < 2
    BY <1>1, <1>6
  <2>2. ranking[1].chunk # ranking[2].chunk
    BY <1>1, <2>1
  <2>3. ranking[1].chunk \in S /\ ranking[2].chunk \in S
    BY <1>2, <1>9, <2>1
  <2>. QED BY <2>2, <2>3
<1>11. IsFiniteSet(S)
  <2>1. S \subseteq Chunks
    BY <1>1, <1>2, <1>9, EntryIsNumbers
  <2>2. IsFiniteSet(Chunks)
    BY RetrievalAssumption
  <2>. QED BY <2>1, <2>2, FS_Subset
<1>12. Cardinality(S) >= 2
  <2>1. {c, d} \subseteq S /\ Cardinality({c, d}) = 2
    <3>1. IsFiniteSet({c}) /\ Cardinality({c}) = 1
      BY FS_Singleton
    <3>2. {c, d} = {c} \union {d} /\ d \notin {c}
      BY <1>10
    <3>3. Cardinality({c, d}) = 1 + 1
      BY <3>1, <3>2, FS_AddElement
    <3>. QED BY <1>10, <3>3
  <2>. QED BY <1>11, <2>1, FS_Subset, FS_CardinalityType
<1>13. Search!Cardinality(S) = Cardinality(S)
  BY DEF Search!Cardinality, Cardinality
<1>. QED BY <1>7, <1>8, <1>9, <1>12, <1>13


\* the rows that show what was handed on
RowsOfRun == {Search!Row(e) : e \in Search!ToSet(ranking)}

\* who writes the run
SearchWrites   == "search" \in query.writers
RerankerWrites == {"search", "reranker"} \subseteq query.writers
JudgeWrites    == {"search", "judgement"} \subseteq query.writers

\* rows of the chunks that were handed on, none with a score of the reranker
Unscored(rows, R) ==
  /\ {row.chunk : row \in rows} = {e.chunk : e \in R}
  /\ \A row \in rows : row.reranker = noScore

\* the inductive invariant of a retrieval
Handed     == stage \in {"searched", "reranked", "judged"}
RunStage   == stage \in {"new", "searched", "reranked", "judged", "failed"}
RunRanking == \E n : Hits(ranking, n)
RunRows    ==
  /\ DOMAIN retrieved = {"sufficient", "rows"}
  /\ ~ SearchWrites \/ stage = "new" => retrieved = Search!NoRun
  /\ Handed /\ RerankerWrites => retrieved.rows = RowsOfRun
  /\ Handed /\ SearchWrites /\ ~ RerankerWrites => Unscored(retrieved.rows, Search!ToSet(ranking))
RunUndecided == stage \in {"new", "searched", "reranked"} => decision = "unknown"
RunFlagged   ==
  /\ stage = "judged" /\ JudgeWrites => retrieved.sufficient = (decision = "SUFFICIENT")
  /\ Handed /\ ~ JudgeWrites => retrieved.sufficient = (retrieved.rows # {})
RunEarned    ==
  decision = "SUFFICIENT" =>
    /\ \E e \in Search!ToSet(ranking) : 7 * e.hybrid >= EnoughLeft
    /\ Search!Cardinality({e.chunk : e \in Search!ToSet(ranking)}) >= 2
    /\ \A e \in Search!ToSet(ranking) : found[e.chunk].cited

RunCorrect ==
  /\ Found /\ RunStage /\ RunRanking /\ RunRows /\ RunUndecided /\ RunFlagged /\ RunEarned

\* A run begins with no results.
LEMMA RunBegins ==
  ASSUME Search!Init
  PROVE  RunCorrect
<1>1. /\ stage = "new" /\ ranking = <<>> /\ retrieved = Search!NoRun /\ decision = "unknown"
  BY DEF Search!Init
<1>2. Hits(ranking, 0)
  <2>1. ranking \in [1..0 -> Entries]
    BY <1>1
  <2>. QED BY <2>1 DEF Hits, Descending, Numbers
<1>3. RunRanking
  BY <1>2 DEF RunRanking
<1>4. Found
  BY DEF Search!Init, Found
<1>5. DOMAIN retrieved = {"sufficient", "rows"}
  BY <1>1 DEF Search!NoRun
<1>. QED BY <1>1, <1>3, <1>4, <1>5
         DEF RunCorrect, Handed, RunStage, RunRows, RunUndecided, RunFlagged, RunEarned

\* The reranker and the judgement write only what the search has written.
LEMMA WritersFollowSearch == (RerankerWrites => SearchWrites) /\ (JudgeWrites => SearchWrites)
BY DEF RerankerWrites, JudgeWrites, SearchWrites

\* What was found of the chunks stays as it is, and so does who writes.
LEMMA FoundStays ==
  ASSUME query' = query, found' = found
  PROVE  /\ Found' = Found
         /\ SearchWrites' = SearchWrites /\ RerankerWrites' = RerankerWrites
         /\ JudgeWrites' = JudgeWrites
BY DEF Found, Search!Possible, SearchWrites, RerankerWrites, JudgeWrites

\* A page has rows of its chunks, one at least unless it is empty.
LEMMA RowsOfPage ==
  ASSUME NEW m, NEW t, Hits(t, m), NEW rows, rows = {Search!Row(e) : e \in Search!ToSet(t)}
  PROVE  /\ (t # <<>>) = (rows # {})
         /\ Plain(t, m) => Unscored(rows, Search!ToSet(t))
<1>1. m \in Nat /\ t \in [1..m -> Entries] /\ DOMAIN t = 1..m
  BY DEF Hits, Descending
<1>2. /\ \A i \in 1..m : t[i] \in Search!ToSet(t)
      /\ \A e \in Search!ToSet(t) : \E i \in 1..m : t[i] = e
  BY <1>1, MembersOf
<1>3. CASE m = 0
  <2>1. t = <<>> /\ rows = {} /\ Search!ToSet(t) = {}
    BY <1>1, <1>2, <1>3
  <2>. QED BY <2>1 DEF Unscored
<1>4. CASE m # 0
  <2>1. 1 \in 1..m
    BY <1>1, <1>4
  <2>2. t # <<>> /\ Search!Row(t[1]) \in rows
    BY <1>1, <1>2, <2>1
  <2>3. \A e \in Search!ToSet(t) : Search!Row(e).chunk = e.chunk /\ Search!Row(e).reranker = e.reranker
    BY DEF Search!Row
  <2>4. {row.chunk : row \in rows} = {e.chunk : e \in Search!ToSet(t)}
    BY <2>3
  <2>5. Plain(t, m) => \A row \in rows : row.reranker = noScore
    BY <1>2, <2>3 DEF Plain
  <2>. QED BY <2>2, <2>4, <2>5 DEF Unscored
<1>. QED BY <1>3, <1>4

\* The search hands on and stores a page of its ranking.
LEMMA SearchKeepsRun ==
  ASSUME RunCorrect, Search!Search
  PROVE  RunCorrect'
<1>1. /\ stage = "new" /\ stage' = "searched" /\ ranking' = Search!Page(Search!HybridRanking)
      /\ retrieved' = IF SearchWrites
                      THEN [sufficient |-> ranking' # <<>>,
                            rows |-> {Search!Row(e) : e \in Search!ToSet(ranking')}]
                      ELSE retrieved
      /\ query' = query /\ found' = found /\ decision' = decision
  BY DEF Search!Search, SearchWrites
<1>2. Found /\ query \in Queries /\ decision = "unknown" /\ retrieved = Search!NoRun
  BY <1>1 DEF RunCorrect, RunUndecided, Found, RunRows
<1>3. PICK n : Hits(Search!HybridRanking, n) /\ Plain(Search!HybridRanking, n)
  BY <1>2, HybridRankingIsResults
<1>4. PICK m : Hits(ranking', m) /\ Plain(ranking', m)
  BY <1>1, <1>2, <1>3, PageIsResults
<1>5. RunRanking'
  BY <1>4 DEF RunRanking
<1>6. /\ Found' /\ SearchWrites' = SearchWrites /\ RerankerWrites' = RerankerWrites
      /\ JudgeWrites' = JudgeWrites
  BY <1>1, <1>2, FoundStays
<1>7. PICK t : t = ranking'
  OBVIOUS
<1>8. PICK rows : rows = {Search!Row(e) : e \in Search!ToSet(t)}
  OBVIOUS
<1>9. (t # <<>>) = (rows # {}) /\ Unscored(rows, Search!ToSet(t))
  BY <1>4, <1>7, <1>8, RowsOfPage
<1>10. RowsOfRun' = rows
  BY <1>7, <1>8 DEF RowsOfRun
<1>11. CASE SearchWrites
  <2>1. retrieved' = [sufficient |-> t # <<>>, rows |-> rows]
    BY <1>1, <1>7, <1>8, <1>11
  <2>2. /\ DOMAIN retrieved' = {"sufficient", "rows"} /\ retrieved'.rows = rows
        /\ retrieved'.sufficient = (rows # {})
    BY <1>9, <2>1
  <2>3. RunRows' /\ RunFlagged'
    BY <1>1, <1>6, <1>7, <1>9, <1>10, <1>11, <2>2 DEF RunRows, RunFlagged
  <2>. QED BY <1>1, <1>2, <1>5, <1>6, <2>3 DEF RunCorrect, RunStage, RunUndecided, RunEarned
<1>12. CASE ~ SearchWrites
  <2>1. retrieved' = Search!NoRun /\ ~ RerankerWrites /\ ~ JudgeWrites
    BY <1>1, <1>2, <1>12, WritersFollowSearch
  <2>2. DOMAIN Search!NoRun = {"sufficient", "rows"} /\ Search!NoRun.sufficient = (Search!NoRun.rows # {})
    BY DEF Search!NoRun
  <2>3. RunRows' /\ RunFlagged'
    BY <1>1, <1>6, <1>12, <2>1, <2>2 DEF RunRows, RunFlagged
  <2>. QED BY <1>1, <1>2, <1>5, <1>6, <2>3 DEF RunCorrect, RunStage, RunUndecided, RunEarned
<1>. QED BY <1>11, <1>12

\* A reranking leaves no run without rows that had some.
LEMMA RowsRemain ==
  ASSUME NEW R, NEW t
  PROVE  (Search!RowsReranked(R, t) # {}) = (R # {})
<1>1. PICK f : f = [row \in R |->
                      IF \E e \in Search!ToSet(t) : e.chunk = row.chunk
                      THEN Search!Row(CHOOSE e \in Search!ToSet(t) : e.chunk = row.chunk)
                      ELSE row]
  OBVIOUS
<1>2. Search!RowsReranked(R, t) = {f[row] : row \in R}
  BY <1>1 DEF Search!RowsReranked
<1>. QED BY <1>2

\* The reranking is stored in the rows of the search, chunk by chunk, if at all.
LEMMA RerankKeepsRun ==
  ASSUME RunCorrect, Search!Rerank
  PROVE  RunCorrect'
<1>1. /\ stage = "searched" /\ stage' = "reranked"
      /\ query' = query /\ found' = found /\ decision' = decision
      /\ retrieved' = IF RerankerWrites
                      THEN [retrieved EXCEPT !.rows = Search!RowsReranked(retrieved.rows, ranking')]
                      ELSE retrieved
  BY DEF Search!Rerank, RerankerWrites
<1>2. /\ Found /\ decision = "unknown" /\ Handed
      /\ DOMAIN retrieved = {"sufficient", "rows"}
  BY <1>1 DEF RunCorrect, RunUndecided, RunRows, Handed
<1>3. PICK given : \E scores \in [given -> RerankScores \union {noScore}] :
                     ranking' = Search!Reranking(scores)
  BY DEF Search!Rerank
<1>4. PICK scores \in [given -> RerankScores \union {noScore}] : ranking' = Search!Reranking(scores)
  BY <1>3
<1>5. Scoring(scores)
  BY DEF Scoring
<1>6. PICK n : Hits(ranking, n)
  BY DEF RunCorrect, RunRanking
<1>7. PICK t : t = ranking'
  OBVIOUS
<1>8. /\ \E m : Hits(t, m)
      /\ Rechunks(Search!ToSet(ranking), t)
  BY <1>4, <1>5, <1>6, <1>7, RerankingIsResults DEF Rechunks
<1>9. RunRanking'
  BY <1>7, <1>8 DEF RunRanking
<1>10. /\ Found' /\ SearchWrites' = SearchWrites /\ RerankerWrites' = RerankerWrites
       /\ JudgeWrites' = JudgeWrites
  BY <1>1, <1>2, FoundStays
<1>12. CASE RerankerWrites
  <2>1. SearchWrites /\ retrieved.rows = RowsOfRun
    BY <1>2, <1>12, WritersFollowSearch DEF RunCorrect, RunRows
  <2>2. PICK rows : rows = Search!RowsReranked(RowsOfRun, t)
    OBVIOUS
  <2>3. rows = {Search!Row(e) : e \in Search!ToSet(t)}
    BY <1>8, <2>2, RowsFollow DEF RowsOfRun
  <2>4. DOMAIN retrieved' = {"sufficient", "rows"} /\ retrieved'.rows = rows
    BY <1>1, <1>2, <1>7, <1>12, <2>1, <2>2
  <2>5. retrieved'.sufficient = retrieved.sufficient
    BY <1>1, <1>2, <1>12
  <2>6. (rows # {}) = (retrieved.rows # {})
    BY <2>1, <2>2, RowsRemain
  <2>7. RowsOfRun' = rows
    BY <1>7, <2>3 DEF RowsOfRun
  <2>8. RunRows'
    BY <1>1, <1>10, <1>12, <2>1, <2>4, <2>7 DEF RunRows
  <2>9. RunFlagged'
    BY <1>1, <1>2, <1>10, <2>4, <2>5, <2>6 DEF RunCorrect, RunFlagged, Handed
  <2>. QED BY <1>1, <1>2, <1>9, <1>10, <2>8, <2>9
           DEF RunCorrect, RunStage, RunUndecided, RunEarned
<1>13. CASE ~ RerankerWrites
  <2>1. retrieved' = retrieved
    BY <1>1, <1>13
  <2>2. {e.chunk : e \in Search!ToSet(t)} = {e.chunk : e \in Search!ToSet(ranking)}
    BY <1>8 DEF Rechunks
  <2>3. Unscored(retrieved.rows, Search!ToSet(ranking)) => Unscored(retrieved.rows, Search!ToSet(t))
    BY <2>2 DEF Unscored
  <2>4. RunRows'
    BY <1>1, <1>2, <1>7, <1>10, <1>13, <2>1, <2>3 DEF RunCorrect, RunRows, Handed
  <2>5. RunFlagged'
    BY <1>1, <1>2, <1>10, <2>1 DEF RunCorrect, RunFlagged, Handed
  <2>. QED BY <1>1, <1>2, <1>9, <1>10, <2>4, <2>5
           DEF RunCorrect, RunStage, RunUndecided, RunEarned
<1>. QED BY <1>12, <1>13

\* The decision is about the results that were handed on, and flags their run, if it is
\* given the run.
LEMMA JudgeKeepsRun ==
  ASSUME RunCorrect, Search!Judge
  PROVE  RunCorrect'
<1>1. /\ stage = "reranked" /\ stage' = "judged"
      /\ query' = query /\ found' = found /\ ranking' = ranking
      /\ retrieved' = IF JudgeWrites
                      THEN [retrieved EXCEPT !.sufficient = (decision' = "SUFFICIENT")]
                      ELSE retrieved
  BY DEF Search!Judge, Search!Flagged, JudgeWrites
<1>2. Found /\ RunRanking /\ Handed /\ DOMAIN retrieved = {"sufficient", "rows"}
  BY <1>1 DEF RunCorrect, RunRows, Handed
<1>3. PICK school : decision' = Search!Status([i \in DOMAIN ranking |-> Search!Candidate(ranking[i])], school)
  BY DEF Search!Judge
<1>4. PICK n : Hits(ranking, n)
  BY <1>2 DEF RunRanking
<1>5. RunEarned'
  <2>1. CASE decision' = "SUFFICIENT"
    BY <1>1, <1>2, <1>3, <1>4, <2>1, SufficiencyIsFound DEF RunEarned
  <2>. QED BY <2>1 DEF RunEarned
<1>6. /\ Found' /\ SearchWrites' = SearchWrites /\ RerankerWrites' = RerankerWrites
      /\ JudgeWrites' = JudgeWrites
  BY <1>1, <1>2, FoundStays
<1>7. /\ DOMAIN retrieved' = {"sufficient", "rows"} /\ retrieved'.rows = retrieved.rows
      /\ JudgeWrites => retrieved'.sufficient = (decision' = "SUFFICIENT")
      /\ ~ JudgeWrites => retrieved' = retrieved
  BY <1>1, <1>2
<1>8. RunRows'
  <2>1. ~ SearchWrites => retrieved' = retrieved
    BY <1>7, WritersFollowSearch
  <2>. QED BY <1>1, <1>2, <1>6, <1>7, <2>1 DEF RunCorrect, RunRows, RowsOfRun, Handed
<1>9. RunFlagged'
  BY <1>1, <1>2, <1>6, <1>7 DEF RunCorrect, RunFlagged, Handed
<1>10. RunRanking'
  BY <1>1, <1>2 DEF RunRanking
<1>. QED BY <1>1, <1>5, <1>6, <1>8, <1>9, <1>10 DEF RunCorrect, RunStage, RunUndecided

\* Every step of a retrieval keeps the invariant.
LEMMA RunKept ==
  ASSUME RunCorrect, Search!Next
  PROVE  RunCorrect'
<1>1. CASE Search!Search
  BY <1>1, SearchKeepsRun
<1>2. CASE Search!Rerank
  BY <1>2, RerankKeepsRun
<1>3. CASE Search!Judge
  BY <1>3, JudgeKeepsRun
<1>4. CASE Search!KeepRanking
  BY <1>4, FoundStays
     DEF Search!KeepRanking, RunCorrect, Handed, RunStage, RunRanking, RunRows, RowsOfRun,
         RunUndecided, RunFlagged, RunEarned
<1>5. CASE Search!Fail
  BY <1>5, FoundStays
     DEF Search!Fail, RunCorrect, Handed, RunStage, RunRanking, RunRows, RowsOfRun,
         RunUndecided, RunFlagged, RunEarned
<1>. QED BY <1>1, <1>2, <1>3, <1>4, <1>5 DEF Search!Next

\* The invariant says what the runs check.
LEMMA RunIsKept ==
  ASSUME RunCorrect
  PROVE  /\ Search!StoredAsServed /\ Search!BetterIsAhead /\ Search!FlagIsDecision
         /\ Search!SufficiencyIsEarned
<1>1. PICK n : Hits(ranking, n)
  BY DEF RunCorrect, RunRanking
<1>2. \A i, j \in DOMAIN ranking : i < j =>
        /\ ranking[i].chunk # ranking[j].chunk
        /\ ranking[i].final >= ranking[j].final
        /\ ranking[j].rank = ranking[i].rank + (j - i)
  <2>1. DOMAIN ranking = 1..n
    BY <1>1 DEF Hits, Descending
  <2>. QED BY <1>1, <2>1 DEF Hits, Descending, Numbers
<1>3. stage \in {"searched", "reranked", "judged"} =>
        /\ "search" \notin query.writers => retrieved = Search!NoRun
        /\ {"search", "reranker"} \subseteq query.writers =>
             retrieved.rows = {Search!Row(e) : e \in Search!ToSet(ranking)}
        /\ "search" \in query.writers /\ "reranker" \notin query.writers =>
             /\ {row.chunk : row \in retrieved.rows} = {e.chunk : e \in Search!ToSet(ranking)}
             /\ \A row \in retrieved.rows : row.reranker = noScore
  BY DEF RunCorrect, RunRows, RowsOfRun, SearchWrites, RerankerWrites, Unscored, Handed
<1>4. Search!BetterIsAhead
  BY BetterAhead DEF RunCorrect
<1>5. Search!FlagIsDecision
  BY DEF RunCorrect, RunFlagged, Search!FlagIsDecision, JudgeWrites, Handed
<1>6. Search!SufficiencyIsEarned
  <2>1. EnoughLeft = 4 * 10000000
    BY SMT DEF EnoughLeft
  <2>2. RunEarned
    BY DEF RunCorrect
  <2>. QED BY <2>1, <2>2, SMT DEF RunEarned, Search!SufficiencyIsEarned
<1>. QED BY <1>2, <1>3, <1>4, <1>5, <1>6 DEF Search!StoredAsServed

-----------------------------------------------------------------------------
(* The pipeline.                                                           *)

\* the inductive invariant of the pipeline: each part keeps its own
SampleGiven ==
  /\ subject = "evidence" => \E n \in Nat : sample \in [1..n -> Samples]
  /\ subject = "verification" =>
       \E draft \in Drafts : \E context \in [Tokens -> Packs \union {none}] :
         sample = [draft |-> draft, context |-> context]

PipelineCorrect ==
  /\ SampleGiven
  /\ subject = "retrieval"  => RunCorrect
  /\ subject = "embeddings" => BatchesCorrect
  /\ subject = "adapter"    => AdapterCorrect

\* A call for embeddings begins before its first batch.
LEMMA BatchesBegin ==
  ASSUME Batches!Init
  PROVE  BatchesCorrect
<1>1. /\ texts \in Inputs /\ embedding = "new" /\ vectors = <<>> /\ attempt = 0 /\ posts = 0 /\ honest = TRUE
  BY DEF Batches!Init
<1>2. /\ vectors \in Seq(ToSet(texts)) /\ Len(vectors) = 0
  BY <1>1
<1>3. Len(Batches!Sent) \in Nat
  BY <1>1, SentIsGiven, LenProperties
<1>4. attempt \in 0..EmbeddingRetries /\ EmbeddingRetries \in Nat /\ BatchSize \in Nat
  BY <1>1, CallsAssumption
<1>5. \E done \in Nat :
        /\ done * BatchSize <= Len(vectors)
        /\ posts <= (1 + done) * (EmbeddingRetries + 1)
        /\ embedding = "post" => posts <= done * (EmbeddingRetries + 1) + attempt
  <2>1. 0 * BatchSize <= Len(vectors) /\ posts <= (1 + 0) * (EmbeddingRetries + 1) /\ embedding # "post"
    BY <1>1, <1>2, <1>4
  <2>. QED BY <2>1
<1>. QED BY <1>1, <1>2, <1>3, <1>4, <1>5 DEF BatchesCorrect

\* A call of the adapter begins before its first attempt.
LEMMA AdapterBegins ==
  ASSUME Adapter!Init
  PROVE  AdapterCorrect
<1>1. /\ mode \in {"generate", "stream"} /\ call = "post" /\ tried = 0 /\ failures = <<>>
      /\ lines = <<>> /\ yielded = <<>>
  BY DEF Adapter!Init
<1>2. tried \in 0..AdapterRetries /\ Len(failures) <= AdapterRetries + 1 /\ Len(failures) = 0
  BY <1>1, CallsAssumption
<1>3. /\ failures \in Seq(Adapter!PostErrors) /\ lines \in Seq({"text", "broken"}) /\ yielded \in Seq(Nat)
  BY <1>1
<1>4. Adapter!StreamInOrder
  BY <1>1 DEF Adapter!StreamInOrder
<1>5. Adapter!GenerateGivesUp
  BY <1>1, <1>2 DEF Adapter!GenerateGivesUp
<1>. QED BY <1>1, <1>2, <1>3, <1>4, <1>5 DEF AdapterCorrect

\* Each part begins with its invariant.
LEMMA PipelineBegins ==
  ASSUME PipelineInit
  PROVE  PipelineCorrect
<1>1. RunCorrect /\ BatchesCorrect /\ AdapterCorrect
  BY RunBegins, BatchesBegin, AdapterBegins DEF PipelineInit
<1>2. SampleGiven
  <2>1. CASE subject = "evidence"
    <3>1. sample \in UNION {[1..n -> Samples] : n \in 0..MaxSample}
      BY <2>1 DEF PipelineInit
    <3>2. PICK n \in 0..MaxSample : sample \in [1..n -> Samples]
      BY <3>1
    <3>3. n \in Nat
      BY <3>2, EvidenceAssumption
    <3>. QED BY <2>1, <3>2, <3>3 DEF SampleGiven
  <2>2. CASE subject # "evidence"
    BY <2>2 DEF PipelineInit, SampleGiven
  <2>. QED BY <2>1, <2>2
<1>. QED BY <1>1, <1>2 DEF PipelineCorrect

\* A step of one part keeps its invariant and leaves the others alone.
LEMMA PipelineKept ==
  ASSUME PipelineCorrect, [PipelineNext]_pipelineVars
  PROVE  PipelineCorrect'
<1>1. subject' = subject /\ sample' = sample
  BY DEF PipelineNext, pipelineVars
<1>2. SampleGiven'
  BY <1>1 DEF PipelineCorrect, SampleGiven
<1>3. ASSUME subject = "retrieval" PROVE RunCorrect'
  <2>1. CASE Search!Next
    BY <1>3, <2>1, RunKept DEF PipelineCorrect
  <2>2. CASE UNCHANGED retrievalVars
    BY <1>3, <2>2
       DEF PipelineCorrect, retrievalVars, RunCorrect, Found, Search!Possible, Handed, RunStage,
           RunRanking, RunRows, RowsOfRun, SearchWrites, RerankerWrites, JudgeWrites,
           RunUndecided, RunFlagged, RunEarned
  <2>. QED BY <1>3, <2>1, <2>2 DEF PipelineNext, pipelineVars
<1>4. ASSUME subject = "embeddings" PROVE BatchesCorrect'
  <2>1. CASE Batches!Next
    BY <1>4, <2>1, BatchesKept DEF PipelineCorrect
  <2>2. CASE UNCHANGED embeddingVars
    <3>1. /\ texts' = texts /\ embedding' = embedding /\ vectors' = vectors /\ attempt' = attempt
          /\ posts' = posts /\ honest' = honest
      BY <2>2 DEF embeddingVars
    <3>2. Batches!Sent' = Batches!Sent
      BY <3>1 DEF Batches!Sent
    <3>. QED BY <1>4, <3>1, <3>2 DEF PipelineCorrect, BatchesCorrect
  <2>. QED BY <1>4, <2>1, <2>2 DEF PipelineNext, pipelineVars
<1>5. ASSUME subject = "adapter" PROVE AdapterCorrect'
  <2>1. CASE Adapter!Next
    BY <1>5, <2>1, AdapterKept DEF PipelineCorrect
  <2>2. CASE UNCHANGED adapterVars
    BY <1>5, <2>2
       DEF PipelineCorrect, adapterVars, AdapterCorrect, Adapter!GenerateGivesUp, Adapter!StreamInOrder
  <2>. QED BY <1>5, <2>1, <2>2 DEF PipelineNext, pipelineVars
<1>. QED BY <1>1, <1>2, <1>3, <1>4, <1>5 DEF PipelineCorrect

\* The invariant implies what is said of retrieval,
LEMMA RetrievalKept ==
  ASSUME PipelineCorrect
  PROVE  RetrievalIsKept
BY RunIsKept DEF PipelineCorrect, RetrievalIsKept

\* of evidence and verification,
LEMMA EvidenceEarned ==
  ASSUME PipelineCorrect
  PROVE  EvidenceIsEarned
<1>1. subject = "retrieval" => Search!SufficiencyIsEarned
  BY RunIsKept DEF PipelineCorrect
<1>2. ASSUME subject = "evidence", NEW school \in {noSchool, "hanafi", "shafii"}
      PROVE  /\ Judgement!BetterIsNoWorse(sample, Samples, school)
             /\ Judgement!FlawsStay(sample, Samples, school)
  <2>1. PICK n \in Nat : sample \in [1..n -> Samples]
    BY <1>2 DEF PipelineCorrect, SampleGiven
  <2>. QED BY <2>1, EvidenceJudged
<1>3. ASSUME subject = "verification"
      PROVE  /\ \A requested \in {none, "hanafi"}, requirePacks \in BOOLEAN :
                  /\ Citations!WithdrawalIsNoticed(sample.draft, sample.context, requested, requirePacks)
                  /\ Citations!ClaimsStandAlone(sample.draft, OtherClaims, sample.context, requested,
                                                requirePacks)
             /\ \A claim \in ToSet(sample.draft.claims) :
                  Citations!EvidenceAddsUp(claim, sample.context)
  <2>1. PICK draft \in Drafts, context \in [Tokens -> Packs \union {none}] :
          sample = [draft |-> draft, context |-> context]
    BY <1>3 DEF PipelineCorrect, SampleGiven
  <2>2. sample.draft = draft /\ sample.context = context
    BY <2>1
  <2>3. ASSUME NEW requested \in {none, "hanafi"}, NEW requirePacks \in BOOLEAN
        PROVE  /\ Citations!WithdrawalIsNoticed(draft, context, requested, requirePacks)
               /\ Citations!ClaimsStandAlone(draft, OtherClaims, context, requested, requirePacks)
    BY WithdrawalNoticed, ClaimsAlone
  <2>4. ASSUME NEW claim \in ToSet(draft.claims)
        PROVE  Citations!EvidenceAddsUp(claim, context)
    <3>1. claim \in Citations!ToSet(draft.claims)
      BY DEF Citations!ToSet, ToSet
    <3>. QED BY <3>1, EvidenceAdds
  <2>. QED BY <2>2, <2>3, <2>4
<1>. QED BY <1>1, <1>2, <1>3 DEF EvidenceIsEarned

\* and of the calls.
LEMMA CallsInPlace ==
  ASSUME PipelineCorrect
  PROVE  CallsKeepTheirPlaces
BY BatchesInPlace DEF PipelineCorrect, CallsKeepTheirPlaces, AdapterCorrect

\* Beside the other parts the workflow is that of AnswerWorkflow, so that the theorems
\* about it hold of the pipeline too (answer_orchestration.py).
THEOREM PipelineRunsWorkflow == PipelineSpec => Spec
<1>1. PipelineInit => Init
  BY DEF PipelineInit
<1>2. [PipelineNext]_pipelineVars => [Next]_vars
  BY DEF PipelineNext, pipelineVars
<1>. QED BY <1>1, <1>2, PTL DEF PipelineSpec, Spec

\* The invariant holds of every behaviour of the pipeline.
LEMMA PipelineStays == PipelineSpec => []PipelineCorrect
<1>1. PipelineInit => PipelineCorrect
  BY PipelineBegins
<1>2. PipelineCorrect /\ [PipelineNext]_pipelineVars => PipelineCorrect'
  BY PipelineKept
<1>. QED BY <1>1, <1>2, PTL DEF PipelineSpec

\* For any set of chunks, whatever the searches find of them and the reranker says of
\* them, and for any page: the results are ranked as their signals say, and handed on
\* and stored alike by whoever writes; the flag of the run is the decision on them if
\* the judgement is given the run, and otherwise says that anything was found
\* (hybrid_search.py, reranker.py, evidence_sufficiency.py).
THEOREM RetrievalIsTrue == PipelineSpec => []RetrievalIsKept
<1>1. PipelineCorrect => RetrievalIsKept
  BY RetrievalKept
<1>. QED BY <1>1, PipelineStays, PTL

\* For any candidates, drafts, claims and citations: no reranker makes evidence of what
\* was found too weak, better candidates never lower a status, no candidate hides a
\* conflict or a flaw, and no claim is verified by a withdrawn citation or by another
\* claim (evidence_sufficiency.py, citation_verification.py).
THEOREM EvidenceIsTrue == PipelineSpec => []EvidenceIsEarned
<1>1. PipelineCorrect => EvidenceIsEarned
  BY EvidenceEarned
<1>. QED BY <1>1, PipelineStays, PTL

\* For any texts, any size of batch and any number of retries and lines: every vector
\* and every line is in its place, and a failing call gives up within its attempts
\* (embeddings.py, openai_llm_adapter.py).
THEOREM CallsInOrder == PipelineSpec => []CallsKeepTheirPlaces
<1>1. PipelineCorrect => CallsKeepTheirPlaces
  BY CallsInPlace
<1>. QED BY <1>1, PipelineStays, PTL

=============================================================================
