--------------------------- MODULE PromptRegistry ---------------------------
(***************************************************************************)
(* The versions of the answer prompt (prompt_registry.py) and the chat     *)
(* requests that resolve one (app.py, prompt_orchestrator.py).  A request  *)
(* that finds no approved prompt, no policy or no default model seeds the  *)
(* defaults first, in transactions of their own.  A transaction loads its  *)
(* row, selects the other approved rows and commits in three steps; now()  *)
(* is the time it began.                                                   *)
(***************************************************************************)
EXTENDS Integers, FiniteSets

CONSTANTS
  Req,       \* the requests that may be in flight at the same time
  Versions,  \* versions of the prompt (a bound)
  Default,   \* the version the program brings along
  NoVersion,
  MaxBegun   \* bound on the approvals that begin

VARIABLES
  prompt,   \* prompt_versions: status and updated_at
  policy,   \* whether the policy version has been stored
  route,    \* whether a default model is set, and the seeded model stored
  txn,      \* the requests in flight
  begun,    \* how many approvals have begun
  chosen    \* history: the version a manager activated last

vars == <<prompt, policy, route, txn, begun, chosen>>

-----------------------------------------------------------------------------
Absent == [status |-> "absent", updated |-> 0]

\* at: the step the request is at; ver, was, others: the row it loaded, the
\* status it had and the approved rows it selected; first: the version the
\* request will name; seeding: whether a chat request seeds the defaults
Idle == [at |-> "none", who |-> "nobody", seeding |-> FALSE, ver |-> NoVersion,
         was |-> "absent", others |-> {}, start |-> 0, first |-> NoVersion]

Free(r) == txn[r] = Idle

Approved == {v \in Versions : prompt[v].status = "approved"}

\* seeded fault: the latest version counts, approved or not
ActiveWhatever ==
  LET rows == {v \in Versions : prompt[v] # Absent}
  IN  IF rows = {} THEN NoVersion
      ELSE CHOOSE v \in rows : \A w \in rows : prompt[w].updated <= prompt[v].updated

\* _active_prompt
Active ==
  IF Approved = {} THEN NoVersion
  ELSE CHOOSE v \in Approved : \A w \in Approved : prompt[w].updated <= prompt[v].updated

\* resolve_answer_dependencies finds all it needs
Resolvable == Active # NoVersion /\ policy /\ route.default

-----------------------------------------------------------------------------
(* What a manager does.                                                    *)

CreatePrompt(v) ==
  /\ prompt[v] = Absent
  /\ prompt' = [prompt EXCEPT ![v] = [Absent EXCEPT !.status = "draft"]]
  /\ UNCHANGED <<policy, route, txn, begun, chosen>>

\* the transaction of approve_prompt or rollback_prompt on v begins
Load(r, v, who, seeding) ==
  /\ begun < MaxBegun
  /\ begun' = begun + 1
  /\ txn' = [txn EXCEPT ![r] =
       [Idle EXCEPT !.at = "loaded", !.who = who, !.seeding = seeding, !.ver = v,
                    !.was = prompt[v].status, !.start = begun + 1]]
  /\ UNCHANGED <<prompt, policy, route, chosen>>

ApprovePrompt(r, v) ==
  /\ Free(r)
  /\ prompt[v].status \in {"draft", "deprecated"}
  /\ Load(r, v, "manager", FALSE)

RollbackPrompt(r, v) ==
  /\ Free(r)
  /\ prompt[v].status \in {"approved", "deprecated"}
  /\ Load(r, v, "manager", FALSE)

\* _deprecate_other_approved
SelectOthers(r) ==
  /\ txn[r].at = "loaded"
  /\ txn' = [txn EXCEPT ![r].at = "selected", ![r].others = Approved \ {txn[r].ver}]
  /\ UNCHANGED <<prompt, policy, route, begun, chosen>>

\* the rows after the commit: a status that is already as it should be is not
\* written
Committed(t) ==
  [v \in Versions |->
     IF v = t.ver /\ t.was # "approved" THEN [status |-> "approved", updated |-> t.start]
     ELSE IF v \in t.others THEN [status |-> "deprecated", updated |-> t.start]
     ELSE prompt[v]]

CommitApproval(r) ==
  LET t == txn[r]
  IN  /\ t.at = "selected"
      /\ prompt' = Committed(t)
      /\ chosen' = IF t.who = "manager" THEN t.ver ELSE chosen
      /\ txn' = [txn EXCEPT ![r] = IF t.seeding THEN [Idle EXCEPT !.at = "route", !.who = t.who]
                                   ELSE Idle]
      /\ UNCHANGED <<policy, route, begun>>

\* provider_admin.py: an update takes the default away, or gives it
ChangeRoute(on) ==
  /\ route.default # on
  /\ route' = [route EXCEPT !.default = on]
  /\ UNCHANGED <<prompt, policy, txn, begun, chosen>>

-----------------------------------------------------------------------------
(* build_chat_streaming_service and bootstrap_registry_defaults.  A       *)
(* manager may call the latter too.                                        *)

Goto(r, at) == txn' = [txn EXCEPT ![r].at = at]

StartChat(r) ==
  /\ Free(r)
  /\ txn' = [txn EXCEPT ![r] = [Idle EXCEPT !.at = "resolve", !.who = "chat"]]
  /\ UNCHANGED <<prompt, policy, route, begun, chosen>>

StartBootstrap(r) ==
  /\ Free(r)
  /\ txn' = [txn EXCEPT ![r] = [Idle EXCEPT !.at = "policy", !.who = "manager"]]
  /\ UNCHANGED <<prompt, policy, route, begun, chosen>>

\* seeds when something is missing; the second time it is an error
Resolve(r) ==
  /\ \/ /\ txn[r].at = "resolve" /\ ~ Resolvable
        /\ Goto(r, "policy")
     \/ /\ txn[r].at = "again" /\ ~ Resolvable
        /\ txn' = [txn EXCEPT ![r] = Idle]
     \/ /\ txn[r].at \in {"resolve", "again"} /\ Resolvable
        /\ txn' = [txn EXCEPT ![r].at = "build", ![r].first = Active]
  /\ UNCHANGED <<prompt, policy, route, begun, chosen>>

SeedPolicy(r) ==
  /\ txn[r].at = "policy"
  /\ policy' = TRUE
  /\ Goto(r, "prompt")
  /\ UNCHANGED <<prompt, route, begun, chosen>>

\* create_prompt
SeedPrompt(r) ==
  /\ txn[r].at = "prompt"
  /\ prompt[Default] = Absent
  /\ prompt' = [prompt EXCEPT ![Default] = [Absent EXCEPT !.status = "draft"]]
  /\ Goto(r, "approve")
  /\ UNCHANGED <<policy, route, begun, chosen>>

\* approve_prompt, unless it is approved already
SeedApproval(r) ==
  /\ \/ txn[r].at = "approve"
     \/ txn[r].at = "prompt" /\ prompt[Default] # Absent
  /\ IF prompt[Default].status = "approved"
     THEN Goto(r, "route") /\ UNCHANGED <<prompt, policy, route, begun, chosen>>
     ELSE Load(r, Default, txn[r].who, TRUE)

\* _ensure_default_llm_model_configuration: a second row of the same provider
\* and name breaks the unique index, and the request ends
SeedRoute(r) ==
  /\ txn[r].at = "route"
  /\ IF route.default \/ ~ route.seeded
     THEN /\ route' = [default |-> TRUE, seeded |-> route.seeded \/ ~ route.default]
          /\ txn' = [txn EXCEPT ![r] = IF txn[r].who = "chat" THEN [@ EXCEPT !.at = "again"] ELSE Idle]
     ELSE UNCHANGED route /\ txn' = [txn EXCEPT ![r] = Idle]
  /\ UNCHANGED <<prompt, policy, begun, chosen>>

\* build_managed_answer_orchestrator resolves once more: its version is the
\* one that is used, the first is the one whose id is recorded
BuildOrchestrator(r) ==
  /\ txn[r].at = "build"
  /\ txn' = [txn EXCEPT ![r] = IF Resolvable THEN [@ EXCEPT !.at = "answer", !.ver = Active]
                               ELSE Idle]
  /\ UNCHANGED <<prompt, policy, route, begun, chosen>>

Answered(r) ==
  /\ txn[r].at = "answer"
  /\ txn' = [txn EXCEPT ![r] = Idle]
  /\ UNCHANGED <<prompt, policy, route, begun, chosen>>

\* the process or the database fails before a commit
Abort(r) ==
  /\ ~ Free(r)
  /\ txn' = [txn EXCEPT ![r] = Idle]
  /\ UNCHANGED <<prompt, policy, route, begun, chosen>>

-----------------------------------------------------------------------------
Init ==
  /\ prompt = [v \in Versions |-> Absent]
  /\ policy = FALSE
  /\ route = [default |-> FALSE, seeded |-> FALSE]
  /\ txn = [r \in Req |-> Idle]
  /\ begun = 0
  /\ chosen = NoVersion

Manage ==
  \/ \E v \in Versions : CreatePrompt(v)
  \/ \E on \in BOOLEAN : ChangeRoute(on)
  \/ \E r \in Req :
       \/ \E v \in Versions : ApprovePrompt(r, v) \/ RollbackPrompt(r, v)
       \/ StartBootstrap(r)

Chat(r) == StartChat(r) \/ Resolve(r) \/ BuildOrchestrator(r) \/ Answered(r)

Seed(r) == SeedPolicy(r) \/ SeedPrompt(r) \/ SeedApproval(r) \/ SeedRoute(r)

Next ==
  \/ Manage
  \/ \E r \in Req :
       \/ Chat(r) \/ Seed(r)
       \/ SelectOthers(r) \/ CommitApproval(r)
       \/ Abort(r)

Spec == Init /\ [][Next]_vars

-----------------------------------------------------------------------------
(* Properties.                                                             *)

\* While requests do not overlap, the prompt has at most one approved version,
\* and one ever since a first was approved: answers never lose their prompt.
OneActive ==
  /\ Cardinality(Approved) <= 1
  /\ (\E v \in Versions : prompt[v].status = "deprecated") => Approved # {}

\* Approvals that overlap leave no more approved versions than overlapped.
ApprovedBounded == Cardinality(Approved) <= Cardinality(Req)

\* No answer is built on a draft, whatever is approved, rolled back or seeded
\* while the request resolves its prompt (prompt-management.md: drafts cannot
\* be used for answer generation).
DraftsAreNotUsed ==
  \A r \in Req : txn[r].at = "answer" =>
    /\ prompt[txn[r].ver].status \in {"approved", "deprecated"}
    /\ prompt[txn[r].first].status \in {"approved", "deprecated"}

\* One request at a time: once its seeding is through, a chat request finds
\* all it needs, unless the default model was taken away meanwhile.
SeedingSuffices ==
  \A r \in Req : txn[r].at = "again" => Active # NoVersion /\ policy

\* prompt-management.md, "Activation requires the prompts.manage permission
\* through the approve endpoint": what a manager activated last stays active.
ManagersChoose == chosen # NoVersion => Active = chosen

=============================================================================
