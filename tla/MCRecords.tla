----------------------------- MODULE MCRecords -----------------------------
(* Small instances for TLC of what is kept about sources, documents,       *)
(* prompts, models, reports and answers.  The subjects share no row here,  *)
(* so a behaviour keeps to the one it starts with.                         *)
EXTENDS Naturals, FiniteSets, TLC

CONSTANTS
  Req,          \* the calls of the subjects that make one at a time
  Calls,        \* those of the subjects that race
  Sources, Licences, Documents, Contents, Infected,      \* Ingestion
  MaxRecords, MaxFlush,                                  \* AuditChain
  Days,                                                  \* LicensePolicy
  Prompts, DefaultPrompt, MaxBegun,                      \* PromptRegistry
  Providers, Models, TypeOf,                             \* ProviderAdmin
  Reports, Reviewers,                                    \* FeedbackReview
  Incidents, Owners, MaxEvents,                          \* IncidentManagement
  Answers, Keys, AnswerOf, Withdrawals, AnswersOn, MaxNotices,  \* AnswerInvalidation
  Users, Savers, Conversations, SavedRows,               \* SavedAnswers
  nobody        \* none of the users, owners, reviewers, models and so on

ASSUME RecordsAssumption ==
  /\ MaxFlush \in Nat /\ Days \in Nat /\ MaxEvents \in Nat
  /\ AnswerOf \in [Keys -> Answers]
  /\ AnswersOn \in [Withdrawals -> SUBSET Answers]
  /\ Keys \intersect Withdrawals = {}
  /\ DefaultPrompt \in Prompts
  /\ IsFiniteSet(Req) /\ IsFiniteSet(Calls)
  /\ nobody \notin Users \union Savers \union Prompts

VARIABLES
  subject,
  source, licence, document, objects, incident, found, lost, unanswered, parsed, uploads,
  log, pending, clock,
  terms,
  prompt, policy, route, chats, begun, chosen,
  provider, model, updates, routed,
  report, reviews,
  case, event, cases, alerted, handling,
  answer, record, notices, withdrawn, crossed, now, repeats,
  thread, saved, clicks, cleared

ingestionVars    == <<source, licence, document, objects, incident, found, lost, unanswered, parsed, uploads>>
auditVars        == <<log, pending, clock>>
promptVars       == <<prompt, policy, route, chats, begun, chosen>>
providerVars     == <<provider, model, updates, routed>>
feedbackVars     == <<report, reviews>>
incidentVars     == <<case, event, cases, alerted, handling>>
invalidationVars == <<answer, record, notices, withdrawn, crossed, now, repeats>>
savedVars        == <<thread, saved, clicks, cleared>>

\* each component with the calls R that may be in flight at the same time
Upload(R)     == INSTANCE Ingestion
                   WITH Req <- R, txn <- uploads, NoSource <- nobody, NoContent <- nobody
Audit(R, n)   == INSTANCE AuditChain WITH Req <- R, MaxFlush <- n
Policy        == INSTANCE LicensePolicy
Prompt(R)     == INSTANCE PromptRegistry
                   WITH Req <- R, txn <- chats, Versions <- Prompts, Default <- DefaultPrompt,
                        NoVersion <- nobody
Providing     == INSTANCE ProviderAdmin WITH txn <- updates, NoModel <- nobody
Report(R)     == INSTANCE FeedbackReview WITH Req <- R, txn <- reviews, NoReviewer <- nobody
Incident(R)   == INSTANCE IncidentManagement
                   WITH Req <- R, incident <- case, txn <- handling, Keys <- Incidents,
                        NoOwner <- nobody
Withdrawal    == INSTANCE AnswerInvalidation WITH Req <- Calls, txn <- repeats
Bookmark(R, U) == INSTANCE SavedAnswers
                   WITH Req <- R, Users <- U, txn <- clicks, Nobody <- nobody, Rows <- SavedRows

\* the licences the policy decides on, over the days 0..Days
Dates == {Policy!NoDate, 1, 2}
Terms ==
  {l \in [status: Policy!Statuses, validFrom: Dates, validUntil: Dates,
          storage: Policy!Permissions, embedding: {"conditional", "unknown"},
          commercial: {"allowed", "prohibited"}, redistribution: {"conditional", "unknown"},
          attributionRequired: BOOLEAN, attributionTemplate: BOOLEAN] : Policy!Storable(l)}

Subjects == {"upload", "racing uploads", "audit", "racing audit", "licence",
             "prompt", "racing prompts", "providers", "report", "racing reports",
             "incident", "racing incidents", "withdrawals",
             "bookmark", "racing bookmarks"}

TypeOfModel == [m \in Models |-> IF m = 1 THEN "first" ELSE "second"]
SameAnswer == [k \in Keys |-> CHOOSE a \in Answers : TRUE]
AllAnswers == [w \in Withdrawals |-> Answers]

-----------------------------------------------------------------------------
RecordsInit ==
  /\ subject \in Subjects
  /\ IF subject = "racing uploads" THEN Upload(Calls)!Init ELSE Upload(Req)!Init
  /\ IF subject = "racing audit" THEN Audit(Calls, MaxFlush)!Init ELSE Audit(Req, 1)!Init
  /\ IF subject = "licence" THEN terms \in Terms ELSE terms = nobody
  /\ IF subject = "racing prompts" THEN Prompt(Calls)!Init ELSE Prompt(Req)!Init
  /\ Providing!Init
  /\ IF subject = "racing reports" THEN Report(Calls)!Init ELSE Report(Req)!Init
  /\ IF subject = "racing incidents" THEN Incident(Calls)!Init ELSE Incident(Req)!Init
  /\ Withdrawal!Init
  /\ IF subject = "racing bookmarks" THEN Bookmark(Calls, Savers)!Init ELSE Bookmark(Req, Users)!Init

Others(own) ==
  /\ own # "ingestion"    => UNCHANGED ingestionVars
  /\ own # "audit"        => UNCHANGED auditVars
  /\ own # "prompts"      => UNCHANGED promptVars
  /\ own # "providers"    => UNCHANGED providerVars
  /\ own # "feedback"     => UNCHANGED feedbackVars
  /\ own # "incidents"    => UNCHANGED incidentVars
  /\ own # "invalidation" => UNCHANGED invalidationVars
  /\ own # "saved"        => UNCHANGED savedVars

IngestionNext ==
  \/ subject = "upload" /\ Upload(Req)!Next
  \/ subject = "racing uploads" /\ Upload(Calls)!Next

AuditNext ==
  \/ subject = "audit" /\ Audit(Req, 1)!Next
  \/ subject = "racing audit" /\ Audit(Calls, MaxFlush)!Next

PromptNext ==
  \/ subject = "prompt" /\ Prompt(Req)!Next
  \/ subject = "racing prompts" /\ Prompt(Calls)!Next

FeedbackNext ==
  \/ subject = "report" /\ Report(Req)!Next
  \/ subject = "racing reports" /\ Report(Calls)!Next

IncidentNext ==
  \/ subject = "incident" /\ Incident(Req)!Next
  \/ subject = "racing incidents" /\ Incident(Calls)!Next

SavedNext ==
  \/ subject = "bookmark" /\ Bookmark(Req, Users)!Next
  \/ subject = "racing bookmarks" /\ Bookmark(Calls, Savers)!Next

RecordsNext ==
  /\ UNCHANGED <<subject, terms>>
  /\ \/ IngestionNext /\ Others("ingestion")
     \/ AuditNext /\ Others("audit")
     \/ PromptNext /\ Others("prompts")
     \/ subject = "providers" /\ Providing!Next /\ Others("providers")
     \/ FeedbackNext /\ Others("feedback")
     \/ IncidentNext /\ Others("incidents")
     \/ subject = "withdrawals" /\ Withdrawal!Next /\ Others("invalidation")
     \/ SavedNext /\ Others("saved")

recordsVars ==
  <<subject, terms, ingestionVars, auditVars, promptVars, providerVars,
    feedbackVars, incidentVars, invalidationVars, savedVars>>

RecordsSpec == RecordsInit /\ [][RecordsNext]_recordsVars

-----------------------------------------------------------------------------
\* Whatever fails between the store and the database, a committed version's
\* object is in the store unless the answer to its commit was lost, only a crash
\* or a failing store leaves an object without a row, and nothing infected or
\* unscanned reaches a parser or a reviewer; one upload at a time, a content is
\* registered once (Ingestion).
UploadsAreKept ==
  /\ subject = "upload" =>
       /\ Upload(Req)!VersionsHaveObjects
       /\ Upload(Req)!OrphansAreLost
       /\ Upload(Req)!ReviewedIsClean
       /\ Upload(Req)!OneRowPerContent
  /\ subject = "racing uploads" =>
       Upload(Calls)!VersionsHaveObjects /\ Upload(Calls)!OrphansAreLost /\ Upload(Calls)!ReviewedIsClean

\* No audit record continues from one that is not committed, and one record at
\* a time they are one line (AuditChain).
AuditIsLinked ==
  /\ subject = "audit"        => Audit(Req, 1)!NoDanglingLink /\ Audit(Req, 1)!OneLine
  /\ subject = "racing audit" => Audit(Calls, MaxFlush)!NoDanglingLink

\* The decisions on a licence agree with each other on every day: what may be
\* retrieved may be ingested, a use is allowed on all days of the validity or
\* none, the status caps the permissions, and the cache is kept as long as the
\* licence lets one store (LicensePolicy).
LicenceDecisionsAgree ==
  subject = "licence" =>
    /\ Policy!RetrievalNeedsIngestion(terms, Days)
    /\ Policy!AllowedWhileValid(terms, Days)
    /\ Policy!StatusCaps(terms, Days)
    /\ Policy!CacheFollowsStorage(terms, Days)

\* No answer is built on a draft of the prompt, overlapping approvals leave no
\* more approved prompts than overlapped, and one call at a time there is one,
\* seeding provides what a chat needs (PromptRegistry), and a default model is
\* handed over, with fallbacks of its type (ProviderAdmin).
ChatStaysConfigured ==
  /\ subject = "prompt" =>
       /\ Prompt(Req)!OneActive
       /\ Prompt(Req)!ApprovedBounded
       /\ Prompt(Req)!DraftsAreNotUsed
       /\ Prompt(Req)!SeedingSuffices
  /\ subject = "racing prompts" => Prompt(Calls)!ApprovedBounded /\ Prompt(Calls)!DraftsAreNotUsed
  /\ subject = "providers"      => Providing!RouteKept /\ Providing!FallbackFits

\* A closed report has the resolution of the call that closed it; one call at a
\* time, the reports in review are those with a reviewer (FeedbackReview).
ReportsAreClosed ==
  /\ subject = "report"         => Report(Req)!ClosedByItsResolution /\ Report(Req)!QueueFollowsReviewer
  /\ subject = "racing reports" => Report(Calls)!ClosedByItsResolution

\* An urgent incident is announced before it is stored, its timeline moves along
\* the machine, and cases come from confirmed incidents only; one call at a
\* time, the timeline is the history of the row (IncidentManagement).
IncidentsAreTraced ==
  /\ subject = "incident" =>
       /\ Incident(Req)!StoredIsAnnounced
       /\ Incident(Req)!TimelineStepsAreMoves
       /\ Incident(Req)!TimelineIsHistory
       /\ Incident(Req)!CasesAreConfirmed
  /\ subject = "racing incidents" =>
       /\ Incident(Calls)!StoredIsAnnounced
       /\ Incident(Calls)!TimelineStepsAreMoves
       /\ Incident(Calls)!CasesAreConfirmed

\* However calls overlap, an answer is invalidated exactly when a record says so
\* or content it was built on was withdrawn, and a reason misses among its
\* warnings only where calls crossed on it (AnswerInvalidation); it is saved
\* once, by the owner of its conversation, and one call at a time saving again
\* takes the same row back and deleting all empties the history (SavedAnswers).
AnswersAgree ==
  /\ subject = "withdrawals" => Withdrawal!InvalidationHasReason /\ Withdrawal!EveryReasonWarns
  /\ subject = "bookmark" =>
       /\ Bookmark(Req, Users)!SavedOnceByOwner
       /\ Bookmark(Req, Users)!RowIsTakenBack
       /\ Bookmark(Req, Users)!HistoryIsCleared
  /\ subject = "racing bookmarks" => Bookmark(Calls, Savers)!SavedOnceByOwner

\* The above in every state, and the time of the first invalidation of an answer
\* stays, but where calls crossed on it (AnswerInvalidation).
AnswersAreAccountedFor ==
  []AnswersAgree /\ [][subject = "withdrawals" => Withdrawal!TimesStay]_answer

=============================================================================
