------------------------------ MODULE HttpApi ------------------------------
(***************************************************************************)
(* Who gets through the HTTP API (app.py) to which records: one account's  *)
(* request passes the checks of require_permission, each a transaction of  *)
(* its own, while the account's roles, status and second factor change.    *)
(* An endpoint is what it requires and what it may change; what it does    *)
(* then is the services' business.  The chat's service is built before     *)
(* anything is checked, and building it may write (PromptRegistry).  The   *)
(* access token of a request is valid and outlives any change of the       *)
(* account (15 minutes).                                                   *)
(***************************************************************************)
EXTENDS Integers, FiniteSets

CONSTANTS
  MaxChanges,  \* bound on the changes of the account during one request
  MaxRoles     \* bound on the roles the account holds at once

VARIABLES
  account,  \* roles, status = "active", confirmed second factor
  request,  \* the request in flight: credential, endpoint, check passed, seeding done
  since     \* history: what the account was at some moment since it arrived

vars == <<account, request, since>>

-----------------------------------------------------------------------------
(* rbac.py: ROLE_PERMISSION_MATRIX                                         *)

Roles == {"user", "data_operator", "translator", "reviewer", "senior_scholar",
          "admin", "auditor", "maintainer"}

OwnAccount == {"sessions.revoke_own", "users.read_self"}

\* the permissions no endpoint asks for are left out
RolePermissions(role) ==
  OwnAccount \union
  CASE role = "user"          -> {"feedback.create", "conversations.manage_own"}
    [] role = "data_operator" -> {"documents.upload", "licenses.read"}
    [] role = "translator"    -> {"documents.review", "licenses.read"}
    [] role = "reviewer"      -> {"documents.review", "answers.review", "feedback.read",
                                  "feedback.manage", "evaluations.read", "licenses.read"}
    [] role = "senior_scholar" ->
         {"documents.review", "documents.approve", "documents.publish", "documents.archive",
          "answers.review", "answers.invalidate", "licenses.read", "evaluations.read"}
    [] role = "admin" ->
         {"users.read", "users.manage", "users.roles.manage", "documents.upload",
          "documents.review", "documents.approve", "documents.publish", "documents.archive",
          "answers.review", "answers.invalidate", "providers.read", "providers.manage",
          "licenses.read", "licenses.manage", "prompts.manage", "models.manage",
          "audit.read", "audit.export", "feedback.read", "feedback.manage",
          "evaluations.read"}
    [] role = "auditor" ->
         {"users.read", "providers.read", "licenses.read", "audit.read", "audit.export",
          "feedback.read", "evaluations.read"}
    [] role = "maintainer" ->
         {"providers.read", "providers.manage", "prompts.manage", "models.manage", "audit.read"}

Permissions(roles) == UNION {RolePermissions(role) : role \in roles}

\* mfa.py: PRIVILEGED_ROLE_NAMES
Privileged == {"reviewer", "senior_scholar", "admin"}

-----------------------------------------------------------------------------
(* The endpoints, in the order of app.py.  requires is a permission, or    *)
(* "nothing", "token" (a valid access token), "active_account" (looked up  *)
(* by the service) or "speaker" (a guest token, or an access token with    *)
(* conversations.manage_own); factor says whether require_permission       *)
(* checks the second factor too, seeds whether building the service may    *)
(* write the default policy, prompt and model.                             *)

Guarded(permission, touches) ==
  [requires |-> permission, factor |-> TRUE, touches |-> touches, seeds |-> FALSE]

Loose(requirement, touches) ==
  [requires |-> requirement, factor |-> FALSE, touches |-> touches, seeds |-> FALSE]

\* the service is the one of chat_streaming_service
Streaming(requirement) == [Loose(requirement, "conversations") EXCEPT !.seeds = TRUE]

\* health, metrics; the dashboard of the metrics
Operations == {Loose("nothing", "no_record"), Guarded("audit.read", "no_record")}

\* register (with the pilot's invite list), login, refresh, logout, resets
Authentication == {Loose("nothing", "sessions")}

\* revoke-all; me; preferences, whose service does not look at the status
OwnEndpoints ==
  {Guarded("sessions.revoke_own", "sessions"), Loose("active_account", "no_record"),
   Loose("token", "preferences")}

\* bootstrap, grant and revoke a role; list users, set status, end sessions
UserEndpoints ==
  {Guarded("users.roles.manage", "roles"), Guarded("users.read", "no_record"),
   Guarded("users.manage", "accounts")}

\* list, create, update and test providers; list, create and update models
ProviderEndpoints ==
  {Guarded("providers.read", "no_record"), Guarded("providers.manage", "providers"),
   Guarded("models.manage", "models")}

\* assert_can_approve_document checks its permission itself
AuditEndpoints ==
  {Loose("documents.approve", "no_record"), Guarded("audit.read", "no_record"),
   Guarded("audit.export", "no_record")}

\* create, list, compare, roll back, bootstrap, get and approve prompts
PromptEndpoints == {Guarded("prompts.manage", "prompts")}

\* start and convert a guest session; stream, reconnect to and cancel a stream
ChatEndpoints ==
  {Loose("nothing", "sessions"), Streaming("speaker"), Streaming("conversations.manage_own")}

\* conversations, saved answers, feedback of one's own
HistoryEndpoints ==
  {Guarded("conversations.manage_own", "conversations"),
   Guarded("feedback.create", "feedback")}

\* queue and detail; assign, classify, resolve
FeedbackEndpoints ==
  {Guarded("feedback.read", "no_record"), Guarded("feedback.manage", "feedback")}

\* evaluation runs; incidents, their timeline and regression cases
IncidentEndpoints ==
  {Guarded("evaluations.read", "no_record"), Guarded("feedback.manage", "incidents"),
   Guarded("feedback.read", "no_record")}

\* invalidate an answer, discover the affected ones; public citations and sources
AnswerEndpoints ==
  {Guarded("answers.invalidate", "answers"), Guarded("answers.review", "no_record"),
   Loose("nothing", "no_record")}

\* status, enroll, confirm, challenges, reset and rotate
MfaEndpoints == {Loose("active_account", "second_factor")}

\* register an upload, scan it, ask for eligibility, parse it
DocumentEndpoints == {Guarded("documents.upload", "documents")}

\* create, update, suspend and read sources; create, replace and read licences
SourceEndpoints ==
  {Guarded("licenses.manage", "sources"), Guarded("licenses.read", "no_record")}

\* queue, dashboard, drafts, comments, decisions
ReviewEndpoints == {Guarded("documents.review", "reviews")}

\* approve; publish, suspend, archive, roll back
PublicationEndpoints ==
  {Guarded("documents.review", "approvals"), Guarded("documents.publish", "publication"),
   Guarded("documents.archive", "publication")}

\* revoke an approval; claim, release, assign and escalate a review task
TaskEndpoints ==
  {Guarded("documents.review", "approvals"), Guarded("documents.review", "reviews")}

Endpoints ==
  UNION {Operations, Authentication, OwnEndpoints, UserEndpoints, ProviderEndpoints,
         AuditEndpoints, PromptEndpoints, ChatEndpoints, HistoryEndpoints,
         FeedbackEndpoints, IncidentEndpoints, AnswerEndpoints, MfaEndpoints,
         DocumentEndpoints, SourceEndpoints, ReviewEndpoints, PublicationEndpoints,
         TaskEndpoints}

-----------------------------------------------------------------------------
Idle ==
  [credential |-> "none", endpoint |-> Loose("nothing", "no_record"), passed |-> "idle",
   seeded |-> FALSE]

Needs(endpoint) ==
  CASE endpoint.requires = "speaker" -> {"conversations.manage_own"}
    [] endpoint.requires \in {"nothing", "token", "active_account"} -> {}
    [] OTHER -> {endpoint.requires}

\* what the account is now, for the history of a request to this endpoint
Seen(acc, endpoint) ==
  [roles |-> acc.roles, active |-> acc.active, enrolled |-> acc.enrolled,
   allowed |-> acc.active /\ Needs(endpoint) \subseteq Permissions(acc.roles),
   demoted |-> FALSE, changes |-> 0]

Nothing == Seen([roles |-> {}, active |-> FALSE, enrolled |-> FALSE], Idle.endpoint)

\* the dependencies of the handler are built, its own checks come after them:
\* without an approved default build_chat_streaming_service seeds the registry
Arrive(credential, endpoint, seeded) ==
  /\ request = Idle
  /\ seeded => endpoint.seeds
  /\ request' = [credential |-> credential, endpoint |-> endpoint, passed |-> "arrival",
                 seeded |-> seeded]
  /\ since' = Seen(account, endpoint)
  /\ UNCHANGED account

\* the answer, an error or what the service returned, is sent
Answer ==
  /\ request # Idle
  /\ request' = Idle
  /\ since' = Nothing
  /\ UNCHANGED account

Pass(from, to) ==
  /\ request.passed = from
  /\ request' = [request EXCEPT !.passed = to]
  /\ UNCHANGED <<account, since>>

\* no permission is asked for; a guest's token was counted in GuestSession
Recognise ==
  /\ \/ request.endpoint.requires = "nothing"
     \/ request.endpoint.requires = "token" /\ request.credential = "user"
     \/ request.endpoint.requires = "speaker" /\ request.credential = "guest"
  /\ Pass("arrival", "all_checks")

\* RbacService.require_permission
CheckPermission ==
  /\ request.credential = "user"
  /\ request.endpoint.requires \notin {"nothing", "token"}
  /\ account.active
  /\ Needs(request.endpoint) \subseteq Permissions(account.roles)
  /\ Pass("arrival", IF request.endpoint.factor THEN "permission" ELSE "all_checks")

\* assert_privileged_access, first transaction
CheckActive == account.active /\ Pass("permission", "status")

\* seeded fault: only admins need a second factor
CheckRoleAdminsOnly ==
  Pass("status", IF "admin" \in account.roles THEN "role" ELSE "all_checks")

\* second transaction: without a privileged role the factor is not asked for
CheckRole ==
  Pass("status", IF account.roles \intersect Privileged # {} THEN "role" ELSE "all_checks")

\* third transaction
CheckFactor == account.enrolled /\ Pass("role", "all_checks")

\* the handler calls its service
Serve == Pass("all_checks", "served")

-----------------------------------------------------------------------------
\* an administrator, or the account itself in another request, changes the
\* account: roles (grant_role, revoke_role), status, second factor
Change(acc) ==
  /\ acc # account
  /\ request.passed # "served"
  /\ account' = acc
  /\ IF request = Idle THEN UNCHANGED since
     ELSE /\ since.changes < MaxChanges
          /\ since' = LET now == Seen(acc, request.endpoint)
                      IN  [roles |-> since.roles \union now.roles,
                           active |-> since.active \/ now.active,
                           enrolled |-> since.enrolled \/ now.enrolled,
                           allowed |-> since.allowed \/ now.allowed,
                           demoted |-> since.demoted \/ account.roles \ acc.roles # {},
                           changes |-> since.changes + 1]
  /\ UNCHANGED request

Meanwhile ==
  \/ \E role \in Roles :
       \/ /\ Cardinality(account.roles) < MaxRoles
          /\ Change([account EXCEPT !.roles = @ \union {role}])
       \/ Change([account EXCEPT !.roles = @ \ {role}])
  \/ Change([account EXCEPT !.active = ~ @])
  \/ Change([account EXCEPT !.enrolled = ~ @])

Init ==
  /\ account = [roles |-> {"user"}, active |-> TRUE, enrolled |-> FALSE]
  /\ request = Idle
  /\ since = Nothing

Next ==
  \/ \E credential \in {"none", "guest", "user"}, endpoint \in Endpoints, seeded \in BOOLEAN :
       Arrive(credential, endpoint, seeded)
  \/ Recognise
  \/ CheckPermission
  \/ CheckActive
  \/ CheckRole
  \/ CheckFactor
  \/ Serve
  \/ Answer
  \/ Meanwhile

Spec == Init /\ [][Next]_vars

-----------------------------------------------------------------------------
(* Properties.                                                             *)

Served(by) == request.passed = "served" /\ request.credential = by

\* what this request has changed, or its service may change, so far
Changed ==
  (IF request.passed = "served" THEN {request.endpoint.touches} \ {"no_record"} ELSE {})
    \union (IF request.seeded THEN {"defaults"} ELSE {})

\* the registry's defaults are the one thing a request writes unchecked, on its
\* way to the chat and even if it is refused then
Besides(records) ==
  records \union (IF request.endpoint \in ChatEndpoints THEN {"defaults"} ELSE {})

\* However the account changed meanwhile, it was active and held the permission
\* of a request that is served at some moment since the request arrived.
ServedWasAllowed ==
  Served("user") /\ Needs(request.endpoint) # {} => since.allowed

\* A request of an account that was disabled all the while changes nothing but
\* its preferences (update_preferences does not look at the status), and the
\* defaults of the registry on its way to the chat.
DisabledChangesPreferencesOnly ==
  request.credential = "user" /\ ~ since.active /\ request.endpoint.requires # "nothing"
    => Changed \subseteq Besides({"preferences"})

Sensitive == {"publication", "answers", "accounts", "roles"}

\* Publications, answers, accounts and roles are changed with a confirmed
\* second factor, unless the account lost a role while its request was being
\* checked: require_permission reads the role again after the permission.
FactorOrDemoted ==
  request.credential = "user" /\ Changed \intersect Sensitive # {}
    => since.enrolled \/ since.demoted

\* docs/security/rbac.md: an account that was nothing but an auditor since its
\* request arrived changes nothing but its own session, preferences and factor,
\* and the defaults of the registry on its way to the chat, which refuses it.
AuditorReadsOnly ==
  request.credential = "user" /\ since.roles = {"auditor"} =>
    Changed \subseteq Besides({"sessions", "preferences", "second_factor"})

\* docs/security/rbac.md: only who was a senior scholar or an admin publishes.
ReviewersDoNotPublish ==
  request.credential = "user" /\ "publication" \in Changed =>
    since.roles \intersect {"senior_scholar", "admin"} # {}

\* Without an access token nothing changes but sessions, with a guest's token
\* the guest's conversation, and on the way to the chat the registry's defaults
\* (docs/governance/prompt-management.md promises prompts.manage for them).
AnonymousOnlyChats ==
  /\ request.credential = "none"  => Changed \subseteq Besides({"sessions"})
  /\ request.credential = "guest" => Changed \subseteq Besides({"sessions", "conversations"})

=============================================================================
