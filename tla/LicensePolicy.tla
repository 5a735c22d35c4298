--------------------------- MODULE LicensePolicy ---------------------------
(***************************************************************************)
(* The decisions of the licence policy engine (license_policy.py) for one  *)
(* licence and one day.                                                    *)
(***************************************************************************)
EXTENDS Integers

Statuses == {"unknown", "review_required", "ephemeral_cache_only", "persistent_private",
             "persistent_redistributable", "prohibited", "expired"}
Permissions == {"allowed", "prohibited", "conditional", "unknown"}
Persistent  == {"persistent_private", "persistent_redistributable"}
Allowing    == {"allowed", "conditional"}

NoDate == -1   \* valid_from or valid_until is not set

EphemeralTtl  == 86400
PersistentTtl == 604800

-----------------------------------------------------------------------------

\* _global_blocker
Blocked(l, today) ==
  \/ l.status \in {"unknown", "prohibited", "expired"}
  \/ l.validFrom # NoDate /\ l.validFrom > today
  \/ l.validUntil # NoDate /\ l.validUntil < today

PersistentStorage(l, today) ==
  ~ Blocked(l, today) /\ l.status \in Persistent /\ l.storage \in Allowing

\* seeded fault: what was cached once is cached for good
CacheUnblocked(l, today) ==
  l.status \in Persistent \union {"review_required", "ephemeral_cache_only"}

Cache(l, today) ==
  /\ ~ Blocked(l, today)
  /\ l.status \in Persistent \union {"review_required", "ephemeral_cache_only"}

CacheTtl(l, today) ==
  IF ~ Cache(l, today) THEN 0
  ELSE IF l.status \in Persistent THEN PersistentTtl ELSE EphemeralTtl

Embedding(l, today) ==
  /\ ~ Blocked(l, today) /\ l.status \in Persistent
  /\ l.storage \in Allowing /\ l.embedding \in Allowing

CommercialUse(l, today) ==
  ~ Blocked(l, today) /\ l.status \in Persistent /\ l.commercial \in Allowing

Redistribution(l, today) ==
  /\ ~ Blocked(l, today)
  /\ l.status = "persistent_redistributable"
  /\ l.redistribution \in Allowing

Attribution(l) == l.attributionRequired => l.attributionTemplate

\* an action of WORKFLOW_REQUIRED_ACTIONS
Allows(l, action, today) ==
  CASE action = "persistent_storage" -> PersistentStorage(l, today)
    [] action = "embedding"          -> Embedding(l, today)
    [] action = "commercial_use"     -> CommercialUse(l, today)
    [] action = "redistribution"     -> Redistribution(l, today)
    [] action = "attribution"        -> Attribution(l)

RequiredActions(workflow) ==
  CASE workflow = "ingestion" -> {"persistent_storage", "attribution"}
    [] workflow = "retrieval" -> {"persistent_storage", "embedding", "attribution"}
    [] workflow = "export"    -> {"redistribution", "commercial_use", "attribution"}
    [] OTHER                  -> {}

\* evaluate_license_policy: a workflow it does not know is refused
WorkflowAllowed(l, workflow, today) ==
  /\ RequiredActions(workflow) # {}
  /\ \A action \in RequiredActions(workflow) : Allows(l, action, today)

\* what LicenseService lets into source_licenses (_normalize_create)
Storable(l) ==
  l.validFrom # NoDate /\ l.validUntil # NoDate => l.validFrom <= l.validUntil

-----------------------------------------------------------------------------
(* Properties of a licence l over the days 0..days.                        *)

\* Whatever may be retrieved may have been ingested on the same day, so no
\* document is served that could not be stored.
RetrievalNeedsIngestion(l, days) ==
  \A today \in 0..days :
    WorkflowAllowed(l, "retrieval", today) => WorkflowAllowed(l, "ingestion", today)

\* A workflow is allowed on every day between two days it is allowed on, and
\* on the days of the licence's validity, both ends included, or on none.
AllowedWhileValid(l, days) ==
  \A w \in {"ingestion", "retrieval", "export"} :
    LET allowed == {today \in 0..days : WorkflowAllowed(l, w, today)}
        valid   == {today \in 0..days :
                      /\ l.validFrom = NoDate \/ today >= l.validFrom
                      /\ l.validUntil = NoDate \/ today <= l.validUntil}
    IN  allowed \in {{}, valid}

\* docs/architecture/license-policy-engine.md: a private licence authorises no
\* export, a licence under review or for the cache only no workflow at all.
StatusCaps(l, days) ==
  \A today \in 0..days :
    /\ l.status = "persistent_private" => ~ WorkflowAllowed(l, "export", today)
    /\ l.status \notin Persistent =>
         \A w \in {"ingestion", "retrieval", "export", "anything else"} :
           ~ WorkflowAllowed(l, w, today)

\* What may be stored for good may be cached as long, what may only be cached
\* for a day, and what is blocked not at all.
CacheFollowsStorage(l, days) ==
  \A today \in 0..days :
    /\ PersistentStorage(l, today) => CacheTtl(l, today) = PersistentTtl
    /\ l.status \notin Persistent => CacheTtl(l, today) \in {0, EphemeralTtl}
    /\ CacheTtl(l, today) > 0 => l.validUntil = NoDate \/ today <= l.validUntil

=============================================================================
