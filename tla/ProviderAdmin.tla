--------------------------- MODULE ProviderAdmin ---------------------------
(***************************************************************************)
(* Providers and model configurations (provider_admin.py): which model of  *)
(* a type is the default, and who takes over when it is disabled.  A call  *)
(* reads the rows and works out the columns it writes in one step, and     *)
(* writes them in the next.  Nothing is ever deleted.                      *)
(***************************************************************************)
EXTENDS Integers, FiniteSets

CONSTANTS
  Req,       \* the calls that may be in flight at the same time
  Providers, \* ids of providers (a bound)
  Models,    \* ids of model configurations (a bound)
  TypeOf,    \* the model_type of a model, which no call changes
  NoModel

VARIABLES
  provider,  \* providers: status
  model,     \* model_configurations
  txn,       \* the columns the calls in flight will write
  routed     \* history: types given a default that nobody asked to clear

vars == <<provider, model, txn, routed>>

-----------------------------------------------------------------------------
\* degraded stands for every status but enabled
ProviderStatuses == {"enabled", "degraded"}
Types == {TypeOf[m] : m \in Models}

NoRow == [provider |-> "none", status |-> "absent", default |-> FALSE, fallback |-> NoModel]

Idle == [open |-> FALSE, sets |-> {}, clears |-> {}, routes |-> {}]

Free(r) == ~ txn[r].open

Rows(t) == {m \in Models : model[m] # NoRow /\ TypeOf[m] = t}

Defaults(t) == {m \in Rows(t) : model[m].default}

Usable(m) == model[m].status = "enabled" /\ provider[model[m].provider] = "enabled"

-----------------------------------------------------------------------------
SetProvider(p, status) ==
  /\ provider[p] # status
  /\ provider' = [provider EXCEPT ![p] = status]
  /\ UNCHANGED <<model, txn, routed>>

\* _validate_fallback
ValidFallback(m, f) ==
  f # NoModel => f # m /\ model[f] # NoRow /\ TypeOf[f] = TypeOf[m]

\* a default needs an enabled model of an enabled provider
MayBeDefault(row) == row.default => row.status = "enabled" /\ provider[row.provider] = "enabled"

\* _clear_default_for_model_type
Cleared(m, row) ==
  IF row.default THEN {<<d, "default", FALSE>> : d \in Defaults(TypeOf[m]) \ {m}} ELSE {}

Columns(m, row) ==
  {<<m, c, row[c]>> : c \in {c \in DOMAIN row : row[c] # model[m][c]}}

\* the call on r will write these columns, and takes a default away or gives one
Writing(r, sets, clears, routes) ==
  txn' = [txn EXCEPT ![r] = [open |-> TRUE, sets |-> sets, clears |-> clears, routes |-> routes]]

\* create_model
CreateModel(r, m, row) ==
  /\ Free(r)
  /\ model[m] = NoRow /\ \A q \in Req : \A w \in txn[q].sets : w[1] # m
  /\ provider[row.provider] # "absent"
  /\ MayBeDefault(row) /\ ValidFallback(m, row.fallback)
  /\ Writing(r, Columns(m, row) \union Cleared(m, row), {}, IF row.default THEN {TypeOf[m]} ELSE {})
  /\ UNCHANGED <<provider, model, routed>>

\* _find_alternative_enabled_default: the fallback if it can be used, or any
\* other model that can
Alternatives(m) ==
  LET f == model[m].fallback
  IN  IF f # NoModel /\ Usable(f) THEN {f}
      ELSE {a \in Rows(TypeOf[m]) \ {m} : Usable(a)}

\* update_model disables the default: without is_default = False in the same
\* call MayBeDefault refuses it
DisableDefault(r, m, row) ==
  /\ model[m].default /\ row.status # "enabled" /\ ~ row.default
  /\ ValidFallback(m, row.fallback)
  /\ \E a \in Alternatives(m) :
       Writing(r, Columns(m, row) \union {<<a, "default", TRUE>>}, {}, {})

\* update_model otherwise: is_default = False on an enabled default clears it
ChangeModel(r, m, row) ==
  /\ ~ (model[m].default /\ row.status # "enabled")
  /\ MayBeDefault(row) /\ ValidFallback(m, row.fallback)
  /\ Writing(r, Columns(m, row) \union Cleared(m, row),
             IF model[m].default /\ ~ row.default THEN {TypeOf[m]} ELSE {},
             IF row.default THEN {TypeOf[m]} ELSE {})

UpdateModel(r, m, row) ==
  /\ Free(r)
  /\ model[m] # NoRow /\ row # model[m]
  /\ row.provider = model[m].provider
  /\ DisableDefault(r, m, row) \/ ChangeModel(r, m, row)
  /\ UNCHANGED <<provider, model, routed>>

Written(m, sets) ==
  [c \in DOMAIN model[m] |->
     IF \E w \in sets : w[1] = m /\ w[2] = c
     THEN (CHOOSE w \in sets : w[1] = m /\ w[2] = c)[3]
     ELSE model[m][c]]

Commit(r) ==
  /\ txn[r].open
  /\ model' = [m \in Models |-> Written(m, txn[r].sets)]
  /\ routed' = (routed \ txn[r].clears) \union txn[r].routes
  /\ txn' = [txn EXCEPT ![r] = Idle]
  /\ UNCHANGED provider

Abort(r) ==
  /\ txn[r].open
  /\ txn' = [txn EXCEPT ![r] = Idle]
  /\ UNCHANGED <<provider, model, routed>>

-----------------------------------------------------------------------------
Init ==
  /\ provider = [p \in Providers |-> "absent"]
  /\ model = [m \in Models |-> NoRow]
  /\ txn = [r \in Req |-> Idle]
  /\ routed = {}

Next ==
  \/ \E p \in Providers, status \in ProviderStatuses : SetProvider(p, status)
  \/ \E r \in Req :
       \/ \E m \in Models, p \in Providers, status \in ProviderStatuses, on \in BOOLEAN,
             f \in Models \union {NoModel} :
            LET row == [provider |-> p, status |-> status, default |-> on, fallback |-> f]
            IN  CreateModel(r, m, row) \/ UpdateModel(r, m, row)
       \/ Commit(r)
       \/ Abort(r)

Spec == Init /\ [][Next]_vars

-----------------------------------------------------------------------------
(* Properties.                                                             *)

\* provider-management.md: while calls do not overlap, a type that was given a
\* default has one, which is enabled, until somebody clears it: disabling a
\* default hands over or fails.  (Its provider may be disabled underneath it.)
RouteKept ==
  \A t \in Types :
    /\ Cardinality(Defaults(t)) = IF t \in routed THEN 1 ELSE 0
    /\ \A m \in Defaults(t) : model[m].status = "enabled"

\* However calls overlap, a fallback is another model of the same type that
\* exists: following it leads to a model that can be asked.
FallbackFits ==
  \A m \in Models : model[m].fallback # NoModel =>
    /\ model[m].fallback # m
    /\ model[m].fallback \in Rows(TypeOf[m])

=============================================================================
