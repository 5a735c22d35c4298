------------------------- MODULE IncidentManagement -------------------------
(***************************************************************************)
(* Incidents (incident_management.py, IncidentStateMachine) and the        *)
(* evaluation cases made from them (incident_regressions.py).  Creation is *)
(* idempotent by key, and an urgent incident is announced before its       *)
(* transaction commits; a transition compares the row_version it was       *)
(* given, an assignment does not.  A call works on the row it loaded.      *)
(***************************************************************************)
EXTENDS Integers, Sequences, FiniteSets

CONSTANTS
  Req,       \* the calls that may be in flight at the same time
  Keys,      \* idempotency keys; a key stands for the incident made with it
  Owners,
  NoOwner,
  MaxEvents  \* bound on the events of an incident

VARIABLES
  incident,  \* incidents, by their key
  event,     \* incident_events of each, in the order of their commits
  cases,     \* the keys of incidents an evaluation case was made from
  alerted,   \* the keys an alert was sent for
  txn        \* the calls in flight

vars == <<incident, event, cases, alerted, txn>>

-----------------------------------------------------------------------------
\* IncidentStateMachine.TRANSITIONS
Transitions ==
  { <<"open", "triaged">>, <<"open", "closed">>,
    <<"triaged", "mitigated">>, <<"triaged", "closed">>,
    <<"mitigated", "resolved">>, <<"mitigated", "closed">>,
    <<"resolved", "closed">>, <<"closed", "open">> }

Statuses == {"open", "triaged", "mitigated", "resolved", "closed"}

NoIncident == [status |-> "absent", urgent |-> FALSE, owner |-> NoOwner, row |-> 0]

Idle == [call |-> "none"]

Free(r) == txn[r] = Idle

Proceed(r, record) == txn' = [txn EXCEPT ![r] = record]

-----------------------------------------------------------------------------
\* create: a key that is there already is answered with what it made
Create(r, k, urgent) ==
  /\ Free(r)
  /\ incident[k] = NoIncident
  /\ Proceed(r, [call |-> IF urgent THEN "announce" ELSE "insert", key |-> k, urgent |-> urgent])
  /\ UNCHANGED <<incident, event, cases, alerted>>

SendAlert(r) ==
  /\ txn[r].call = "announce"
  /\ alerted' = alerted \union {txn[r].key}
  /\ Proceed(r, [txn[r] EXCEPT !.call = "insert"])
  /\ UNCHANGED <<incident, event, cases>>

\* the unique index refuses the second insert of a key
Insert(r) ==
  /\ txn[r].call = "insert"
  /\ IF incident[txn[r].key] = NoIncident
     THEN /\ incident' = [incident EXCEPT ![txn[r].key] =
                            [status |-> "open", urgent |-> txn[r].urgent, owner |-> NoOwner, row |-> 1]]
          /\ event' = [event EXCEPT ![txn[r].key] = <<[kind |-> "created", from |-> "absent", to |-> "open"]>>]
     ELSE UNCHANGED <<incident, event>>
  /\ Proceed(r, Idle)
  /\ UNCHANGED <<cases, alerted>>

\* seeded fault: any status may follow any other
TransitionUnchecked(r, k, to, base) ==
  /\ Free(r)
  /\ incident[k] # NoIncident /\ incident[k].row = base
  /\ incident[k].status # to
  /\ Proceed(r, [call |-> "update", key |-> k,
                 columns |-> [status |-> to, row |-> base + 1],
                 event |-> [kind |-> "status_changed", from |-> incident[k].status, to |-> to]])
  /\ UNCHANGED <<incident, event, cases, alerted>>

\* transition: the caller names the row_version it has read
Transition(r, k, to, base) ==
  /\ Free(r)
  /\ incident[k] # NoIncident /\ incident[k].row = base
  /\ <<incident[k].status, to>> \in Transitions
  /\ Proceed(r, [call |-> "update", key |-> k,
                 columns |-> [status |-> to, row |-> base + 1],
                 event |-> [kind |-> "status_changed", from |-> incident[k].status, to |-> to]])
  /\ UNCHANGED <<incident, event, cases, alerted>>

\* assign: no event when the owner is the same
Assign(r, k, owner) ==
  /\ Free(r)
  /\ incident[k] # NoIncident /\ incident[k].owner # owner
  /\ Proceed(r, [call |-> "update", key |-> k,
                 columns |-> [owner |-> owner, row |-> incident[k].row + 1],
                 event |-> [kind |-> "assigned", from |-> "none", to |-> "none"]])
  /\ UNCHANGED <<incident, event, cases, alerted>>

\* the commit of a transition or an assignment
Update(r) ==
  LET t == txn[r]
  IN  /\ t.call = "update" /\ Len(event[t.key]) < MaxEvents
      /\ incident' = [incident EXCEPT ![t.key] =
           [c \in DOMAIN @ |-> IF c \in DOMAIN t.columns THEN t.columns[c] ELSE @[c]]]
      /\ event' = [event EXCEPT ![t.key] = Append(@, t.event)]
      /\ Proceed(r, Idle)
      /\ UNCHANGED <<cases, alerted>>

\* create_case: only of an incident that is resolved or closed
StartCase(r, k) ==
  /\ Free(r)
  /\ incident[k].status \in {"resolved", "closed"} /\ k \notin cases
  /\ Proceed(r, [call |-> "case", key |-> k])
  /\ UNCHANGED <<incident, event, cases, alerted>>

InsertCase(r) ==
  LET k == txn[r].key
  IN  /\ txn[r].call = "case" /\ Len(event[k]) < MaxEvents
      /\ IF k \in cases THEN UNCHANGED <<cases, event>>
         ELSE /\ cases' = cases \union {k}
              /\ event' = [event EXCEPT ![k] =
                   Append(@, [kind |-> "regression_case", from |-> "none", to |-> "none"])]
      /\ Proceed(r, Idle)
      /\ UNCHANGED <<incident, alerted>>

Abort(r) ==
  /\ ~ Free(r)
  /\ Proceed(r, Idle)
  /\ UNCHANGED <<incident, event, cases, alerted>>

-----------------------------------------------------------------------------
Init ==
  /\ incident = [k \in Keys |-> NoIncident]
  /\ event = [k \in Keys |-> << >>]
  /\ cases = {} /\ alerted = {}
  /\ txn = [r \in Req |-> Idle]

Next ==
  \E r \in Req :
    \/ \E k \in Keys :
         \/ \E urgent \in BOOLEAN : Create(r, k, urgent)
         \/ \E to \in Statuses, base \in 1..MaxEvents : Transition(r, k, to, base)
         \/ \E owner \in Owners : Assign(r, k, owner)
         \/ StartCase(r, k)
    \/ SendAlert(r) \/ Insert(r) \/ Update(r) \/ InsertCase(r) \/ Abort(r)

Spec == Init /\ [][Next]_vars

-----------------------------------------------------------------------------
(* Properties.                                                             *)

IsMove(e) == e.kind \in {"created", "status_changed"}

\* the last move among the first n events of k led to s
LedTo(k, n, s) ==
  \E j \in 1..n : /\ IsMove(event[k][j]) /\ event[k][j].to = s
                 /\ \A l \in j + 1..n : ~ IsMove(event[k][l])

\* However calls overlap and fail, nobody learns of an urgent incident from the
\* database first: one that is stored was announced, and the incident that keeps
\* a key is the only one announced for it.
StoredIsAnnounced ==
  \A k \in Keys : incident[k] # NoIncident /\ incident[k].urgent => k \in alerted

\* However calls overlap, every step of the timeline is an edge of the machine
\* and starts from a status the incident really had.
TimelineStepsAreMoves ==
  \A k \in Keys : \A i \in 2..Len(event[k]) : IsMove(event[k][i]) =>
    /\ <<event[k][i].from, event[k][i].to>> \in Transitions
    /\ \E j \in 1..i - 1 : IsMove(event[k][j]) /\ event[k][j].to = event[k][i].from

\* While calls do not overlap, the timeline is the history of the row: each
\* move starts where the one before it ended, the last one at its status, and
\* row_version has counted the transitions and assignments.
TimelineIsHistory ==
  \A k \in Keys : incident[k] # NoIncident =>
    /\ \A i \in 2..Len(event[k]) : IsMove(event[k][i]) => LedTo(k, i - 1, event[k][i].from)
    /\ LedTo(k, Len(event[k]), incident[k].status)
    /\ incident[k].row =
         Cardinality({i \in 1..Len(event[k]) : event[k][i].kind # "regression_case"})

\* A case stands for an incident that was confirmed: it has been resolved or
\* closed, even when it was opened again while the case was made.
CasesAreConfirmed ==
  \A k \in cases : \E i \in 1..Len(event[k]) : event[k][i].to \in {"resolved", "closed"}

=============================================================================
