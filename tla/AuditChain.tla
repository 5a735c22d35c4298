----------------------------- MODULE AuditChain -----------------------------
(***************************************************************************)
(* The hash chain of audit_logs (models.py, audit.py).  A record gets the  *)
(* hash of the latest record its transaction can see when it is flushed;   *)
(* several records flushed together look before any of them is written.    *)
(* A record stands for its hash, and its number for created_at.            *)
(***************************************************************************)
EXTENDS Integers, FiniteSets

CONSTANTS
  Req,          \* the transactions that may be open at the same time
  MaxRecords,   \* bound on the records
  MaxFlush      \* the most records one flush writes

VARIABLES
  log,      \* the committed records
  pending,  \* what the open transactions have flushed
  clock     \* the number of the last record

vars == <<log, pending, clock>>

-----------------------------------------------------------------------------

Visible(r) == log \union pending[r]

\* seeded fault: the records of all transactions are looked at
PreviousOfAny(r) ==
  LET all == log \union UNION {pending[q] : q \in Req}
  IN  IF all = {} THEN 0 ELSE (CHOOSE x \in all : \A y \in all : y.id <= x.id).id

\* _set_audit_hash: 0 stands for no record
Previous(r) ==
  IF Visible(r) = {} THEN 0
  ELSE (CHOOSE x \in Visible(r) : \A y \in Visible(r) : y.id <= x.id).id

\* n audit records are flushed at once
Flush(r, n) ==
  /\ clock + n <= MaxRecords
  /\ pending' = [pending EXCEPT ![r] =
                   @ \union {[id |-> i, previous |-> Previous(r)] : i \in clock + 1 .. clock + n}]
  /\ clock' = clock + n
  /\ UNCHANGED log

Commit(r) ==
  /\ pending[r] # {}
  /\ log' = log \union pending[r]
  /\ pending' = [pending EXCEPT ![r] = {}]
  /\ UNCHANGED clock

Rollback(r) ==
  /\ pending[r] # {}
  /\ pending' = [pending EXCEPT ![r] = {}]
  /\ UNCHANGED <<log, clock>>

Init ==
  /\ log = {}
  /\ pending = [r \in Req |-> {}]
  /\ clock = 0

Next ==
  \E r \in Req :
    \/ \E n \in 1..MaxFlush : Flush(r, n)
    \/ Commit(r)
    \/ Rollback(r)

Spec == Init /\ [][Next]_vars

-----------------------------------------------------------------------------
(* Properties.                                                             *)

\* However transactions overlap and fail, the hash a record continues from is
\* that of a committed, earlier record: following it never leads nowhere.
NoDanglingLink ==
  \A x \in log : x.previous # 0 =>
    x.previous < x.id /\ \E y \in log : y.id = x.previous

\* While transactions do not overlap and flush one record at a time, the log is
\* one line: every record but the last is continued by exactly one other.
OneLine ==
  /\ \A x, y \in log : x.previous = y.previous => x = y
  /\ Cardinality({x \in log : \A y \in log : y.previous # x.id}) <= 1

=============================================================================
