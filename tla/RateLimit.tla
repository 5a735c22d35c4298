----------------------------- MODULE RateLimit -----------------------------
(***************************************************************************)
(* One bucket of the login and password-reset rate limiter                 *)
(* (auth.py, _check_rate_limit), under attempts that do not overlap.       *)
(* Time is counted in ticks, Window of them to RATE_LIMIT_WINDOW.          *)
(***************************************************************************)
EXTENDS Integers, Sequences

CONSTANTS
  Limit,    \* attempts a window admits
  Window,
  MaxTime   \* bound on the clock

VARIABLES
  now,
  record,   \* auth_rate_limits: attempts (0: no row), window_start, blocked_until
  admitted  \* history: the times of the admitted attempts

vars == <<now, record, admitted>>

Blocked == record.blockedUntil > now

WindowOver == record.start + Window <= now

\* also what an expired window is reset to
FreshWindow == [attempts |-> 1, start |-> now, blockedUntil |-> 0]

Admit == admitted' = Append(admitted, now)

OpenWindow ==
  /\ record.attempts = 0 \/ (~ Blocked /\ WindowOver)
  /\ record' = FreshWindow
  /\ Admit
  /\ UNCHANGED now

CountAttempt ==
  /\ record.attempts > 0 /\ ~ Blocked /\ ~ WindowOver
  /\ IF record.attempts + 1 > Limit
     THEN /\ record' = [record EXCEPT !.attempts = @ + 1, !.blockedUntil = now + Window]
          /\ UNCHANGED admitted
     ELSE /\ record' = [record EXCEPT !.attempts = @ + 1]
          /\ Admit
  /\ UNCHANGED now

Tick == now < MaxTime /\ now' = now + 1 /\ UNCHANGED <<record, admitted>>

Init ==
  /\ now = 0
  /\ record = [attempts |-> 0, start |-> 0, blockedUntil |-> 0]
  /\ admitted = <<>>

Next == OpenWindow \/ CountAttempt \/ Tick

Spec == Init /\ [][Next]_vars

-----------------------------------------------------------------------------
\* Whatever the timing of attempts, no stretch of one window's length admits
\* more than two windows' worth of them (the windows are fixed, not sliding).
SlidingBound ==
  \A i, j \in DOMAIN admitted : j = i + 2 * Limit => admitted[j] >= admitted[i] + Window

=============================================================================
