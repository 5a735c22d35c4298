--------------------------- MODULE RequestLimiter ---------------------------
(***************************************************************************)
(* The in-memory limiter of the API (app.py): the requests of one client,  *)
(* identified by its token or its address, to the strict paths (login,     *)
(* register, feedback, admin/providers) and to the others share a history. *)
(* A lock makes each decision one step.  Time is counted in ticks.         *)
(***************************************************************************)
EXTENDS Integers, Sequences

CONSTANTS
  Limit, StrictLimit,  \* requests a window admits to any path, to a strict one
  Window,
  MaxTime              \* bound on the clock

VARIABLES
  now,
  history,  \* the times of the client's admitted requests that are kept
  passed,   \* history variable: the times of all admitted requests ...
  strict    \* ... and of those to strict paths

vars == <<now, history, passed, strict>>

-----------------------------------------------------------------------------
\* from the k-th on the kept requests are recent
Recent(k) == \A i \in DOMAIN history : i >= k <=> history[i] > now - Window

Admit(limit) ==
  \E k \in 1..(Len(history) + 1) :
    /\ Recent(k)
    /\ Len(history) - k + 1 < limit
    /\ history' = Append(SubSeq(history, k, Len(history)), now)
    /\ passed' = Append(passed, now)
    /\ UNCHANGED now

Allowed == Admit(Limit) /\ UNCHANGED strict

AllowedStrict == Admit(StrictLimit) /\ strict' = Append(strict, now)

Tick == now < MaxTime /\ now' = now + 1 /\ UNCHANGED <<history, passed, strict>>

Init ==
  /\ now = 0
  /\ history = <<>>
  /\ passed = <<>>
  /\ strict = <<>>

Next == Tick \/ Allowed \/ AllowedStrict

Spec == Init /\ [][Next]_vars

-----------------------------------------------------------------------------
\* n requests after a request at least a window's length has passed
Spaced(times, n) ==
  \A i, j \in DOMAIN times : j = i + n => times[j] >= times[i] + Window

\* Whatever mixture of paths a client asks for, every stretch of one window's
\* length, wherever it begins, admits at most Limit requests and at most
\* StrictLimit of them to strict paths: the window slides.
SlidingExact == Spaced(passed, Limit) /\ Spaced(strict, StrictLimit)

=============================================================================
