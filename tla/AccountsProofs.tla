--------------------------- MODULE AccountsProofs ---------------------------
(***************************************************************************)
(* What holds of the accounts, the second factor, guest sessions, the      *)
(* limiters and the HTTP API (MCAccounts) whatever the values of the       *)
(* constants.  The components share no row, so each has an invariant of    *)
(* its own; where calls write rows, one for any number of calls that       *)
(* overlap and a stronger one for one call at a time.                      *)
(***************************************************************************)
EXTENDS MCAccounts, FiniteSetTheorems, SequenceTheorems, TLAPS

\* what one call at a time means; it concerns Req only, the calls of the
\* racing subjects overlap
OneAtATime == \A r, q \in Req : r = q

\* each subject is the only one that moves its rows
LEMMA Steps ==
  ASSUME [Next]_vars
  PROVE  /\ subject' = subject
         /\ AccountNext \/ UNCHANGED accountVars
         /\ MfaNext \/ UNCHANGED mfaVars
         /\ GuestNext \/ UNCHANGED guestVars
         /\ (subject = "attempts" /\ Attempts!Next) \/ UNCHANGED limitVars
         /\ (subject = "requests" /\ Requests!Next) \/ UNCHANGED requestVars
         /\ (subject = "http" /\ Api!Next) \/ UNCHANGED httpVars
BY DEF Next, vars, Others

-----------------------------------------------------------------------------
(* The limiter of login and reset attempts.  The window in force holds the *)
(* last Counted attempts; those before it are no later than its start, and *)
(* those a whole limit before it at least a window earlier.                *)

Counted == IF record.attempts > AttemptLimit THEN AttemptLimit ELSE record.attempts

AttemptsInv ==
  /\ now \in Nat
  /\ record \in [attempts: Nat, start: Nat, blockedUntil: Nat]
  /\ record.start <= now
  /\ admitted \in Seq(Nat) /\ \A i \in DOMAIN admitted : admitted[i] <= now
  /\ Counted <= Len(admitted)
  /\ record.attempts = 0 => Len(admitted) = 0
  /\ \A i \in DOMAIN admitted : i + Counted <= Len(admitted) => admitted[i] <= record.start
  /\ \A i \in DOMAIN admitted : i + Counted + AttemptLimit <= Len(admitted) =>
       admitted[i] + AttemptWindow <= record.start
  /\ Attempts!SlidingBound

LEMMA AttemptsStep ==
  ASSUME AttemptsInv, Attempts!Next
  PROVE  AttemptsInv'
<1>. DEFINE n == Len(admitted)
<1>0. n \in Nat /\ AttemptLimit \in Nat /\ AttemptLimit > 0
  BY AccountsAssumption DEF AttemptsInv
<1>1. /\ now \in Nat /\ AttemptLimit \in Nat /\ AttemptLimit > 0 /\ AttemptWindow \in Nat
      /\ admitted \in Seq(Nat) /\ n \in Nat /\ DOMAIN admitted = 1..n
  BY AccountsAssumption DEF AttemptsInv
<1>2. CASE Attempts!Tick
  <2>1. now' = now + 1 /\ record' = record /\ admitted' = admitted
    BY <1>2 DEF Attempts!Tick
  <2>2. Counted' = Counted /\ Attempts!SlidingBound'
    BY <2>1 DEF AttemptsInv, Counted, Attempts!SlidingBound
  <2>3. now' \in Nat /\ \A k \in Nat : k <= now => k <= now'
    BY <1>1, <2>1
  <2>4. record.start \in Nat /\ \A i \in DOMAIN admitted : admitted[i] \in Nat
    BY ElementOfSeq DEF AttemptsInv
  <2>. QED BY <2>1, <2>2, <2>3, <2>4 DEF AttemptsInv
<1>3. CASE Attempts!CountAttempt /\ record.attempts + 1 > AttemptLimit
  <2>. PICK a, s, b \in Nat : record = [attempts |-> a, start |-> s, blockedUntil |-> b]
    BY DEF AttemptsInv
  <2>1. /\ record' = [attempts |-> a + 1, start |-> s, blockedUntil |-> now + AttemptWindow]
        /\ record.attempts = a /\ record.start = s /\ a + 1 > AttemptLimit /\ a > 0
        /\ now' = now /\ admitted' = admitted
    BY <1>3 DEF Attempts!CountAttempt
  <2>2. record' \in [attempts: Nat, start: Nat, blockedUntil: Nat] /\ Counted' = Counted
    BY <1>1, <2>1 DEF Counted
  <2>3. record'.attempts # 0 /\ record'.start = record.start
    BY <1>1, <2>1
  <2>. QED BY <1>1, <2>1, <2>2, <2>3 DEF AttemptsInv, Attempts!SlidingBound
<1>4. CASE Attempts!OpenWindow \/ (Attempts!CountAttempt /\ ~ record.attempts + 1 > AttemptLimit)
  <2>1. /\ admitted' \in Seq(Nat) /\ Len(admitted') = n + 1 /\ DOMAIN admitted' = 1..(n + 1)
        /\ \A i \in 1..n : admitted'[i] = admitted[i]
        /\ admitted'[n + 1] = now
        /\ now' = now
    <3>1. admitted' = Append(admitted, now) /\ now' = now
      BY <1>4 DEF Attempts!CountAttempt, Attempts!OpenWindow, Attempts!Admit
    <3>. QED BY <1>1, <3>1, AppendProperties DEF Attempts!CountAttempt, Attempts!OpenWindow, Attempts!Admit
  <2>. PICK a, s, b \in Nat : record = [attempts |-> a, start |-> s, blockedUntil |-> b]
    BY DEF AttemptsInv
  <2>5. 2 * AttemptLimit \in Nat /\ 2 * AttemptLimit = AttemptLimit + AttemptLimit
    BY <1>1
  <2>2. /\ s <= now /\ Counted <= n /\ (a = 0 => n = 0)
        /\ Counted \in Nat /\ Counted <= AttemptLimit
        /\ Counted = IF a > AttemptLimit THEN AttemptLimit ELSE a
        /\ \A i \in 1..n : i + Counted <= n => admitted[i] <= s
        /\ \A i \in 1..n : i + Counted + AttemptLimit <= n => admitted[i] + AttemptWindow <= s
        /\ \A i \in 1..n : admitted[i] \in Nat /\ admitted[i] <= now
    <3>1. /\ record.start = s /\ record.attempts = a
          /\ Counted = IF a > AttemptLimit THEN AttemptLimit ELSE a
      BY DEF Counted
    <3>2. Counted \in Nat /\ Counted <= AttemptLimit
      BY <1>1, <3>1
    <3>3. \A i \in 1..n : admitted[i] \in Nat /\ admitted[i] <= now
      BY <1>1, ElementOfSeq DEF AttemptsInv
    <3>. QED BY <1>1, <3>1, <3>2, <3>3 DEF AttemptsInv
  <2>3. \E c, t \in Nat :
          /\ Counted' = c /\ record'.start = t /\ record'.attempts # 0
          /\ record' \in [attempts: Nat, start: Nat, blockedUntil: Nat]
          /\ t <= now /\ c <= AttemptLimit /\ c <= n + 1
          /\ \A i \in 1..n : i + c <= n + 1 => admitted[i] <= t
          /\ \A i \in 1..n : i + c + AttemptLimit <= n + 1 => admitted[i] + AttemptWindow <= t
    <3>1. CASE Attempts!OpenWindow
      <4>1. /\ record' = [attempts |-> 1, start |-> now, blockedUntil |-> 0]
            /\ a = 0 \/ s + AttemptWindow <= now
        BY <3>1 DEF Attempts!OpenWindow, Attempts!FreshWindow, Attempts!WindowOver
      <4>2. Counted' = 1
        BY <1>1, <4>1 DEF Counted
      <4>3. ASSUME NEW i \in 1..n, i + 1 + AttemptLimit <= n + 1
            PROVE  admitted[i] + AttemptWindow <= now
        <5>1. i + Counted <= n /\ a # 0
          BY <1>1, <2>2, <4>3
        <5>2. admitted[i] <= s /\ s + AttemptWindow <= now /\ admitted[i] \in Nat
          BY <2>2, <4>1, <5>1
        <5>. QED BY <1>1, <5>2
      <4>4. /\ record'.start = now /\ record'.attempts # 0
            /\ record' \in [attempts: Nat, start: Nat, blockedUntil: Nat]
        BY <1>1, <4>1
      <4>. QED BY <1>1, <2>2, <4>2, <4>3, <4>4
    <3>2. CASE Attempts!CountAttempt /\ ~ record.attempts + 1 > AttemptLimit
      <4>1. /\ record' = [attempts |-> a + 1, start |-> s, blockedUntil |-> b]
            /\ a + 1 <= AttemptLimit /\ a > 0
        BY <1>1, <3>2 DEF Attempts!CountAttempt
      <4>2. Counted' = a + 1 /\ Counted = a
        BY <1>1, <2>2, <4>1 DEF Counted
      <4>. QED BY <1>1, <2>2, <4>1, <4>2
    <3>. QED BY <1>4, <3>1, <3>2
  <2>4. PICK c, t \in Nat :
          /\ Counted' = c /\ record'.start = t /\ record'.attempts # 0
          /\ record' \in [attempts: Nat, start: Nat, blockedUntil: Nat]
          /\ t <= now /\ c <= AttemptLimit /\ c <= n + 1
          /\ \A i \in 1..n : i + c <= n + 1 => admitted[i] <= t
          /\ \A i \in 1..n : i + c + AttemptLimit <= n + 1 => admitted[i] + AttemptWindow <= t
    BY <2>3
  <2>6. Attempts!SlidingBound'
    <3>. SUFFICES ASSUME NEW i \in 1..(n + 1), NEW j \in 1..(n + 1), j = i + 2 * AttemptLimit
                  PROVE  admitted'[j] >= admitted'[i] + AttemptWindow
      BY <2>1 DEF Attempts!SlidingBound
    <3>1. CASE j = n + 1
      <4>1. i \in 1..n /\ i + c + AttemptLimit <= n + 1
        <5>1. i \in Nat /\ i >= 1 /\ c \in Nat /\ c <= AttemptLimit
          BY <1>0, <2>4
        <5>2. i + (AttemptLimit + AttemptLimit) = n + 1
          BY <2>5, <3>1
        <5>. QED BY <1>0, <5>1, <5>2
      <4>2. admitted[i] + AttemptWindow <= t /\ admitted'[i] = admitted[i] /\ admitted'[j] = now
        BY <2>1, <2>4, <3>1, <4>1
      <4>3. admitted[i] \in Nat /\ t \in Nat /\ t <= now
        BY <2>2, <2>4, <4>1
      <4>. QED BY <1>1, <4>2, <4>3
    <3>2. CASE j # n + 1
      <4>1. i \in 1..n /\ j \in 1..n
        BY <1>0, <2>5, <3>2
      <4>2. admitted'[i] = admitted[i] /\ admitted'[j] = admitted[j]
        BY <2>1, <4>1
      <4>. QED BY <1>1, <4>1, <4>2 DEF AttemptsInv, Attempts!SlidingBound
    <3>. QED BY <3>1, <3>2
  <2>7. ASSUME NEW i \in 1..(n + 1)
        PROVE  /\ admitted'[i] <= now
               /\ i + c <= n + 1 => admitted'[i] <= t
               /\ i + c + AttemptLimit <= n + 1 => admitted'[i] + AttemptWindow <= t
    <3>1. CASE i = n + 1
      <4>1. ~ i + c + AttemptLimit <= n + 1 /\ (i + c <= n + 1 => c = 0)
        BY <1>1, <3>1
      <4>2. c # 0
        BY <1>1, <2>4 DEF Counted
      <4>. QED BY <1>1, <2>1, <3>1, <4>1, <4>2
    <3>2. CASE i # n + 1
      <4>1. i \in 1..n
        BY <1>1, <3>2
      <4>. QED BY <2>1, <2>2, <2>4, <4>1
    <3>. QED BY <3>1, <3>2
  <2>. QED BY <1>1, <2>1, <2>4, <2>6, <2>7 DEF AttemptsInv
<1>. QED BY <1>2, <1>3, <1>4 DEF Attempts!Next

-----------------------------------------------------------------------------
(* The limiter of requests.  What is kept is the end of all that passed,   *)
(* and what was dropped is older than a window.  Counted from the end, a   *)
(* strict request is no later than the one of any kind at its place.       *)

Kept ==
  /\ Len(history) <= Len(passed)
  /\ \A i \in DOMAIN history : history[i] = passed[Len(passed) - Len(history) + i]
  /\ \A i \in DOMAIN passed : i <= Len(passed) - Len(history) => passed[i] + RequestWindow <= clock

Ordered ==
  /\ \A i, j \in DOMAIN passed : i <= j => passed[i] <= passed[j]
  /\ \A i \in DOMAIN passed : passed[i] <= clock

StrictInside ==
  /\ Len(strict) <= Len(passed)
  /\ \A i \in DOMAIN strict : strict[i] <= passed[Len(passed) - Len(strict) + i]

RequestsInv ==
  /\ clock \in Nat
  /\ history \in Seq(Nat) /\ passed \in Seq(Nat) /\ strict \in Seq(Nat)
  /\ Kept
  /\ Ordered
  /\ StrictInside
  /\ Requests!SlidingExact

\* a request below its limit comes a window after the one limit places before
LEMMA RequestAdmitted ==
  ASSUME RequestsInv, NEW limit \in Nat, limit > 0, Requests!Admit(limit)
  PROVE  /\ clock' = clock
         /\ history' \in Seq(Nat)
         /\ passed' = Append(passed, clock)
         /\ Kept'
         /\ Ordered'
         /\ \A i \in DOMAIN passed : i + limit <= Len(passed) + 1 => passed[i] + RequestWindow <= clock
<1>. DEFINE n == Len(passed)  m == Len(history)
<1>0. n \in Nat /\ m \in Nat
  BY DEF RequestsInv
<1>1. /\ clock \in Nat /\ RequestWindow \in Nat /\ n \in Nat /\ m \in Nat /\ m <= n
      /\ passed \in Seq(Nat) /\ DOMAIN passed = 1..n /\ \A i \in 1..n : passed[i] \in Nat
      /\ history \in Seq(Nat) /\ DOMAIN history = 1..m /\ \A i \in 1..m : history[i] \in Nat
  <2>1. clock \in Nat /\ RequestWindow \in Nat /\ m <= n
    BY AccountsAssumption DEF RequestsInv, Kept
  <2>2. passed \in Seq(Nat) /\ DOMAIN passed = 1..n /\ \A i \in 1..n : passed[i] \in Nat
    BY ElementOfSeq DEF RequestsInv
  <2>3. history \in Seq(Nat) /\ DOMAIN history = 1..m /\ \A i \in 1..m : history[i] \in Nat
    BY ElementOfSeq DEF RequestsInv
  <2>. QED BY <1>0, <2>1, <2>2, <2>3
<1>2. PICK k \in 1..(m + 1) :
        /\ \A i \in 1..m : i >= k <=> history[i] > clock - RequestWindow
        /\ m - k + 1 < limit
        /\ history' = Append(SubSeq(history, k, m), clock)
        /\ passed' = Append(passed, clock)
        /\ clock' = clock
  BY <1>1 DEF Requests!Admit, Requests!Recent
<1>3. /\ SubSeq(history, k, m) \in Seq(Nat) /\ Len(SubSeq(history, k, m)) = m - k + 1
      /\ \A i \in 1..(m - k + 1) : SubSeq(history, k, m)[i] = history[k + i - 1]
  BY <1>1, SubSeqProperties
<1>4. /\ history' \in Seq(Nat) /\ Len(history') = m - k + 2 /\ DOMAIN history' = 1..(m - k + 2)
      /\ \A i \in 1..(m - k + 1) : history'[i] = history[k + i - 1]
      /\ history'[m - k + 2] = clock
  <2>. DEFINE kept == SubSeq(history, k, m)
  <2>1. /\ Append(kept, clock) \in Seq(Nat) /\ Len(Append(kept, clock)) = Len(kept) + 1
        /\ \A i \in 1..Len(kept) : Append(kept, clock)[i] = kept[i]
        /\ Append(kept, clock)[Len(kept) + 1] = clock
        /\ DOMAIN Append(kept, clock) = 1..(Len(kept) + 1)
    <3>1. kept \in Seq(Nat) /\ clock \in Nat
      BY <1>1, <1>3
    <3>. HIDE DEF kept
    <3>. QED BY <3>1, AppendProperties
  <2>2. m - k + 1 + 1 = m - k + 2
    BY <1>1
  <2>. QED BY <1>2, <1>3, <2>1, <2>2
<1>5. /\ passed' \in Seq(Nat) /\ Len(passed') = n + 1 /\ DOMAIN passed' = 1..(n + 1)
      /\ \A i \in 1..n : passed'[i] = passed[i]
      /\ passed'[n + 1] = clock
  BY <1>1, <1>2, AppendProperties
<1>6. ASSUME NEW i \in 1..n, i <= n - m + k - 1
      PROVE  passed[i] + RequestWindow <= clock
  <2>1. CASE i <= n - m
    BY <1>1, <2>1 DEF RequestsInv, Kept
  <2>2. CASE ~ i <= n - m
    <3>. DEFINE h == i - (n - m)
    <3>0. n \in Nat /\ m \in Nat /\ m <= n
      BY <1>1
    <3>1. h \in 1..m /\ h < k /\ n - m + h = i
      BY <1>6, <2>2, <3>0
    <3>2. history[h] = passed[i]
      BY <1>1, <3>1 DEF RequestsInv, Kept
    <3>3. ~ history[h] > clock - RequestWindow
      BY <1>1, <1>2, <3>1
    <3>. QED BY <1>1, <3>2, <3>3
  <2>. QED BY <2>1, <2>2
<1>7. Kept'
  <2>. DEFINE p == n + 1  q == m - k + 2
  <2>1. q <= p
    BY <1>1
  <2>2. ASSUME NEW i \in 1..q
        PROVE  history'[i] = passed'[p - q + i]
    <3>1. CASE i = q
      <4>1. p - q + i = n + 1
        BY <1>1, <3>1
      <4>. QED BY <1>4, <1>5, <3>1, <4>1
    <3>2. CASE i # q
      <4>1. /\ i \in 1..(m - k + 1) /\ k + i - 1 \in 1..m
            /\ p - q + i \in 1..n /\ n - m + (k + i - 1) = p - q + i
        BY <1>1, <3>2
      <4>2. history[k + i - 1] = passed[p - q + i]
        BY <1>1, <4>1 DEF RequestsInv, Kept
      <4>. QED BY <1>4, <1>5, <4>1, <4>2
    <3>. QED BY <3>1, <3>2
  <2>3. ASSUME NEW i \in 1..p, i <= p - q
        PROVE  passed'[i] + RequestWindow <= clock'
    <3>1. i \in 1..n /\ i <= n - m + k - 1
      BY <1>1, <2>3
    <3>. QED BY <1>2, <1>5, <1>6, <3>1
  <2>. QED BY <1>4, <1>5, <2>1, <2>2, <2>3 DEF Kept
<1>8. Ordered'
  <2>1. ASSUME NEW i \in 1..(n + 1)
        PROVE  passed'[i] <= clock /\ (i # n + 1 => i \in 1..n /\ passed'[i] = passed[i])
    <3>1. passed'[i] <= clock
      <4>1. CASE i = n + 1
        BY <1>1, <1>5, <4>1
      <4>2. CASE i # n + 1
        <5>1. i \in 1..n
          BY <1>0, <4>2
        <5>. QED BY <1>1, <1>5, <5>1 DEF RequestsInv, Ordered
      <4>. QED BY <4>1, <4>2
    <3>2. i # n + 1 => i \in 1..n
      BY <1>0
    <3>. QED BY <1>5, <3>1, <3>2
  <2>2. ASSUME NEW i \in 1..(n + 1), NEW j \in 1..(n + 1), i <= j
        PROVE  passed'[i] <= passed'[j]
    <3>1. CASE j = n + 1
      BY <1>5, <2>1, <3>1
    <3>2. CASE j # n + 1
      <4>1. i # n + 1
        BY <1>1, <2>2, <3>2
      <4>. QED BY <1>1, <2>1, <2>2, <3>2, <4>1 DEF RequestsInv, Ordered
    <3>. QED BY <3>1, <3>2
  <2>. QED BY <1>2, <1>5, <2>1, <2>2 DEF Ordered
<1>9. ASSUME NEW i \in 1..n, i + limit <= n + 1
      PROVE  passed[i] + RequestWindow <= clock
  <2>1. i <= n - m + k - 1
    BY <1>1, <1>2, <1>9
  <2>. QED BY <1>6, <2>1
<1>. QED BY <1>1, <1>2, <1>4, <1>7, <1>8, <1>9

LEMMA SpacedAppend ==
  ASSUME NEW times \in Seq(Nat), NEW limit \in Nat, limit > 0, NEW at \in Nat, RequestWindow \in Nat,
         Requests!Spaced(times, limit),
         \A i \in DOMAIN times : i + limit = Len(times) + 1 => times[i] + RequestWindow <= at
  PROVE  Requests!Spaced(Append(times, at), limit)
<1>. DEFINE n == Len(times)  longer == Append(times, at)
<1>0. n \in Nat
  OBVIOUS
<1>1. /\ n \in Nat /\ DOMAIN times = 1..n /\ DOMAIN longer = 1..(n + 1)
      /\ \A i \in 1..n : longer[i] = times[i] /\ times[i] \in Nat
      /\ longer[n + 1] = at
  BY AppendProperties, ElementOfSeq
<1>2. ASSUME NEW i \in 1..(n + 1), NEW j \in 1..(n + 1), j = i + limit
      PROVE  longer[j] >= longer[i] + RequestWindow
  <2>1. i \in 1..n
    BY <1>0, <1>2
  <2>2. CASE j = n + 1
    BY <1>1, <1>2, <2>1, <2>2
  <2>3. CASE j # n + 1
    <3>1. j \in 1..n
      BY <1>0, <2>3
    <3>. QED BY <1>1, <1>2, <2>1, <3>1 DEF Requests!Spaced
  <2>. QED BY <2>2, <2>3
<1>. QED BY <1>1, <1>2 DEF Requests!Spaced

LEMMA RequestsStep ==
  ASSUME RequestsInv, Requests!Next
  PROVE  RequestsInv'
<1>. DEFINE n == Len(passed)  s == Len(strict)
<1>0. n \in Nat /\ s \in Nat /\ s <= n
  BY DEF RequestsInv, StrictInside
<1>1. /\ clock \in Nat /\ RequestWindow \in Nat /\ n \in Nat /\ s \in Nat /\ s <= n
      /\ RequestLimit \in Nat /\ RequestLimit > 0
      /\ StrictLimit \in Nat /\ StrictLimit > 0 /\ StrictLimit <= RequestLimit
      /\ passed \in Seq(Nat) /\ DOMAIN passed = 1..n /\ \A i \in 1..n : passed[i] \in Nat
      /\ strict \in Seq(Nat) /\ DOMAIN strict = 1..s /\ \A i \in 1..s : strict[i] \in Nat
  <2>1. /\ clock \in Nat /\ RequestWindow \in Nat
        /\ RequestLimit \in Nat /\ RequestLimit > 0
        /\ StrictLimit \in Nat /\ StrictLimit > 0 /\ StrictLimit <= RequestLimit
    BY AccountsAssumption DEF RequestsInv
  <2>2. passed \in Seq(Nat) /\ DOMAIN passed = 1..n /\ \A i \in 1..n : passed[i] \in Nat
    BY ElementOfSeq DEF RequestsInv
  <2>3. strict \in Seq(Nat) /\ DOMAIN strict = 1..s /\ \A i \in 1..s : strict[i] \in Nat
    BY ElementOfSeq DEF RequestsInv
  <2>. QED BY <1>0, <2>1, <2>2, <2>3
<1>2. CASE Requests!Tick
  <2>1. /\ clock' = clock + 1 /\ history' = history /\ passed' = passed /\ strict' = strict
    BY <1>2 DEF Requests!Tick
  <2>2. Kept' /\ Ordered'
    <3>1. /\ \A i \in DOMAIN passed : passed[i] \in Nat
          /\ clock \in Nat /\ RequestWindow \in Nat
      BY <1>1
    <3>2. Kept'
      BY <2>1, <3>1 DEF RequestsInv, Kept
    <3>3. Ordered'
      BY <2>1, <3>1 DEF RequestsInv, Ordered
    <3>. QED BY <3>2, <3>3
  <2>. QED BY <1>1, <2>1, <2>2 DEF RequestsInv, StrictInside, Requests!SlidingExact, Requests!Spaced
<1>4. CASE Requests!Allowed
  <2>1. Requests!Admit(RequestLimit) /\ strict' = strict
    BY <1>4 DEF Requests!Allowed
  <2>2. /\ clock' = clock /\ history' \in Seq(Nat) /\ passed' = Append(passed, clock)
        /\ Kept' /\ Ordered'
        /\ \A i \in 1..n : i + RequestLimit <= n + 1 => passed[i] + RequestWindow <= clock
    BY <1>1, <2>1, RequestAdmitted
  <2>0. /\ passed' \in Seq(Nat) /\ Len(passed') = n + 1 /\ DOMAIN passed' = 1..(n + 1)
        /\ \A i \in 1..n : passed'[i] = passed[i]
        /\ passed'[n + 1] = clock
    BY <1>1, <2>2, AppendProperties
  <2>3. Requests!Spaced(passed', RequestLimit)
    <3>1. Requests!Spaced(passed, RequestLimit)
      BY DEF RequestsInv, Requests!SlidingExact
    <3>2. \A i \in 1..n : i + RequestLimit = n + 1 => passed[i] + RequestWindow <= clock
      BY <1>1, <2>2
    <3>. QED BY <1>1, <2>2, <3>1, <3>2, SpacedAppend
  <2>4. StrictInside'
    <3>1. ASSUME NEW i \in 1..s
          PROVE  strict[i] <= passed'[n + 1 - s + i]
      <4>1. /\ strict[i] <= passed[n - s + i] /\ n - s + i \in 1..n
        <5>1. n - s + i \in 1..n
          BY <1>0
        <5>. QED BY <1>1, <5>1 DEF RequestsInv, StrictInside
      <4>2. CASE i = s
        <5>1. n - s + i = n /\ n + 1 - s + i = n + 1
          BY <1>0, <4>2
        <5>2. passed[n - s + i] <= clock
          BY <1>1, <4>1 DEF RequestsInv, Ordered
        <5>3. passed'[n + 1 - s + i] = clock /\ passed[n - s + i] \in Nat /\ strict[i] \in Nat
          BY <1>1, <2>0, <4>1, <5>1
        <5>. QED BY <1>1, <4>1, <5>2, <5>3
      <4>3. CASE i # s
        <5>. DEFINE h == n - s + i
        <5>1. h + 1 \in 1..n /\ n + 1 - s + i = h + 1 /\ h <= h + 1
          BY <1>0, <4>3
        <5>2. passed[h] <= passed[h + 1]
          BY <1>1, <4>1, <5>1 DEF RequestsInv, Ordered
        <5>3. passed[h] \in Nat /\ passed[h + 1] \in Nat /\ strict[i] \in Nat
          BY <1>1, <4>1, <5>1
        <5>4. passed'[n + 1 - s + i] = passed[h + 1]
          BY <2>0, <5>1
        <5>. QED BY <4>1, <5>2, <5>3, <5>4
      <4>. QED BY <4>2, <4>3
    <3>2. Len(strict) <= Len(passed')
      BY <1>1, <2>0, <2>2
    <3>3. Len(strict') = s /\ DOMAIN strict' = 1..s /\ strict' = strict
      BY <1>1, <2>1
    <3>. QED BY <2>0, <3>1, <3>2, <3>3 DEF StrictInside
  <2>. QED BY <1>1, <2>0, <2>1, <2>2, <2>3, <2>4 DEF RequestsInv, Requests!SlidingExact
<1>5. CASE Requests!AllowedStrict
  <2>1. Requests!Admit(StrictLimit) /\ strict' = Append(strict, clock)
    BY <1>5 DEF Requests!AllowedStrict
  <2>2. /\ clock' = clock /\ history' \in Seq(Nat) /\ passed' = Append(passed, clock)
        /\ Kept' /\ Ordered'
        /\ \A i \in 1..n : i + StrictLimit <= n + 1 => passed[i] + RequestWindow <= clock
    BY <1>1, <2>1, RequestAdmitted
  <2>0. /\ passed' \in Seq(Nat) /\ Len(passed') = n + 1 /\ DOMAIN passed' = 1..(n + 1)
        /\ \A i \in 1..n : passed'[i] = passed[i]
        /\ passed'[n + 1] = clock
    BY <1>1, <2>2, AppendProperties
  <2>3. /\ strict' \in Seq(Nat) /\ Len(strict') = s + 1 /\ DOMAIN strict' = 1..(s + 1)
        /\ \A i \in 1..s : strict'[i] = strict[i]
        /\ strict'[s + 1] = clock
    BY <1>1, <2>1, AppendProperties
  <2>4. Requests!Spaced(passed', RequestLimit)
    <3>1. \A i \in 1..n : i + RequestLimit = n + 1 => passed[i] + RequestWindow <= clock
      BY <1>1, <2>2
    <3>. QED BY <1>1, <2>2, <3>1, SpacedAppend DEF RequestsInv, Requests!SlidingExact
  <2>5. Requests!Spaced(strict', StrictLimit)
    <3>1. ASSUME NEW i \in 1..s, i + StrictLimit = s + 1
          PROVE  strict[i] + RequestWindow <= clock
      <4>. DEFINE h == n - s + i
      <4>1. /\ h \in 1..n /\ strict[i] <= passed[h]
        <5>1. h \in 1..n
          BY <1>0
        <5>. QED BY <1>1, <5>1 DEF RequestsInv, StrictInside
      <4>2. h + StrictLimit <= n + 1
        BY <1>1, <3>1
      <4>3. passed[h] + RequestWindow <= clock /\ passed[h] \in Nat /\ strict[i] \in Nat
        BY <1>1, <2>2, <4>1, <4>2
      <4>. QED BY <1>1, <4>1, <4>3
    <3>. QED BY <1>1, <2>1, <3>1, SpacedAppend DEF RequestsInv, Requests!SlidingExact
  <2>6. StrictInside'
    <3>1. ASSUME NEW i \in 1..(s + 1)
          PROVE  strict'[i] <= passed'[n + 1 - (s + 1) + i]
      <4>1. CASE i = s + 1
        <5>1. n + 1 - (s + 1) + i = n + 1
          BY <1>0, <4>1
        <5>. QED BY <1>1, <2>0, <2>2, <2>3, <4>1, <5>1
      <4>2. CASE i # s + 1
        <5>1. i \in 1..s /\ n + 1 - (s + 1) + i = n - s + i /\ n - s + i \in 1..n
          BY <1>0, <4>2
        <5>2. strict[i] <= passed[n - s + i]
          BY <1>1, <5>1 DEF RequestsInv, StrictInside
        <5>. QED BY <2>0, <2>2, <2>3, <5>1, <5>2
      <4>. QED BY <4>1, <4>2
    <3>2. Len(strict') <= Len(passed')
      BY <1>1, <2>0, <2>2, <2>3
    <3>. QED BY <2>0, <2>3, <3>1, <3>2 DEF StrictInside
  <2>. QED BY <1>1, <2>0, <2>2, <2>3, <2>4, <2>5, <2>6 DEF RequestsInv, Requests!SlidingExact
<1>. QED BY <1>2, <1>4, <1>5 DEF Requests!Next

-----------------------------------------------------------------------------
(* The second factor.  A valid code has opened nothing yet and is, like a   *)
(* confirmed secret, of the generation in force, unless that generation was *)
(* crossed.  What a call has read is of that generation or of one before it.*)

CodeRows == [for: Nat, state: {"absent", "valid", "used", "expired", "deleted"}]

SecretInv ==
  /\ secret = [generation |-> secret.generation, confirmed |-> secret.confirmed]
  /\ secret.generation \in Nat /\ secret.confirmed \in BOOLEAN
  /\ secret.confirmed =>
       /\ secret.generation # 0 /\ proven # 0
       /\ proven = secret.generation \/ secret.generation \in crossed

CodesInv(K) ==
  /\ code \in [K -> CodeRows]
  /\ \A c \in K : code[c].state = "valid" =>
       /\ secret.generation # 0
       /\ code[c].for = secret.generation \/ secret.generation \in crossed

CallsInv(R, K) ==
  \A r \in R :
    /\ factorCalls[r].secret.generation \in Nat
    /\ factorCalls[r].secret.generation <= secret.generation
    /\ factorCalls[r].op \in {"confirm", "reset", "rotate"} =>
         factorCalls[r].secret.generation # 0

\* the calls that are about to consume the code c
Consuming(R, c) == {r \in R : factorCalls[r].op = "consume" /\ factorCalls[r].code = c}

UsesInv(R, K) ==
  \A c \in K :
    /\ code[c].state \in {"absent", "valid"} => opened[c] = {}
    /\ IsFiniteSet(opened[c])
    /\ Cardinality(opened[c]) + Cardinality(Consuming(R, c)) <= Cardinality(R)

FactorInv(R, K) ==
  /\ factorCalls = [r \in R |-> factorCalls[r]]
  /\ opened = [c \in K |-> opened[c]]
  /\ SecretInv /\ CodesInv(K) /\ CallsInv(R, K) /\ UsesInv(R, K)

\* a call moves on to what it keeps next; the secret only gets newer
LEMMA FactorCallMoved ==
  ASSUME NEW R, NEW K, FactorInv(R, K), NEW r \in R, NEW new,
         factorCalls' = [factorCalls EXCEPT ![r] = new],
         secret'.generation \in Nat, secret.generation <= secret'.generation,
         new.secret.generation \in Nat, new.secret.generation <= secret'.generation,
         new.op \in {"confirm", "reset", "rotate"} => new.secret.generation # 0
  PROVE  /\ factorCalls' = [q \in R |-> factorCalls'[q]] /\ factorCalls'[r] = new
         /\ \A q \in R : q # r => factorCalls'[q] = factorCalls[q]
         /\ CallsInv(R, K)'
<1>1. /\ factorCalls' = [q \in R |-> factorCalls'[q]] /\ factorCalls'[r] = new
      /\ \A q \in R : q # r => factorCalls'[q] = factorCalls[q]
  BY DEF FactorInv
<1>2. ASSUME NEW q \in R
      PROVE  /\ factorCalls'[q].secret.generation \in Nat
             /\ factorCalls'[q].secret.generation <= secret'.generation
             /\ factorCalls'[q].op \in {"confirm", "reset", "rotate"} =>
                  factorCalls'[q].secret.generation # 0
  <2>1. CASE q = r
    BY <1>1, <2>1
  <2>2. CASE q # r
    <3>1. factorCalls'[q] = factorCalls[q]
      BY <1>1, <2>2
    <3>2. /\ factorCalls[q].secret.generation \in Nat /\ secret.generation \in Nat
          /\ factorCalls[q].secret.generation <= secret.generation
          /\ factorCalls[q].op \in {"confirm", "reset", "rotate"} =>
               factorCalls[q].secret.generation # 0
      BY DEF FactorInv, CallsInv, SecretInv
    <3>3. factorCalls[q].secret.generation <= secret'.generation
      BY <3>2
    <3>. QED BY <3>1, <3>2, <3>3
  <2>. QED BY <2>1, <2>2
<1>. QED BY <1>1, <1>2 DEF CallsInv

\* no call becomes one that consumes, and no code can be used again
LEMMA UsesStay ==
  ASSUME NEW R, NEW K, IsFiniteSet(R), UsesInv(R, K), opened' = opened,
         \A q \in R : factorCalls'[q].op = "consume" => factorCalls'[q] = factorCalls[q],
         \A c \in K : code'[c].state \in {"absent", "valid"} => code[c].state \in {"absent", "valid"}
  PROVE  UsesInv(R, K)'
<1>1. ASSUME NEW c \in K
      PROVE  Cardinality(opened[c]) + Cardinality(Consuming(R, c)') <= Cardinality(R)
  <2>1. Consuming(R, c)' \in SUBSET Consuming(R, c) /\ Consuming(R, c) \in SUBSET R
    BY DEF Consuming
  <2>2. /\ IsFiniteSet(Consuming(R, c)) /\ IsFiniteSet(opened[c])
        /\ Cardinality(opened[c]) + Cardinality(Consuming(R, c)) <= Cardinality(R)
    BY <2>1, FS_Subset DEF UsesInv
  <2>3. /\ Cardinality(Consuming(R, c)') <= Cardinality(Consuming(R, c))
        /\ Cardinality(Consuming(R, c)') \in Nat /\ Cardinality(Consuming(R, c)) \in Nat
        /\ Cardinality(opened[c]) \in Nat /\ Cardinality(R) \in Nat
    BY <2>1, <2>2, FS_Subset, FS_CardinalityType
  <2>. QED BY <2>2, <2>3
<1>. QED BY <1>1 DEF UsesInv

\* a valid code gets one more call that is about to consume it
LEMMA UsesBegun ==
  ASSUME NEW R, NEW K, IsFiniteSet(R), UsesInv(R, K), opened' = opened, code' = code,
         NEW d \in K, code[d].state = "valid",
         \A q \in R : factorCalls'[q].op = "consume" /\ factorCalls'[q].code # d =>
           factorCalls'[q] = factorCalls[q]
  PROVE  UsesInv(R, K)'
<1>1. ASSUME NEW c \in K
      PROVE  Cardinality(opened[c]) + Cardinality(Consuming(R, c)') <= Cardinality(R)
  <2>1. /\ Consuming(R, c) \in SUBSET R /\ Consuming(R, c)' \in SUBSET R
        /\ IsFiniteSet(opened[c])
    BY DEF Consuming, UsesInv
  <2>2. /\ IsFiniteSet(Consuming(R, c)) /\ IsFiniteSet(Consuming(R, c)')
        /\ Cardinality(Consuming(R, c)') <= Cardinality(R)
        /\ Cardinality(Consuming(R, c)') \in Nat /\ Cardinality(Consuming(R, c)) \in Nat
        /\ Cardinality(opened[c]) \in Nat /\ Cardinality(R) \in Nat
    BY <2>1, FS_Subset, FS_CardinalityType
  <2>3. CASE c = d
    <3>1. opened[c] = {} /\ Cardinality({}) = 0
      BY <2>3, FS_EmptySet DEF UsesInv
    <3>. QED BY <2>2, <3>1
  <2>4. CASE c # d
    <3>1. Consuming(R, c)' \in SUBSET Consuming(R, c)
      BY <2>4 DEF Consuming
    <3>2. Cardinality(Consuming(R, c)') <= Cardinality(Consuming(R, c))
      BY <2>2, <3>1, FS_Subset
    <3>3. Cardinality(opened[c]) + Cardinality(Consuming(R, c)) <= Cardinality(R)
      BY DEF UsesInv
    <3>. QED BY <2>2, <3>2, <3>3
  <2>. QED BY <2>3, <2>4
<1>. QED BY <1>1 DEF UsesInv

\* a call consumes the code it has read and is done
LEMMA UsesDone ==
  ASSUME NEW R, NEW K, IsFiniteSet(R), UsesInv(R, K), NEW r \in R, NEW d \in K, NEW h,
         factorCalls[r].op = "consume", factorCalls[r].code = d,
         factorCalls'[r].op = "idle",
         \A q \in R : q # r => factorCalls'[q] = factorCalls[q],
         opened'[d] = opened[d] \union {h}, code'[d].state = "used",
         \A c \in K : c # d => opened'[c] = opened[c] /\ code'[c] = code[c]
  PROVE  UsesInv(R, K)'
<1>1. ASSUME NEW c \in K
      PROVE  /\ code'[c].state \in {"absent", "valid"} => opened'[c] = {}
             /\ IsFiniteSet(opened'[c])
             /\ Cardinality(opened'[c]) + Cardinality(Consuming(R, c)') <= Cardinality(R)
  <2>1. Consuming(R, c) \in SUBSET R /\ Consuming(R, c)' = Consuming(R, c) \ {r}
    BY DEF Consuming
  <2>2. /\ IsFiniteSet(Consuming(R, c)) /\ Cardinality(R) \in Nat
        /\ code[c].state \in {"absent", "valid"} => opened[c] = {}
        /\ IsFiniteSet(opened[c])
        /\ Cardinality(opened[c]) + Cardinality(Consuming(R, c)) <= Cardinality(R)
    BY <2>1, FS_Subset, FS_CardinalityType DEF UsesInv
  <2>3. CASE c = d
    <3>1. r \in Consuming(R, c)
      BY <2>3 DEF Consuming
    <3>2. /\ Cardinality(Consuming(R, c)') = Cardinality(Consuming(R, c)) - 1
          /\ Cardinality(Consuming(R, c)) \in Nat /\ Cardinality(Consuming(R, c)') \in Nat
      BY <2>1, <2>2, <3>1, FS_RemoveElement, FS_CardinalityType
    <3>3. /\ IsFiniteSet(opened'[c]) /\ Cardinality(opened[c]) \in Nat
          /\ Cardinality(opened'[c]) \in Nat
          /\ Cardinality(opened'[c]) = IF h \in opened[c] THEN Cardinality(opened[c])
                                       ELSE Cardinality(opened[c]) + 1
      BY <2>2, <2>3, FS_AddElement, FS_CardinalityType
    <3>. QED BY <2>2, <2>3, <3>2, <3>3
  <2>4. CASE c # d
    <3>1. r \notin Consuming(R, c)
      BY <2>4 DEF Consuming
    <3>2. Consuming(R, c)' = Consuming(R, c)
      BY <2>1, <3>1
    <3>. QED BY <2>2, <2>4, <3>2
  <2>. QED BY <2>3, <2>4
<1>. QED BY <1>1 DEF UsesInv

\* a fresh code of generation g is added to rows that are kept or deleted
LEMMA CodeAdded ==
  ASSUME NEW R, NEW K, NEW H, FactorInv(R, K),
         NEW c \in K, Factor(R, K, H)!FreshCode(c), NEW g \in Nat,
         NEW kept, kept \in [K -> CodeRows], code' = Factor(R, K, H)!Adding(kept, c, g),
         \A d \in K : kept[d].state \in {"absent", "valid"} => kept[d] = code[d],
         secret'.generation # 0, g = secret'.generation \/ secret'.generation \in crossed',
         \A d \in K : kept[d].state = "valid" =>
           code[d].for = secret'.generation \/ secret'.generation \in crossed'
  PROVE  /\ CodesInv(K)'
         /\ \A d \in K : code'[d].state \in {"absent", "valid"} =>
                           code[d].state \in {"absent", "valid"}
<1>1. code[c].state = "absent"
  BY DEF Factor!FreshCode, Factor!Unused, Factor!NoCode
<1>2. /\ code'[c] = [for |-> g, state |-> "valid"]
      /\ \A d \in K : d # c => code'[d] = kept[d]
      /\ code' \in [K -> CodeRows]
  BY DEF Factor!Adding, CodeRows
<1>3. ASSUME NEW d \in K, code'[d].state \in {"absent", "valid"}
      PROVE  /\ code[d].state \in {"absent", "valid"}
             /\ code'[d].state = "valid" =>
                  code'[d].for = secret'.generation \/ secret'.generation \in crossed'
  <2>1. CASE d = c
    BY <1>1, <1>2, <2>1
  <2>2. CASE d # c
    BY <1>2, <1>3, <2>2
  <2>. QED BY <2>1, <2>2
<1>. QED BY <1>2, <1>3 DEF CodesInv

LEMMA PurgedCodes ==
  ASSUME NEW R, NEW K, NEW H, CodesInv(K), NEW seen
  PROVE  /\ Factor(R, K, H)!Purged(seen) \in [K -> CodeRows]
         /\ \A d \in K : Factor(R, K, H)!Purged(seen)[d].state \in {"absent", "valid"} =>
              d \notin seen /\ Factor(R, K, H)!Purged(seen)[d] = code[d]
<1>1. PICK f : f = Factor(R, K, H)!Purged(seen)
  OBVIOUS
<1>2. /\ f = [d \in K |-> f[d]]
      /\ \A d \in K : f[d] = IF d \in seen THEN [code[d] EXCEPT !.state = "deleted"] ELSE code[d]
  BY <1>1 DEF Factor!Purged
<1>3. \A d \in K : code[d] \in CodeRows
  BY DEF CodesInv
<1>4. \A d \in K : f[d] \in CodeRows /\ (d \in seen => f[d].state = "deleted")
  BY <1>2, <1>3 DEF CodeRows
<1>5. f \in [K -> CodeRows]
  BY <1>2, <1>4
<1>6. \A d \in K : f[d].state \in {"absent", "valid"} => d \notin seen /\ f[d] = code[d]
  BY <1>2, <1>4
<1>. QED BY <1>1, <1>5, <1>6

LEMMA FactorCrosses ==
  ASSUME NEW R, NEW K, NEW H, NEW r \in R, Factor(R, K, H)!Cross(r)
  PROVE  /\ \A g \in crossed : g \in crossed'
         /\ factorCalls[r].secret.generation # secret.generation => secret'.generation \in crossed'
         /\ factorCalls[r].op = "reset" /\ factorCalls[r].secret.confirmed # secret.confirmed =>
              secret'.generation \in crossed'
         /\ \A c \in K : factorCalls[r].op = "reset" /\ code[c].state = "valid"
                         /\ c \notin factorCalls[r].seen => secret'.generation \in crossed'
BY DEF Factor!Cross, Factor!Outdated, Factor!AcceptsCode

\* a call that begins keeps the secret it has read
LEMMA FactorBegun ==
  ASSUME NEW R, NEW K, NEW H, FactorInv(R, K), NEW r \in R, NEW op, NEW h, NEW c,
         Factor(R, K, H)!Begin(r, op, h, c),
         op \in {"confirm", "reset", "rotate"} => secret.generation # 0
  PROVE  /\ UNCHANGED <<secret, proven, code, opened, crossed>>
         /\ factorCalls'[r].op = op /\ factorCalls'[r].code = c
         /\ \A q \in R : q # r => factorCalls'[q] = factorCalls[q]
         /\ factorCalls' = [q \in R |-> factorCalls'[q]]
         /\ SecretInv' /\ CodesInv(K)' /\ CallsInv(R, K)'
<1>1. UNCHANGED <<secret, proven, code, opened, crossed>>
  BY DEF Factor!Begin, Factor!rows
<1>2. PICK new : new = [op |-> op, secret |-> secret, seen |-> Factor(R, K, H)!Present,
                        challenge |-> h, code |-> c]
  OBVIOUS
<1>3. factorCalls' = [factorCalls EXCEPT ![r] = new]
  BY <1>2 DEF Factor!Begin
<1>4. /\ secret.generation \in Nat
      /\ secret'.generation = secret.generation
  BY <1>1 DEF FactorInv, SecretInv
<1>5. /\ new.op = op /\ new.secret.generation = secret.generation /\ new.code = c
  BY <1>2
<1>6. /\ new.secret.generation \in Nat /\ new.secret.generation <= secret'.generation
      /\ secret'.generation \in Nat /\ secret.generation <= secret'.generation
      /\ new.op \in {"confirm", "reset", "rotate"} => new.secret.generation # 0
  BY <1>4, <1>5
<1>7. /\ factorCalls' = [q \in R |-> factorCalls'[q]] /\ factorCalls'[r] = new
      /\ \A q \in R : q # r => factorCalls'[q] = factorCalls[q]
      /\ CallsInv(R, K)'
  BY <1>3, <1>6, FactorCallMoved
<1>8. SecretInv' /\ CodesInv(K)'
  BY <1>1 DEF FactorInv, SecretInv, CodesInv
<1>. QED BY <1>1, <1>5, <1>7, <1>8

\* a call that ends keeps nothing
LEMMA FactorEnded ==
  ASSUME NEW R, NEW K, NEW H, FactorInv(R, K), NEW r \in R,
         factorCalls' = [factorCalls EXCEPT ![r] = Factor(R, K, H)!Idle],
         secret'.generation \in Nat, secret.generation <= secret'.generation
  PROVE  /\ factorCalls'[r].op = "idle"
         /\ \A q \in R : q # r => factorCalls'[q] = factorCalls[q]
         /\ factorCalls' = [q \in R |-> factorCalls'[q]]
         /\ CallsInv(R, K)'
<1>1. PICK new : new = Factor(R, K, H)!Idle
  OBVIOUS
<1>2. new.op = "idle" /\ new.secret.generation = 0
  BY <1>1 DEF Factor!Idle, Factor!NoSecret
<1>3. new.secret.generation \in Nat /\ new.secret.generation <= secret'.generation
  BY <1>2
<1>4. new.op \in {"confirm", "reset", "rotate"} => new.secret.generation # 0
  BY <1>2
<1>5. factorCalls' = [factorCalls EXCEPT ![r] = new]
  BY <1>1
<1>6. /\ factorCalls' = [q \in R |-> factorCalls'[q]] /\ factorCalls'[r] = new
      /\ \A q \in R : q # r => factorCalls'[q] = factorCalls[q]
      /\ CallsInv(R, K)'
  BY <1>3, <1>4, <1>5, FactorCallMoved
<1>. QED BY <1>2, <1>6

LEMMA FactorBegins ==
  ASSUME NEW R, NEW K, NEW H, IsFiniteSet(R), FactorInv(R, K), NEW r \in R,
         \/ Factor(R, K, H)!StartEnrollment(r) \/ Factor(R, K, H)!ConfirmEnrollment(r)
         \/ Factor(R, K, H)!StartChallenge(r)
         \/ Factor(R, K, H)!ResetMfa(r) \/ Factor(R, K, H)!RotateRecoveryCodes(r)
         \/ \E h \in H : \/ Factor(R, K, H)!VerifyChallenge(r, h)
                         \/ \E c \in K : Factor(R, K, H)!ConsumeRecoveryCode(r, h, c)
  PROVE  FactorInv(R, K)'
<1>0. secret.confirmed => secret.generation # 0
  BY DEF FactorInv, SecretInv
<1>1. ASSUME NEW op, NEW h, Factor(R, K, H)!Begin(r, op, h, 0), op # "consume",
             op \in {"confirm", "reset", "rotate"} => secret.generation # 0
      PROVE  FactorInv(R, K)'
  <2>1. /\ UNCHANGED <<secret, proven, code, opened, crossed>>
        /\ factorCalls'[r].op = op
        /\ \A q \in R : q # r => factorCalls'[q] = factorCalls[q]
        /\ factorCalls' = [q \in R |-> factorCalls'[q]]
        /\ SecretInv' /\ CodesInv(K)' /\ CallsInv(R, K)'
    BY <1>1, FactorBegun
  <2>2. UsesInv(R, K)'
    BY <1>1, <2>1, UsesStay DEF FactorInv
  <2>. QED BY <2>1, <2>2 DEF FactorInv
<1>2. CASE Factor(R, K, H)!StartEnrollment(r)
  BY <1>1, <1>2 DEF Factor!StartEnrollment
<1>3. CASE Factor(R, K, H)!ConfirmEnrollment(r)
  BY <1>1, <1>3 DEF Factor!ConfirmEnrollment
<1>4. CASE Factor(R, K, H)!StartChallenge(r)
  BY <1>1, <1>4 DEF Factor!StartChallenge
<1>5. CASE Factor(R, K, H)!ResetMfa(r)
  BY <1>1, <1>5 DEF Factor!ResetMfa
<1>6. CASE Factor(R, K, H)!RotateRecoveryCodes(r)
  BY <1>0, <1>1, <1>6 DEF Factor!RotateRecoveryCodes, Factor!Enrolled
<1>7. ASSUME NEW h \in H, Factor(R, K, H)!VerifyChallenge(r, h)
      PROVE  FactorInv(R, K)'
  BY <1>1, <1>7 DEF Factor!VerifyChallenge
<1>8. ASSUME NEW h \in H, NEW c \in K, Factor(R, K, H)!ConsumeRecoveryCode(r, h, c)
      PROVE  FactorInv(R, K)'
  <2>1. Factor(R, K, H)!Begin(r, "consume", h, c) /\ code[c].state = "valid"
    BY <1>8 DEF Factor!ConsumeRecoveryCode, Factor!AcceptsCode
  <2>2. /\ UNCHANGED <<secret, proven, code, opened, crossed>>
        /\ factorCalls'[r].code = c
        /\ \A q \in R : q # r => factorCalls'[q] = factorCalls[q]
        /\ factorCalls' = [q \in R |-> factorCalls'[q]]
        /\ SecretInv' /\ CodesInv(K)' /\ CallsInv(R, K)'
    BY <2>1, FactorBegun
  <2>3. UsesInv(R, K)'
    BY <2>1, <2>2, UsesBegun DEF FactorInv
  <2>. QED BY <2>2, <2>3 DEF FactorInv
<1>. QED BY <1>2, <1>3, <1>4, <1>5, <1>6, <1>7, <1>8

\* the commits that write the secret or add codes
LEMMA FactorWritten ==
  ASSUME NEW R, NEW K, NEW H, IsFiniteSet(R), FactorInv(R, K), NEW r \in R,
         factorCalls' = [factorCalls EXCEPT ![r] = Factor(R, K, H)!Idle],
         secret'.generation \in Nat, secret.generation <= secret'.generation,
         SecretInv', CodesInv(K)', opened' = opened,
         \A c \in K : code'[c].state \in {"absent", "valid"} => code[c].state \in {"absent", "valid"}
  PROVE  FactorInv(R, K)'
<1>1. /\ factorCalls'[r].op = "idle"
      /\ \A q \in R : q # r => factorCalls'[q] = factorCalls[q]
      /\ factorCalls' = [q \in R |-> factorCalls'[q]]
      /\ CallsInv(R, K)'
  BY FactorEnded
<1>2. UsesInv(R, K)'
  BY <1>1, UsesStay DEF FactorInv
<1>. QED BY <1>1, <1>2 DEF FactorInv

LEMMA EnrollKeeps ==
  ASSUME NEW R, NEW K, NEW H, IsFiniteSet(R), FactorInv(R, K), NEW r \in R, NEW c \in K,
         Factor(R, K, H)!Enroll(r, c)
  PROVE  FactorInv(R, K)'
<1>. PICK g \in Nat, b \in BOOLEAN : secret = [generation |-> g, confirmed |-> b]
  BY DEF FactorInv, SecretInv
<1>. PICK t \in Nat : t = factorCalls[r].secret.generation
  BY DEF FactorInv, CallsInv
<1>0. /\ secret.generation = g /\ secret.confirmed = b /\ t <= g /\ (t = 0 => g = 0) /\ (g = 0 => ~ b)
  BY DEF FactorInv, SecretInv, CallsInv, Factor!Enroll
<1>1. PICK a \in Nat, n \in Nat : a = (IF t = 0 THEN 1 ELSE t) /\ n = (IF g = 0 THEN 1 ELSE g)
  OBVIOUS
<1>2. /\ secret' = [generation |-> n, confirmed |-> b]
      /\ factorCalls' = [factorCalls EXCEPT ![r] = Factor(R, K, H)!Idle]
      /\ Factor(R, K, H)!FreshCode(c) /\ code' = Factor(R, K, H)!Adding(code, c, a)
      /\ proven' = proven /\ opened' = opened
    BY <1>0, <1>1 DEF Factor!Enroll, Factor!Commit
<1>3. /\ \A k \in crossed : k \in crossed'
      /\ t # g => n \in crossed'
  BY <1>0, <1>2, FactorCrosses DEF Factor!Enroll
<1>4. /\ secret'.generation = n /\ n # 0 /\ g <= n /\ (g # 0 => n = g)
      /\ a = n \/ n \in crossed'
  BY <1>0, <1>1, <1>2, <1>3
<1>5. SecretInv'
  BY <1>0, <1>2, <1>3, <1>4 DEF SecretInv, FactorInv
<1>6. /\ \A d \in K : code[d].state = "valid" => code[d].for = n \/ n \in crossed'
      /\ code \in [K -> CodeRows]
  BY <1>0, <1>3, <1>4 DEF FactorInv, CodesInv
<1>7. /\ CodesInv(K)'
      /\ \A d \in K : code'[d].state \in {"absent", "valid"} => code[d].state \in {"absent", "valid"}
  BY <1>2, <1>4, <1>6, CodeAdded
<1>. QED BY <1>0, <1>2, <1>4, <1>5, <1>7, FactorWritten

LEMMA ConfirmKeeps ==
  ASSUME NEW R, NEW K, NEW H, IsFiniteSet(R), FactorInv(R, K), NEW r \in R,
         Factor(R, K, H)!Confirm(r)
  PROVE  FactorInv(R, K)'
<1>. PICK g \in Nat, b \in BOOLEAN : secret = [generation |-> g, confirmed |-> b]
  BY DEF FactorInv, SecretInv
<1>. PICK t \in Nat : t = factorCalls[r].secret.generation
  BY DEF FactorInv, CallsInv
<1>0. secret.generation = g /\ t <= g /\ t # 0
  BY DEF FactorInv, CallsInv, Factor!Confirm, Factor!Commit
<1>1. /\ secret' = [generation |-> g, confirmed |-> TRUE]
      /\ factorCalls' = [factorCalls EXCEPT ![r] = Factor(R, K, H)!Idle]
      /\ proven' = t /\ code' = code /\ opened' = opened
  BY <1>0 DEF Factor!Confirm, Factor!Commit
<1>2. /\ \A k \in crossed : k \in crossed'
      /\ t # g => g \in crossed'
  BY <1>0, <1>1, FactorCrosses DEF Factor!Confirm
<1>3. SecretInv'
  BY <1>0, <1>1, <1>2 DEF SecretInv
<1>4. CodesInv(K)'
  BY <1>0, <1>1, <1>2 DEF FactorInv, CodesInv
<1>5. /\ secret'.generation \in Nat /\ secret.generation <= secret'.generation
      /\ \A c \in K : code'[c].state \in {"absent", "valid"} => code[c].state \in {"absent", "valid"}
  BY <1>0, <1>1
<1>. QED BY <1>1, <1>3, <1>4, <1>5, FactorWritten

LEMMA ResetKeeps ==
  ASSUME NEW R, NEW K, NEW H, IsFiniteSet(R), FactorInv(R, K), NEW r \in R, NEW c \in K,
         Factor(R, K, H)!Reset(r, c)
  PROVE  FactorInv(R, K)'
<1>. PICK seen : seen = factorCalls[r].seen
  OBVIOUS
<1>a. /\ Factor(R, K, H)!Purged(seen) \in [K -> CodeRows]
      /\ \A d \in K : Factor(R, K, H)!Purged(seen)[d].state \in {"absent", "valid"} =>
           d \notin seen /\ Factor(R, K, H)!Purged(seen)[d] = code[d]
  <2>1. CodesInv(K)
    BY DEF FactorInv
  <2>. QED BY <2>1, PurgedCodes
<1>. PICK g \in Nat, b \in BOOLEAN : secret = [generation |-> g, confirmed |-> b]
  BY DEF FactorInv, SecretInv
<1>. PICK t \in Nat : t = factorCalls[r].secret.generation
  BY DEF FactorInv, CallsInv
<1>. PICK s : s = factorCalls[r].secret.confirmed
  OBVIOUS
<1>. PICK kept : kept = Factor(R, K, H)!Purged(seen)
  OBVIOUS
<1>0. /\ secret.generation = g /\ secret.confirmed = b /\ t <= g
      /\ factorCalls[r].op = "reset"
  BY DEF FactorInv, CallsInv, Factor!Reset, Factor!Commit
<1>1. /\ secret' = [generation |-> g + 1, confirmed |-> b /\ ~ s]
      /\ factorCalls' = [factorCalls EXCEPT ![r] = Factor(R, K, H)!Idle]
      /\ Factor(R, K, H)!FreshCode(c)
      /\ proven' = proven /\ opened' = opened
  BY <1>0 DEF Factor!Reset, Factor!Commit, Factor!Renewed
<1>2. secret'.generation = g + 1 /\ g + 1 \in Nat /\ g + 1 # 0 /\ g <= g + 1
  BY <1>1
<1>3. code' = Factor(R, K, H)!Adding(kept, c, g + 1)
  BY <1>2 DEF Factor!Reset
<1>4. /\ b # s => g + 1 \in crossed'
      /\ \A d \in K : code[d].state = "valid" /\ d \notin seen => g + 1 \in crossed'
  BY <1>0, <1>2, FactorCrosses DEF Factor!Reset
<1>5. SecretInv'
  BY <1>0, <1>1, <1>2, <1>4 DEF SecretInv, FactorInv
<1>6. /\ kept \in [K -> CodeRows]
      /\ \A d \in K : kept[d].state \in {"absent", "valid"} => d \notin seen /\ kept[d] = code[d]
  BY <1>a
<1>7. \A d \in K : kept[d].state = "valid" => g + 1 \in crossed'
  BY <1>4, <1>6
<1>8. /\ CodesInv(K)'
      /\ \A d \in K : code'[d].state \in {"absent", "valid"} => code[d].state \in {"absent", "valid"}
  BY <1>1, <1>2, <1>3, <1>6, <1>7, CodeAdded
<1>. QED BY <1>0, <1>1, <1>2, <1>5, <1>8, FactorWritten

LEMMA RotateKeeps ==
  ASSUME NEW R, NEW K, NEW H, IsFiniteSet(R), FactorInv(R, K), NEW r \in R, NEW c \in K,
         Factor(R, K, H)!Rotate(r, c)
  PROVE  FactorInv(R, K)'
<1>. PICK seen : seen = factorCalls[r].seen
  OBVIOUS
<1>a. /\ Factor(R, K, H)!Purged(seen) \in [K -> CodeRows]
      /\ \A d \in K : Factor(R, K, H)!Purged(seen)[d].state \in {"absent", "valid"} =>
           d \notin seen /\ Factor(R, K, H)!Purged(seen)[d] = code[d]
  <2>1. CodesInv(K)
    BY DEF FactorInv
  <2>. QED BY <2>1, PurgedCodes
<1>. PICK g : g = secret.generation /\ g \in Nat
  BY DEF FactorInv, SecretInv
<1>. PICK t : t = factorCalls[r].secret.generation /\ t \in Nat
  BY DEF FactorInv, CallsInv
<1>. PICK kept : kept = Factor(R, K, H)!Purged(seen)
  OBVIOUS
<1>0. t <= g /\ t # 0 /\ g # 0
  BY DEF FactorInv, CallsInv, Factor!Rotate, Factor!Commit
<1>1. /\ factorCalls' = [factorCalls EXCEPT ![r] = Factor(R, K, H)!Idle]
      /\ Factor(R, K, H)!FreshCode(c) /\ code' = Factor(R, K, H)!Adding(kept, c, t)
      /\ secret' = secret /\ proven' = proven /\ opened' = opened
  BY DEF Factor!Rotate, Factor!Commit
<1>2. /\ \A k \in crossed : k \in crossed'
      /\ t # g => g \in crossed'
  BY <1>1, FactorCrosses DEF Factor!Rotate
<1>3. SecretInv'
  BY <1>1, <1>2 DEF SecretInv, FactorInv
<1>4. /\ kept \in [K -> CodeRows]
      /\ \A d \in K : kept[d].state \in {"absent", "valid"} => kept[d] = code[d]
  BY <1>a
<1>5. \A d \in K : kept[d].state = "valid" => code[d].for = g \/ g \in crossed'
  BY <1>2, <1>4 DEF FactorInv, CodesInv
<1>6. secret'.generation = g /\ (t = g \/ g \in crossed')
  BY <1>1, <1>2
<1>7. /\ CodesInv(K)'
      /\ \A d \in K : code'[d].state \in {"absent", "valid"} => code[d].state \in {"absent", "valid"}
  BY <1>0, <1>1, <1>4, <1>5, <1>6, CodeAdded
<1>8. secret'.generation \in Nat /\ secret.generation <= secret'.generation
  BY <1>1
<1>. QED BY <1>1, <1>3, <1>7, <1>8, FactorWritten

LEMMA ConsumeKeeps ==
  ASSUME NEW R, NEW K, NEW H, IsFiniteSet(R), FactorInv(R, K), NEW r \in R,
         Factor(R, K, H)!Consume(r)
  PROVE  FactorInv(R, K)'
<1>. PICK d : d = factorCalls[r].code
  OBVIOUS
<1>. PICK h : h = factorCalls[r].challenge
  OBVIOUS
<1>1. /\ factorCalls' = [factorCalls EXCEPT ![r] = Factor(R, K, H)!Idle]
      /\ factorCalls[r].op = "consume" /\ d \in K
      /\ code' = [code EXCEPT ![d].state = "used"]
      /\ opened' = [opened EXCEPT ![d] = @ \union {h}]
      /\ secret' = secret /\ proven' = proven /\ crossed' = crossed
  BY DEF Factor!Consume, Factor!Commit, Factor!Present
<1>2. /\ code' \in [K -> CodeRows] /\ code'[d].state = "used"
      /\ opened' = [c \in K |-> opened'[c]] /\ opened'[d] = opened[d] \union {h}
      /\ \A c \in K : c # d => opened'[c] = opened[c] /\ code'[c] = code[c]
  BY <1>1 DEF FactorInv, CodesInv, CodeRows
<1>3. SecretInv'
  BY <1>1 DEF FactorInv, SecretInv
<1>4. CodesInv(K)'
  <2>1. \A c \in K : code'[c].state = "valid" => code'[c] = code[c]
    BY <1>2
  <2>. QED BY <1>1, <1>2, <2>1 DEF FactorInv, CodesInv
<1>5. secret'.generation \in Nat /\ secret.generation <= secret'.generation
  BY <1>1 DEF FactorInv, SecretInv
<1>6. /\ factorCalls'[r].op = "idle"
      /\ \A q \in R : q # r => factorCalls'[q] = factorCalls[q]
      /\ factorCalls' = [q \in R |-> factorCalls'[q]]
      /\ CallsInv(R, K)'
  BY <1>1, <1>5, FactorEnded
<1>7. UsesInv(R, K)'
  <2>1. UsesInv(R, K)
    BY DEF FactorInv
  <2>2. factorCalls[r].op = "consume" /\ factorCalls[r].code = d /\ d \in K
    BY <1>1
  <2>. QED BY <1>2, <1>6, <2>1, <2>2, UsesDone
<1>. QED BY <1>2, <1>3, <1>4, <1>6, <1>7 DEF FactorInv

\* the calls that write neither the secret nor a code, and the time that passes
LEMMA FactorRest ==
  ASSUME NEW R, NEW K, NEW H, IsFiniteSet(R), FactorInv(R, K),
         \/ Factor(R, K, H)!Elsewhere
         \/ \E r \in R : \/ Factor(R, K, H)!Abort(r) \/ Factor(R, K, H)!Verify(r)
                         \/ \E h \in H : Factor(R, K, H)!InsertChallenge(r, h)
  PROVE  FactorInv(R, K)'
<1>1. ASSUME NEW r \in R, factorCalls' = [factorCalls EXCEPT ![r] = Factor(R, K, H)!Idle],
             UNCHANGED <<secret, proven, code, opened, crossed>>
      PROVE  FactorInv(R, K)'
  <2>1. SecretInv' /\ CodesInv(K)'
    BY <1>1 DEF FactorInv, SecretInv, CodesInv
  <2>2. secret'.generation \in Nat /\ secret.generation <= secret'.generation
    BY <1>1 DEF FactorInv, SecretInv
  <2>. QED BY <1>1, <2>1, <2>2, FactorWritten
<1>2. ASSUME UNCHANGED <<secret, proven, code, opened, crossed, factorCalls>>
      PROVE  FactorInv(R, K)'
  BY <1>2 DEF FactorInv, SecretInv, CodesInv, CallsInv, UsesInv, Consuming
<1>3. ASSUME NEW c \in K, code' = [code EXCEPT ![c].state = "expired"],
             UNCHANGED <<secret, proven, opened, crossed, factorCalls>>
      PROVE  FactorInv(R, K)'
  <2>1. /\ code' \in [K -> CodeRows] /\ code'[c].state = "expired"
        /\ \A d \in K : d # c => code'[d] = code[d]
    BY <1>3 DEF FactorInv, CodesInv, CodeRows
  <2>2. \A d \in K : code'[d].state \in {"absent", "valid"} => code'[d] = code[d]
    BY <2>1
  <2>3. CodesInv(K)'
    BY <1>3, <2>1, <2>2 DEF FactorInv, CodesInv
  <2>4. UsesInv(R, K)'
    BY <1>3, <2>2, UsesStay DEF FactorInv
  <2>5. SecretInv' /\ CallsInv(R, K)'
    BY <1>3 DEF FactorInv, SecretInv, CallsInv
  <2>. QED BY <1>3, <2>3, <2>4, <2>5 DEF FactorInv
<1>4. CASE Factor(R, K, H)!Elsewhere
  BY <1>2, <1>3, <1>4 DEF Factor!Elsewhere, Factor!rows
<1>5. ASSUME NEW r \in R, Factor(R, K, H)!Abort(r) PROVE FactorInv(R, K)'
  BY <1>1, <1>5 DEF Factor!Abort, Factor!rows
<1>6. ASSUME NEW r \in R, Factor(R, K, H)!Verify(r) PROVE FactorInv(R, K)'
  BY <1>1, <1>6 DEF Factor!Verify, Factor!Commit
<1>7. ASSUME NEW r \in R, NEW h \in H, Factor(R, K, H)!InsertChallenge(r, h) PROVE FactorInv(R, K)'
  BY <1>1, <1>7 DEF Factor!InsertChallenge, Factor!Commit
<1>. QED BY <1>4, <1>5, <1>6, <1>7

LEMMA FactorStep ==
  ASSUME NEW R, NEW K, NEW H, IsFiniteSet(R), FactorInv(R, K), Factor(R, K, H)!Next
  PROVE  FactorInv(R, K)'
BY FactorBegins, EnrollKeeps, ConfirmKeeps, ResetKeeps, RotateKeeps, ConsumeKeeps, FactorRest
   DEF Factor!Next

LEMMA FactorInit ==
  ASSUME NEW R, NEW K, NEW H, IsFiniteSet(R), Factor(R, K, H)!Init
  PROVE  FactorInv(R, K)
<1>1. /\ secret = [generation |-> 0, confirmed |-> FALSE]
      /\ code = [c \in K |-> [for |-> 0, state |-> "absent"]]
      /\ opened = [c \in K |-> {}]
      /\ factorCalls = [r \in R |-> Factor(R, K, H)!Idle]
  BY DEF Factor!Init, Factor!NoSecret, Factor!NoCode
<1>2. SecretInv
  BY <1>1 DEF SecretInv
<1>3. CodesInv(K)
  BY <1>1 DEF CodesInv, CodeRows
<1>4. \A r \in R : factorCalls[r].op = "idle" /\ factorCalls[r].secret = secret
  BY <1>1 DEF Factor!Idle, Factor!NoSecret
<1>5. CallsInv(R, K)
  <2>1. \A r \in R : factorCalls[r].secret.generation = 0 /\ secret.generation = 0
    BY <1>1, <1>4
  <2>. QED BY <1>4, <2>1 DEF CallsInv
<1>6. UsesInv(R, K)
  <2>1. \A c \in K : Consuming(R, c) = {}
    BY <1>4 DEF Consuming
  <2>2. IsFiniteSet({}) /\ Cardinality({}) = 0 /\ Cardinality(R) \in Nat
    BY FS_EmptySet, FS_CardinalityType
  <2>3. \A c \in K : opened[c] = {}
    BY <1>1
  <2>4. Cardinality({}) + Cardinality({}) <= Cardinality(R)
    BY <2>2
  <2>. QED BY <2>1, <2>2, <2>3, <2>4 DEF UsesInv
<1>. QED BY <1>1, <1>2, <1>3, <1>5, <1>6 DEF FactorInv

LEMMA FactorKept ==
  ASSUME NEW R, NEW K, NEW H, IsFiniteSet(R), FactorInv(R, K)
  PROVE  FactorOf(R, K, H)
<1>1. Factor(R, K, H)!UsesBounded
  <2>1. \A S : Factor(R, K, H)!Cardinality(S) = Cardinality(S)
    BY DEF Factor!Cardinality, Cardinality
  <2>2. ASSUME NEW c \in K
        PROVE  Cardinality(opened[c]) <= Cardinality(R)
    <3>1. Consuming(R, c) \in SUBSET R
      BY DEF Consuming
    <3>2. /\ Cardinality(Consuming(R, c)) \in Nat /\ Cardinality(opened[c]) \in Nat
          /\ Cardinality(R) \in Nat
      BY <3>1, FS_Subset, FS_CardinalityType DEF FactorInv, UsesInv
    <3>3. Cardinality(opened[c]) + Cardinality(Consuming(R, c)) <= Cardinality(R)
      BY DEF FactorInv, UsesInv
    <3>. QED BY <3>2, <3>3
  <2>. QED BY <2>1, <2>2 DEF Factor!UsesBounded
<1>2. Factor(R, K, H)!AccessByProvenSecret
  BY DEF FactorInv, SecretInv, Factor!AccessByProvenSecret, Factor!AccessAllowed, Factor!Enrolled
<1>3. Factor(R, K, H)!CodesOfThisSecret
  BY DEF FactorInv, CodesInv, Factor!CodesOfThisSecret, Factor!AcceptsCode
<1>. QED BY <1>1, <1>2, <1>3 DEF FactorOf

-----------------------------------------------------------------------------
(* Guest sessions.  As long as no count was overwritten, what was sent and *)
(* what is about to be sent stay within the quota and one message for each *)
(* other call; after an overwrite messages_used stays behind for good.     *)

GuestOps == {"idle", "checked", "loaded", "registering", "registered"}

Sending(R) == {r \in R : guestCalls[r].op \in {"checked", "loaded"}}

GuestType(R) ==
  /\ guest \in [used: Nat, revoked: BOOLEAN, expired: BOOLEAN, converted: BOOLEAN]
  /\ sent \in Nat /\ late \in Nat
  /\ guestCalls \in [R -> [op: GuestOps, used: Nat]]

Loads(R) ==
  \A r \in R : guestCalls[r].op = "loaded" =>
    /\ guestCalls[r].used <= sent
    /\ guest.used < sent => guestCalls[r].used < sent

GuestInv(R) ==
  /\ GuestType(R)
  /\ guest.used <= sent
  /\ Loads(R)
  /\ guest.used = sent => sent + Cardinality(Sending(R)) <= Quota + Cardinality(R) - 1
  /\ ~ guest.revoked => late = 0
  /\ guest.revoked => late + Cardinality(Sending(R)) <= Cardinality(R) - 1

\* how the number of calls about to send changes when one call moves
LEMMA SendingMoves ==
  ASSUME NEW R, IsFiniteSet(R), GuestType(R), NEW r \in R, NEW new \in [op: GuestOps, used: Nat],
         guestCalls' = [guestCalls EXCEPT ![r] = new]
  PROVE  /\ Cardinality(R) \in Nat
         /\ Cardinality(Sending(R)) \in Nat /\ Cardinality(Sending(R)') \in Nat
         /\ Cardinality(Sending(R)') <= Cardinality(R)
         /\ r \notin Sending(R) => Cardinality(Sending(R)) <= Cardinality(R) - 1
         /\ r \in Sending(R) => Cardinality(Sending(R)) >= 1
         /\ new.op \in {"checked", "loaded"} /\ r \in Sending(R) =>
              Cardinality(Sending(R)') = Cardinality(Sending(R))
         /\ new.op \notin {"checked", "loaded"} /\ r \in Sending(R) =>
              Cardinality(Sending(R)') = Cardinality(Sending(R)) - 1
         /\ new.op \notin {"checked", "loaded"} /\ r \notin Sending(R) =>
              Cardinality(Sending(R)') = Cardinality(Sending(R))
<1>. DEFINE S == Sending(R)  T == Sending(R)'
<1>1. /\ S \in SUBSET R /\ T \in SUBSET R
      /\ guestCalls'[r] = new /\ \A q \in R : q # r => guestCalls'[q] = guestCalls[q]
  BY DEF Sending, GuestType
<1>2. /\ IsFiniteSet(S) /\ IsFiniteSet(T) /\ Cardinality(R) \in Nat
      /\ Cardinality(S) \in Nat /\ Cardinality(T) \in Nat /\ Cardinality(T) <= Cardinality(R)
  BY <1>1, FS_Subset, FS_CardinalityType
<1>3. r \notin S => Cardinality(S) <= Cardinality(R) - 1
  <2>1. /\ IsFiniteSet(R \ {r}) /\ Cardinality(R \ {r}) = Cardinality(R) - 1
    BY FS_RemoveElement
  <2>. QED BY <1>1, <2>1, FS_Subset
<1>4. r \in S => Cardinality(S \ {r}) = Cardinality(S) - 1 /\ Cardinality(S \ {r}) \in Nat
  BY <1>2, FS_RemoveElement, FS_CardinalityType
<1>5. new.op \in {"checked", "loaded"} /\ r \in S => T = S
  BY <1>1 DEF Sending
<1>6. new.op \notin {"checked", "loaded"} => T = S \ {r}
  BY <1>1 DEF Sending
<1>7. r \notin S => S \ {r} = S
  OBVIOUS
<1>. QED BY <1>2, <1>3, <1>4, <1>5, <1>6, <1>7

LEMMA GuestStep ==
  ASSUME NEW R, IsFiniteSet(R), GuestInv(R), Guest(R)!Next
  PROVE  GuestInv(R)'
<1>. DEFINE n == Cardinality(R)  k == Cardinality(Sending(R))
<1>. PICK u \in Nat, v \in BOOLEAN, e \in BOOLEAN, w \in BOOLEAN :
       guest = [used |-> u, revoked |-> v, expired |-> e, converted |-> w]
  BY DEF GuestInv, GuestType
<1>0. /\ guest.used = u /\ guest.revoked = v
      /\ n \in Nat /\ k \in Nat /\ sent \in Nat /\ late \in Nat /\ Quota \in Nat
      /\ guestCalls \in [R -> [op: GuestOps, used: Nat]]
      /\ u <= sent /\ (u = sent => sent + k <= Quota + n - 1)
      /\ (~ v => late = 0) /\ (v => late + k <= n - 1)
  <2>1. Sending(R) \in SUBSET R
    BY DEF Sending
  <2>. QED BY <2>1, FS_Subset, FS_CardinalityType, AccountsAssumption DEF GuestInv, GuestType
<1>1. CASE Guest(R)!Expire
  <2>1. /\ guest' = [guest EXCEPT !.expired = TRUE]
        /\ UNCHANGED <<sent, late, guestCalls>>
    BY <1>1 DEF Guest!Expire
  <2>2. /\ guest'.used = u /\ guest'.revoked = v
        /\ guest' \in [used: Nat, revoked: BOOLEAN, expired: BOOLEAN, converted: BOOLEAN]
        /\ Sending(R)' = Sending(R)
    BY <2>1 DEF Sending
  <2>. QED BY <1>0, <2>1, <2>2 DEF GuestInv, GuestType, Loads
<1>2. ASSUME NEW r \in R, Guest(R)!Revoke(r)
      PROVE  GuestInv(R)'
  <2>1. /\ guest' = [guest EXCEPT !.revoked = TRUE] /\ ~ v
        /\ UNCHANGED <<sent, late, guestCalls>> /\ guestCalls[r].op = "idle"
    BY <1>2 DEF Guest!Revoke, Guest!Free, Guest!Idle
  <2>2. /\ guest'.used = u /\ guest'.revoked = TRUE
        /\ guest' \in [used: Nat, revoked: BOOLEAN, expired: BOOLEAN, converted: BOOLEAN]
        /\ Sending(R)' = Sending(R) /\ r \notin Sending(R)
    BY <2>1 DEF Sending
  <2>3. k <= n - 1
    <3>1. guestCalls' = [guestCalls EXCEPT ![r] = guestCalls[r]]
      BY <1>0, <2>1
    <3>. QED BY <1>0, <2>2, <3>1, SendingMoves DEF GuestInv
  <2>. QED BY <1>0, <2>1, <2>2, <2>3 DEF GuestInv, GuestType, Loads
<1>3. ASSUME NEW r \in R, Guest(R)!CheckQuota(r)
      PROVE  GuestInv(R)'
  <2>. DEFINE new == [op |-> "checked", used |-> 0]
  <2>1. /\ guestCalls' = [guestCalls EXCEPT ![r] = new] /\ new \in [op: GuestOps, used: Nat]
        /\ ~ v /\ u < Quota /\ UNCHANGED <<guest, sent, late>>
    BY <1>3 DEF Guest!CheckQuota, Guest!Valid, Guest!Step, GuestOps
  <2>2. Cardinality(Sending(R)') \in Nat /\ Cardinality(Sending(R)') <= n
    BY <2>1, SendingMoves DEF GuestInv
  <2>3. guestCalls' \in [R -> [op: GuestOps, used: Nat]] /\ Loads(R)'
    BY <1>0, <2>1 DEF GuestInv, Loads
  <2>. QED BY <1>0, <2>1, <2>2, <2>3 DEF GuestInv, GuestType
<1>4. ASSUME NEW r \in R, Guest(R)!LoadGuest(r)
      PROVE  GuestInv(R)'
  <2>. DEFINE new == [op |-> "loaded", used |-> u]
  <2>1. /\ guestCalls' = [guestCalls EXCEPT ![r] = new] /\ new \in [op: GuestOps, used: Nat]
        /\ r \in Sending(R) /\ UNCHANGED <<guest, sent, late>>
    BY <1>4 DEF Guest!LoadGuest, Guest!Step, GuestOps, Sending
  <2>2. Cardinality(Sending(R)') = k
    BY <2>1, SendingMoves DEF GuestInv
  <2>3. guestCalls' \in [R -> [op: GuestOps, used: Nat]] /\ Loads(R)'
    BY <1>0, <2>1 DEF GuestInv, Loads
  <2>. QED BY <1>0, <2>1, <2>2, <2>3 DEF GuestInv, GuestType
<1>5. ASSUME NEW r \in R, Guest(R)!Count(r)
      PROVE  GuestInv(R)'
  <2>. DEFINE new == [op |-> "idle", used |-> 0]  l == guestCalls[r].used
  <2>1. /\ guestCalls' = [guestCalls EXCEPT ![r] = new] /\ new \in [op: GuestOps, used: Nat]
        /\ r \in Sending(R) /\ guestCalls[r].op = "loaded"
        /\ guest' = [used |-> l + 1, revoked |-> v, expired |-> e, converted |-> w]
        /\ sent' = sent + 1 /\ late' = IF v THEN late + 1 ELSE late
    BY <1>5 DEF Guest!Count, Guest!Step, GuestOps, Sending
  <2>2. Cardinality(Sending(R)') = k - 1 /\ k >= 1
    BY <2>1, SendingMoves DEF GuestInv
  <2>3. l \in Nat /\ l <= sent /\ (u < sent => l < sent)
    BY <1>0, <2>1 DEF GuestInv, Loads
  <2>4. guest'.used = l + 1 /\ guest'.revoked = v
    BY <2>1
  <2>5. GuestType(R)'
    BY <1>0, <2>1, <2>3 DEF GuestType
  <2>6. Loads(R)'
    <3>. SUFFICES ASSUME NEW q \in R, guestCalls'[q].op = "loaded"
                  PROVE  guestCalls'[q].used < sent'
      BY <1>0, <2>5 DEF Loads, GuestType
    <3>1. q # r /\ guestCalls'[q] = guestCalls[q]
      BY <1>0, <2>1
    <3>2. guestCalls[q].used <= sent /\ guestCalls[q].used \in Nat
      BY <1>0, <3>1 DEF GuestInv, Loads
    <3>. QED BY <1>0, <2>1, <3>1, <3>2
  <2>7. l + 1 = sent + 1 => u = sent
    BY <1>0, <2>3
  <2>8. late' \in Nat /\ (~ v => late' = 0) /\ (v => late' + (k - 1) <= n - 1)
    BY <1>0, <2>1
  <2>9. guest'.used <= sent' /\ (guest'.used = sent' => sent' + (k - 1) <= Quota + n - 1)
    BY <1>0, <2>1, <2>3, <2>4, <2>7
  <2>. QED BY <2>2, <2>4, <2>5, <2>6, <2>8, <2>9 DEF GuestInv
<1>6. ASSUME NEW r \in R, NEW new \in [op: {"idle", "registering", "registered"}, used: {0}],
             guestCalls' = [guestCalls EXCEPT ![r] = new],
             UNCHANGED <<sent, late>>,
             guest' = guest \/ (/\ guestCalls[r].op = "registered"
                                /\ guest' = [guest EXCEPT !.converted = TRUE, !.revoked = TRUE])
      PROVE  GuestInv(R)'
  <2>1. /\ Cardinality(Sending(R)') \in Nat /\ Cardinality(Sending(R)') <= k
        /\ r \notin Sending(R) => k <= n - 1
    <3>1. new \in [op: GuestOps, used: Nat] /\ new.op \notin {"checked", "loaded"}
      BY DEF GuestOps
    <3>2. /\ Cardinality(Sending(R)') \in Nat
          /\ r \notin Sending(R) => k <= n - 1
          /\ r \in Sending(R) => Cardinality(Sending(R)') = k - 1
          /\ r \notin Sending(R) => Cardinality(Sending(R)') = k
      BY <1>6, <3>1, SendingMoves DEF GuestInv
    <3>. QED BY <1>0, <3>2
  <2>2. guestCalls' \in [R -> [op: GuestOps, used: Nat]] /\ new.op # "loaded"
    BY <1>0, <1>6 DEF GuestOps
  <2>3. /\ guest'.used = u
        /\ guest' \in [used: Nat, revoked: BOOLEAN, expired: BOOLEAN, converted: BOOLEAN]
        /\ guest'.revoked = v \/ (guest'.revoked /\ r \notin Sending(R))
    <3>1. CASE guest' = guest
      BY <3>1
    <3>2. CASE guest' # guest
      <4>1. /\ guest' = [used |-> u, revoked |-> TRUE, expired |-> e, converted |-> TRUE]
            /\ guestCalls[r].op = "registered"
        BY <1>6, <3>2
      <4>. QED BY <4>1 DEF Sending
    <3>. QED BY <3>1, <3>2
  <2>4. Loads(R)'
    BY <1>0, <1>6, <2>2, <2>3 DEF GuestInv, Loads
  <2>5. /\ guest'.used = sent' => sent' + Cardinality(Sending(R)') <= Quota + n - 1
        /\ ~ guest'.revoked => late' = 0
        /\ guest'.revoked => late' + Cardinality(Sending(R)') <= n - 1
    BY <1>0, <1>6, <2>1, <2>3
  <2>. QED BY <1>0, <1>6, <2>2, <2>3, <2>4, <2>5 DEF GuestInv, GuestType
<1>7. ASSUME NEW r \in R,
             \/ Guest(R)!StartConversion(r) \/ Guest(R)!Registered(r)
             \/ Guest(R)!MarkConverted(r) \/ Guest(R)!Abort(r)
      PROVE  GuestInv(R)'
  <2>1. \E new \in [op: {"idle", "registering", "registered"}, used: {0}] :
          guestCalls' = [guestCalls EXCEPT ![r] = new]
    BY <1>7 DEF Guest!StartConversion, Guest!Registered, Guest!MarkConverted, Guest!Abort, Guest!Step
  <2>. QED BY <1>6, <1>7, <2>1 DEF Guest!StartConversion, Guest!Registered, Guest!MarkConverted, Guest!Abort
<1>. QED BY <1>1, <1>2, <1>3, <1>4, <1>5, <1>7 DEF Guest!Next

\* one call at a time no count is overwritten
GuestSerial ==
  /\ sent = guest.used
  /\ sent <= Quota
  /\ \A r \in Req :
       /\ guestCalls[r].op \in {"checked", "loaded"} => sent < Quota
       /\ guestCalls[r].op = "loaded" => guestCalls[r].used = sent

LEMMA GuestSerialStep ==
  ASSUME OneAtATime, GuestType(Req), GuestSerial, Guest(Req)!Next
  PROVE  GuestSerial'
<1>. PICK u \in Nat, v \in BOOLEAN, e \in BOOLEAN, w \in BOOLEAN :
       guest = [used |-> u, revoked |-> v, expired |-> e, converted |-> w]
  BY DEF GuestType
<1>0. /\ guest.used = u /\ sent = u /\ u <= Quota /\ Quota \in Nat
      /\ guestCalls \in [Req -> [op: GuestOps, used: Nat]]
  BY AccountsAssumption DEF GuestSerial, GuestType
<1>1. CASE Guest(Req)!Expire \/ \E r \in Req : Guest(Req)!Revoke(r)
  <2>1. guest'.used = u /\ UNCHANGED <<sent, guestCalls>>
    BY <1>1 DEF Guest!Expire, Guest!Revoke
  <2>. QED BY <1>0, <2>1 DEF GuestSerial
<1>2. ASSUME NEW r \in Req, NEW new, guestCalls' = [guestCalls EXCEPT ![r] = new]
      PROVE  \A q \in Req : q = r /\ guestCalls'[q] = new
  BY <1>0, <1>2 DEF OneAtATime
<1>3. ASSUME NEW r \in Req, Guest(Req)!CheckQuota(r) PROVE GuestSerial'
  <2>1. /\ u < Quota /\ UNCHANGED <<guest, sent>>
        /\ guestCalls' = [guestCalls EXCEPT ![r] = [op |-> "checked", used |-> 0]]
    BY <1>3 DEF Guest!CheckQuota, Guest!Step
  <2>2. \A q \in Req : guestCalls'[q] = [op |-> "checked", used |-> 0]
    BY <1>2, <2>1
  <2>. QED BY <1>0, <2>1, <2>2 DEF GuestSerial
<1>4. ASSUME NEW r \in Req, Guest(Req)!LoadGuest(r) PROVE GuestSerial'
  <2>1. /\ u < Quota /\ UNCHANGED <<guest, sent>>
        /\ guestCalls' = [guestCalls EXCEPT ![r] = [op |-> "loaded", used |-> u]]
    BY <1>0, <1>4 DEF Guest!LoadGuest, Guest!Step, GuestSerial
  <2>2. \A q \in Req : guestCalls'[q] = [op |-> "loaded", used |-> u]
    BY <1>2, <2>1
  <2>. QED BY <1>0, <2>1, <2>2 DEF GuestSerial
<1>5. ASSUME NEW r \in Req, Guest(Req)!Count(r) PROVE GuestSerial'
  <2>1. /\ guestCalls[r].used = u /\ u < Quota
        /\ guest' = [used |-> u + 1, revoked |-> v, expired |-> e, converted |-> w]
        /\ sent' = u + 1
        /\ guestCalls' = [guestCalls EXCEPT ![r] = [op |-> "idle", used |-> 0]]
    BY <1>0, <1>5 DEF GuestSerial, Guest!Count, Guest!Step
  <2>2. \A q \in Req : guestCalls'[q] = [op |-> "idle", used |-> 0]
    BY <1>2, <2>1
  <2>. QED BY <1>0, <2>1, <2>2 DEF GuestSerial
<1>6. ASSUME NEW r \in Req,
             \/ Guest(Req)!StartConversion(r) \/ Guest(Req)!Registered(r)
             \/ Guest(Req)!MarkConverted(r) \/ Guest(Req)!Abort(r)
      PROVE  GuestSerial'
  <2>1. sent' = sent
    BY <1>6 DEF Guest!StartConversion, Guest!Registered, Guest!MarkConverted, Guest!Abort
  <2>2. guest'.used = u
    <3>1. \/ guest' = guest
          \/ guest' = [used |-> u, revoked |-> TRUE, expired |-> e, converted |-> TRUE]
      BY <1>6 DEF Guest!StartConversion, Guest!Registered, Guest!MarkConverted, Guest!Abort
    <3>. QED BY <3>1
  <2>3. \E new \in [op: {"idle", "registering", "registered"}, used: {0}] :
          guestCalls' = [guestCalls EXCEPT ![r] = new]
    BY <1>6 DEF Guest!StartConversion, Guest!Registered, Guest!MarkConverted, Guest!Abort, Guest!Step
  <2>4. \A q \in Req : guestCalls'[q].op \in {"idle", "registering", "registered"}
    BY <1>2, <2>3
  <2>. QED BY <1>0, <2>1, <2>2, <2>4 DEF GuestSerial
<1>. QED BY <1>1, <1>3, <1>4, <1>5, <1>6 DEF Guest!Next

LEMMA GuestBounded ==
  ASSUME NEW R, IsFiniteSet(R), R # {}, GuestInv(R)
  PROVE  Guest(R)!OvershootBounded /\ Guest(R)!LateBounded
<1>1. Guest(R)!Cardinality(R) = Cardinality(R)
  BY DEF Guest!Cardinality, Cardinality
<1>2. /\ Cardinality(R) \in Nat /\ Cardinality(R) # 0
      /\ Cardinality(Sending(R)) \in Nat
  <2>1. Sending(R) \in SUBSET R
    BY DEF Sending
  <2>. QED BY <2>1, FS_EmptySet, FS_Subset, FS_CardinalityType
<1>3. /\ sent \in Nat /\ late \in Nat /\ guest.used \in Nat /\ Quota \in Nat
      /\ guest.revoked \in BOOLEAN
  BY AccountsAssumption DEF GuestInv, GuestType
<1>. QED BY <1>1, <1>2, <1>3 DEF GuestInv, Guest!OvershootBounded, Guest!LateBounded

-----------------------------------------------------------------------------
(* The HTTP API.  While a request is in flight, since covers the account   *)
(* as it is; behind a check, since holds what the check saw.               *)

Publishing == {"documents.publish", "documents.archive"}
Reserved == Publishing \union {"answers.invalidate", "users.manage", "users.roles.manage"}

Auditing ==
  {"sessions.revoke_own", "users.read_self", "users.read", "providers.read", "licenses.read",
   "audit.read", "audit.export", "feedback.read", "evaluations.read"}

\* what the endpoints of each requirement change, and what guards the records
\* that matter most
LEMMA EndpointKinds ==
  ASSUME NEW e \in Api!Endpoints
  PROVE  /\ e.requires = "nothing" => e.touches \in {"no_record", "sessions"}
         /\ e.requires = "token" => e.touches = "preferences"
         /\ e.requires = "speaker" => e.touches = "conversations"
         /\ e.requires = "active_account" => e.touches \in {"no_record", "second_factor"}
         /\ e.touches \in Api!Sensitive => e.factor = TRUE /\ e.requires \in Reserved
         /\ e.touches = "publication" => e.requires \in Publishing
         /\ e.requires \in Auditing =>
              e.touches \in {"no_record", "sessions"}
<1>. USE DEF Api!Guarded, Api!Loose, Api!Sensitive, Publishing, Reserved, Auditing
<1>2. CASE e \in Api!Operations
  BY <1>2 DEF Api!Operations
<1>3. CASE e \in Api!Authentication
  BY <1>3 DEF Api!Authentication
<1>4. CASE e \in Api!OwnEndpoints
  BY <1>4 DEF Api!OwnEndpoints
<1>5. CASE e \in Api!UserEndpoints
  BY <1>5 DEF Api!UserEndpoints
<1>6. CASE e \in Api!ProviderEndpoints
  BY <1>6 DEF Api!ProviderEndpoints
<1>7. CASE e \in Api!AuditEndpoints
  BY <1>7 DEF Api!AuditEndpoints
<1>8. CASE e \in Api!PromptEndpoints
  BY <1>8 DEF Api!PromptEndpoints
<1>9. CASE e \in Api!ChatEndpoints
  BY <1>9 DEF Api!ChatEndpoints, Api!Streaming
<1>10. CASE e \in Api!HistoryEndpoints
  BY <1>10 DEF Api!HistoryEndpoints
<1>11. CASE e \in Api!FeedbackEndpoints
  BY <1>11 DEF Api!FeedbackEndpoints
<1>12. CASE e \in Api!IncidentEndpoints
  BY <1>12 DEF Api!IncidentEndpoints
<1>13. CASE e \in Api!AnswerEndpoints
  BY <1>13 DEF Api!AnswerEndpoints
<1>14. CASE e \in Api!MfaEndpoints
  BY <1>14 DEF Api!MfaEndpoints
<1>15. CASE e \in Api!DocumentEndpoints
  BY <1>15 DEF Api!DocumentEndpoints
<1>16. CASE e \in Api!SourceEndpoints
  BY <1>16 DEF Api!SourceEndpoints
<1>17. CASE e \in Api!ReviewEndpoints
  BY <1>17 DEF Api!ReviewEndpoints
<1>18. CASE e \in Api!PublicationEndpoints
  BY <1>18 DEF Api!PublicationEndpoints
<1>19. CASE e \in Api!TaskEndpoints
  BY <1>19 DEF Api!TaskEndpoints
<1>. QED
  BY <1>2, <1>3, <1>4, <1>5, <1>6, <1>7, <1>8, <1>9, <1>10, <1>11, <1>12, <1>13, <1>14, <1>15,
     <1>16, <1>17, <1>18, <1>19 DEF Api!Endpoints

\* only the service of the chat writes while it is built
LEMMA EndpointSeeds ==
  ASSUME NEW e \in Api!Endpoints, e.seeds
  PROVE  e \in Api!ChatEndpoints
<1>1. ASSUME e \notin Api!ChatEndpoints
      PROVE  \E permission, touches : e = Api!Guarded(permission, touches) \/ e = Api!Loose(permission, touches)
  BY <1>1
  DEF Api!Endpoints, Api!Operations, Api!Authentication, Api!OwnEndpoints, Api!UserEndpoints, Api!ProviderEndpoints, Api!AuditEndpoints, Api!PromptEndpoints, Api!HistoryEndpoints, Api!FeedbackEndpoints, Api!IncidentEndpoints, Api!AnswerEndpoints, Api!MfaEndpoints, Api!DocumentEndpoints, Api!SourceEndpoints, Api!ReviewEndpoints, Api!PublicationEndpoints, Api!TaskEndpoints
<1>. QED BY <1>1 DEF Api!Guarded, Api!Loose

\* only senior scholars and admins hold what changes the records that matter most
LEMMA ReservedRoles ==
  ASSUME NEW p \in Reserved, NEW roles \in SUBSET Api!Roles, p \in Api!Permissions(roles)
  PROVE  roles \intersect {"senior_scholar", "admin"} # {}
<1>1. PICK role \in roles : p \in Api!RolePermissions(role)
  BY DEF Api!Permissions
<1>2. role \in Api!Roles
  OBVIOUS
<1>3. role \in {"senior_scholar", "admin"}
  BY <1>1, <1>2 DEF Api!Roles, Api!RolePermissions, Api!OwnAccount, Reserved, Publishing
<1>. QED BY <1>3

LEMMA AuditorPermissions ==
  Api!Permissions({"auditor"}) \subseteq Auditing
BY DEF Api!Permissions, Api!RolePermissions, Api!OwnAccount, Auditing

Credentials == {"none", "guest", "user"}
Checks == {"permission", "status", "role"}
Passed == {"idle", "arrival", "all_checks", "served"} \union Checks

HttpType ==
  /\ account \in [roles: SUBSET Api!Roles, active: BOOLEAN, enrolled: BOOLEAN]
  /\ request \in [credential: Credentials, endpoint: Api!Endpoints, passed: Passed, seeded: BOOLEAN]
  /\ request.passed = "idle" <=> request = Api!Idle
  /\ request.seeded = TRUE => request.endpoint \in Api!ChatEndpoints
  /\ since.roles \in SUBSET Api!Roles
  /\ since.active \in BOOLEAN /\ since.enrolled \in BOOLEAN
  /\ since.allowed \in BOOLEAN /\ since.demoted \in BOOLEAN

Holds(roles) == Api!Needs(request.endpoint) \subseteq Api!Permissions(roles)

\* since covers the account as it is
Covers ==
  /\ account.roles \subseteq since.roles
  /\ account.active = TRUE => since.active = TRUE
  /\ account.enrolled = TRUE => since.enrolled = TRUE
  /\ account.active = TRUE /\ Holds(account.roles) => since.allowed = TRUE

\* require_permission has let the request through
Permitted ==
  /\ request.credential = "user"
  /\ request.endpoint.requires \notin {"nothing", "token"}
  /\ since.active = TRUE /\ since.allowed = TRUE
  /\ Holds(since.roles)

Recognised ==
  \/ request.endpoint.requires = "nothing"
  \/ request.endpoint.requires = "token" /\ request.credential = "user"
  \/ request.endpoint.requires = "speaker" /\ request.credential = "guest"

HttpInv ==
  /\ HttpType
  /\ request.passed # "idle" => Covers
  /\ request.passed \in Checks => Permitted
  /\ request.passed \in {"permission", "status"} => Holds(account.roles) \/ since.demoted = TRUE
  /\ request.passed \in {"all_checks", "served"} =>
       \/ Recognised
       \/ /\ Permitted
          /\ request.endpoint.touches \in Api!Sensitive => since.enrolled = TRUE \/ since.demoted = TRUE

LEMMA HttpKept ==
  ASSUME HttpInv
  PROVE  /\ Api!ServedWasAllowed
         /\ Api!DisabledChangesPreferencesOnly
         /\ Api!FactorOrDemoted
         /\ Api!AuditorReadsOnly
         /\ Api!ReviewersDoNotPublish
         /\ Api!AnonymousOnlyChats
<1>. DEFINE e == request.endpoint
<1>1. /\ e \in Api!Endpoints /\ request.credential \in Credentials
      /\ since.roles \in SUBSET Api!Roles
      /\ since.active \in BOOLEAN /\ since.enrolled \in BOOLEAN
      /\ since.allowed \in BOOLEAN /\ since.demoted \in BOOLEAN
  BY DEF HttpInv, HttpType
<1>2. /\ e.requires = "nothing" => e.touches \in {"no_record", "sessions"}
      /\ e.requires = "token" => e.touches = "preferences"
      /\ e.requires = "speaker" => e.touches = "conversations"
      /\ e.requires = "active_account" => e.touches \in {"no_record", "second_factor"}
      /\ e.touches \in Api!Sensitive => e.requires \in Reserved
      /\ e.touches = "publication" => e.requires \in Publishing
      /\ e.requires \in Auditing => e.touches \in {"no_record", "sessions"}
  BY <1>1, EndpointKinds
<1>. HIDE DEF e
<1>3. /\ e.requires \in {"nothing", "token", "active_account"} => Api!Needs(e) = {}
      /\ e.requires = "speaker" => Api!Needs(e) = {"conversations.manage_own"}
      /\ e.requires \notin {"nothing", "token", "active_account", "speaker"} => Api!Needs(e) = {e.requires}
  BY DEF Api!Needs
<1>4. ASSUME request.passed = "served"
      PROVE  \/ Recognised
             \/ /\ Permitted
                /\ e.touches \in Api!Sensitive => since.enrolled = TRUE \/ since.demoted = TRUE
  BY <1>4 DEF HttpInv, e
<1>5. Permitted /\ since.roles = {"auditor"} =>
        e.touches \in {"no_record", "sessions", "preferences", "second_factor"}
  <2>. SUFFICES ASSUME Permitted, since.roles = {"auditor"}
                PROVE  e.touches \in {"no_record", "sessions", "preferences", "second_factor"}
    OBVIOUS
  <2>1. Api!Needs(e) \subseteq Auditing /\ e.requires \notin {"nothing", "token"}
    BY AuditorPermissions DEF Permitted, Holds, e
  <2>2. e.requires # "speaker"
    BY <1>3, <2>1 DEF Auditing
  <2>. QED BY <1>2, <1>3, <2>1, <2>2
<1>6. Permitted /\ e.touches = "publication" => since.roles \intersect {"senior_scholar", "admin"} # {}
  <2>. SUFFICES ASSUME Permitted, e.touches = "publication"
                PROVE  since.roles \intersect {"senior_scholar", "admin"} # {}
    OBVIOUS
  <2>1. e.requires \in Reserved /\ Api!Needs(e) = {e.requires}
    BY <1>2, <1>3 DEF Reserved, Publishing
  <2>2. e.requires \in Api!Permissions(since.roles)
    BY <2>1 DEF Permitted, Holds, e
  <2>. QED BY <1>1, <2>1, <2>2, ReservedRoles
<1>7. Api!ServedWasAllowed
  BY <1>3, <1>4 DEF Api!ServedWasAllowed, Api!Served, Permitted, Recognised, e
<1>14. request.seeded = TRUE => request.endpoint \in Api!ChatEndpoints
  BY DEF HttpInv, HttpType
<1>18. request.seeded \in BOOLEAN
  BY DEF HttpInv, HttpType
<1>13. ASSUME NEW touched \in Api!Changed, touched \notin Api!Besides({})
       PROVE  touched = e.touches /\ touched # "no_record" /\ request.passed = "served"
  BY <1>13, <1>14, <1>18 DEF Api!Changed, Api!Besides, e
<1>15. ASSUME NEW records
       PROVE  Api!Besides({}) \subseteq Api!Besides(records) /\ records \subseteq Api!Besides(records)
  BY DEF Api!Besides
<1>16. "defaults" \notin Api!Sensitive /\ "publication" \in Api!Sensitive
  BY DEF Api!Sensitive
<1>17. ASSUME NEW touched \in Api!Changed, touched # "defaults"
       PROVE  touched = e.touches /\ touched # "no_record" /\ request.passed = "served"
  BY <1>17 DEF Api!Changed, e
<1>8. Api!DisabledChangesPreferencesOnly
  <2>. SUFFICES ASSUME request.credential = "user", since.active # TRUE, e.requires # "nothing",
                       NEW touched \in Api!Changed, touched \notin Api!Besides({"preferences"})
                PROVE  FALSE
    BY DEF Api!DisabledChangesPreferencesOnly, e
  <2>. QED BY <1>2, <1>4, <1>13, <1>15 DEF Permitted, Recognised, e
<1>9. Api!FactorOrDemoted
  <2>. SUFFICES ASSUME request.credential = "user", NEW touched \in Api!Changed,
                       touched \in Api!Sensitive
                PROVE  since.enrolled \/ since.demoted
    BY DEF Api!FactorOrDemoted
  <2>. QED BY <1>1, <1>2, <1>4, <1>16, <1>17 DEF Permitted, Recognised, Reserved, Publishing, e
<1>10. Api!AuditorReadsOnly
  <2>. SUFFICES ASSUME request.credential = "user", since.roles = {"auditor"},
                       NEW touched \in Api!Changed,
                       touched \notin Api!Besides({"sessions", "preferences", "second_factor"})
                PROVE  FALSE
    BY DEF Api!AuditorReadsOnly
  <2>. QED BY <1>2, <1>4, <1>5, <1>13, <1>15 DEF Recognised, e
<1>11. Api!ReviewersDoNotPublish
  <2>. SUFFICES ASSUME request.credential = "user", "publication" \in Api!Changed
                PROVE  since.roles \intersect {"senior_scholar", "admin"} # {}
    BY DEF Api!ReviewersDoNotPublish
  <2>. QED BY <1>2, <1>4, <1>6, <1>17 DEF Recognised, e, Publishing
<1>12. Api!AnonymousOnlyChats
  <2>1. ASSUME request.credential = "none", NEW touched \in Api!Changed,
               touched \notin Api!Besides({"sessions"})
        PROVE  FALSE
    BY <1>2, <1>4, <1>13, <1>15, <2>1 DEF Permitted, Recognised, e
  <2>2. ASSUME request.credential = "guest", NEW touched \in Api!Changed,
               touched \notin Api!Besides({"sessions", "conversations"})
        PROVE  FALSE
    BY <1>2, <1>4, <1>13, <1>15, <2>2 DEF Permitted, Recognised, e
  <2>. QED BY <2>1, <2>2 DEF Api!AnonymousOnlyChats
<1>. QED BY <1>7, <1>8, <1>9, <1>10, <1>11, <1>12

\* the account changes while no request is served
LEMMA ChangeKept ==
  ASSUME HttpInv, NEW acc \in [roles: SUBSET Api!Roles, active: BOOLEAN, enrolled: BOOLEAN],
         Api!Change(acc)
  PROVE  HttpInv'
<1>. DEFINE e == request.endpoint
<1>1. account' = acc /\ request' = request /\ request.passed # "served"
  BY DEF Api!Change
<1>2. CASE request = Api!Idle
  <2>1. since' = since /\ request.passed = "idle"
    BY <1>2 DEF Api!Change, Api!Idle
  <2>. QED BY <1>1, <2>1 DEF HttpInv, HttpType, Checks
<1>3. CASE request # Api!Idle
  <2>1. /\ account \in [roles: SUBSET Api!Roles, active: BOOLEAN, enrolled: BOOLEAN]
        /\ request.passed \in Passed /\ request.passed # "idle"
        /\ since.roles \in SUBSET Api!Roles
        /\ since.active \in BOOLEAN /\ since.enrolled \in BOOLEAN
        /\ since.allowed \in BOOLEAN /\ since.demoted \in BOOLEAN
        /\ Covers
    BY <1>3 DEF HttpInv, HttpType
  <2>2. /\ since'.roles = since.roles \union acc.roles
        /\ since'.active = (since.active \/ acc.active)
        /\ since'.enrolled = (since.enrolled \/ acc.enrolled)
        /\ since'.allowed = (since.allowed \/ (acc.active /\ Holds(acc.roles)))
        /\ since'.demoted = (since.demoted \/ account.roles \ acc.roles # {})
    <3>1. since' = [roles    |-> since.roles \union acc.roles,
                    active   |-> since.active \/ acc.active,
                    enrolled |-> since.enrolled \/ acc.enrolled,
                    allowed  |-> since.allowed \/ (acc.active /\ Holds(acc.roles)),
                    demoted  |-> since.demoted \/ account.roles \ acc.roles # {},
                    changes  |-> since.changes + 1]
      BY <1>3 DEF Api!Change, Api!Seen, Holds
    <3>. QED BY <3>1
  <2>3. \A roles : Holds(roles)' <=> Holds(roles)
    BY <1>1 DEF Holds
  <2>4. Permitted => Permitted'
    <3>1. Holds(since.roles) => Holds(since'.roles)
      BY <2>2 DEF Holds, Api!Permissions
    <3>. QED BY <1>1, <2>1, <2>2, <3>1 DEF Permitted, Holds
  <2>5. Recognised' <=> Recognised
    BY <1>1 DEF Recognised
  <2>6. HttpType'
    BY <1>1, <2>1, <2>2 DEF HttpInv, HttpType
  <2>7. Covers'
    BY <1>1, <2>1, <2>2, <2>3 DEF Covers
  <2>8. Holds(account.roles) \/ since.demoted = TRUE => Holds(account'.roles) \/ since'.demoted = TRUE
    <3>1. CASE account.roles \subseteq acc.roles
      <4>1. Holds(account.roles) => Holds(account'.roles)
        BY <1>1, <3>1 DEF Holds, Api!Permissions
      <4>2. since.demoted = TRUE => since'.demoted = TRUE
        BY <2>2
      <4>. QED BY <4>1, <4>2
    <3>2. CASE ~ account.roles \subseteq acc.roles
      BY <2>1, <2>2, <3>2
    <3>. QED BY <3>1, <3>2
  <2>9. since.enrolled = TRUE \/ since.demoted = TRUE => since'.enrolled = TRUE \/ since'.demoted = TRUE
    BY <2>1, <2>2
  <2>. QED BY <1>1, <2>3, <2>4, <2>5, <2>6, <2>7, <2>8, <2>9 DEF HttpInv
<1>. QED BY <1>2, <1>3

LEMMA PassKept ==
  ASSUME HttpInv, NEW from \in Passed \ {"idle"}, NEW to \in Passed \ {"idle"}, Api!Pass(from, to)
  PROVE  /\ request.passed = from /\ request'.passed = to
         /\ HttpType' /\ (Covers /\ Covers')
         /\ \A roles : Holds(roles)' <=> Holds(roles)
         /\ Permitted' <=> Permitted
         /\ Recognised' <=> Recognised
         /\ account' = account /\ since' = since
         /\ request'.endpoint = request.endpoint
<1>. PICK c \in Credentials, e \in Api!Endpoints, p \in Passed, d \in BOOLEAN :
       request = [credential |-> c, endpoint |-> e, passed |-> p, seeded |-> d]
  BY DEF HttpInv, HttpType
<1>1. /\ request.passed = from /\ p = from
      /\ request' = [credential |-> c, endpoint |-> e, passed |-> to, seeded |-> d]
      /\ account' = account /\ since' = since
  BY DEF Api!Pass
<1>2. /\ request'.passed = to /\ request'.endpoint = request.endpoint
      /\ request'.credential = request.credential /\ request'.seeded = request.seeded
      /\ request' \in [credential: Credentials, endpoint: Api!Endpoints, passed: Passed, seeded: BOOLEAN]
  BY <1>1
<1>3. request' # Api!Idle
  BY <1>2 DEF Api!Idle
<1>4. HttpType' /\ Covers
  BY <1>1, <1>2, <1>3 DEF HttpInv, HttpType
<1>5. \A roles : Holds(roles)' <=> Holds(roles)
  BY <1>2 DEF Holds
<1>. QED BY <1>1, <1>2, <1>4, <1>5 DEF Permitted, Recognised, Covers

\* a request gets past a check with what the check has established
LEMMA PassStep ==
  ASSUME HttpInv, NEW from \in Passed \ {"idle"}, NEW to \in Passed \ {"idle"}, Api!Pass(from, to),
         to \in Checks => Permitted,
         to \in {"permission", "status"} => Holds(account.roles) \/ since.demoted = TRUE,
         to \in {"all_checks", "served"} =>
           \/ Recognised
           \/ /\ Permitted
              /\ request.endpoint.touches \in Api!Sensitive => since.enrolled = TRUE \/ since.demoted = TRUE
  PROVE  HttpInv'
<1>1. /\ request'.passed = to
      /\ HttpType' /\ Covers'
      /\ \A roles : Holds(roles)' <=> Holds(roles)
      /\ Permitted' <=> Permitted
      /\ Recognised' <=> Recognised
      /\ account' = account /\ since' = since
      /\ request'.endpoint = request.endpoint
  BY PassKept
<1>2. Holds(account.roles)' <=> Holds(account.roles)
  BY <1>1 DEF Holds
<1>. QED BY <1>1, <1>2 DEF HttpInv, Checks

LEMMA HttpStep ==
  ASSUME HttpInv, Api!Next
  PROVE  HttpInv'
<1>0. HttpType
  BY DEF HttpInv
<1>1. ASSUME NEW c \in Credentials, NEW e \in Api!Endpoints, NEW d \in BOOLEAN, Api!Arrive(c, e, d)
      PROVE  HttpInv'
  <2>0. d = TRUE => e \in Api!ChatEndpoints
    BY <1>1, EndpointSeeds DEF Api!Arrive
  <2>1. /\ request' = [credential |-> c, endpoint |-> e, passed |-> "arrival", seeded |-> d]
        /\ account' = account /\ since' = Api!Seen(account, e)
    BY <1>1 DEF Api!Arrive
  <2>2. /\ request'.passed = "arrival" /\ request'.endpoint = e /\ request'.seeded = d
        /\ request' \in [credential: Credentials, endpoint: Api!Endpoints, passed: Passed, seeded: BOOLEAN]
    BY <2>1 DEF Passed
  <2>3. request' # Api!Idle
    BY <2>2 DEF Api!Idle
  <2>4. /\ since'.roles = account.roles /\ since'.active = account.active
        /\ since'.enrolled = account.enrolled
        /\ since'.allowed = (account.active /\ Api!Needs(e) \subseteq Api!Permissions(account.roles))
        /\ since'.demoted = FALSE
    BY <2>1 DEF Api!Seen
  <2>5. HttpType'
    BY <1>0, <2>0, <2>1, <2>2, <2>3, <2>4 DEF HttpType
  <2>6. Covers'
    BY <1>0, <2>1, <2>2, <2>4 DEF Covers, HttpType, Holds
  <2>. QED BY <2>2, <2>5, <2>6 DEF HttpInv, Checks
<1>2. CASE Api!Answer
  <2>1. request' = Api!Idle /\ account' = account /\ since' = Api!Nothing
    BY <1>2 DEF Api!Answer
  <2>2. /\ request'.passed = "idle" /\ request'.seeded = FALSE
        /\ request' \in [credential: Credentials, endpoint: Api!Endpoints, passed: Passed, seeded: BOOLEAN]
    BY <2>1 DEF Api!Idle, Passed, Credentials, Api!Endpoints, Api!Operations
  <2>3. /\ since'.roles = {} /\ since'.active = FALSE /\ since'.enrolled = FALSE
        /\ since'.allowed \in BOOLEAN /\ since'.demoted = FALSE
    BY <2>1 DEF Api!Nothing, Api!Seen
  <2>4. HttpType'
    BY <1>0, <2>1, <2>2, <2>3 DEF HttpType
  <2>. QED BY <2>2, <2>4 DEF HttpInv, Checks
<1>3. CASE Api!Recognise
  <2>1. Api!Pass("arrival", "all_checks") /\ Recognised
    BY <1>3 DEF Api!Recognise, Recognised
  <2>. QED BY <2>1, PassStep DEF Passed, Checks
<1>4. CASE Api!CheckPermission
  <2>. DEFINE to == IF request.endpoint.factor THEN "permission" ELSE "all_checks"
  <2>1. /\ request.credential = "user" /\ request.endpoint.requires \notin {"nothing", "token"}
        /\ account.active = TRUE /\ Holds(account.roles) /\ Api!Pass("arrival", to)
    BY <1>0, <1>4 DEF Api!CheckPermission, Holds, HttpType
  <2>2. request.passed = "arrival" /\ Covers
    BY <2>1 DEF Api!Pass, HttpInv
  <2>3. Permitted
    BY <2>1, <2>2 DEF Permitted, Covers, Holds, Api!Permissions
  <2>4. request.endpoint.touches \in Api!Sensitive => request.endpoint.factor = TRUE
    BY <1>0, EndpointKinds DEF HttpType
  <2>5. to \in {"permission", "all_checks"}
    OBVIOUS
  <2>6. to = "all_checks" => request.endpoint.touches \notin Api!Sensitive
    BY <2>4
  <2>. HIDE DEF to
  <2>. QED BY <2>1, <2>3, <2>5, <2>6, PassStep DEF Passed, Checks
<1>5. CASE Api!CheckActive
  <2>1. Api!Pass("permission", "status")
    BY <1>5 DEF Api!CheckActive
  <2>2. Permitted /\ (Holds(account.roles) \/ since.demoted = TRUE)
    BY <2>1 DEF Api!Pass, HttpInv, Checks
  <2>. QED BY <2>1, <2>2, PassStep DEF Passed, Checks
<1>6. CASE Api!CheckRole
  <2>. DEFINE to == IF account.roles \intersect Api!Privileged # {} THEN "role" ELSE "all_checks"
  <2>1. Api!Pass("status", to) /\ to \in {"role", "all_checks"}
    BY <1>6 DEF Api!CheckRole
  <2>2. /\ request.passed = "status" /\ Permitted
        /\ Holds(account.roles) \/ since.demoted = TRUE
    BY <2>1 DEF Api!Pass, HttpInv, Checks
  <2>3. to = "all_checks" /\ request.endpoint.touches \in Api!Sensitive => since.demoted = TRUE
    <3>. SUFFICES ASSUME account.roles \intersect Api!Privileged = {},
                         request.endpoint.touches \in Api!Sensitive, Holds(account.roles)
                  PROVE  FALSE
      BY <2>2
    <3>1. request.endpoint.requires \in Reserved
      BY <1>0, EndpointKinds DEF HttpType
    <3>2. Api!Needs(request.endpoint) = {request.endpoint.requires}
      BY <3>1 DEF Api!Needs, Reserved, Publishing
    <3>3. request.endpoint.requires \in Api!Permissions(account.roles)
      BY <3>2 DEF Holds
    <3>. QED BY <1>0, <3>1, <3>3, ReservedRoles DEF HttpType, Api!Privileged
  <2>. HIDE DEF to
  <2>. QED BY <2>1, <2>2, <2>3, PassStep DEF Passed, Checks
<1>7. CASE Api!CheckFactor
  <2>1. account.enrolled = TRUE /\ Api!Pass("role", "all_checks")
    BY <1>0, <1>7 DEF Api!CheckFactor, HttpType
  <2>2. Covers /\ Permitted
    BY <2>1 DEF Api!Pass, HttpInv, Checks
  <2>3. since.enrolled = TRUE
    BY <2>1, <2>2 DEF Covers
  <2>. QED BY <2>1, <2>2, <2>3, PassStep DEF Passed, Checks
<1>8. CASE Api!Serve
  <2>1. Api!Pass("all_checks", "served")
    BY <1>8 DEF Api!Serve
  <2>2. \/ Recognised
        \/ /\ Permitted
           /\ request.endpoint.touches \in Api!Sensitive => since.enrolled = TRUE \/ since.demoted = TRUE
    BY <2>1 DEF Api!Pass, HttpInv
  <2>. QED BY <2>1, <2>2, PassStep DEF Passed, Checks
<1>9. CASE Api!Meanwhile
  <2>. PICK R \in SUBSET Api!Roles, a \in BOOLEAN, b \in BOOLEAN :
         account = [roles |-> R, active |-> a, enrolled |-> b]
    BY <1>0 DEF HttpType
  <2>1. PICK acc \in [roles: SUBSET Api!Roles, active: BOOLEAN, enrolled: BOOLEAN] : Api!Change(acc)
    BY <1>9 DEF Api!Meanwhile
  <2>. QED BY <2>1, ChangeKept
<1>. QED BY <1>1, <1>2, <1>3, <1>4, <1>5, <1>6, <1>7, <1>8, <1>9 DEF Api!Next, Credentials

-----------------------------------------------------------------------------
(* Accounts and sessions, for the calls R, the accounts U and the session  *)
(* ids S.  A call in flight is sound: the rows it adds are nobody else's,  *)
(* and what it will end has the sessions it must end.                      *)

Sound(c) ==
  /\ \A o, p \in c.opens : o = p
  /\ \A i, j \in c.issues : i = j
  /\ \A o \in c.opens : session[o[1]].owner = NoUser
  /\ \A i \in c.issues :
       /\ token[i[1]].session = NoSession
       /\ session[i[2]].owner # NoUser \/ \E o \in c.opens : o[1] = i[2]
  /\ \A t \in c.reuses : token[t].session \in c.ends

Apart(c, d) ==
  /\ \A o \in c.opens, p \in d.opens : o[1] # p[1]
  /\ \A i \in c.issues, j \in d.issues : i[1] # j[1]

AccountInv(R, U, S) ==
  /\ Account(R, U, S)!TypeOK
  /\ \A t \in Tokens : token[t].session # NoSession => session[token[t].session].owner # NoUser
  /\ \A t \in Tokens : token[t].reuse = TRUE =>
       /\ token[t].session # NoSession
       /\ session[token[t].session].revoked = TRUE
  /\ \A r \in R : Sound(calls[r])
  /\ \A r, q \in R : r # q => Apart(calls[r], calls[q])

\* one call at a time: between calls the sessions are those of the accounts as
\* they are, ...
Live(t) == token[t].used = FALSE /\ token[t].revoked = FALSE

Settled(U, S) ==
  /\ \A t, other \in Tokens :
       /\ token[t].session # NoSession /\ token[t].session = token[other].session
       /\ Live(t) /\ Live(other)
       => t = other
  /\ \A s \in S : session[s].owner # NoUser /\ session[s].revoked = FALSE =>
       /\ session[s].password = user[session[s].owner].password
       /\ user[session[s].owner].status = "active"
  /\ \E v \in U : user[v].status = "active" /\ user[v].admin = TRUE

\* ... and the call in flight leaves them so
Fits(R, U, S, c) ==
  /\ \A p \in c.passwords, s \in S :
       session[s].owner = p[1] /\ session[s].revoked = FALSE => s \in c.ends
  /\ \A p \in c.status, s \in S :
       p[2] # "active" /\ session[s].owner = p[1] /\ session[s].revoked = FALSE => s \in c.ends
  /\ \A o \in c.opens :
       /\ o[3] = Account(R, U, S)!Given(c.passwords, o[2], user[o[2]].password)
       /\ Account(R, U, S)!Given(c.status, o[2], user[o[2]].status) = "active"
  /\ \A i \in c.issues, t \in Tokens : token[t].session = i[2] /\ Live(t) => t \in c.uses
  /\ \E v \in U :
       /\ user[v].status = "active" /\ user[v].admin = TRUE /\ v \notin c.drops
       /\ \A p \in c.status : p[1] = v => p[2] = "active"

\* what a call gives a row
LEMMA GivenCases ==
  ASSUME NEW R, NEW U, NEW S, NEW pairs, NEW row, NEW value
  PROVE  \/ /\ \A p \in pairs : p[1] # row
            /\ Account(R, U, S)!Given(pairs, row, value) = value
         \/ \E p \in pairs : p[1] = row /\ Account(R, U, S)!Given(pairs, row, value) = p[2]
<1>1. CASE \E p \in pairs : p[1] = row
  <2>. DEFINE p == CHOOSE q \in pairs : q[1] = row
  <2>1. p \in pairs /\ p[1] = row
    BY <1>1
  <2>2. Account(R, U, S)!Given(pairs, row, value) = p[2]
    BY <1>1 DEF Account!Given
  <2>. QED BY <2>1, <2>2
<1>2. CASE ~ \E p \in pairs : p[1] = row
  BY <1>2 DEF Account!Given
<1>. QED BY <1>1, <1>2

LEMMA GivenNone ==
  ASSUME NEW R, NEW U, NEW S, NEW row, NEW value
  PROVE  Account(R, U, S)!Given({}, row, value) = value
BY GivenCases

LEMMA IdleSound ==
  ASSUME NEW R, NEW U, NEW S, NEW d
  PROVE  /\ Sound(Account(R, U, S)!Idle)
         /\ Apart(Account(R, U, S)!Idle, d) /\ Apart(d, Account(R, U, S)!Idle)
<1>1. Account(R, U, S)!Idle.opens = {} /\ Account(R, U, S)!Idle.issues = {}
      /\ Account(R, U, S)!Idle.reuses = {}
  BY DEF Account!Idle, Account!NoEffects
<1>. QED BY <1>1 DEF Sound, Apart

LEMMA AdminsFinite ==
  ASSUME NEW R, NEW U, NEW S, IsFiniteSet(U)
  PROVE  Account(R, U, S)!Cardinality(Account(R, U, S)!ActiveAdmins) \in Nat
<1>. DEFINE A == Account(R, U, S)!ActiveAdmins
<1>1. A \in SUBSET U
  BY DEF Account!ActiveAdmins
<1>2. Account(R, U, S)!Cardinality(A) = Cardinality(A)
  BY DEF Account!Cardinality, Cardinality
<1>. HIDE DEF A
<1>3. Cardinality(A) \in Nat
  BY <1>1, FS_Subset, FS_CardinalityType
<1>. QED BY <1>2, <1>3 DEF A

\* two active admins at least, and one is left
LEMMA AnotherAdmin ==
  ASSUME NEW R, NEW U, NEW S, IsFiniteSet(U), NEW u \in U,
         \E v \in U : user[v].status = "active" /\ user[v].admin = TRUE,
         Account(R, U, S)!Cardinality(Account(R, U, S)!ActiveAdmins) > 1,
         \A v \in U : user[v].admin \in BOOLEAN
  PROVE  \E v \in U : v # u /\ user[v].status = "active" /\ user[v].admin = TRUE
<1>. DEFINE A == {v \in U : user[v].status = "active" /\ user[v].admin}
<1>1. Account(R, U, S)!ActiveAdmins = A
  BY DEF Account!ActiveAdmins
<1>2. Account(R, U, S)!Cardinality(A) = Cardinality(A)
  BY DEF Account!Cardinality, Cardinality
<1>3. CASE u \notin A
  BY <1>3
<1>4. CASE u \in A
  <2>1. Cardinality(A) > 1
    BY <1>1, <1>2, <1>4
  <2>2. Cardinality({u}) = 1
    BY FS_Singleton
  <2>. HIDE DEF A
  <2>3. A # {u}
    <3>. SUFFICES ASSUME A = {u} PROVE FALSE
      OBVIOUS
    <3>1. Cardinality(A) = Cardinality({u})
      BY Zenon
    <3>. QED BY <2>1, <2>2, <3>1
  <2>4. \E v \in A : v # u
    BY <1>4, <2>3
  <2>. QED BY <2>4 DEF A
<1>. QED BY <1>3, <1>4

-----------------------------------------------------------------------------
\* a new row has an id that no row and no call in flight has
UnusedSession(R, s) ==
  session[s].owner = NoUser /\ \A q \in R : \A o \in calls[q].opens : o[1] # s

UnusedToken(R, t) ==
  token[t].session = NoSession /\ \A q \in R : \A i \in calls[q].issues : i[1] # t

LEMMA FreshRows ==
  ASSUME NEW R, NEW U, NEW S
  PROVE  /\ \A s : Account(R, U, S)!FreshSession(s) => UnusedSession(R, s)
         /\ \A t : Account(R, U, S)!FreshToken(t) => UnusedToken(R, t)
<1>1. /\ Account(R, U, S)!NoSessionRow.owner = NoUser
      /\ Account(R, U, S)!NoTokenRow.session = NoSession
  BY DEF Account!NoSessionRow, Account!NoTokenRow
<1>. QED
  BY <1>1 DEF Account!FreshSession, Account!FreshToken, Account!First,
       Account!UnusedSessions, Account!UnusedTokens, UnusedSession, UnusedToken

LEMMA EffectsOf ==
  ASSUME NEW R, NEW U, NEW S, NEW c \in Account(R, U, S)!Effects
  PROVE  /\ Account(R, U, S)!NoEffects \in Account(R, U, S)!Effects
         /\ \A u \in U, n \in Nat, s \in S, t \in Tokens :
              Account(R, U, S)!Opening(c, u, n, s, t) \in Account(R, U, S)!Effects
         /\ \A E \in SUBSET S : Account(R, U, S)!Ending(c, E) \in Account(R, U, S)!Effects
<1>1. Account(R, U, S)!NoEffects \in Account(R, U, S)!Effects
  BY DEF Account!NoEffects, Account!Effects
<1>2. ASSUME NEW u \in U, NEW n \in Nat, NEW s \in S, NEW t \in Tokens
      PROVE  Account(R, U, S)!Opening(c, u, n, s, t) \in Account(R, U, S)!Effects
  <2>1. {<<s, u, n>>} \in SUBSET (S \X U \X Nat) /\ {<<t, s>>} \in SUBSET (Tokens \X S)
    OBVIOUS
  <2>. QED BY <2>1 DEF Account!Effects, Account!Opening
<1>3. ASSUME NEW E \in SUBSET S
      PROVE  Account(R, U, S)!Ending(c, E) \in Account(R, U, S)!Effects
  BY DEF Account!Effects, Account!Ending, Account!TokensOf
<1>. QED BY <1>1, <1>2, <1>3

\* every call begins sound, apart from those in flight, and fit
LEMMA Begins ==
  ASSUME NEW R, NEW U, NEW S, NoUser \notin U, NoSession \notin S,
         AccountInv(R, U, S), NEW r \in R,
         Account(R, U, S)!Authentication(r) \/ Account(R, U, S)!Administration(r)
  PROVE  \E c \in Account(R, U, S)!Effects :
           /\ Account(R, U, S)!Begin(r, c)
           /\ Sound(c) /\ \A q \in R : Apart(c, calls[q]) /\ Apart(calls[q], c)
           /\ IsFiniteSet(U) /\ Settled(U, S) => Fits(R, U, S, c)
<1>. DEFINE None == Account(R, U, S)!NoEffects
            Meant(c) ==
              /\ c \in Account(R, U, S)!Effects
              /\ Account(R, U, S)!Begin(r, c)
              /\ Sound(c) /\ \A q \in R : Apart(c, calls[q]) /\ Apart(calls[q], c)
              /\ IsFiniteSet(U) /\ Settled(U, S) => Fits(R, U, S, c)
<1>0. /\ \A u \in U : /\ user[u].password \in Nat /\ user[u].admin \in BOOLEAN
                      /\ user[u].status \in Account(R, U, S)!Statuses
      /\ \A s \in S : session[s].owner \in U \union {NoUser} /\ session[s].revoked \in BOOLEAN
      /\ \A t \in Tokens : /\ token[t].session \in S \union {NoSession}
                           /\ token[t].used \in BOOLEAN /\ token[t].revoked \in BOOLEAN
                           /\ token[t].reuse \in BOOLEAN
      /\ \A k \in Resets : reset[k].owner \in U \union {NoUser}
  BY DEF AccountInv, Account!TypeOK, Account!UserRow, Account!SessionRow, Account!TokenRow,
     Account!ResetRow
<1>. HIDE DEF None
<1>1. /\ None \in Account(R, U, S)!Effects
      /\ None.status = {} /\ None.passwords = {} /\ None.drops = {} /\ None.opens = {}
      /\ None.issues = {} /\ None.uses = {} /\ None.reuses = {} /\ None.ends = {}
  <2>1. None \in Account(R, U, S)!Effects
    BY DEF None, Account!NoEffects, Account!Effects
  <2>. QED BY <2>1 DEF None, Account!NoEffects
\* calls that add no rows and end sessions at most
<1>2. ASSUME NEW c \in Account(R, U, S)!Effects, Account(R, U, S)!Begin(r, c),
             c.opens = {} /\ c.issues = {} /\ c.reuses = {}
      PROVE  Sound(c) /\ \A q \in R : Apart(c, calls[q]) /\ Apart(calls[q], c)
  BY <1>2 DEF Sound, Apart
\* calls that leave the accounts alone
<1>3. ASSUME NEW c \in Account(R, U, S)!Effects,
             c.opens = {} /\ c.issues = {} /\ c.passwords = {} /\ c.status = {} /\ c.drops = {}
      PROVE  Settled(U, S) => Fits(R, U, S, c)
  BY <1>3 DEF Settled, Fits
<1>4. ASSUME NEW u \in U, NEW s \in S, NEW t \in Tokens,
             Account(R, U, S)!Register(r, u, s, t)
      PROVE  \E c : Meant(c)
  <2>. DEFINE b == [None EXCEPT !.status = {<<u, "active">>}, !.passwords = {<<u, 1>>}]
              c == Account(R, U, S)!Opening(b, u, 1, s, t)
  <2>1. /\ Account(R, U, S)!Begin(r, c) /\ user[u].status = "absent"
        /\ UnusedSession(R, s) /\ UnusedToken(R, t)
    BY <1>4, FreshRows DEF Account!Register, None
  <2>2. c \in Account(R, U, S)!Effects
    <3>1. {<<u, "active">>} \in SUBSET (U \X Account(R, U, S)!Statuses)
      BY DEF Account!Statuses
    <3>2. {<<u, 1>>} \in SUBSET (U \X Nat)
      OBVIOUS
    <3>3. b \in Account(R, U, S)!Effects
      BY <1>1, <3>1, <3>2 DEF Account!Effects
    <3>. QED BY <3>3, EffectsOf
  <2>3. /\ c.passwords = {<<u, 1>>} /\ c.status = {<<u, "active">>} /\ c.opens = {<<s, u, 1>>}
        /\ c.issues = {<<t, s>>} /\ c.drops = {} /\ c.reuses = {}
    BY DEF Account!Opening, None, Account!NoEffects
  <2>. HIDE DEF c
  <2>4. Sound(c) /\ \A q \in R : Apart(c, calls[q]) /\ Apart(calls[q], c)
    BY <2>1, <2>3 DEF UnusedSession, UnusedToken, Sound, Apart
  <2>5. ASSUME Settled(U, S) PROVE Fits(R, U, S, c)
    <3>1. /\ Account(R, U, S)!Given(c.passwords, u, user[u].password) = 1
          /\ Account(R, U, S)!Given(c.status, u, user[u].status) = "active"
      <4>1. c.passwords # {} /\ \A p \in c.passwords : p[1] = u /\ p[2] = 1
        BY <2>3
      <4>2. c.status # {} /\ \A p \in c.status : p[1] = u /\ p[2] = "active"
        BY <2>3
      <4>3. Account(R, U, S)!Given(c.passwords, u, user[u].password) = 1
        BY <4>1, GivenCases
      <4>4. Account(R, U, S)!Given(c.status, u, user[u].status) = "active"
        BY <4>2, GivenCases
      <4>. QED BY <4>3, <4>4
    <3>2. \A w \in S : session[w].owner = u => session[w].revoked # FALSE
      BY <1>0, <2>1, <2>5 DEF Settled
    <3>3. \A w \in Tokens : token[w].session # s
      BY <2>1 DEF AccountInv, UnusedSession
    <3>4. \A o \in c.opens : o[2] = u /\ o[3] = 1
      BY <2>3
    <3>5. \A p \in c.passwords, w \in S :
            session[w].owner = p[1] /\ session[w].revoked = FALSE => w \in c.ends
      <4>1. \A p \in c.passwords : p[1] = u
        BY <2>3
      <4>. QED BY <3>2, <4>1
    <3>6. \A p \in c.status : p[2] = "active"
      BY <2>3
    <3>7. \A i \in c.issues : i[2] = s
      BY <2>3
    <3>. QED BY <2>3, <2>5, <3>1, <3>3, <3>4, <3>5, <3>6, <3>7 DEF Fits, Settled
  <2>. QED BY <2>1, <2>2, <2>4, <2>5
<1>5. ASSUME NEW u \in U, NEW s \in S, NEW t \in Tokens,
             Account(R, U, S)!Login(r, u, s, t)
      PROVE  \E c : Meant(c)
  <2>. DEFINE c == Account(R, U, S)!Opening(None, u, user[u].password, s, t)
  <2>1. /\ Account(R, U, S)!Begin(r, c) /\ user[u].status = "active"
        /\ UnusedSession(R, s) /\ UnusedToken(R, t)
    BY <1>5, FreshRows DEF Account!Login, None
  <2>2. c \in Account(R, U, S)!Effects
    BY <1>0, <1>1, EffectsOf
  <2>3. /\ c.passwords = {} /\ c.status = {} /\ c.opens = {<<s, u, user[u].password>>}
        /\ c.issues = {<<t, s>>} /\ c.drops = {} /\ c.reuses = {}
    BY DEF Account!Opening, None, Account!NoEffects
  <2>. HIDE DEF c
  <2>4. Sound(c) /\ \A q \in R : Apart(c, calls[q]) /\ Apart(calls[q], c)
    BY <2>1, <2>3 DEF UnusedSession, UnusedToken, Sound, Apart
  <2>5. ASSUME Settled(U, S) PROVE Fits(R, U, S, c)
    <3>1. /\ Account(R, U, S)!Given(c.passwords, u, user[u].password) = user[u].password
          /\ Account(R, U, S)!Given(c.status, u, user[u].status) = "active"
      <4>1. /\ Account(R, U, S)!Given({}, u, user[u].password) = user[u].password
            /\ Account(R, U, S)!Given({}, u, user[u].status) = user[u].status
        BY GivenNone
      <4>. QED BY <2>1, <2>3, <4>1
    <3>3. \A w \in Tokens : token[w].session # s
      BY <2>1 DEF AccountInv, UnusedSession
    <3>. QED BY <2>3, <2>5, <3>1, <3>3 DEF Fits, Settled
  <2>. QED BY <2>1, <2>2, <2>4, <2>5
<1>6. ASSUME NEW t \in Tokens, NEW new \in Tokens, Account(R, U, S)!Refresh(r, t, new)
      PROVE  \E c : Meant(c)
  <2>. DEFINE s == token[t].session
              c == [None EXCEPT !.uses = {t}, !.issues = {<<new, s>>}]
  <2>1. /\ Account(R, U, S)!Begin(r, c) /\ UnusedToken(R, new)
        /\ s \in S /\ Live(t)
    BY <1>0, <1>6, FreshRows DEF Account!Refresh, Account!Accepts, None, Live
  <2>2. c \in Account(R, U, S)!Effects
    <3>1. {t} \in SUBSET Tokens /\ {<<new, s>>} \in SUBSET (Tokens \X S)
      BY <2>1
    <3>. QED BY <1>1, <3>1 DEF Account!Effects
  <2>3. /\ c.passwords = {} /\ c.status = {} /\ c.opens = {} /\ c.uses = {t}
        /\ c.issues = {<<new, s>>} /\ c.drops = {} /\ c.reuses = {}
    BY DEF None, Account!NoEffects
  <2>4. session[s].owner # NoUser
    BY <2>1 DEF AccountInv
  <2>. HIDE DEF c
  <2>5. Sound(c) /\ \A q \in R : Apart(c, calls[q]) /\ Apart(calls[q], c)
    BY <2>1, <2>3, <2>4 DEF UnusedToken, Sound, Apart
  <2>6. ASSUME Settled(U, S) PROVE Fits(R, U, S, c)
    <3>1. \A w \in Tokens : token[w].session = s /\ Live(w) => w = t
      BY <2>1, <2>6 DEF Settled
    <3>. QED BY <2>3, <2>6, <3>1 DEF Fits, Settled
  <2>. QED BY <2>1, <2>2, <2>5, <2>6
<1>7. ASSUME NEW t \in Tokens, Account(R, U, S)!RefreshReused(r, t)
      PROVE  \E c : Meant(c)
  <2>. DEFINE b == [None EXCEPT !.reuses = {t}]
              c == Account(R, U, S)!Ending(b, {token[t].session})
  <2>1. Account(R, U, S)!Begin(r, c) /\ token[t].session \in S
    BY <1>0, <1>7 DEF Account!RefreshReused, Account!Accepts, None
  <2>2. c \in Account(R, U, S)!Effects
    <3>1. b \in Account(R, U, S)!Effects
      BY <1>1 DEF Account!Effects
    <3>. QED BY <2>1, <3>1, EffectsOf
  <2>3. /\ c.passwords = {} /\ c.status = {} /\ c.opens = {}
        /\ c.issues = {} /\ c.drops = {} /\ c.reuses = {t} /\ c.ends = {token[t].session}
    BY DEF Account!Ending, None, Account!NoEffects
  <2>. HIDE DEF c
  <2>4. Sound(c) /\ \A q \in R : Apart(c, calls[q]) /\ Apart(calls[q], c)
    BY <2>3 DEF Sound, Apart
  <2>. QED BY <1>3, <2>1, <2>2, <2>3, <2>4
<1>8. ASSUME NEW t \in Tokens, Account(R, U, S)!Logout(r, t)
      PROVE  \E c : Meant(c)
  <2>. DEFINE c == Account(R, U, S)!Ending(None, {token[t].session})
  <2>1. Account(R, U, S)!Begin(r, c) /\ token[t].session \in S
    BY <1>0, <1>8 DEF Account!Logout, None
  <2>2. c \in Account(R, U, S)!Effects
    BY <1>1, <2>1, EffectsOf
  <2>3. /\ c.passwords = {} /\ c.status = {} /\ c.opens = {}
        /\ c.issues = {} /\ c.drops = {} /\ c.reuses = {}
    BY DEF Account!Ending, None, Account!NoEffects
  <2>. HIDE DEF c
  <2>. QED BY <1>2, <1>3, <2>1, <2>2, <2>3
<1>9. ASSUME NEW u \in U, Account(R, U, S)!RevokeSessions(r, u)
      PROVE  \E c : Meant(c)
  <2>. DEFINE c == Account(R, U, S)!Ending(None, Account(R, U, S)!SessionsOf(u))
  <2>1. Account(R, U, S)!Begin(r, c) /\ Account(R, U, S)!SessionsOf(u) \in SUBSET S
    BY <1>9 DEF Account!RevokeSessions, None, Account!SessionsOf
  <2>2. c \in Account(R, U, S)!Effects
    BY <1>1, <2>1, EffectsOf
  <2>3. /\ c.passwords = {} /\ c.status = {} /\ c.opens = {}
        /\ c.issues = {} /\ c.drops = {} /\ c.reuses = {}
    BY DEF Account!Ending, None, Account!NoEffects
  <2>. HIDE DEF c
  <2>. QED BY <1>2, <1>3, <2>1, <2>2, <2>3
<1>10. ASSUME NEW u \in U, NEW k \in Resets, Account(R, U, S)!RequestReset(r, u, k)
       PROVE  \E c : Meant(c)
  <2>. DEFINE c == [None EXCEPT !.asks = {<<k, u>>}]
  <2>1. Account(R, U, S)!Begin(r, c)
    BY <1>10 DEF Account!RequestReset, None
  <2>2. c \in Account(R, U, S)!Effects
    <3>1. {<<k, u>>} \in SUBSET (Resets \X U)
      OBVIOUS
    <3>. QED BY <1>1, <3>1 DEF Account!Effects
  <2>3. /\ c.passwords = {} /\ c.status = {} /\ c.opens = {}
        /\ c.issues = {} /\ c.drops = {} /\ c.reuses = {}
    BY DEF None, Account!NoEffects
  <2>. HIDE DEF c
  <2>. QED BY <1>2, <1>3, <2>1, <2>2, <2>3
<1>11. ASSUME NEW k \in Resets, Account(R, U, S)!ResetPassword(r, k)
       PROVE  \E c : Meant(c)
  <2>. DEFINE u == reset[k].owner
              E == Account(R, U, S)!SessionsOf(u)
              b == [None EXCEPT !.passwords = {<<u, user[u].password + 1>>}, !.spends = {k}]
              c == Account(R, U, S)!Ending(b, E)
  <2>1. Account(R, U, S)!Begin(r, c) /\ u \in U
    BY <1>0, <1>11 DEF Account!ResetPassword, None
  <2>2. c \in Account(R, U, S)!Effects
    <3>1. {<<u, user[u].password + 1>>} \in SUBSET (U \X Nat) /\ {k} \in SUBSET Resets
      BY <1>0, <2>1
    <3>2. b \in Account(R, U, S)!Effects
      BY <1>1, <3>1 DEF Account!Effects
    <3>3. E \in SUBSET S
      BY DEF Account!SessionsOf
    <3>. QED BY <3>2, <3>3, EffectsOf
  <2>3. /\ c.passwords = {<<u, user[u].password + 1>>} /\ c.status = {} /\ c.opens = {}
        /\ c.issues = {} /\ c.drops = {} /\ c.reuses = {} /\ c.ends = E
    BY DEF Account!Ending, None, Account!NoEffects
  <2>4. \A w \in S : session[w].owner = u /\ session[w].revoked = FALSE => w \in E
    BY DEF Account!SessionsOf
  <2>. HIDE DEF c, E
  <2>5. Settled(U, S) => Fits(R, U, S, c)
    BY <2>3, <2>4 DEF Fits, Settled
  <2>. QED BY <1>2, <2>1, <2>2, <2>3, <2>5
<1>12. ASSUME NEW u \in U, Account(R, U, S)!Disable(r, u)
       PROVE  \E c : Meant(c)
  <2>. DEFINE E == Account(R, U, S)!SessionsOf(u)
              b == [None EXCEPT !.status = {<<u, "disabled">>}]
              c == Account(R, U, S)!Ending(b, E)
  <2>1. Account(R, U, S)!Begin(r, c) /\ ~ Account(R, U, S)!LastAdmin(u)
    BY <1>12 DEF Account!Disable, None
  <2>2. c \in Account(R, U, S)!Effects
    <3>1. {<<u, "disabled">>} \in SUBSET (U \X Account(R, U, S)!Statuses)
      BY DEF Account!Statuses
    <3>2. b \in Account(R, U, S)!Effects
      BY <1>1, <3>1 DEF Account!Effects
    <3>3. E \in SUBSET S
      BY DEF Account!SessionsOf
    <3>. QED BY <3>2, <3>3, EffectsOf
  <2>3. /\ c.passwords = {} /\ c.status = {<<u, "disabled">>} /\ c.opens = {}
        /\ c.issues = {} /\ c.drops = {} /\ c.reuses = {} /\ c.ends = E
    BY DEF Account!Ending, None, Account!NoEffects
  <2>4. \A w \in S : session[w].owner = u /\ session[w].revoked = FALSE => w \in E
    BY DEF Account!SessionsOf
  <2>. HIDE DEF c, E
  <2>5. ASSUME IsFiniteSet(U), Settled(U, S) PROVE Fits(R, U, S, c)
    <3>1. \E v \in U : v # u /\ user[v].status = "active" /\ user[v].admin = TRUE
      <4>1. Account(R, U, S)!Cardinality(Account(R, U, S)!ActiveAdmins) \in Nat
        BY <2>5, AdminsFinite
      <4>2. \/ Account(R, U, S)!Cardinality(Account(R, U, S)!ActiveAdmins) > 1
            \/ u \notin Account(R, U, S)!ActiveAdmins
        BY <2>1, <4>1 DEF Account!LastAdmin
      <4>3. \E v \in U : user[v].status = "active" /\ user[v].admin = TRUE
        BY <2>5 DEF Settled
      <4>4. IsFiniteSet(U) /\ \A v \in U : user[v].admin \in BOOLEAN
        BY <1>0, <2>5
      <4>5. CASE u \in Account(R, U, S)!ActiveAdmins
        BY <4>2, <4>3, <4>4, <4>5, AnotherAdmin
      <4>6. CASE u \notin Account(R, U, S)!ActiveAdmins
        BY <4>3, <4>6 DEF Account!ActiveAdmins
      <4>. QED BY <4>5, <4>6
    <3>. QED BY <2>3, <2>4, <3>1 DEF Fits
  <2>. QED BY <1>2, <2>1, <2>2, <2>3, <2>5
<1>13. ASSUME NEW u \in U, Account(R, U, S)!Enable(r, u)
       PROVE  \E c : Meant(c)
  <2>. DEFINE c == [None EXCEPT !.status = {<<u, "active">>}]
  <2>1. Account(R, U, S)!Begin(r, c)
    BY <1>13 DEF Account!Enable, None
  <2>2. c \in Account(R, U, S)!Effects
    <3>1. {<<u, "active">>} \in SUBSET (U \X Account(R, U, S)!Statuses)
      BY DEF Account!Statuses
    <3>. QED BY <1>1, <3>1 DEF Account!Effects
  <2>3. /\ c.passwords = {} /\ c.status = {<<u, "active">>} /\ c.opens = {}
        /\ c.issues = {} /\ c.drops = {} /\ c.reuses = {}
    BY DEF None, Account!NoEffects
  <2>. HIDE DEF c
  <2>4. Settled(U, S) => Fits(R, U, S, c)
    BY <2>3 DEF Fits, Settled
  <2>. QED BY <1>2, <2>1, <2>2, <2>3, <2>4
<1>14. ASSUME NEW actor \in U, NEW u \in U, Account(R, U, S)!GrantAdmin(r, actor, u)
       PROVE  \E c : Meant(c)
  <2>. DEFINE c == [None EXCEPT !.grants = {u}]
  <2>1. Account(R, U, S)!Begin(r, c)
    BY <1>14 DEF Account!GrantAdmin, None
  <2>2. c \in Account(R, U, S)!Effects
    BY <1>1 DEF Account!Effects
  <2>3. /\ c.passwords = {} /\ c.status = {} /\ c.opens = {}
        /\ c.issues = {} /\ c.drops = {} /\ c.reuses = {}
    BY DEF None, Account!NoEffects
  <2>. HIDE DEF c
  <2>. QED BY <1>2, <1>3, <2>1, <2>2, <2>3
<1>15. ASSUME NEW actor \in U, NEW u \in U, Account(R, U, S)!RevokeAdmin(r, actor, u)
       PROVE  \E c : Meant(c)
  <2>. DEFINE c == [None EXCEPT !.drops = {u}]
  <2>1. /\ Account(R, U, S)!Begin(r, c)
        /\ Account(R, U, S)!Cardinality(Account(R, U, S)!ActiveAdmins) > 1
    BY <1>15 DEF Account!RevokeAdmin, None
  <2>2. c \in Account(R, U, S)!Effects
    BY <1>1 DEF Account!Effects
  <2>3. /\ c.passwords = {} /\ c.status = {} /\ c.opens = {}
        /\ c.issues = {} /\ c.drops = {u} /\ c.reuses = {}
    BY DEF None, Account!NoEffects
  <2>. HIDE DEF c
  <2>4. ASSUME IsFiniteSet(U), Settled(U, S) PROVE Fits(R, U, S, c)
    <3>1. \E v \in U : v # u /\ user[v].status = "active" /\ user[v].admin = TRUE
      <4>1. IsFiniteSet(U) /\ \A v \in U : user[v].admin \in BOOLEAN
        BY <1>0, <2>4
      <4>2. \E v \in U : user[v].status = "active" /\ user[v].admin = TRUE
        BY <2>4 DEF Settled
      <4>. QED BY <2>1, <4>1, <4>2, AnotherAdmin
    <3>. QED BY <2>3, <3>1 DEF Fits
  <2>. QED BY <1>2, <2>1, <2>2, <2>3, <2>4
<1>. QED
  BY <1>4, <1>5, <1>6, <1>7, <1>8, <1>9, <1>10, <1>11, <1>12, <1>13, <1>14, <1>15
  DEF Account!Authentication, Account!Administration

-----------------------------------------------------------------------------
\* what the commit of c leaves in a row
UserLeft(R, U, S, c, u) ==
  /\ \/ (\A p \in c.status : p[1] # u) /\ user'[u].status = user[u].status
     \/ \E p \in c.status : p[1] = u /\ user'[u].status = p[2]
  /\ user'[u].status = Account(R, U, S)!Given(c.status, u, user[u].status)
  /\ user'[u].password = Account(R, U, S)!Given(c.passwords, u, user[u].password)
  /\ (\A p \in c.passwords : p[1] # u) => user'[u].password = user[u].password
  /\ user[u].admin = TRUE /\ u \notin c.drops => user'[u].admin = TRUE

SessionLeft(c, s) ==
  \/ /\ \A o \in c.opens : o[1] # s
     /\ session'[s].owner = session[s].owner
     /\ session'[s].password = session[s].password
     /\ session'[s].revoked = (session[s].revoked \/ s \in c.ends)
  \/ \E o \in c.opens :
       /\ o[1] = s
       /\ session'[s].owner = o[2] /\ session'[s].password = o[3]
       /\ session'[s].revoked = FALSE

TokenLeft(c, t) ==
  /\ \/ (\A i \in c.issues : i[1] # t) /\ token'[t].session = token[t].session
     \/ \E i \in c.issues : i[1] = t /\ token'[t].session = i[2]
  /\ token'[t].used = (token[t].used \/ t \in c.uses)
  /\ token'[t].reuse = (token[t].reuse \/ t \in c.reuses)
  /\ token[t].revoked = TRUE => token'[t].revoked = TRUE

LEMMA Commits ==
  ASSUME NEW R, NEW U, NEW S, AccountInv(R, U, S), NEW r \in R, Account(R, U, S)!Commit(r)
  PROVE  /\ calls[r] \in Account(R, U, S)!Effects /\ calls[r] # Account(R, U, S)!Idle
         /\ calls' = [calls EXCEPT ![r] = Account(R, U, S)!Idle]
         /\ user' \in [U -> Account(R, U, S)!UserRow]
         /\ session' \in [S -> Account(R, U, S)!SessionRow]
         /\ token' \in [Tokens -> Account(R, U, S)!TokenRow]
         /\ reset' \in [Resets -> Account(R, U, S)!ResetRow]
         /\ \A u \in U : UserLeft(R, U, S, calls[r], u)
         /\ \A s \in S : SessionLeft(calls[r], s)
         /\ \A t \in Tokens : TokenLeft(calls[r], t)
<1>. DEFINE c == calls[r]
            A == Account(R, U, S)!Effects
<1>0. /\ user \in [U -> Account(R, U, S)!UserRow]
      /\ session \in [S -> Account(R, U, S)!SessionRow]
      /\ token \in [Tokens -> Account(R, U, S)!TokenRow]
      /\ reset \in [Resets -> Account(R, U, S)!ResetRow]
      /\ calls \in [R -> Account(R, U, S)!Effects \union {Account(R, U, S)!Idle}]
  BY DEF AccountInv, Account!TypeOK
<1>1. c # Account(R, U, S)!Idle /\ c \in A
  BY <1>0 DEF Account!Commit, Account!Free
<1>2. /\ c.status \in SUBSET (U \X Account(R, U, S)!Statuses)
      /\ c.passwords \in SUBSET (U \X Nat)
      /\ c.opens \in SUBSET (S \X U \X Nat) /\ c.issues \in SUBSET (Tokens \X S)
      /\ c.asks \in SUBSET (Resets \X U)
  BY <1>1 DEF Account!Effects
<1>3. /\ calls' = [calls EXCEPT ![r] = Account(R, U, S)!Idle]
      /\ user' = [u \in U |->
           [status   |-> Account(R, U, S)!Given(c.status, u, user[u].status),
            password |-> Account(R, U, S)!Given(c.passwords, u, user[u].password),
            admin    |-> (user[u].admin \/ u \in c.grants) /\ u \notin c.drops]]
      /\ session' = [s \in S |->
           IF \E o \in c.opens : o[1] = s
           THEN LET o == CHOOSE p \in c.opens : p[1] = s
                IN  [owner |-> o[2], password |-> o[3], revoked |-> FALSE]
           ELSE [session[s] EXCEPT !.revoked = @ \/ s \in c.ends]]
      /\ token' = [t \in Tokens |->
           [token[t] EXCEPT !.session = Account(R, U, S)!Given(c.issues, t, @),
                            !.used    = @ \/ t \in c.uses,
                            !.reuse   = @ \/ t \in c.reuses,
                            !.revoked = @ \/ t \in c.kills]]
      /\ reset' = [k \in Resets |->
           [reset[k] EXCEPT !.owner = Account(R, U, S)!Given(c.asks, k, @),
                            !.used  = @ \/ k \in c.spends]]
  BY DEF Account!Commit
<1>. HIDE DEF c
<1>4. ASSUME NEW u \in U
      PROVE  user'[u] \in Account(R, U, S)!UserRow /\ UserLeft(R, U, S, c, u)
  <2>1. /\ user[u].status \in Account(R, U, S)!Statuses /\ user[u].password \in Nat
        /\ user[u].admin \in BOOLEAN
    BY <1>0 DEF Account!UserRow
  <2>. DEFINE st == Account(R, U, S)!Given(c.status, u, user[u].status)
              pw == Account(R, U, S)!Given(c.passwords, u, user[u].password)
  <2>2. user'[u] = [status |-> st, password |-> pw,
                    admin |-> (user[u].admin \/ u \in c.grants) /\ u \notin c.drops]
    BY <1>3
  <2>3. \/ (\A p \in c.status : p[1] # u) /\ st = user[u].status
        \/ \E p \in c.status : p[1] = u /\ st = p[2]
    BY GivenCases
  <2>4. \/ (\A p \in c.passwords : p[1] # u) /\ pw = user[u].password
        \/ \E p \in c.passwords : p[1] = u /\ pw = p[2]
    BY GivenCases
  <2>. HIDE DEF st, pw
  <2>5. st \in Account(R, U, S)!Statuses /\ pw \in Nat
    BY <1>2, <2>1, <2>3, <2>4
  <2>6. user'[u] \in Account(R, U, S)!UserRow
    BY <2>1, <2>2, <2>5 DEF Account!UserRow
  <2>7. /\ user'[u].status = st /\ user'[u].password = pw
        /\ user[u].admin = TRUE /\ u \notin c.drops => user'[u].admin = TRUE
    BY <2>1, <2>2
  <2>. QED BY <2>3, <2>4, <2>6, <2>7 DEF st, pw, UserLeft
<1>5. ASSUME NEW s \in S
      PROVE  session'[s] \in Account(R, U, S)!SessionRow /\ SessionLeft(c, s)
  <2>1. session[s] \in Account(R, U, S)!SessionRow
    BY <1>0
  <2>2. CASE \E o \in c.opens : o[1] = s
    <3>. DEFINE o == CHOOSE p \in c.opens : p[1] = s
    <3>1. o \in c.opens /\ o[1] = s
      BY <2>2
    <3>2. session'[s] = [owner |-> o[2], password |-> o[3], revoked |-> FALSE]
      BY <1>3, <2>2
    <3>. HIDE DEF o
    <3>3. o[2] \in U /\ o[3] \in Nat
      BY <1>2, <3>1
    <3>4. session'[s] \in Account(R, U, S)!SessionRow
      BY <3>2, <3>3 DEF Account!SessionRow
    <3>5. session'[s].owner = o[2] /\ session'[s].password = o[3] /\ session'[s].revoked = FALSE
      BY <3>2
    <3>. QED BY <3>1, <3>4, <3>5 DEF SessionLeft
  <2>3. CASE \A o \in c.opens : o[1] # s
    <3>1. session'[s] = [session[s] EXCEPT !.revoked = @ \/ s \in c.ends]
      BY <1>3, <2>3
    <3>. QED BY <2>1, <2>3, <3>1 DEF Account!SessionRow, SessionLeft
  <2>. QED BY <2>2, <2>3
<1>6. ASSUME NEW t \in Tokens
      PROVE  token'[t] \in Account(R, U, S)!TokenRow /\ TokenLeft(c, t)
  <2>. DEFINE s == Account(R, U, S)!Given(c.issues, t, token[t].session)
  <2>0. token[t] \in Account(R, U, S)!TokenRow
    BY <1>0
  <2>1. \/ (\A i \in c.issues : i[1] # t) /\ s = token[t].session
        \/ \E i \in c.issues : i[1] = t /\ s = i[2]
    BY GivenCases
  <2>2. token'[t] = [token[t] EXCEPT !.session = s,
                                     !.used    = @ \/ t \in c.uses,
                                     !.reuse   = @ \/ t \in c.reuses,
                                     !.revoked = @ \/ t \in c.kills]
    BY <1>3
  <2>. HIDE DEF s
  <2>3. s \in S \union {NoSession}
    BY <1>2, <2>0, <2>1 DEF Account!TokenRow
  <2>4. token'[t] \in Account(R, U, S)!TokenRow
    BY <2>0, <2>2, <2>3 DEF Account!TokenRow
  <2>5. /\ token'[t].session = s
        /\ token'[t].used = (token[t].used \/ t \in c.uses)
        /\ token'[t].reuse = (token[t].reuse \/ t \in c.reuses)
        /\ token[t].revoked = TRUE => token'[t].revoked = TRUE
    BY <2>0, <2>2 DEF Account!TokenRow
  <2>. QED BY <2>1, <2>4, <2>5 DEF TokenLeft
<1>7. ASSUME NEW k \in Resets
      PROVE  reset'[k] \in Account(R, U, S)!ResetRow
  <2>. DEFINE u == Account(R, U, S)!Given(c.asks, k, reset[k].owner)
  <2>0. reset[k] \in Account(R, U, S)!ResetRow
    BY <1>0
  <2>1. u = reset[k].owner \/ \E p \in c.asks : u = p[2]
    BY GivenCases
  <2>2. reset'[k] = [reset[k] EXCEPT !.owner = u, !.used = @ \/ k \in c.spends]
    BY <1>3
  <2>. HIDE DEF u
  <2>3. u \in U \union {NoUser}
    BY <1>2, <2>0, <2>1 DEF Account!ResetRow
  <2>. QED BY <2>0, <2>2, <2>3 DEF Account!ResetRow
<1>8. /\ user' \in [U -> Account(R, U, S)!UserRow]
      /\ session' \in [S -> Account(R, U, S)!SessionRow]
  BY <1>3, <1>4, <1>5
<1>9. /\ token' \in [Tokens -> Account(R, U, S)!TokenRow]
      /\ reset' \in [Resets -> Account(R, U, S)!ResetRow]
  BY <1>3, <1>6, <1>7
<1>. QED BY <1>1, <1>3, <1>4, <1>5, <1>6, <1>8, <1>9 DEF c

\* time passes: no row changes but in its expired column
LEMMA Expires ==
  ASSUME NEW R, NEW U, NEW S, AccountInv(R, U, S),
         \/ \E t \in Tokens : Account(R, U, S)!ExpireToken(t)
         \/ \E k \in Resets : Account(R, U, S)!ExpireReset(k)
  PROVE  /\ UNCHANGED <<user, session, calls>>
         /\ token' \in [Tokens -> Account(R, U, S)!TokenRow]
         /\ reset' \in [Resets -> Account(R, U, S)!ResetRow]
         /\ \A t \in Tokens :
              /\ token'[t].session = token[t].session /\ token'[t].used = token[t].used
              /\ token'[t].reuse = token[t].reuse /\ token'[t].revoked = token[t].revoked
<1>0. /\ token \in [Tokens -> Account(R, U, S)!TokenRow]
      /\ reset \in [Resets -> Account(R, U, S)!ResetRow]
  BY DEF AccountInv, Account!TypeOK
<1>1. ASSUME NEW t \in Tokens, Account(R, U, S)!ExpireToken(t)
      PROVE  /\ UNCHANGED <<user, session, reset, calls>>
             /\ token' \in [Tokens -> Account(R, U, S)!TokenRow]
             /\ \A w \in Tokens :
                  /\ token'[w].session = token[w].session /\ token'[w].used = token[w].used
                  /\ token'[w].reuse = token[w].reuse /\ token'[w].revoked = token[w].revoked
  BY <1>0, <1>1 DEF Account!ExpireToken, Account!TokenRow
<1>2. ASSUME NEW k \in Resets, Account(R, U, S)!ExpireReset(k)
      PROVE  /\ UNCHANGED <<user, session, token, calls>>
             /\ reset' \in [Resets -> Account(R, U, S)!ResetRow]
  BY <1>0, <1>2 DEF Account!ExpireReset, Account!ResetRow
<1>. QED BY <1>0, <1>1, <1>2

LEMMA AccountStep ==
  ASSUME NEW R, NEW U, NEW S, NoUser \notin U, NoSession \notin S,
         AccountInv(R, U, S), Account(R, U, S)!Next
  PROVE  AccountInv(R, U, S)'
<1>0. /\ user \in [U -> Account(R, U, S)!UserRow]
      /\ session \in [S -> Account(R, U, S)!SessionRow]
      /\ token \in [Tokens -> Account(R, U, S)!TokenRow]
      /\ reset \in [Resets -> Account(R, U, S)!ResetRow]
      /\ calls \in [R -> Account(R, U, S)!Effects \union {Account(R, U, S)!Idle}]
      /\ \A t \in Tokens : token[t].session # NoSession => session[token[t].session].owner # NoUser
      /\ \A t \in Tokens : token[t].reuse = TRUE =>
           /\ token[t].session # NoSession
           /\ session[token[t].session].revoked = TRUE
      /\ \A r \in R : Sound(calls[r])
      /\ \A r, q \in R : r # q => Apart(calls[r], calls[q])
  BY DEF AccountInv, Account!TypeOK
<1>1. CASE \/ \E t \in Tokens : Account(R, U, S)!ExpireToken(t)
           \/ \E k \in Resets : Account(R, U, S)!ExpireReset(k)
  <2>1. /\ UNCHANGED <<user, session, calls>>
        /\ token' \in [Tokens -> Account(R, U, S)!TokenRow]
        /\ reset' \in [Resets -> Account(R, U, S)!ResetRow]
        /\ \A t \in Tokens :
             token'[t].session = token[t].session /\ token'[t].reuse = token[t].reuse
    BY <1>1, Expires
  <2>2. \A r \in R : calls[r] \in Account(R, U, S)!Effects \union {Account(R, U, S)!Idle}
    BY <1>0
  <2>3. ASSUME NEW r \in R PROVE Sound(calls[r])'
    <3>1. /\ \A i \in calls[r].issues : i[1] \in Tokens
          /\ calls[r].reuses \subseteq Tokens
      BY <2>2 DEF Account!Effects, Account!Idle, Account!NoEffects
    <3>. QED BY <1>0, <2>1, <3>1 DEF Sound
  <2>4. \A r, q \in R : r # q => Apart(calls[r], calls[q])'
    BY <1>0, <2>1 DEF Apart
  <2>. QED BY <1>0, <2>1, <2>3, <2>4 DEF AccountInv, Account!TypeOK
\* only the calls in flight change
<1>2. ASSUME NEW r \in R, NEW c \in Account(R, U, S)!Effects \union {Account(R, U, S)!Idle},
             calls' = [calls EXCEPT ![r] = c],
             UNCHANGED <<user, session, token, reset>>,
             Sound(c), \A q \in R : Apart(c, calls[q]) /\ Apart(calls[q], c)
      PROVE  AccountInv(R, U, S)'
  <2>1. calls' \in [R -> Account(R, U, S)!Effects \union {Account(R, U, S)!Idle}]
    BY <1>0, <1>2
  <2>2. \A q \in R : calls'[q] = IF q = r THEN c ELSE calls[q]
    BY <1>0, <1>2
  <2>3. \A q \in R : Sound(calls[q])'
    BY <1>0, <1>2, <2>2 DEF Sound
  <2>4. \A p, q \in R : p # q => Apart(calls[p], calls[q])'
    BY <1>0, <1>2, <2>2 DEF Apart
  <2>. QED BY <1>0, <1>2, <2>1, <2>3, <2>4 DEF AccountInv, Account!TypeOK
<1>3. ASSUME NEW r \in R, Account(R, U, S)!Abort(r)
      PROVE  AccountInv(R, U, S)'
  <2>1. /\ calls' = [calls EXCEPT ![r] = Account(R, U, S)!Idle]
        /\ UNCHANGED <<user, session, token, reset>>
    BY <1>3 DEF Account!Abort
  <2>. QED BY <1>2, <2>1, IdleSound
<1>4. ASSUME NEW r \in R, Account(R, U, S)!Authentication(r) \/ Account(R, U, S)!Administration(r)
      PROVE  AccountInv(R, U, S)'
  <2>1. PICK c \in Account(R, U, S)!Effects :
          /\ Account(R, U, S)!Begin(r, c)
          /\ Sound(c) /\ \A q \in R : Apart(c, calls[q]) /\ Apart(calls[q], c)
    BY <1>4, Begins
  <2>2. /\ calls' = [calls EXCEPT ![r] = c]
        /\ UNCHANGED <<user, session, token, reset>>
    BY <2>1 DEF Account!Begin
  <2>. QED BY <1>2, <2>1, <2>2
<1>5. ASSUME NEW r \in R, Account(R, U, S)!Commit(r)
      PROVE  AccountInv(R, U, S)'
  <2>. DEFINE c == calls[r]
              idle == Account(R, U, S)!Idle
  <2>1. /\ c \in Account(R, U, S)!Effects
        /\ calls' = [calls EXCEPT ![r] = idle]
        /\ user' \in [U -> Account(R, U, S)!UserRow]
        /\ session' \in [S -> Account(R, U, S)!SessionRow]
        /\ token' \in [Tokens -> Account(R, U, S)!TokenRow]
        /\ reset' \in [Resets -> Account(R, U, S)!ResetRow]
        /\ \A s \in S : SessionLeft(c, s)
        /\ \A t \in Tokens : TokenLeft(c, t)
    BY <1>5, Commits
  <2>2. /\ Sound(c) /\ \A q \in R : q # r => Apart(calls[q], c)
        /\ \A o \in c.opens : o[1] \in S /\ o[2] \in U
        /\ \A i \in c.issues : i[1] \in Tokens /\ i[2] \in S
    BY <1>0, <2>1 DEF Account!Effects
  <2>3. \A q \in R : calls'[q] = IF q = r THEN idle ELSE calls[q]
    BY <1>0, <2>1
  <2>. HIDE DEF c, idle
  <2>4. calls' \in [R -> Account(R, U, S)!Effects \union {idle}]
    BY <1>0, <2>1 DEF idle
  <2>5. \A s \in S : session[s].owner # NoUser => session'[s].owner # NoUser
    BY <2>1, <2>2 DEF SessionLeft
  <2>6. \A o \in c.opens : session'[o[1]].owner # NoUser
    BY <2>1, <2>2 DEF SessionLeft, Sound
  <2>7. ASSUME NEW t \in Tokens, token'[t].session # NoSession
        PROVE  session'[token'[t].session].owner # NoUser
    <3>1. CASE \A i \in c.issues : i[1] # t
      <4>1. token'[t].session = token[t].session
        BY <2>1, <3>1 DEF TokenLeft
      <4>2. token[t].session \in S
        BY <1>0, <2>7, <4>1 DEF Account!TokenRow
      <4>. QED BY <1>0, <2>5, <4>1, <4>2
    <3>2. CASE \E i \in c.issues : i[1] = t
      <4>1. PICK i \in c.issues : token'[t].session = i[2]
        BY <2>1, <3>2 DEF TokenLeft
      <4>. QED BY <2>2, <2>5, <2>6, <4>1 DEF Sound
    <3>. QED BY <3>1, <3>2
  <2>8. ASSUME NEW t \in Tokens, token[t].session # NoSession
        PROVE  /\ token'[t].session = token[t].session /\ token[t].session \in S
               /\ session'[token[t].session].revoked =
                    (session[token[t].session].revoked \/ token[t].session \in c.ends)
    <3>1. \A i \in c.issues : i[1] # t
      BY <2>2, <2>8 DEF Sound
    <3>2. token'[t].session = token[t].session /\ token[t].session \in S
      BY <1>0, <2>1, <2>8, <3>1 DEF TokenLeft, Account!TokenRow
    <3>3. \A o \in c.opens : o[1] # token[t].session
      BY <1>0, <2>2, <2>8 DEF Sound
    <3>. QED BY <2>1, <3>2, <3>3 DEF SessionLeft
  <2>9. ASSUME NEW t \in Tokens, token'[t].reuse = TRUE
        PROVE  /\ token'[t].session # NoSession
               /\ session'[token'[t].session].revoked = TRUE
    <3>1. token[t].reuse = TRUE \/ t \in c.reuses
      <4>1. token'[t].reuse = (token[t].reuse \/ t \in c.reuses) /\ token[t].reuse \in BOOLEAN
        BY <1>0, <2>1 DEF TokenLeft, Account!TokenRow
      <4>. QED BY <2>9, <4>1
    <3>2. /\ token[t].session # NoSession
          /\ session[token[t].session].revoked = TRUE \/ token[t].session \in c.ends
      <4>1. c.ends \subseteq S
        BY <2>1 DEF c, Account!Effects
      <4>. QED BY <1>0, <2>2, <3>1, <4>1 DEF Sound
    <3>. QED BY <2>8, <3>2
  <2>10. ASSUME NEW q \in R PROVE Sound(calls[q])'
    <3>1. CASE q = r
      BY <2>3, <3>1, IdleSound DEF idle, Sound, Account!Idle, Account!NoEffects
    <3>2. CASE q # r
      <4>. DEFINE d == calls[q]
      <4>1. calls'[q] = d /\ Sound(d) /\ Apart(d, c)
        BY <1>0, <2>2, <2>3, <3>2
      <4>2. /\ \A o \in d.opens : o[1] \in S
            /\ \A i \in d.issues : i[1] \in Tokens /\ i[2] \in S
            /\ d.reuses \subseteq Tokens /\ d.ends \subseteq S
        BY <1>0 DEF Account!Effects, Account!Idle, Account!NoEffects
      <4>. HIDE DEF d
      <4>3. \A o \in d.opens : session'[o[1]].owner = NoUser
        BY <2>1, <4>1, <4>2 DEF Sound, Apart, SessionLeft
      <4>4. \A i \in d.issues : token'[i[1]].session = NoSession
        BY <2>1, <4>1, <4>2 DEF Sound, Apart, TokenLeft
      <4>5. \A i \in d.issues :
              session'[i[2]].owner # NoUser \/ \E o \in d.opens : o[1] = i[2]
        BY <2>5, <4>1, <4>2 DEF Sound
      <4>6. \A t \in d.reuses : token'[t].session \in d.ends
        BY <2>8, <4>1, <4>2 DEF Sound
      <4>. QED BY <4>1, <4>3, <4>4, <4>5, <4>6 DEF Sound
    <3>. QED BY <3>1, <3>2
  <2>11. \A p, q \in R : p # q => Apart(calls[p], calls[q])'
    <3>1. \A p, q \in R : p # q => Apart(calls'[p], calls'[q])
      BY <1>0, <2>3, IdleSound DEF idle
    <3>. QED BY <3>1 DEF Apart
  <2>. QED BY <2>1, <2>4, <2>7, <2>9, <2>10, <2>11 DEF AccountInv, Account!TypeOK, idle
<1>. QED BY <1>1, <1>3, <1>4, <1>5 DEF Account!Next

\* one call at a time
AccountSerial(U, S) ==
  /\ Settled(U, S)
  /\ \A r \in Req : calls[r] # Account(Req, U, S)!Idle => Fits(Req, U, S, calls[r])

LEMMA AccountSerialStep ==
  ASSUME NEW U, NEW S, NoUser \notin U, NoSession \notin S, IsFiniteSet(U), OneAtATime,
         AccountInv(Req, U, S), AccountSerial(U, S), Account(Req, U, S)!Next
  PROVE  AccountSerial(U, S)'
<1>0. /\ session \in [S -> Account(Req, U, S)!SessionRow]
      /\ token \in [Tokens -> Account(Req, U, S)!TokenRow]
      /\ calls \in [Req -> Account(Req, U, S)!Effects \union {Account(Req, U, S)!Idle}]
      /\ \A t \in Tokens : token[t].session # NoSession => session[token[t].session].owner # NoUser
      /\ \A r \in Req : Sound(calls[r])
      /\ Settled(U, S)
  BY DEF AccountInv, Account!TypeOK, AccountSerial
<1>1. CASE \/ \E t \in Tokens : Account(Req, U, S)!ExpireToken(t)
           \/ \E k \in Resets : Account(Req, U, S)!ExpireReset(k)
  <2>1. /\ UNCHANGED <<user, session, calls>>
        /\ \A t \in Tokens :
             /\ token'[t].session = token[t].session
             /\ token'[t].used = token[t].used /\ token'[t].revoked = token[t].revoked
    BY <1>1, Expires
  <2>2. Settled(U, S)'
    BY <1>0, <2>1 DEF Settled, Live
  <2>3. \A r \in Req : Fits(Req, U, S, calls[r]) => Fits(Req, U, S, calls[r])'
    BY <2>1, SMTT(20) DEF Fits, Live, Account!Given
  <2>. QED BY <2>1, <2>2, <2>3 DEF AccountSerial
<1>2. ASSUME NEW r \in Req, Account(Req, U, S)!Abort(r)
      PROVE  AccountSerial(U, S)'
  <2>1. /\ calls' = [calls EXCEPT ![r] = Account(Req, U, S)!Idle]
        /\ UNCHANGED <<user, session, token>>
    BY <1>2 DEF Account!Abort
  <2>2. \A q \in Req : calls'[q] = Account(Req, U, S)!Idle
    BY <1>0, <2>1 DEF OneAtATime
  <2>. QED BY <1>0, <2>1, <2>2 DEF AccountSerial, Settled, Live
<1>3. ASSUME NEW r \in Req,
             Account(Req, U, S)!Authentication(r) \/ Account(Req, U, S)!Administration(r)
      PROVE  AccountSerial(U, S)'
  <2>1. PICK c \in Account(Req, U, S)!Effects :
          Account(Req, U, S)!Begin(r, c) /\ Fits(Req, U, S, c)
    BY <1>0, <1>3, Begins
  <2>2. calls' = [calls EXCEPT ![r] = c] /\ UNCHANGED <<user, session, token>>
    BY <2>1 DEF Account!Begin
  <2>3. \A q \in Req : calls'[q] = c
    BY <1>0, <2>2 DEF OneAtATime
  <2>4. Settled(U, S)'
    BY <1>0, <2>2 DEF Settled, Live
  <2>5. \A q \in Req : Fits(Req, U, S, calls[q])'
    BY <2>1, <2>2, <2>3, SMTT(20) DEF Fits, Live, Account!Given
  <2>. QED BY <2>4, <2>5 DEF AccountSerial
<1>4. ASSUME NEW r \in Req, Account(Req, U, S)!Commit(r)
      PROVE  AccountSerial(U, S)'
  <2>. DEFINE c == calls[r]
  <2>1. /\ c \in Account(Req, U, S)!Effects /\ c # Account(Req, U, S)!Idle
        /\ calls' = [calls EXCEPT ![r] = Account(Req, U, S)!Idle]
        /\ \A u \in U : UserLeft(Req, U, S, c, u)
        /\ \A s \in S : SessionLeft(c, s)
        /\ \A t \in Tokens : TokenLeft(c, t)
    BY <1>4, Commits
  <2>2. /\ Sound(c) /\ Fits(Req, U, S, c)
        /\ \A o \in c.opens : o[1] \in S /\ o[2] \in U
        /\ \A i \in c.issues : i[1] \in Tokens /\ i[2] \in S
    BY <1>0, <2>1 DEF Account!Effects, AccountSerial
  <2>3. \A q \in Req : calls'[q] = Account(Req, U, S)!Idle
    BY <1>0, <2>1 DEF OneAtATime
  <2>. HIDE DEF c
  <2>4. ASSUME NEW t \in Tokens, NEW other \in Tokens,
               token'[t].session # NoSession, token'[t].session = token'[other].session,
               Live(t)', Live(other)'
        PROVE  t = other
    <3>1. /\ token[t].used \in BOOLEAN /\ token[t].revoked \in BOOLEAN
          /\ token[other].used \in BOOLEAN /\ token[other].revoked \in BOOLEAN
      BY <1>0 DEF Account!TokenRow
    <3>2. /\ t \notin c.uses /\ token[t].used = FALSE
          /\ other \notin c.uses /\ token[other].used = FALSE
      BY <2>1, <2>4, <3>1 DEF TokenLeft, Live
    <3>3. /\ token[t].revoked = FALSE /\ token[other].revoked = FALSE
      BY <2>1, <2>4, <3>1 DEF TokenLeft, Live
    <3>4. \A i \in c.issues : token[t].session # i[2] /\ token[other].session # i[2]
      BY <2>2, <3>2, <3>3 DEF Fits, Live
    <3>5. \/ (\A i \in c.issues : i[1] # t) /\ token'[t].session = token[t].session
          \/ \E i \in c.issues : i[1] = t /\ token'[t].session = i[2]
      BY <2>1 DEF TokenLeft
    <3>6. \/ (\A i \in c.issues : i[1] # other) /\ token'[other].session = token[other].session
          \/ \E i \in c.issues : i[1] = other /\ token'[other].session = i[2]
      BY <2>1 DEF TokenLeft
    <3>7. CASE token'[t].session = token[t].session /\ token'[other].session = token[other].session
      BY <1>0, <2>4, <3>2, <3>3, <3>7 DEF Settled, Live
    <3>8. CASE \E i, j \in c.issues : i[1] = t /\ j[1] = other
      BY <2>2, <3>8 DEF Sound
    <3>. QED BY <2>4, <3>4, <3>5, <3>6, <3>7, <3>8
  <2>5. ASSUME NEW s \in S, session'[s].owner # NoUser, session'[s].revoked = FALSE
        PROVE  /\ session'[s].password = user'[session'[s].owner].password
               /\ user'[session'[s].owner].status = "active"
    <3>1. CASE \E o \in c.opens : o[1] = s
      <4>1. PICK o \in c.opens :
              o[1] = s /\ session'[s].owner = o[2] /\ session'[s].password = o[3]
        BY <2>1, <3>1 DEF SessionLeft
      <4>2. /\ o[3] = Account(Req, U, S)!Given(c.passwords, o[2], user[o[2]].password)
            /\ Account(Req, U, S)!Given(c.status, o[2], user[o[2]].status) = "active"
        BY <2>2 DEF Fits
      <4>. QED BY <2>1, <2>2, <4>1, <4>2 DEF UserLeft
    <3>2. CASE \A o \in c.opens : o[1] # s
      <4>. DEFINE u == session[s].owner
      <4>1. /\ session'[s].owner = u /\ session'[s].password = session[s].password
            /\ session'[s].revoked = (session[s].revoked \/ s \in c.ends)
        BY <2>1, <3>2 DEF SessionLeft
      <4>2. session[s].revoked \in BOOLEAN /\ u \in U \union {NoUser}
        BY <1>0 DEF Account!SessionRow
      <4>3. u \in U /\ u # NoUser /\ session[s].revoked = FALSE /\ s \notin c.ends
        BY <2>5, <4>1, <4>2
      <4>4. session[s].password = user[u].password /\ user[u].status = "active"
        BY <1>0, <4>3 DEF Settled
      <4>5. /\ \A p \in c.passwords : p[1] # u
            /\ \A p \in c.status : p[1] = u => p[2] = "active"
        BY <2>2, <4>3 DEF Fits
      <4>6. user'[u].password = user[u].password /\ user'[u].status = "active"
        BY <2>1, <4>3, <4>4, <4>5 DEF UserLeft
      <4>. QED BY <4>1, <4>4, <4>6
    <3>. QED BY <3>1, <3>2
  <2>6. \E v \in U : user'[v].status = "active" /\ user'[v].admin = TRUE
    <3>1. PICK v \in U :
            /\ user[v].status = "active" /\ user[v].admin = TRUE /\ v \notin c.drops
            /\ \A p \in c.status : p[1] = v => p[2] = "active"
      BY <2>2 DEF Fits
    <3>2. user'[v].status = "active" /\ user'[v].admin = TRUE
      BY <2>1, <3>1 DEF UserLeft
    <3>. QED BY <3>2
  <2>7. Settled(U, S)'
    BY <2>4, <2>5, <2>6 DEF Settled
  <2>. QED BY <2>3, <2>7 DEF AccountSerial
<1>. QED BY <1>1, <1>2, <1>3, <1>4 DEF Account!Next

LEMMA AccountInit ==
  ASSUME NEW R, NEW U, NEW S, NoSession \notin S, Account(R, U, S)!Init
  PROVE  AccountInv(R, U, S)
<1>1. /\ \A u \in U : user[u] \in Account(R, U, S)!UserRow
      /\ user \in [U -> Account(R, U, S)!UserRow]
  BY DEF Account!Init, Account!UserRow, Account!Statuses
<1>2. /\ session = [s \in S |-> Account(R, U, S)!NoSessionRow]
      /\ Account(R, U, S)!NoSessionRow \in Account(R, U, S)!SessionRow
      /\ token = [t \in Tokens |-> Account(R, U, S)!NoTokenRow]
      /\ Account(R, U, S)!NoTokenRow \in Account(R, U, S)!TokenRow
      /\ Account(R, U, S)!NoTokenRow.session = NoSession
      /\ Account(R, U, S)!NoTokenRow.reuse = FALSE
      /\ reset = [k \in Resets |-> Account(R, U, S)!NoResetRow]
      /\ Account(R, U, S)!NoResetRow \in Account(R, U, S)!ResetRow
      /\ calls = [r \in R |-> Account(R, U, S)!Idle]
  BY DEF Account!Init, Account!SessionRow, Account!TokenRow, Account!ResetRow,
     Account!NoSessionRow, Account!NoTokenRow, Account!NoResetRow
<1>3. \A r, q \in R : Sound(calls[r]) /\ Apart(calls[r], calls[q])
  BY <1>2, IdleSound
<1>. QED BY <1>1, <1>2, <1>3 DEF AccountInv, Account!TypeOK

LEMMA AccountSerialInit ==
  ASSUME NEW U, NEW S, Founder \in U, Account(Req, U, S)!Init
  PROVE  AccountSerial(U, S)
<1>1. /\ \A t \in Tokens : token[t].session = NoSession
      /\ \A s \in S : session[s].owner = NoUser
      /\ \A r \in Req : calls[r] = Account(Req, U, S)!Idle
  BY DEF Account!Init, Account!NoSessionRow, Account!NoTokenRow
<1>2. user[Founder].status = "active" /\ user[Founder].admin = TRUE
  BY DEF Account!Init
<1>. QED BY <1>1, <1>2 DEF AccountSerial, Settled

\* what the sessions of an account may not do
LEMMA AccountKept ==
  ASSUME NEW R, NEW U, NEW S, AccountInv(R, U, S)
  PROVE  /\ Account(R, U, S)!TypeOK
         /\ Account(R, U, S)!ReuseEndsFamily
         /\ Settled(U, S) /\ NoSession \notin S =>
              /\ Account(R, U, S)!OneLiveToken
              /\ Account(R, U, S)!ResetEndsSessions
              /\ Account(R, U, S)!DisabledIsLockedOut
              /\ Account(R, U, S)!AnAdminRemains
<1>0. /\ Account(R, U, S)!TypeOK
      /\ \A s \in S : session[s].revoked \in BOOLEAN
      /\ \A t \in Tokens :
           /\ token[t].session \in S \union {NoSession}
           /\ token[t].used \in BOOLEAN /\ token[t].revoked \in BOOLEAN
           /\ token[t].reuse \in BOOLEAN
  BY DEF AccountInv, Account!TypeOK, Account!SessionRow, Account!TokenRow
<1>1. Account(R, U, S)!ReuseEndsFamily
  BY <1>0 DEF AccountInv, Account!ReuseEndsFamily, Account!Accepts
<1>2. ASSUME Settled(U, S), NoSession \notin S
      PROVE  /\ Account(R, U, S)!OneLiveToken
             /\ Account(R, U, S)!ResetEndsSessions
             /\ Account(R, U, S)!DisabledIsLockedOut
             /\ Account(R, U, S)!AnAdminRemains
  <2>1. \A t \in Tokens : Account(R, U, S)!Accepts(t) =>
          /\ token[t].session \in S /\ token[t].session # NoSession
          /\ token[t].revoked = FALSE /\ session[token[t].session].revoked = FALSE
    BY <1>0 DEF Account!Accepts
  <2>2. Account(R, U, S)!OneLiveToken
    BY <1>0, <1>2, <2>1 DEF Account!OneLiveToken, Settled, Live
  <2>3. Account(R, U, S)!ResetEndsSessions
    BY <1>0, <1>2 DEF Account!ResetEndsSessions, Settled
  <2>4. Account(R, U, S)!DisabledIsLockedOut
    BY <1>2, <2>1 DEF Account!DisabledIsLockedOut, Settled, AccountInv
  <2>5. Account(R, U, S)!AnAdminRemains
    BY <1>2 DEF Account!AnAdminRemains, Account!ActiveAdmins, Settled
  <2>. QED BY <2>2, <2>3, <2>4, <2>5
<1>. QED BY <1>0, <1>1, <1>2

-----------------------------------------------------------------------------
(* The theorems.                                                           *)

FactorFollows ==
  /\ subject = "mfa"          => FactorInv(Req, Codes)
  /\ subject = "racing_mfa"   => FactorInv(Calls, Codes)
  /\ subject = "racing_codes" => FactorInv(Calls, FewCodes)

LEMMA InitOf ==
  ASSUME Init
  PROVE  /\ AttemptsInv /\ RequestsInv /\ FactorFollows /\ HttpInv
         /\ subject = "accounts" =>
              AccountInv(Req, Users, Sessions) /\ AccountSerial(Users, Sessions)
         /\ subject = "racing_accounts" => AccountInv(Calls, RacedUsers, RacedSessions)
         /\ subject = "guest" => GuestInv(Req) /\ GuestSerial
         /\ subject = "racing_guest" => GuestInv(GuestCalls)
<1>1. AttemptsInv
  <2>1. /\ now = 0 /\ record = [attempts |-> 0, start |-> 0, blockedUntil |-> 0] /\ admitted = <<>>
    BY DEF Init, Attempts!Init
  <2>2. Counted = 0 /\ Len(admitted) = 0 /\ DOMAIN admitted = {} /\ admitted \in Seq(Nat)
    BY <2>1, AccountsAssumption DEF Counted
  <2>. QED BY <2>1, <2>2 DEF AttemptsInv, Attempts!SlidingBound
<1>2. RequestsInv
  <2>1. clock = 0 /\ history = <<>> /\ passed = <<>> /\ strict = <<>>
    BY DEF Init, Requests!Init
  <2>2. /\ Len(<<>>) = 0 /\ DOMAIN history = {} /\ DOMAIN passed = {} /\ DOMAIN strict = {}
        /\ history \in Seq(Nat) /\ passed \in Seq(Nat) /\ strict \in Seq(Nat)
    BY <2>1
  <2>. QED
    BY <2>1, <2>2
    DEF RequestsInv, Kept, Ordered, StrictInside, Requests!SlidingExact, Requests!Spaced
<1>3. FactorFollows
  BY AccountsAssumption, FactorInit DEF Init, FactorFollows, MfaSubjects
<1>4. HttpInv
  <2>1. /\ account = [roles |-> {"user"}, active |-> TRUE, enrolled |-> FALSE]
        /\ request = Api!Idle /\ since = Api!Nothing
    BY DEF Init, Api!Init
  <2>2. /\ request.passed = "idle"
        /\ request \in [credential: Credentials, endpoint: Api!Endpoints, passed: Passed, seeded: BOOLEAN]
    BY <2>1 DEF Api!Idle, Passed, Credentials, Api!Endpoints, Api!Operations
  <2>3. /\ since.roles = {} /\ since.active = FALSE /\ since.enrolled = FALSE
        /\ since.allowed \in BOOLEAN /\ since.demoted = FALSE
    BY <2>1 DEF Api!Nothing, Api!Seen
  <2>4. account \in [roles: SUBSET Api!Roles, active: BOOLEAN, enrolled: BOOLEAN]
    BY <2>1 DEF Api!Roles
  <2>5. request.seeded = FALSE
    BY <2>1 DEF Api!Idle
  <2>. QED BY <2>1, <2>2, <2>3, <2>4, <2>5 DEF HttpInv, HttpType, Checks
<1>5. subject = "accounts" =>
        AccountInv(Req, Users, Sessions) /\ AccountSerial(Users, Sessions)
  BY AccountsAssumption, AccountInit, AccountSerialInit DEF Init
<1>6. subject = "racing_accounts" => AccountInv(Calls, RacedUsers, RacedSessions)
  BY AccountsAssumption, AccountInit DEF Init
<1>7. ASSUME NEW R, IsFiniteSet(R), R # {}, Guest(R)!Init
      PROVE  GuestInv(R)
  <2>1. /\ guest = [used |-> 0, revoked |-> FALSE, expired |-> FALSE, converted |-> FALSE]
        /\ sent = 0 /\ late = 0 /\ guestCalls = [r \in R |-> [op |-> "idle", used |-> 0]]
    BY <1>7 DEF Guest!Init, Guest!Idle
  <2>2. Sending(R) = {}
    BY <2>1 DEF Sending
  <2>3. Cardinality(Sending(R)) = 0 /\ Cardinality(R) \in Nat /\ Cardinality(R) # 0
    BY <1>7, <2>2, FS_EmptySet, FS_CardinalityType
  <2>. QED BY <2>1, <2>3, AccountsAssumption DEF GuestInv, GuestType, GuestOps, Loads
<1>8. subject = "guest" => GuestInv(Req)
  BY <1>7, AccountsAssumption DEF Init
<1>9. subject = "guest" => GuestSerial
  BY AccountsAssumption DEF Init, Guest!Init, Guest!Idle, GuestSerial
<1>10. subject = "racing_guest" => GuestInv(GuestCalls)
  BY <1>7, AccountsAssumption DEF Init
<1>. QED BY <1>1, <1>2, <1>3, <1>4, <1>5, <1>6, <1>8, <1>9, <1>10

AccountsFollow ==
  /\ subject = "accounts" => AccountInv(Req, Users, Sessions)
  /\ subject = "racing_accounts" => AccountInv(Calls, RacedUsers, RacedSessions)

LEMMA AccountsFollowStep ==
  ASSUME AccountsFollow, [Next]_vars
  PROVE  AccountsFollow'
<1>1. subject' = subject /\ (AccountNext \/ UNCHANGED accountVars)
  BY Steps
<1>2. CASE UNCHANGED accountVars
  <2>1. \A R, U, S : AccountInv(R, U, S) => AccountInv(R, U, S)'
    BY <1>2 DEF AccountInv, Account!TypeOK, Sound, Apart, accountVars
  <2>. QED BY <1>1, <2>1 DEF AccountsFollow
<1>3. CASE AccountNext
  <2>1. CASE subject = "accounts" /\ Account(Req, Users, Sessions)!Next
    <3>1. AccountInv(Req, Users, Sessions)'
      BY <2>1, AccountsAssumption, AccountStep DEF AccountsFollow
    <3>. QED BY <1>1, <2>1, <3>1 DEF AccountsFollow
  <2>2. CASE subject = "racing_accounts" /\ Account(Calls, RacedUsers, RacedSessions)!Next
    <3>1. AccountInv(Calls, RacedUsers, RacedSessions)'
      BY <2>2, AccountsAssumption, AccountStep DEF AccountsFollow
    <3>. QED BY <1>1, <2>2, <3>1 DEF AccountsFollow
  <2>. QED BY <1>3, <2>1, <2>2 DEF AccountNext
<1>. QED BY <1>1, <1>2, <1>3

\* However calls on the accounts interleave, the rows and the calls stay well
\* formed: no call writes a status, an owner or a session no reader knows.
THEOREM AccountsWellFormed == Spec => []AccountsTypeOK
<1>1. Init => AccountsFollow
  BY InitOf DEF AccountsFollow
<1>2. AccountsFollow /\ [Next]_vars => AccountsFollow'
  BY AccountsFollowStep
<1>3. AccountsFollow => AccountsTypeOK
  BY AccountKept DEF AccountsFollow, AccountsTypeOK
<1>. QED BY <1>1, <1>2, <1>3, PTL DEF Spec

\* However many refreshes are in flight, once a used token was presented again
\* no token of its session is accepted.  One call at a time, a session has one
\* token to exchange, a reset and a disabled account leave no session behind,
\* and an active admin remains.
THEOREM SessionsAreEnded ==
  ASSUME OneAtATime
  PROVE  Spec => []SessionsEnd
<1>. DEFINE Follow == AccountsFollow /\ (subject = "accounts" => AccountSerial(Users, Sessions))
<1>1. Init => Follow
  BY InitOf DEF AccountsFollow
<1>2. Follow /\ [Next]_vars => Follow'
  <2>. SUFFICES ASSUME Follow, [Next]_vars PROVE Follow'
    OBVIOUS
  <2>1. AccountsFollow' /\ subject' = subject /\ (AccountNext \/ UNCHANGED accountVars)
    BY Steps, AccountsFollowStep
  <2>2. ASSUME subject = "accounts" PROVE AccountSerial(Users, Sessions)'
    <3>1. CASE UNCHANGED accountVars
      <4>1. UNCHANGED <<user, session, token, calls>>
        BY <3>1 DEF accountVars
      <4>2. Settled(Users, Sessions)'
        BY <2>2, <4>1 DEF AccountSerial, Settled, Live
      <4>3. \A r \in Req :
              Fits(Req, Users, Sessions, calls[r]) => Fits(Req, Users, Sessions, calls[r])'
        BY <4>1, SMTT(20) DEF Fits, Live, Account!Given
      <4>. QED BY <2>2, <4>1, <4>2, <4>3 DEF AccountSerial
    <3>2. CASE Account(Req, Users, Sessions)!Next
      BY <2>2, <3>2, AccountsAssumption, AccountSerialStep DEF AccountsFollow
    <3>. QED BY <2>1, <2>2, <3>1, <3>2 DEF AccountNext
  <2>. QED BY <2>1, <2>2
<1>3. Follow => SessionsEnd
  BY AccountsAssumption, AccountKept DEF AccountsFollow, SessionsEnd, AccountSerial
<1>. QED BY <1>1, <1>2, <1>3, PTL DEF Spec

\* However enrolments, confirmations, resets and rotations overlap, privileged
\* access comes with a secret whose own code was confirmed and no recovery code
\* outlives a reset, as long as no call that had read what a reset replaced wrote
\* to the new secret; a code consumes at most one challenge for each call that
\* may be in flight.
THEOREM FactorProven == Spec => []FactorIsProven
<1>1. Init => FactorFollows
  BY InitOf
<1>2. FactorFollows /\ [Next]_vars => FactorFollows'
  <2>. SUFFICES ASSUME FactorFollows, [Next]_vars PROVE FactorFollows'
    OBVIOUS
  <2>1. subject' = subject /\ (MfaNext \/ UNCHANGED mfaVars)
    BY Steps
  <2>2. CASE UNCHANGED mfaVars
    <3>1. ASSUME NEW R, NEW K, FactorInv(R, K) PROVE FactorInv(R, K)'
      BY <2>2, <3>1 DEF FactorInv, SecretInv, CodesInv, CallsInv, UsesInv, Consuming, mfaVars
    <3>. QED BY <2>1, <3>1 DEF FactorFollows
  <2>3. CASE subject = "mfa" /\ Factor(Req, Codes, Challenges)!Next
    BY <2>1, <2>3, AccountsAssumption, FactorStep DEF FactorFollows
  <2>4. CASE subject = "racing_mfa" /\ Factor(Calls, Codes, FewChallenges)!Next
    BY <2>1, <2>4, AccountsAssumption, FactorStep DEF FactorFollows
  <2>5. CASE subject = "racing_codes" /\ Factor(Calls, FewCodes, Challenges)!Next
    BY <2>1, <2>5, AccountsAssumption, FactorStep DEF FactorFollows
  <2>. QED BY <2>1, <2>2, <2>3, <2>4, <2>5 DEF MfaNext
<1>3. FactorFollows => FactorIsProven
  BY AccountsAssumption, FactorKept DEF FactorFollows, FactorIsProven
<1>. QED BY <1>1, <1>2, <1>3, PTL DEF Spec

\* One call at a time no guest sends more than the quota; however many overlap,
\* a guest sends as many more as do unless counts were overwritten, and after a
\* revocation what was in flight; the limiters keep their bounds whenever
\* attempts and requests come.
THEOREM LimitsKept ==
  ASSUME OneAtATime
  PROVE  Spec => []LimitsHold
<1>. DEFINE Follow ==
       /\ AttemptsInv /\ RequestsInv
       /\ subject = "guest" => GuestInv(Req) /\ GuestSerial
       /\ subject = "racing_guest" => GuestInv(GuestCalls)
<1>1. Init => Follow
  BY InitOf
<1>2. Follow /\ [Next]_vars => Follow'
  <2>. SUFFICES ASSUME Follow, [Next]_vars PROVE Follow'
    OBVIOUS
  <2>1. /\ subject' = subject
        /\ GuestNext \/ UNCHANGED guestVars
        /\ Attempts!Next \/ UNCHANGED limitVars
        /\ Requests!Next \/ UNCHANGED requestVars
    BY Steps
  <2>2. AttemptsInv'
    <3>1. CASE UNCHANGED limitVars
      BY <3>1 DEF AttemptsInv, Counted, Attempts!SlidingBound, limitVars
    <3>. QED BY <2>1, <3>1, AttemptsStep
  <2>3. RequestsInv'
    <3>1. CASE UNCHANGED requestVars
      BY <3>1 DEF RequestsInv, Kept, Ordered, StrictInside, Requests!SlidingExact,
                  Requests!Spaced, requestVars
    <3>. QED BY <2>1, <3>1, RequestsStep
  <2>4. CASE UNCHANGED guestVars
    <3>1. GuestSerial => GuestSerial'
      BY <2>4 DEF GuestSerial, guestVars
    <3>2. \A R : GuestInv(R) => GuestInv(R)'
      BY <2>4 DEF GuestInv, GuestType, Loads, Sending, guestVars
    <3>. QED BY <2>1, <2>2, <2>3, <3>1, <3>2
  <2>5. CASE subject = "guest" /\ Guest(Req)!Next
    <3>1. GuestInv(Req)' /\ GuestSerial'
      BY <2>5, AccountsAssumption, GuestStep, GuestSerialStep DEF GuestInv
    <3>. QED BY <2>1, <2>2, <2>3, <2>5, <3>1
  <2>6. CASE subject = "racing_guest" /\ Guest(GuestCalls)!Next
    <3>1. GuestInv(GuestCalls)'
      BY <2>6, AccountsAssumption, GuestStep
    <3>. QED BY <2>1, <2>2, <2>3, <2>6, <3>1
  <2>. QED BY <2>1, <2>4, <2>5, <2>6 DEF GuestNext
<1>3. Follow => LimitsHold
  <2>1. GuestSerial => Guest(Req)!QuotaHolds
    BY DEF GuestSerial, Guest!QuotaHolds
  <2>. QED BY <2>1, AccountsAssumption, GuestBounded DEF LimitsHold, AttemptsInv, RequestsInv
<1>. QED BY <1>1, <1>2, <1>3, PTL DEF Spec

\* Whatever changes of the account between the checks of a request, what is
\* served was allowed after the request arrived, needed its factor, and stays
\* within what the account's roles are for.
THEOREM PermissionsKept == Spec => []PermissionsHold
<1>1. Init => HttpInv
  BY InitOf
<1>2. HttpInv /\ [Next]_vars => HttpInv'
  <2>. SUFFICES ASSUME HttpInv, [Next]_vars PROVE HttpInv'
    OBVIOUS
  <2>1. Api!Next \/ UNCHANGED httpVars
    BY Steps
  <2>2. CASE UNCHANGED httpVars
    BY <2>2 DEF HttpInv, HttpType, Covers, Permitted, Recognised, Holds, httpVars
  <2>. QED BY <2>1, <2>2, HttpStep
<1>3. HttpInv => PermissionsHold
  BY HttpKept DEF PermissionsHold
<1>. QED BY <1>1, <1>2, <1>3, PTL DEF Spec

=============================================================================
