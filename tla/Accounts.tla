----------------------------- MODULE Accounts -----------------------------
(***************************************************************************)
(* Accounts and their sessions: registration, login, refresh-token         *)
(* rotation with reuse detection, logout and password reset (auth.py), the *)
(* status of an account and the revocation of its sessions (user_admin.py),*)
(* and who holds the admin role (rbac.py).                                 *)
(*                                                                         *)
(* A call reads and validates in one step and its writes, collected in     *)
(* txn, reach the tables in Commit; other calls may commit in between.  A  *)
(* password is the number of times it was set.  An email address is the    *)
(* account it names.                                                       *)
(***************************************************************************)
EXTENDS Integers, FiniteSets

CONSTANTS
  Req,        \* the calls that may be in flight at the same time
  Users,      \* the accounts (email addresses)
  Founder,    \* the admin the installation starts with
  Sessions,   \* the ids auth_sessions may get, numbers (a bound on the rows)
  Tokens,     \* the ids auth_refresh_tokens may get (a bound)
  Resets,     \* the ids password_reset_tokens may get (a bound)
  NoUser, NoSession

VARIABLES
  user,     \* users, with the admin row of user_roles
  session,  \* auth_sessions, each with the password that opened it
  token,    \* auth_refresh_tokens
  reset,    \* password_reset_tokens
  txn       \* the calls in flight

vars == <<user, session, token, reset, txn>>

-----------------------------------------------------------------------------
Statuses == {"absent", "active", "disabled"}

UserRow    == [status: Statuses, password: Nat, admin: BOOLEAN]
SessionRow == [owner: Users \union {NoUser}, password: Nat, revoked: BOOLEAN]
TokenRow   == [session: Sessions \union {NoSession}, used: BOOLEAN,
               revoked: BOOLEAN, expired: BOOLEAN, reuse: BOOLEAN]
ResetRow   == [owner: Users \union {NoUser}, used: BOOLEAN, expired: BOOLEAN]

NoSessionRow == [owner |-> NoUser, password |-> 0, revoked |-> FALSE]
NoTokenRow   == [session |-> NoSession, used |-> FALSE, revoked |-> FALSE,
                 expired |-> FALSE, reuse |-> FALSE]
NoResetRow   == [owner |-> NoUser, used |-> FALSE, expired |-> FALSE]

\* what a call writes: new rows, columns it sets, rows it marks
Effects ==
  [status: SUBSET (Users \X Statuses), passwords: SUBSET (Users \X Nat),
   grants: SUBSET Users, drops: SUBSET Users,
   opens: SUBSET (Sessions \X Users \X Nat), issues: SUBSET (Tokens \X Sessions),
   uses: SUBSET Tokens, reuses: SUBSET Tokens,
   ends: SUBSET Sessions, kills: SUBSET Tokens,
   asks: SUBSET (Resets \X Users), spends: SUBSET Resets]

NoEffects ==
  [status |-> {}, passwords |-> {}, grants |-> {}, drops |-> {}, opens |-> {},
   issues |-> {}, uses |-> {}, reuses |-> {}, ends |-> {}, kills |-> {},
   asks |-> {}, spends |-> {}]

Idle == [NoEffects EXCEPT !.status = {<<>>}]

Free(r) == txn[r] = Idle

Begin(r, effects) ==
  /\ Free(r)
  /\ txn' = [txn EXCEPT ![r] = effects]
  /\ UNCHANGED <<user, session, token, reset>>

Abort(r) ==
  /\ ~ Free(r)
  /\ txn' = [txn EXCEPT ![r] = Idle]
  /\ UNCHANGED <<user, session, token, reset>>

UnusedSessions == {s \in Sessions : /\ session[s] = NoSessionRow
                                    /\ \A q \in Req : \A o \in txn[q].opens : o[1] # s}
UnusedTokens   == {t \in Tokens : /\ token[t] = NoTokenRow
                                  /\ \A q \in Req : \A i \in txn[q].issues : i[1] # t}
UnusedResets   == {k \in Resets : /\ reset[k] = NoResetRow
                                  /\ \A q \in Req : \A a \in txn[q].asks : a[1] # k}

\* a new row gets the next id: which one it gets makes no difference
First(id, unused) == id \in unused /\ \A other \in unused : id <= other

FreshSession(s) == First(s, UnusedSessions)
FreshToken(t)   == First(t, UnusedTokens)
FreshReset(k)   == First(k, UnusedResets)

\* the value a set of <<row, value>> pairs gives a row, or the one it has
Given(pairs, row, value) ==
  IF \E p \in pairs : p[1] = row
  THEN (CHOOSE p \in pairs : p[1] = row)[2] ELSE value

\* users.email is unique: the second registration of an address fails
CanCommit(c) ==
  \A p \in c.passwords : p[2] = 1 => user[p[1]].status = "absent"

Commit(r) ==
  LET c == txn[r]
  IN  /\ ~ Free(r)
      /\ CanCommit(c)
      /\ user' = [u \in Users |->
           [status   |-> Given(c.status, u, user[u].status),
            password |-> Given(c.passwords, u, user[u].password),
            admin    |-> (user[u].admin \/ u \in c.grants) /\ u \notin c.drops]]
      /\ session' = [s \in Sessions |->
           IF \E o \in c.opens : o[1] = s
           THEN LET o == CHOOSE p \in c.opens : p[1] = s
                IN  [owner |-> o[2], password |-> o[3], revoked |-> FALSE]
           ELSE [session[s] EXCEPT !.revoked = @ \/ s \in c.ends]]
      /\ token' = [t \in Tokens |->
           [token[t] EXCEPT !.session = Given(c.issues, t, @),
                            !.used    = @ \/ t \in c.uses,
                            !.reuse   = @ \/ t \in c.reuses,
                            !.revoked = @ \/ t \in c.kills]]
      /\ reset' = [k \in Resets |->
           [reset[k] EXCEPT !.owner = Given(c.asks, k, @),
                            !.used  = @ \/ k \in c.spends]]
      /\ txn' = [txn EXCEPT ![r] = Idle]

-----------------------------------------------------------------------------
(* auth.py                                                                 *)

TokensOf(S) == {t \in Tokens : token[t].session \in S /\ ~ token[t].revoked}
SessionsOf(u) == {s \in Sessions : session[s].owner = u /\ ~ session[s].revoked}

\* the sessions are revoked, with their tokens that are not revoked yet
Ending(effects, S) == [effects EXCEPT !.ends = S, !.kills = TokensOf(S)]

\* _create_session_tokens
Opening(effects, u, password, s, t) ==
  [effects EXCEPT !.opens = {<<s, u, password>>}, !.issues = {<<t, s>>}]

Register(r, u, s, t) ==
  /\ user[u].status = "absent"
  /\ FreshSession(s) /\ FreshToken(t)
  /\ Begin(r, Opening([NoEffects EXCEPT !.status = {<<u, "active">>},
                                        !.passwords = {<<u, 1>>}], u, 1, s, t))

\* with the right password; a wrong one only writes an audit row
Login(r, u, s, t) ==
  /\ user[u].status = "active"
  /\ FreshSession(s) /\ FreshToken(t)
  /\ Begin(r, Opening(NoEffects, u, user[u].password, s, t))

\* refresh answers neither "invalid" for the token nor for its session
Accepts(t) ==
  /\ token[t].session # NoSession
  /\ ~ token[t].revoked
  /\ ~ token[t].expired
  /\ ~ session[token[t].session].revoked

Refresh(r, t, new) ==
  /\ Accepts(t) /\ ~ token[t].used
  /\ FreshToken(new)
  /\ Begin(r, [NoEffects EXCEPT !.uses = {t}, !.issues = {<<new, token[t].session>>}])

RefreshReused(r, t) ==
  /\ Accepts(t) /\ token[t].used
  /\ Begin(r, Ending([NoEffects EXCEPT !.reuses = {t}], {token[t].session}))

Logout(r, t) ==
  /\ token[t].session # NoSession
  /\ Begin(r, Ending(NoEffects, {token[t].session}))

\* revoke_all_sessions, and the administrator's revoke_sessions
RevokeSessions(r, u) ==
  /\ user[u].status # "absent"
  /\ Begin(r, Ending(NoEffects, SessionsOf(u)))

\* earlier reset tokens of the account stay valid
RequestReset(r, u, k) ==
  /\ user[u].status # "absent"
  /\ FreshReset(k)
  /\ Begin(r, [NoEffects EXCEPT !.asks = {<<k, u>>}])

\* the status of the account is not looked at
ResetPassword(r, k) ==
  LET u == reset[k].owner
  IN  /\ u # NoUser /\ ~ reset[k].used /\ ~ reset[k].expired
      /\ Begin(r, Ending([NoEffects EXCEPT
           !.passwords = {<<u, user[u].password + 1>>}, !.spends = {k}], SessionsOf(u)))

-----------------------------------------------------------------------------
(* user_admin.py and rbac.py: the status and the admin role.               *)

ActiveAdmins == {u \in Users : user[u].status = "active" /\ user[u].admin}

LastAdmin(u) == u \in ActiveAdmins /\ Cardinality(ActiveAdmins) <= 1

\* seeded fault: only the sessions survive a disabled account
DisableKeepsSessions(r, u) ==
  /\ user[u].status = "active" /\ ~ LastAdmin(u)
  /\ Begin(r, [NoEffects EXCEPT !.status = {<<u, "disabled">>}])

Disable(r, u) ==
  /\ user[u].status = "active" /\ ~ LastAdmin(u)
  /\ Begin(r, Ending([NoEffects EXCEPT !.status = {<<u, "disabled">>}], SessionsOf(u)))

Enable(r, u) ==
  /\ user[u].status = "disabled"
  /\ Begin(r, [NoEffects EXCEPT !.status = {<<u, "active">>}])

GrantAdmin(r, actor, u) ==
  /\ actor \in ActiveAdmins
  /\ user[u].status # "absent" /\ ~ user[u].admin
  /\ Begin(r, [NoEffects EXCEPT !.grants = {u}])

RevokeAdmin(r, actor, u) ==
  /\ actor \in ActiveAdmins
  /\ user[u].admin
  /\ Cardinality(ActiveAdmins) > 1
  /\ Begin(r, [NoEffects EXCEPT !.drops = {u}])

-----------------------------------------------------------------------------
(* Time passes the expires_at of a token.                                  *)

ExpireToken(t) ==
  /\ token[t].session # NoSession /\ ~ token[t].expired
  /\ token' = [token EXCEPT ![t].expired = TRUE]
  /\ UNCHANGED <<user, session, reset, txn>>

ExpireReset(k) ==
  /\ reset[k].owner # NoUser /\ ~ reset[k].expired
  /\ reset' = [reset EXCEPT ![k].expired = TRUE]
  /\ UNCHANGED <<user, session, token, txn>>

-----------------------------------------------------------------------------
Init ==
  /\ user = [u \in Users |->
       IF u = Founder THEN [status |-> "active", password |-> 1, admin |-> TRUE]
       ELSE [status |-> "absent", password |-> 0, admin |-> FALSE]]
  /\ session = [s \in Sessions |-> NoSessionRow]
  /\ token = [t \in Tokens |-> NoTokenRow]
  /\ reset = [k \in Resets |-> NoResetRow]
  /\ txn = [r \in Req |-> Idle]

Authentication(r) ==
  \/ \E u \in Users, s \in Sessions, t \in Tokens :
       Register(r, u, s, t) \/ Login(r, u, s, t)
  \/ \E t \in Tokens : RefreshReused(r, t) \/ Logout(r, t)
  \/ \E t, new \in Tokens : Refresh(r, t, new)
  \/ \E u \in Users, k \in Resets : RequestReset(r, u, k)
  \/ \E k \in Resets : ResetPassword(r, k)

Administration(r) ==
  \/ \E u \in Users : RevokeSessions(r, u) \/ Disable(r, u) \/ Enable(r, u)
  \/ \E actor, u \in Users : GrantAdmin(r, actor, u) \/ RevokeAdmin(r, actor, u)

Next ==
  \/ \E t \in Tokens : ExpireToken(t)
  \/ \E k \in Resets : ExpireReset(k)
  \/ \E r \in Req : Commit(r) \/ Abort(r) \/ Authentication(r) \/ Administration(r)

Spec == Init /\ [][Next]_vars

-----------------------------------------------------------------------------
(* Properties.                                                             *)

\* Every row and every call in flight is well formed.
TypeOK ==
  /\ user \in [Users -> UserRow]
  /\ session \in [Sessions -> SessionRow]
  /\ token \in [Tokens -> TokenRow]
  /\ reset \in [Resets -> ResetRow]
  /\ txn \in [Req -> Effects \union {Idle}]

\* However calls interleave, once a used refresh token was presented again no
\* token of its session is accepted any more, not even one that a refresh in
\* flight issues after the session was revoked.
ReuseEndsFamily ==
  \A t, other \in Tokens :
    token[t].reuse /\ token[other].session = token[t].session => ~ Accepts(other)

\* While calls do not overlap, a session has one token that can be exchanged:
\* rotation replaces a token, it never adds a second line of tokens.
OneLiveToken ==
  \A t, other \in Tokens :
    /\ Accepts(t) /\ ~ token[t].used
    /\ Accepts(other) /\ ~ token[other].used
    /\ token[t].session = token[other].session
    => t = other

\* While calls do not overlap, the sessions that are not revoked were opened
\* with the account's current password: a reset leaves none behind.
ResetEndsSessions ==
  \A s \in Sessions : session[s].owner # NoUser /\ ~ session[s].revoked =>
    session[s].password = user[session[s].owner].password

\* While calls do not overlap, a disabled account has no session to refresh,
\* although refresh never looks at the account's status.
DisabledIsLockedOut ==
  \A t \in Tokens : Accepts(t) =>
    user[session[token[t].session].owner].status = "active"

\* While calls do not overlap, an active admin remains whatever accounts are
\* disabled and whatever roles are taken away.
AnAdminRemains == ActiveAdmins # {}

=============================================================================
