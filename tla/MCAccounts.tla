---------------------------- MODULE MCAccounts ----------------------------
(* Small instances for TLC of what concerns one person's account.  They    *)
(* share no row here, so a behaviour keeps to the subject it starts with.  *)
EXTENDS Integers, FiniteSets

CONSTANTS
  Req,          \* one call at a time
  Calls,        \* the calls that overlap on the rows of Accounts and of Mfa
  GuestCalls,   \* those that overlap on a guest session
  Users, Sessions,            \* the rows of one call at a time, ...
  RacedUsers, RacedSessions,  \* ... and of overlapping calls (Accounts)
  Tokens, Resets, Founder, NoUser, NoSession,
  Codes, Challenges, FewCodes, FewChallenges,   \* Mfa
  Quota, MaxSent,                               \* GuestSession
  AttemptLimit, AttemptWindow,                  \* RateLimit
  RequestLimit, StrictLimit, RequestWindow,     \* RequestLimiter
  MaxTime,                                      \* both limiters
  MaxChanges, MaxRoles                          \* HttpApi

ASSUME AccountsAssumption ==
  /\ Founder \in Users /\ IsFiniteSet(Users) /\ NoUser \notin Users \union RacedUsers
  /\ NoSession \notin Sessions \union RacedSessions
  /\ Req # {} /\ GuestCalls # {} /\ IsFiniteSet(Req) /\ IsFiniteSet(GuestCalls) /\ Quota \in Nat \ {0}
  /\ IsFiniteSet(Calls)
  /\ AttemptLimit \in Nat \ {0} /\ AttemptWindow \in Nat
  /\ RequestLimit \in Nat \ {0} /\ StrictLimit \in 1..RequestLimit /\ RequestWindow \in Nat

VARIABLES
  subject,
  user, session, token, reset, calls,
  secret, proven, code, opened, challenge, crossed, factorCalls, resetToken, privileged,
  guest, sent, late, guestCalls,
  now, record, admitted,
  clock, history, passed, strict,
  account, request, since

accountVars == <<user, session, token, reset, calls>>
mfaVars     == <<secret, proven, code, opened, challenge, crossed, factorCalls, resetToken, privileged>>
guestVars   == <<guest, sent, late, guestCalls>>
limitVars   == <<now, record, admitted>>
requestVars == <<clock, history, passed, strict>>
httpVars    == <<account, request, since>>
vars == <<subject, accountVars, mfaVars, guestVars, limitVars, requestVars, httpVars>>

\* each component with the calls R that may be in flight at the same time
Account(R, U, S) == INSTANCE Accounts WITH txn <- calls, Req <- R, Users <- U, Sessions <- S
Factor(R, K, H)  == INSTANCE Mfa WITH txn <- factorCalls, Req <- R, Codes <- K, Challenges <- H
Guest(R)         == INSTANCE GuestSession WITH txn <- guestCalls, Req <- R
Attempts         == INSTANCE RateLimit WITH Limit <- AttemptLimit, Window <- AttemptWindow
Requests         == INSTANCE RequestLimiter
                      WITH now <- clock, Limit <- RequestLimit, Window <- RequestWindow
Api              == INSTANCE HttpApi

Subjects == {"accounts", "racing_accounts", "mfa", "racing_mfa", "racing_codes",
             "guest", "racing_guest", "attempts", "requests", "http"}

MfaSubjects == {"mfa", "racing_mfa", "racing_codes"}

Init ==
  /\ subject \in Subjects
  /\ IF subject = "racing_accounts" THEN Account(Calls, RacedUsers, RacedSessions)!Init
     ELSE Account(Req, Users, Sessions)!Init
  /\ IF subject = "racing_mfa" THEN Factor(Calls, Codes, FewChallenges)!Init
     ELSE IF subject = "racing_codes" THEN Factor(Calls, FewCodes, Challenges)!Init
     ELSE Factor(Req, Codes, Challenges)!Init
  /\ subject \notin MfaSubjects => ~ privileged
  /\ IF subject = "racing_guest" THEN Guest(GuestCalls)!Init ELSE Guest(Req)!Init
  /\ Attempts!Init
  /\ Requests!Init
  /\ Api!Init

Others(own) ==
  /\ own # "accounts" => UNCHANGED accountVars
  /\ own # "mfa"      => UNCHANGED mfaVars
  /\ own # "guest"    => UNCHANGED guestVars
  /\ own # "attempts" => UNCHANGED limitVars
  /\ own # "requests" => UNCHANGED requestVars
  /\ own # "http"     => UNCHANGED httpVars

AccountNext ==
  \/ subject = "accounts"        /\ Account(Req, Users, Sessions)!Next
  \/ subject = "racing_accounts" /\ Account(Calls, RacedUsers, RacedSessions)!Next

MfaNext ==
  \/ subject = "mfa"          /\ Factor(Req, Codes, Challenges)!Next
  \/ subject = "racing_mfa"   /\ Factor(Calls, Codes, FewChallenges)!Next
  \/ subject = "racing_codes" /\ Factor(Calls, FewCodes, Challenges)!Next

GuestNext ==
  \/ subject = "guest"        /\ Guest(Req)!Next
  \/ subject = "racing_guest" /\ Guest(GuestCalls)!Next

Next ==
  /\ subject' = subject
  /\ \/ AccountNext /\ Others("accounts")
     \/ MfaNext /\ Others("mfa")
     \/ GuestNext /\ Others("guest")
     \/ subject = "attempts" /\ Attempts!Next /\ Others("attempts")
     \/ subject = "requests" /\ Requests!Next /\ Others("requests")
     \/ subject = "http" /\ Api!Next /\ Others("http")

Spec == Init /\ [][Next]_vars

-----------------------------------------------------------------------------
\* The rows and the calls of the accounts are well formed.
AccountsTypeOK ==
  /\ subject = "accounts"        => Account(Req, Users, Sessions)!TypeOK
  /\ subject = "racing_accounts" => Account(Calls, RacedUsers, RacedSessions)!TypeOK

\* After the reuse of a refresh token no token of its session is accepted,
\* whatever refreshes were in flight.  One call at a time, a session has one
\* token to exchange, a password reset leaves no session of the old password, a
\* disabled account has none to refresh, and an active admin remains (Accounts).
SessionsEnd ==
  /\ subject = "racing_accounts" => Account(Calls, RacedUsers, RacedSessions)!ReuseEndsFamily
  /\ subject = "accounts" =>
       /\ Account(Req, Users, Sessions)!ReuseEndsFamily
       /\ Account(Req, Users, Sessions)!OneLiveToken
       /\ Account(Req, Users, Sessions)!ResetEndsSessions
       /\ Account(Req, Users, Sessions)!DisabledIsLockedOut
       /\ Account(Req, Users, Sessions)!AnAdminRemains

\* Privileged access comes with a secret whose own code was confirmed, and no
\* recovery code from before a reset is accepted, unless a call that had read what
\* the reset replaced wrote to the new secret; a code consumes no more challenges
\* than there are calls in flight, one if they do not overlap (Mfa).
FactorOf(R, K, H) ==
  /\ Factor(R, K, H)!AccessByProvenSecret
  /\ Factor(R, K, H)!CodesOfThisSecret
  /\ Factor(R, K, H)!UsesBounded

FactorIsProven ==
  /\ subject = "mfa"          => FactorOf(Req, Codes, Challenges)
  /\ subject = "racing_mfa"   => FactorOf(Calls, Codes, FewChallenges)
  /\ subject = "racing_codes" => FactorOf(Calls, FewCodes, Challenges)

\* A guest sends no more than the quota; if calls overlap, as many more as do
\* and what overwritten counts let through, and after a revocation what was in
\* flight (GuestSession); a limiter admits no more than it bounds for any stretch
\* of time (RateLimit, RequestLimiter).
LimitsHold ==
  /\ subject = "guest" =>
       Guest(Req)!QuotaHolds /\ Guest(Req)!OvershootBounded /\ Guest(Req)!LateBounded
  /\ subject = "racing_guest" => Guest(GuestCalls)!OvershootBounded /\ Guest(GuestCalls)!LateBounded
  /\ subject = "attempts" => Attempts!SlidingBound
  /\ subject = "requests" => Requests!SlidingExact

\* Whatever changes of the account between the checks of a request, it was
\* allowed after it arrived; a disabled account changes its preferences at most,
\* what matters most needs a factor or a role lost meanwhile, an auditor changes
\* nothing, reviewers do not publish, and the anonymous only chat.  On the way to
\* the chat anyone may have the registry's defaults written (HttpApi).
PermissionsHold ==
  subject = "http" =>
    /\ Api!ServedWasAllowed
    /\ Api!DisabledChangesPreferencesOnly
    /\ Api!FactorOrDemoted
    /\ Api!AuditorReadsOnly
    /\ Api!ReviewersDoNotPublish
    /\ Api!AnonymousOnlyChats

=============================================================================
