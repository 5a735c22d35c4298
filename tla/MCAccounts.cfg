SPECIFICATION Spec
CONSTANTS
  Req = {r1}
  Calls = {r1, r2}
  GuestCalls = {r1, r2, r3}
  Users = {admin, member}
  RacedUsers = {admin}
  Founder = admin
  NoUser = noUser
  Sessions = {1, 2}
  RacedSessions = {1}
  NoSession = noSession
  Tokens = {1, 2, 3}
  Resets = {1}
  Codes = {1, 2, 3}
  Challenges = {1, 2, 3}
  FewCodes = {1}
  FewChallenges = {1}
  Quota = 2
  MaxSent = 6
  AttemptLimit = 3
  AttemptWindow = 2
  RequestLimit = 3
  StrictLimit = 2
  RequestWindow = 3
  MaxTime = 6
  MaxChanges = 2
  MaxRoles = 2
INVARIANTS
  SessionsEnd
  FactorIsProven
  LimitsHold
  PermissionsHold
CHECK_DEADLOCK FALSE
