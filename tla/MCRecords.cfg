SPECIFICATION RecordsSpec
CONSTANTS
  Req = {r1}
  Calls = {r1, r2}
  Sources = {s1}
  Licences = {k1, k2}
  Documents = {d1, d2}
  Contents = {good, bad}
  Infected = {bad}
  MaxRecords = 5
  MaxFlush = 2
  Days = 3
  Prompts = {v1, v2, v3}
  DefaultPrompt = v1
  MaxBegun = 3
  Providers = {p1, p2}
  Models = {1, 2, 3}
  TypeOf <- TypeOfModel
  Reports = {f1}
  Reviewers = {a1, a2}
  Incidents = {b1}
  Owners = {a1}
  MaxEvents = 6
  Answers = {c1, c2}
  Keys = {k1, k2}
  AnswerOf <- SameAnswer
  Withdrawals = {w1}
  AnswersOn <- AllAnswers
  MaxNotices = 2
  Users = {u1, u2}
  Savers = {u1}
  Conversations = {c1, c2}
  SavedRows = {1, 2}
  nobody = nobody
INVARIANTS
  UploadsAreKept
  AuditIsLinked
  LicenceDecisionsAgree
  ChatStaysConfigured
  ReportsAreClosed
  IncidentsAreTraced
PROPERTIES
  AnswersAreAccountedFor
CHECK_DEADLOCK FALSE
