SPECIFICATION Spec
CONSTANTS
  r1 = r1
  r2 = r2
  uploader = uploader
  scholar = scholar
  noUser = noUser
  t1 = t1
  t2 = t2
  x0 = x0
  x1 = x1
  Req <- TwoCalls
  Users <- Staff
  Privileged <- Scholars
  Uploader = uploader
  NoUser = noUser
  Tasks <- OneTask
  Texts <- TwoTexts
  OriginalText = x0
  MaxRow = 3
  MaxDecisions = 1
INVARIANTS
  RevisionChain
CHECK_DEADLOCK FALSE
