SPECIFICATION Spec
CONSTANTS
  r1 = r1
  r2 = r2
  uploader = uploader
  scholar = scholar
  noUser = noUser
  t1 = t1
  t2 = t2
  x0 = x0
  x1 = x1
  Req <- TwoCalls
  Users <- Staff
  Privileged <- Scholars
  Uploader = uploader
  NoUser = noUser
  Tasks <- TwoTasks
  Texts <- TwoTexts
  OriginalText = x0
  MaxRow = 3
  MaxDecisions = 2
SYMMETRY Symmetry
CONSTRAINTS
  RacesWithAReview
  EditsOfOneTask
INVARIANTS
  TypeOK
  OneActiveTaskPerLevel
  ScholarApprovalEarned
  RevisionsNumbered
  EditsAreChained
PROPERTIES
  DecisionIsFinal
  DocumentFollowsMachine
CHECK_DEADLOCK FALSE
