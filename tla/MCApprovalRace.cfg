SPECIFICATION Spec
CONSTANTS
  r1 = r1
  r2 = r2
  uploader = uploader
  reviewer = reviewer
  scholar = scholar
  admin = admin
  first = first
  escalated = escalated
  a1 = a1
  a2 = a2
  a3 = a3
  Req <- TwoCalls
  Users <- FourStaff
  Validities <- Bounded
  Deciders <- OneDecider
  Scholars <- Senior
  Admins <- Board
  Uploader = uploader
  Tasks <- BothTasks
  TaskLevel <- LevelOf
  TaskCreator <- CreatorOf
  Ids <- ThreeIds
INVARIANTS
  OneActivePerLevel
  DistinctApprovers
PROPERTIES
  TerminalIsFinal
SYMMETRY Symmetry
CHECK_DEADLOCK FALSE
