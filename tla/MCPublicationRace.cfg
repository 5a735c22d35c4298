SPECIFICATION Spec
CONSTANTS
  r1 = r1
  r2 = r2
  v1 = v1
  v2 = v2
  noVersion = noVersion
  Req <- TwoCalls
  Versions <- TwoVersions
  NoVersion = noVersion
  Risks <- TwoLevels
INVARIANTS
  ServedUntilCrossed
PROPERTIES
  OnlyStalePublishesUnapproved
  HidingInvalidates
  StatusFollowsMachine
SYMMETRY Symmetry
CHECK_DEADLOCK FALSE
