SPECIFICATION Spec
CONSTANTS
  Req = {r1}
  Versions = {v1, v2}
  Default = v1
  NoVersion = none
  MaxBegun = 3
INVARIANTS
  ManagersChoose
CHECK_DEADLOCK FALSE
