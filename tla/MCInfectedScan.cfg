SPECIFICATION Spec
CONSTANTS
  Req = {r1}
  Sources = {s1}
  Licences = {k1}
  Documents = {d1}
  Contents = {good, bad}
  Infected = {bad}
  NoSource = none
  NoContent = none
INVARIANTS
  InfectionsAreReported
CHECK_DEADLOCK FALSE
