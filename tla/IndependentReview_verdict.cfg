SPECIFICATION Spec
CONSTANTS
  Implementer = {i1, i2}
  Reviewer = {r1, r2}
  Finding = {f1, f2}
  MaxCrashes = 0
  None = None
CHECK_DEADLOCK FALSE
PROPERTIES
  OwnerVerdictStands
