SPECIFICATION Spec
CONSTANTS
  Implementer = {i1, i2, i3}
  Reviewer = {r1, r2}
  Finding = {f1, f2}
  MaxCrashes = 1
  None = None
SYMMETRY Symmetry
CHECK_DEADLOCK FALSE
INVARIANTS
  TypeOK
  AcceptedIsReviewed
  MustFixIsRepaired
