SPECIFICATION Spec
CONSTANTS
  Invocations = 4
  Runner = {r1, r2}
  Launches = 2
  MaxCrashes = 1
  MaxFaults = 1
  None = None
SYMMETRY Symmetry
CHECK_DEADLOCK FALSE
INVARIANTS
  TypeOK
  OperationsAreSerial
  StaleWritersAreFenced
  DisplacedStateIsJournaled
  EarlierVersionsAreSafe
CONSTRAINT Bounded
