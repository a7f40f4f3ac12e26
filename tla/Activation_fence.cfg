SPECIFICATION Spec
CONSTANTS
  Invocations = 3
  Runner = {r1, r2}
  Launches = 2
  MaxCrashes = 0
  MaxFaults = 0
  None = None
CHECK_DEADLOCK FALSE
INVARIANT NoVersionMeetsLaterState
