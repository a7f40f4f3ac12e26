SPECIFICATION FairSpec
CONSTANTS
  t1 = t1
  t2 = t2
  p1 = p1
  None = None
  Turn = {t1, t2}
  Project = {p1}
  ScopeOf <- OneScope
  MaxRefusals = 1
CHECK_DEADLOCK FALSE
INVARIANTS
  TypeOK
  AckIsTruthful
  AnswersAreOwnInTime
PROPERTIES
  TurnsSettle
  StopEnds
