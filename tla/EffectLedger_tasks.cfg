SPECIFICATION FairSpec
CONSTANTS
  t1 = t1
  v1 = v1
  f1 = f1
  f2 = f2
  f3 = f3
  c1 = c1
  c2 = c2
  c3 = c3
  root = root
  issue = issue
  NoOp = NoOp
  Op = {t1, v1}
  Commitment = {c1}
  Scope = {root, issue}
  Kind <- MCKind
  Origin <- MCOrigin
  CommitmentOf <- MCCommitmentOf
  ScopeOf <- MCScopeOf
  Observable <- MCObservable
  MaxCrashes = 2
CHECK_DEADLOCK FALSE
INVARIANTS
  TypeOK
  RejectedNeverRan
  NoOverlappingTasks
PROPERTIES
  IntentsSettle
