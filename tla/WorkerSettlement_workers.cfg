SPECIFICATION FairSpec
CONSTANTS
  w1 = w1
  p1 = p1
  c1 = c1
  claude = claude
  codex = codex
  NoWorker = NoWorker
  Worker = {w1, p1}
  Commitment = {c1}
  Harness = {claude, codex}
  CommitmentOf <- OneCommitment
  Managed <- MCManaged
  HarnessOrder <- TwoSupervisors
  MaxCrashes = 2
CHECK_DEADLOCK FALSE
INVARIANTS
  TypeOK
  ResultIsKept
  AcceptedOnTheResult
  NothingRunsTwice
  RootIsExclusive
PROPERTIES
  QueueDrains
