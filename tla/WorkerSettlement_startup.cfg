SPECIFICATION FairSpec
CONSTANTS
  w1 = w1
  p1 = p1
  c1 = c1
  claude = claude
  codex = codex
  NoWorker = NoWorker
  Worker = {p1}
  Commitment = {c1}
  Harness = {claude}
  CommitmentOf <- OneCommitment
  Managed <- MCManaged
  HarnessOrder <- OneSupervisor
  MaxCrashes = 1
CHECK_DEADLOCK FALSE
PROPERTIES
  HostServesAgain
