SPECIFICATION Spec
CONSTANTS
    Writer = {w1, w2}
    Backup = {b1}
    Effect = {e1, e2}
    MaxFacts = 1
    MaxDatabases = 3
    MaxAdvances = 1
    MaxFaults = 2
    None = None
    w1 = w1
    w2 = w2
    b1 = b1
    e1 = e1
    e2 = e2
SYMMETRY Interchangeable
CHECK_DEADLOCK FALSE
INVARIANTS
    TypeOK
    MutationsWaitForReconciliation
    GenerationsAreNotReused
    NothingIsDiscarded
    BackupsAreExact
