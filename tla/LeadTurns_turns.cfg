\* One Owner input, two observations and one fallback model, through a death or
\* a close of the host.
CONSTANTS
    i1 = i1
    e1 = e1
    e2 = e2
    Input = {i1}
    Event = {e1, e2}
    Candidates = 2
    MaxLives = 1
SPECIFICATION FairSpec
CHECK_DEADLOCK FALSE
INVARIANTS
    TypeOK OneTurnAtATime ReceiptIsTruthful
PROPERTIES
    WakeIsHonoured OwnerGoesNext
