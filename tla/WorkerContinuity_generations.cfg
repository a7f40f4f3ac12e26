\* Two generations, so that one is replaced and one exhausts the recovery;
\* one death from outside; any set of supervisors after a restart.
CONSTANTS
    Generations = 2
    Orders <- AllOrders
    MaxCrashes = 1
SPECIFICATION FairSpec
CHECK_DEADLOCK FALSE
INVARIANTS
    TypeOK RunsAlone AnswersAreCarried
PROPERTIES
    HostServesAgain
