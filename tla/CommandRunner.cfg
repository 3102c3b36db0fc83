SPECIFICATION Spec
CONSTANTS
    Null = Null
    Leader = leader
    Process = {leader, child, grandchild}
INVARIANTS
    TypeOK
    LogIsComplete
    StartErrorIsTrue
    NothingOrderlySurvives
PROPERTIES
    Returns
CHECK_DEADLOCK FALSE
