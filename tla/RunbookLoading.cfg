\* Every dependency graph over three steps, repeated dependencies included,
\* and every pair of odd fields in a chain.
SPECIFICATION Spec
CONSTANTS
    N = 3
    Repeats = 2
    StepId = {1, 2, 3}
    Path = {}
    Command = {"argv"}
    Name = {"name"}
    Version = {}
    Book <- NoBook
    Null = Null
    Bad = Bad
    Files <- AllFiles
INVARIANTS AcceptedIsRunnable AcceptedIfFaultless RefusedIffCyclic PlanIsCanonical
PROPERTIES LoadingEnds
CHECK_DEADLOCK FALSE
