\* Every dependency graph over three steps, every gate and every state a run
\* may have been left in,
\* with one failure, kill, refusal or stray write on the way.
SPECIFICATION Spec
CONSTANTS
    N = 3
    MaxDisturbance = 1
    StepId = {1, 2, 3}
    Path = {}
    Command = {}
    Name = {}
    Version = {}
    Book <- NoBook
    Null = Null
INVARIANTS PlanIsClosedForm RoundsAreExact ReuseStands
CHECK_DEADLOCK FALSE
