\* architecture.md:159 against a resume of a run that is still going on.
SPECIFICATION Spec
CONSTANTS
    StepId <- MCStepId
    Path <- MCPath
    Command <- MCCommand
    Name <- MCName
    Version = {1}
    Book <- OneStep
    Null = Null
    Proc = {p1, p2}
    CommandFailure = {"NON_ZERO_EXIT"}
    Budget <- PairBudget
INVARIANTS NoTwoExecute
CHECK_DEADLOCK FALSE
