\* Two processes on one run; one of them may be killed.
SPECIFICATION Spec
CONSTANTS
    StepId <- MCStepId
    Path <- MCPath
    Command <- MCCommand
    Name <- MCName
    Version = {1}
    Book <- OneStep
    Null = Null
    Proc = {p1, p2}
    CommandFailure = {"NON_ZERO_EXIT"}
    Budget <- PairBudget
INVARIANTS ConfirmationGate ReuseNeedsSuccess LogAgrees
PROPERTIES AttemptsAreImmutable ImplementsLedger
SYMMETRY ProcSymmetry
CHECK_DEADLOCK FALSE
