\* One process; the user edits a declared file and revises the run book.
SPECIFICATION Spec
CONSTANTS
    StepId <- MCStepId
    Path <- MCPath
    Command <- MCCommand
    Name <- MCName
    Version = {1, 2, 3}
    Book <- Revised
    Null = Null
    Proc = {p1}
    CommandFailure = {"NON_ZERO_EXIT"}
    Budget <- ChangeBudget
INVARIANTS ConfirmationGate PlansAreClosed ContractsOfRun ReuseNeedsSuccess ReuseIsSound
CHECK_DEADLOCK FALSE
