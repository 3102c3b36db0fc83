\* product-spec.md:59 against an edit while a command runs.
SPECIFICATION Spec
CONSTANTS
    StepId <- MCStepId
    Path <- MCPath
    Command <- MCCommand
    Name <- MCName
    Version = {1}
    Book <- OneBook
    Null = Null
    Proc = {p1}
    CommandFailure = {"NON_ZERO_EXIT"}
    Budget <- EditBudget
INVARIANTS ContractHoldsInputsRead
CHECK_DEADLOCK FALSE
