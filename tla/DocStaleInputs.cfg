\* README.md:58 against a resume after an edit.
SPECIFICATION Spec
CONSTANTS
    StepId <- MCStepId
    Path <- MCPath
    Command <- MCCommand
    Name <- MCName
    Version = {1}
    Book <- OneBook
    Null = Null
    Proc = {p1}
    CommandFailure = {"NON_ZERO_EXIT"}
    Budget <- EditBudget
PROPERTIES StaleInputsAreRejected
CHECK_DEADLOCK FALSE
