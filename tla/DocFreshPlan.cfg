\* architecture.md:157 against a resume after a revision.
SPECIFICATION Spec
CONSTANTS
    StepId <- MCStepId
    Path <- MCPath
    Command <- MCCommand
    Name <- MCName
    Version = {1, 2, 3}
    Book <- Revised
    Null = Null
    Proc = {p1}
    CommandFailure = {"NON_ZERO_EXIT"}
    Budget <- ReviseBudget
PROPERTIES FreshPlanIsAccepted
CHECK_DEADLOCK FALSE
