\* architecture.md:89 against a repair after a crash.
SPECIFICATION Spec
CONSTANTS
    StepId <- MCStepId
    Path <- MCPath
    Command <- MCCommand
    Name <- MCName
    Version = {1}
    Book <- OneBook
    Null = Null
    Proc = {p1}
    CommandFailure = {"NON_ZERO_EXIT"}
    Budget <- CrashBudget
INVARIANTS InterruptedIsClassified
CHECK_DEADLOCK FALSE
