\* One process at a time; it may be killed once, and a plan may be applied twice.
SPECIFICATION Spec
CONSTANTS
    StepId <- MCStepId
    Path <- MCPath
    Command <- MCCommand
    Name <- MCName
    Version = {1}
    Book <- OneBook
    Null = Null
    Proc = {p1}
    CommandFailure = {"NON_ZERO_EXIT"}
    Budget <- CrashBudget
INVARIANTS TypeOK LogAgrees LogIsChained
    AttemptsAreCounted StartsAfterDependencies SummaryIsHonest SuccessIsReused
PROPERTIES InvocationsEnd ImplementsLedger
CHECK_DEADLOCK FALSE
