\* runbook-schema.md:5 and :67 against chains with two odd fields in a step.
SPECIFICATION Spec
CONSTANTS
    N = 3
    Repeats = 2
    StepId = {1, 2, 3}
    Path = {}
    Command = {"argv"}
    Name = {"name"}
    Version = {}
    Book <- NoBook
    Null = Null
    Bad = Bad
    Files <- ChainFiles
INVARIANTS MisspeltKeysAreNoticed
CHECK_DEADLOCK FALSE
