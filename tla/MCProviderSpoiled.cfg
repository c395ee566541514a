CONSTANTS
    Modes = {"auto"}
    Callers = {c1, c2}
    Keys = {k}
    Docs = {d1, d2}
    MaxAttempts = 2
    MaxCompletes = 2
    WritesFail = FALSE
    MaxCrashes = 0
SPECIFICATION Spec
SYMMETRY Symmetry
INVARIANT RecordedBriefReplays
CHECK_DEADLOCK FALSE
