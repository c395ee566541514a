CONSTANTS
    Modes = {"auto", "replay"}
    Callers = {c1, c2}
    Keys = {k}
    Docs = {d1, d2}
    MaxAttempts = 2
    MaxCompletes = 2
    WritesFail = TRUE
    MaxCrashes = 0
SPECIFICATION Spec
SYMMETRY Symmetry
INVARIANT ReadErrorIsReturned
CHECK_DEADLOCK FALSE
