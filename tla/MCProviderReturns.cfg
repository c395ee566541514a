CONSTANTS
    Modes = {"auto"}
    Callers = {c1, c2}
    Keys = {k}
    Docs = {d1}
    MaxAttempts = 2
    MaxCompletes = 2
    WritesFail = TRUE
    MaxCrashes = 0
SPECIFICATION FairSpec
PROPERTIES
    CompleteReturns
CHECK_DEADLOCK FALSE
