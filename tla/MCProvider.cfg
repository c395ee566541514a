CONSTANTS
    Modes = {"auto", "replay", "live", "liveRecording"}
    Callers = {c1, c2}
    Keys = {k}
    Docs = {d1, d2}
    MaxAttempts = 2
    MaxCompletes = 2
    WritesFail = TRUE
    MaxCrashes = 1
SPECIFICATION Spec
SYMMETRY Symmetry
INVARIANTS
    TypeOK
    OnlyValidPassedOn
    CallsBounded
    OneCallAfterCancel
    RecordedUnlessClash
PROPERTIES
    CacheNeverDamaged
CHECK_DEADLOCK FALSE
