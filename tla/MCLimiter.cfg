CONSTANTS
    Callers = {c1, c2, c3}
    Minute = 6
    Rpms <- const_Rpms
    MaxCalls = 4
    Horizon = 2
SPECIFICATION FairSpec
INVARIANTS
    TypeOK
    SlotsSpaced
    BoundedBacklog
    OneSlotLeakPerContext
PROPERTIES
    SendsOnSchedule
    WaitReturns
CHECK_DEADLOCK FALSE
