CONSTANTS
    Personas = {"p1", "p2", "p3", "p4"}
    Catalog = {"p1", "p2", "p3"}
    MaxSelected = 3
SPECIFICATION FairSpec
INVARIANTS
    TypeOK
    RootCauseReported
    OneCreativePerPersona
PROPERTIES
    FailureEndsTheStage
CHECK_DEADLOCK FALSE
