CONSTANTS
    Candidates = {a, b, c, d}
    Weights = {0, 1, 4, 10}
    Inventory = {0, 12, 60}
    Totals = {0, 50, 100}
    Policies <- const_Policies
    Whole = 100
    Epsilon = 4
    MinAlloc = 5
SYMMETRY Symmetry
SPECIFICATION Spec
INVARIANTS
    TypeOK
    SomeoneSurvives
    LockedFitTheWhole
    TargetsHonourPolicy
    SOVCeiling
    NeverOverspends
    ShortfallIsReal
CHECK_DEADLOCK FALSE
