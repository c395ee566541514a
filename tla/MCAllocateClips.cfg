CONSTANTS
    Candidates = {a, b, c}
    Weights = {2, 3, 5}
    Inventory = {30, 60, 90}
    Totals = {0}
    Policies <- const_Policies
    Whole = 100
    Epsilon = 3
    MinAlloc = 5
SYMMETRY Symmetry
SPECIFICATION Spec
INVARIANTS
    NothingClipsAtTheRecommendation
CHECK_DEADLOCK FALSE
