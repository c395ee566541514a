CONSTANTS
    PublisherOrder <- const_PublisherOrder
    PersonaOrder <- const_PersonaOrder
    Strangers = {"x"}
    MinPersonas = 2
    MaxPersonas = 3
    MaxPrimary = 1
SPECIFICATION Spec
INVARIANTS
    TypeOK
    GatesHold
    OneVerdictPerPublisher
    CreativesWithinBounds
    SelectedAreNotRejected
    RefusalCostsOneCall
CHECK_DEADLOCK FALSE
