SPECIFICATION Spec
CONSTANTS
    Unit = 60
    Precision = 1000
    AdjacencyEdges <- MCAdjacency
    PriceTierIncome <- MCPriceTierIncome
    IncomeIndex <- MCIncomeIndex
    IncomePremium <- MCIncomePremium
    CategoryPremium <- MCCategoryPremium
    ValueKeywords <- MCValueKeywords
    Workloads <- MCControlWorkloads
    Inputs <- MCInputs
    Process = {"first", "second", "page"}
    MinPersonas = 2
    MaxPersonas = 3
    TopN = 1
    Tolerance = 1
    MaxFindings = 2
    Confidences = {"high", "low"}
    Port = {1, 2, 3}
    Ephemeral = {2, 3}
    Requests <- MCRequests
INVARIANT
    ControlHasNoRightAnswer
CHECK_DEADLOCK FALSE
