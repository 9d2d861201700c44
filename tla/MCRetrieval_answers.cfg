SPECIFICATION Spec
CONSTANTS
    Docs = {d1, d2}
    LastIndex = 1
    MaxVersion = 2
    SearchLimit = 2
    RerankCandidates = 3
    RerankMinScore = 1
    TopK = 2
    TokenCounts = {1, 4}
    RrfK = 1
    VectorWeight = 2
    KeywordWeight = 1
    Scale = 6
    Lambda = 7
    Window = 1
    MaxContextTokens = 3
SYMMETRY Symmetry
INVARIANTS
    FusionIsMonotone
    PassagesFitBudget
    PositionsCitedOnce
CHECK_DEADLOCK FALSE
