CONSTANTS
    Reg <- MCReg
    LastLink = 3
    CountReg = 2
    Callees <- MCCallees
    Limit = 16
    MaxCount = 8
    MaxTrace = 3
    MaxPrefixSteps = 14
    VisitsPerWord = 2
    LocalTrace = 2
    Programs <- MCPrograms
    Inputs <- MCInputs
    MaxRun = 20
SPECIFICATION Spec
INVARIANTS
    TypeOK
    HitsSound
    PrefixSound
    FixedPoint
    LocalHitsSound
    FlowCoversLocal
CHECK_DEADLOCK FALSE
