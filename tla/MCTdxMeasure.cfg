SPECIFICATION FairSpec
CONSTANTS
    Platforms <- MCPlatforms
    Boots <- MCBoots
    Images <- MCImages
    Measures <- MCMeasures
    Containers <- MCContainers
    Faults <- MCFaults
    LowEnd = 8
    SplitFrom = 11
    HighBase = 16
    MaxEvents = 40
    MaxContainers = 2
    MaxOperations = 4
    None = None
INVARIANTS
    PredictionMatchesBoot
    VerdictIsRight
    WorkloadsAreMeasured
PROPERTIES
    EveryMeasureEnds
CHECK_DEADLOCK FALSE
