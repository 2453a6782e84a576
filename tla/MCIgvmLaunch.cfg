SPECIFICATION Spec
CONSTANTS
    FourG = 24
    OneM = 8
    DataBase = 12
    LowPages = 1
    SegmentSize = 4
    ResetVector = 95
    Builds <- MCBuilds
    Kernels <- MCKernels
    MaxCommands = 2
    None = None
INVARIANTS
    MeasuredInOrder
    MeasuredMemory
    HobsPointAtBlobs
    ManifestIsHonest
CHECK_DEADLOCK FALSE
