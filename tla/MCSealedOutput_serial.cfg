SPECIFICATION Spec
CONSTANTS
    None = None
    Torn = Torn
    Cmds = {c1}
    Smps = {1, 2}
    SmpLists = {{2}, {1, 2}, {0, 1}}
    Firmwares = {f1, f2}
    Images = {i1, i2}
    EditMode = "between"
    Overlap = FALSE
SYMMETRY Symmetry
INVARIANTS
    TypeOK
    SnpMeasuredAsRecorded
    TdxMeasuredAsRecorded
    LaunchIsSealed
    EveryVariantHasEntry
PROPERTIES
    DeriveKeepsSeal
    DeriveDelivers
