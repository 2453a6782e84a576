SPECIFICATION FairSpec
CONSTANTS
    Builds = {b1, b2}
    Profiles = {c8s}
    InTreeProfiles = {}
    Inputs = {ref}
    KillScopes = {"group"}
    Nobody = Nobody
    InTree = InTree
    Operator = Operator
INVARIANTS
    SyncInputsAreMine
    OwnImage
    ExitLeavesNothing
PROPERTIES
    PrepSurvivesEntry
    EveryBuildEnds
CHECK_DEADLOCK FALSE
