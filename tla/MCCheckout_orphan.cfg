SPECIFICATION Spec
CONSTANTS
    Builds = {b1, b2}
    Profiles = {c8s}
    InTreeProfiles = {}
    Inputs = {}
    KillScopes = {"process"}
    Nobody = Nobody
    InTree = InTree
    Operator = Operator
SYMMETRY Symmetry
INVARIANTS
    StagedIsAbandoned
CHECK_DEADLOCK FALSE
