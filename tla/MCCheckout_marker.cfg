SPECIFICATION Spec
CONSTANTS
    Builds = {b1, b2}
    Profiles = {c8s}
    InTreeProfiles = {}
    Inputs = {}
    KillScopes = {"group"}
    Nobody = Nobody
    InTree = InTree
    Operator = Operator
SYMMETRY Symmetry
INVARIANTS
    SweepTookEveryLeftover
CHECK_DEADLOCK FALSE
