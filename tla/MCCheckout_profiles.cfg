SPECIFICATION Spec
CONSTANTS
    Builds = {b1, b2}
    Profiles = {shipped, c8s, obs}
    InTreeProfiles = {shipped}
    Inputs = {}
    KillScopes = {"group", "process"}
    Nobody = Nobody
    InTree = InTree
    Operator = Operator
SYMMETRY Symmetry
INVARIANTS
    TypeOK
    ProfilesAreMine
    InTreeIntact
    CollisionIsReal
CHECK_DEADLOCK FALSE
