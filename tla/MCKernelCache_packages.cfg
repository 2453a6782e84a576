SPECIFICATION Spec
CONSTANTS
    Runs = {k1, k2}
    Frags = {bare}
    Packages = {none, pahole}
    Edited = {}
    MaxVersion = 0
    Reverted = {}
    None = None
    Torn = Torn
SYMMETRY Symmetry
INVARIANTS
    HitUsedMyPackages
CHECK_DEADLOCK FALSE
