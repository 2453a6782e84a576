SPECIFICATION Spec
CONSTANTS
    Runs = {k1}
    Frags = {bare, c8s}
    Packages = {none}
    Edited = {"config", "tools"}
    Reverted = {"config"}
    MaxVersion = 1
    None = None
    Torn = Torn
INVARIANTS
    TypeOK
    KernelIsCurrent
    StampIsHonest
    StepsFindWhole
    SecondRunHits
    ManifestIsHonest
CHECK_DEADLOCK FALSE
