SPECIFICATION Spec
CONSTANTS
    lock = lock
    kcore = kcore
    opt = opt
    sel = sel
    key = key
    Symbols = {lock, kcore, opt, sel, key}
    Strings = {key}
    Lockdown <- MCLockdown
    Required <- MCRequired
    Readers = {kcore}
    Loaders = {kcore}
    ModuleSig = sel
    SigKey = key
    SigAll = kcore
    Worlds <- MCWorlds
    Texts <- MCTexts
    Edited = {4}
    MaxEdits = 1
INVARIANTS
    RequestsAreHonoured
    ForcingIsReal
    MarkerPlaceIsFree
CHECK_DEADLOCK FALSE
