SPECIFICATION FairSpec
CONSTANTS
    Tasks = {t1, t2}
    Regs = {0}
    Digests = {da, db}
    UserData = {u1}
    HashValues <- MCHashValues
    Hash <- MCHash
    Zero <- MCZero
    LogMax = 2
    Enabled = TRUE
    NoTask = NoTask
    NoEvent = NoEvent
INVARIANTS
    TypeOK
    RegistersAreReplay
    ReportsVerify
    ReadsArePrefix
PROPERTIES
    NothingTakenBack
    CallsReturn
    ImplementsCommittedLog
