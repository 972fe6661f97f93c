SPECIFICATION Spec
CONSTANTS
    Threads = {t}
    PoolSize = 1300
    Header <- MCHeader
    Pad <- MCPad
    MinFree <- MCMinFree
    Word <- MCWord
    Requests <- MCUnits
    FreeTags = {"own", "other", "zero"}
    CallersFreeTwice = FALSE
    None = none
INVARIANTS
    TypeOK
    Tiling
    LiveIsAllocated
    NoLeak
    Coalesced
PROPERTIES
    LiveUntouched
CHECK_DEADLOCK FALSE
