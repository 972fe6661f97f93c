SPECIFICATION Spec
CONSTANTS
    Threads = {t}
    PoolSize = 900
    Header <- MCHeader
    Pad <- MCPad
    MinFree <- MCMinFree
    Word <- MCWord
    Requests <- MCNear
    FreeTags = {"own"}
    CallersFreeTwice = FALSE
    None = none
INVARIANT
    NoCorruption
CHECK_DEADLOCK FALSE
