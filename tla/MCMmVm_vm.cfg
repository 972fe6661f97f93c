SPECIFICATION Spec
CONSTANTS
    ELEM_BITS = 2
    NFrames = 14
    Spaces = {p, c}
    Programs = {p}
    System = system
    NTemp = 2
    NPool = 2
    NSys = 5
    Values = {0, 1}
    MaxTaint = 1
    MaxCalls = 5
INVARIANTS
    FramesExact
    WritableIsPrivate
    Isolation
    PtesTracked
    WindowHoldsTables
PROPERTIES
    BitmapsAgree
CHECK_DEADLOCK FALSE
