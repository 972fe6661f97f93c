SPECIFICATION Spec
CONSTANTS
    Processes = {sys, p, q, r, s}
    Threads = {boot, idle, a, b, c}
    System = sys
    Boot = boot
    Idle = idle
    EX_MAX_HANDLE = 4
    NSystemPages = 12
    StackPages = 1
    None = None
INVARIANTS
    CountsExact
    UsersKeepAlive
    ResourcesAccounted
    OnlyKnownStops
PROPERTIES
    ExitedIsFreed
CHECK_DEADLOCK FALSE
