SPECIFICATION Spec
CONSTANTS
    Threads = {idle, boot, a}
    Idle = idle
    Boot = boot
    None = none
    Priority <- MCPriority
    QuantumReset = 1
    Semaphores = {s}
    Guarding = {}
    Count <- MCCount
    Limit <- MCLimit
    Mutants = {m}
    NotificationEvents = {e}
    SynchronizationEvents = {f}
    HeaderArgs <- MCHeaderAny
    MaxSignal = 2
INVARIANTS
    MutantConsistent
    NoInternalBugCheck
CHECK_DEADLOCK FALSE
