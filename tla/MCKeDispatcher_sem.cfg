SPECIFICATION Spec
CONSTANTS
    Threads = {idle, boot, a, b}
    Idle = idle
    Boot = boot
    None = none
    Priority <- MCPriority
    QuantumReset = 1
    Semaphores = {s}
    Guarding = {s}
    Count <- MCCount
    Limit <- MCLimit
    Mutants = {}
    NotificationEvents = {}
    SynchronizationEvents = {}
    HeaderArgs <- MCHeaderGood
    MaxSignal = 100
INVARIANTS
    IInv
    WaitListsExact
    ReapedIsOffCpu
    LockHandOver
    NoInternalBugCheck
    PermitsConserved
PROPERTIES
    NoBarging
    HighestFirst
