SPECIFICATION Spec
CONSTANTS
    Threads = {idle, boot, a}
    Idle = idle
    Boot = boot
    None = none
    Priority <- MCPriority
    QuantumReset = 1
    Semaphores = {}
    Guarding = {}
    Count <- MCCount
    Limit <- MCLimit
    Mutants = {}
    NotificationEvents = {}
    SynchronizationEvents = {}
    HeaderArgs <- MCHeaderGood
    MaxSignal = 100
PROPERTIES
    ExitWakesWaiters
