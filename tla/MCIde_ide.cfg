SPECIFICATION Spec
CONSTANTS
    Threads = {t, u}
    Boot = t
    Channels = {0, 1}
    Disks <- Places2
    Sectors = {0, 1}
    Data = {0, 1}
    Limit = 2
    MaxSectors = 2
    MaxFaults = 1
    None = None
INVARIANTS
    CompletionsInTurn
    ReadsLatest
    WriteAcknowledged
    CompletionAhead
PROPERTIES
    RequestsEnd
CHECK_DEADLOCK FALSE
