SPECIFICATION Spec
CONSTANTS
    SS = 2
    CSize = 2
    NFatEnt = 5
    FatPerSec = 4
    EPS = 2
    NRootSec = 1
    Types = {"FAT16", "FAT32"}
    Paths <- MCPaths
    Fils = {f1, f2}
    Modes <- MCModes
    MaxCalls = 5
    Offsets = {0, 5}
    Counts = {3}
    Payload <- MCPayload
INVARIANTS
    VolumeConsistent
    FreeCountExact
    DotDotRight
PROPERTIES
    ImplementsFileStore
CHECK_DEADLOCK FALSE
SYMMETRY FilSymmetry
