SPECIFICATION FairSpec
CONSTANTS
    HEAP_SIZE = 20
    HDR = 2
    ALIGN = 2
    UMAX = 31
    Requests <- MC_Requests
    Counts <- MC_Counts
INVARIANTS
    Tiled
    NoSharedBytes
    UsedIffHeld
PROPERTIES
    MallocReturns
