SPECIFICATION Spec
CONSTANTS
    FS_MAX_NODES = 4
    Names <- MC_Names
    MaxDepth = 2
    FS_MAX_FILE_SIZE = 1
    initial_nodes <- MC_Initial
    HOME <- MC_Home
    Datas <- MC_OneSector
    Volumes = {TRUE}
    MaxFaults = 0
    MaxCrashes = 0
INVARIANTS
PROPERTIES
    ImplementsTree
