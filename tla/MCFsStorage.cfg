SPECIFICATION Spec
CONSTANTS
    FS_MAX_NODES = 3
    Names <- MC_Names
    MaxDepth = 2
    FS_MAX_FILE_SIZE = 2
    initial_nodes <- MC_Initial
    HOME <- MC_Home
    Datas <- MC_TwoSectors
    Volumes = {TRUE, FALSE}
    MaxFaults = 1
    MaxCrashes = 2
INVARIANTS
    MirrorsDisk
PROPERTIES
    MoveLosesNothing
    BystandersKept
    TornWriteMixes
CONSTRAINT
    OneKindOfTrouble
