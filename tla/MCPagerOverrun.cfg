CONSTANTS
    Fanout = 2
    DirLevels = 2
    SysPages = 3
    TlbSize = 1
    KBottom = 8
    KTop = 7
    UserPages <- MCTinyUserPages
    Lookups <- MCNoLookups
    HostBases <- MCHostBases
    ChunkPages <- MCTinyChunks
    HostPages <- MCTinyPages
    MaxSlots = 1
    MaxRun = 2
    Opts <- MCOneOpt
SPECIFICATION Spec
INVARIANTS TablesNotMapped
