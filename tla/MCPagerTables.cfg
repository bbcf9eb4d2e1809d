CONSTANTS
    Fanout = 2
    DirLevels = 2
    SysPages = 8
    TlbSize = 1
    KBottom = 8
    KTop = 8
    UserPages <- MCUserPages
    Lookups <- MCNoLookups
    HostBases <- MCHostBases
    ChunkPages <- MCChunkPages
    HostPages <- MCHostPages
    MaxSlots = 2
    MaxRun = 3
    Opts <- MCOpts
SPECIFICATION Spec
INVARIANTS EffectivePermission TablesNotMapped
PROPERTIES NoOverwrite
