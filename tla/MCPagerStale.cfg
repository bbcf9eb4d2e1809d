CONSTANTS
    Fanout = 2
    DirLevels = 2
    SysPages = 8
    TlbSize = 2
    KBottom = 8
    KTop = 11
    UserPages <- MCTlbPages
    Lookups <- MCLookups
    HostBases <- MCHostBases
    ChunkPages <- MCChunkPages
    HostPages <- MCHostPages
    MaxSlots = 2
    MaxRun = 1
    Opts <- MCOneOpt
SPECIFICATION Spec
INVARIANTS TranslationCurrent
