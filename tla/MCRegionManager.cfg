CONSTANTS
    PageSize = 2
    NumLists = 3
    MemGrow = 6
    PagerMem = 2
    MaxSlots = 2
    HostBases <- MCHostBases
    GuestAddrs <- MCGuestAddrs
    Sizes <- MCSizes
    Cuts <- MCPageCuts
SPECIFICATION Spec
INVARIANTS TypeOK NoOverlap InsideChunks NoLeak SearchComplete PagesNotShared AllocateAssertionsHold
PROPERTIES BindingStable ImplementsPool
