SPECIFICATION IOSpec
CONSTANTS
    GuestCalls <- MCCalls
    Handlers <- MCHandlers
    HostErrnos = {11}
    Counts = {0, 3}
    Signals = {2, 9, 40, 63, 70}
    Actions = {"h1"}
    Resources = {0, 1}
    RLIMIT_NLIMITS = 1
    Limits = {1, 2}
    GuestBase = 10
    Size = 2
    Regions = 3
    Layouts <- MCLayouts
    BufferSizes = {0, 1, 3, 5}
INVARIANT
    SlotsInRange
