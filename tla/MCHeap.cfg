SPECIFICATION Spec
CONSTANTS
    P = 3
    ChunkSize = 48
    DataAddr = 300
    DataSize = 4
    Lengths = {3, 5, 9}
    Breaks = {303, 306, 309, 311, 312}
    Fixed = {201, 204, 306}
    Prots = {"none", "rw"}
    MaxCalls = 4
\* No property claims anything of the calls after one that, other than brk, was
\* about the memory of the break: such sequences end with that call.
CONSTRAINT
    AwayFromBreak
INVARIANTS
    AssertionsHold
    MappedIsAllocated
    BreakMapped
    CallServed
PROPERTY
    OthersUntouched
