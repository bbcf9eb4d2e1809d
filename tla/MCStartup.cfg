SPECIFICATION Spec
CONSTANTS
    PageWords = 8
    Grow = 16
    StackBase = 160
    KernelTop = 240
    Memory = 4
    NullEnd = 8
    Touches = {4, 140, 123, 170}
    Mappable = {112, 120}
    P = 4
    Programs <- MCPrograms
    Interpreter <- MCInterpreter
    LoaderBase = 200
    SignalPage = 1
    EnvPages = 4
    Inputs <- MCInputs
INVARIANTS
    SegmentsLoaded
    InitialStack
PROPERTIES
    FaultEnds
