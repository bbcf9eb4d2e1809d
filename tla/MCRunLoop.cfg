CONSTANTS
    Signals <- MCSignals
    Capacity = 2
    MaxRaise = 3
    MaxSteps = 3
SPECIFICATION Spec
INVARIANTS TypeOK NoExtraDelivery NoSignalLost OverrunNeedsBacklog
PROPERTIES NoRollback LoopProgresses
