SPECIFICATION Spec
CONSTANTS
    Capacity = 3
    MaxBatch = 2
    MaxFrames = 5
    MaxControl = 3
INVARIANT FramesAccounted
PROPERTY ImplementsFifo
CHECK_DEADLOCK FALSE
