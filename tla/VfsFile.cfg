SPECIFICATION Spec
CONSTANTS
    FrameBytes = 3
    BlockBytes = 2
    Align = 2
    Channels = 2
    Frames = 5
    HeaderSize = 2
    MetaSize = 2
    Sizes = {1, 3, 7, 40}
    TagSizes = {1, 3}
    MaxFaults = 2
    MaxCalls = 4
INVARIANTS WholeBlocksRight NoEmptySuccess
PROPERTY ReadReturns
CHECK_DEADLOCK FALSE
