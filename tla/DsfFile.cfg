SPECIFICATION Spec
CONSTANTS
    BLOCK = 2
    Channels = 2
    FrameBytes = 3
    Tolerance = 10
    WriteSizes = {1, 5}
    ReadSizes = {1, 6}
    SeekOffsets <- MCSeekOffsets
    TagSizes = {1, 2}
    MaxCalls = 4
    MaxReads = 3
    MaxSpoiled = 1
    MaxSessions = 3
    MaxFaults = 1
    NoFile = NoFile
INVARIANTS SavedFileRight ReadsAsWritten TagFound
CHECK_DEADLOCK FALSE
