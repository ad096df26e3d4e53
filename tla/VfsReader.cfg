SPECIFICATION ReaderSpec
CONSTANTS
    TrackFrames = 5
    SeekFrames <- Aligned
    QSize = 2
    Faults = {"read", "decode", "transform"}
    MaxFailures = 1
    MaxSeeks = 2
INVARIANTS ConsecutiveFrames EndsAfterLastFrame
PROPERTY CallsReturn
CHECK_DEADLOCK FALSE
