SPECIFICATION ReaderSpec
CONSTANTS
    TrackFrames = 5
    SeekFrames <- Aligned
    QSize = 2
    Faults = {}
    MaxFailures = 1
    MaxSeeks = 1
INVARIANT SeekReachesFrame
CHECK_DEADLOCK FALSE
