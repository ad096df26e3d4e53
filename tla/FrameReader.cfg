SPECIFICATION ReadSpec
CONSTANTS
    Discs <- MCDiscs
    MaxSectors = 3
    MaxFaults = 1
    None = None
    MCInputs = {"file", "network", "drive"}
    MCTotal = 3
    MCSpan = 2
INVARIANTS FrameExact EveryFrameReadable
CHECK_DEADLOCK FALSE
