SPECIFICATION Spec
CONSTANTS
    Setups <- Served
    Tracks = 2
    Length = 4
    QCapacity = 2
    MaxBatch = 2
    Faults = {"setup", "open", "start", "create", "seek", "alloc", "read", "short", "decode", "writedsd", "convert", "writepcm", "abort", "end", "finalize"}
    MaxFaults = 2
    Cancels = TRUE
INVARIANTS DeliveredInOrder CompleteOnSuccess FaultReported BuffersReturned CancelBounded TrackEndsFirst
CHECK_DEADLOCK FALSE
PROPERTY RunReturns
