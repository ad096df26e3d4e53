SPECIFICATION Spec
CONSTANTS
    Workers = {w1, w2}
    DecoderCount = 2
    QSize = 2
    MaxCount = 4
    MaxBatches = 2
    MaxBad = 2
    MayRefuse = TRUE
    None = None
INVARIANTS OutputsRight FirstErrorReported WorkersSafe
PROPERTY CallReturns
CHECK_DEADLOCK FALSE
