SPECIFICATION Spec
CONSTANTS
    N = 2
    Queues = {qa, qb}
    Dispatchers = {d1}
    Consumers = {c1}
    QSize = 1
    InOnly = {qb}
    Modes = {"block", "try", "force"}
    IntMax = 99
    MaxCalls = 1
    AllocFails = TRUE
    Spurious = FALSE
INVARIANTS
    NoUseAfterFree
CHECK_DEADLOCK FALSE
