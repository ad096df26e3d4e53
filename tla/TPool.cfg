SPECIFICATION FairSpec
CONSTANTS
    N = 2
    Queues = {qa}
    Dispatchers = {d1}
    Consumers = {c1}
    QSize = 2
    InOnly = {}
    Modes = {"block", "try", "force"}
    IntMax = 99
    MaxCalls = 3
    AllocFails = FALSE
    Spurious = TRUE
INVARIANTS
    IInv
    OutputFits
    ResultsInOrder
    OneOwner
    AssertionsHold
PROPERTIES
    ConsumerServed
    CallsReturn
CHECK_DEADLOCK FALSE
