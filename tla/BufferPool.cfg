SPECIFICATION Spec
CONSTANTS
    Threads = {t1, t2}
    Buffers = {b1, b2, b3}
    MaxRefs = 2
    MaxWrites = 1
    None = None
SYMMETRY Symmetry
INVARIANTS NoUseAfterFree NothingLeaked
PROPERTY WriterAlone
CHECK_DEADLOCK FALSE
