SPECIFICATION Spec
CONSTANTS
    Threads = {t1, t2}
    Isos = {i1}
    Handles = {h1, h2}
    Contexts = {c1, c2, c3, c4, c5, c6, c7}
    Tags = {a, b}
    Offsets = {1}
    Settings <- MCSettings
    MaxIsos = 1
    MaxFaults = 1
    MaxRefs = 3
    None = None
INVARIANTS NoContextLeaked NoUseAfterFree FlushedTagKept
PROPERTY CallsReturn
CHECK_DEADLOCK FALSE
