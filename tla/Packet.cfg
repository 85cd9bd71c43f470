SPECIFICATION Spec
CONSTANTS
    Packets = {p1, p2}
    Threads = {t1, t2}
    t1 = t1
    t2 = t2
    HandlesOf <- TwoAndOne
    Bytes = 2
    Sizes = {1}
    MaxLayers = 2
    Careful = TRUE
    None = None
SYMMETRY Symmetry
INVARIANTS
    CountExact
    NotAfterFree
    NothingLeaks
    WindowsInside
CHECK_DEADLOCK FALSE
