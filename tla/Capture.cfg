SPECIFICATION Spec
CONSTANTS
    DriversCnt = 2
    Offline = {2}
    File <- LiveAndFile
    Failing = {1, 2}
    Threads = {t1, t2}
    BulkLimit = 4
    MaxTime = 2
    None = None
INVARIANTS
    InOrderOnce
    BulkMatchesCount
    NeverEarly
    FinishedMeansDone
PROPERTY PlayedOut
