SPECIFICATION Spec
CONSTANTS
    DriversCnt = 1
    Offline = {1}
    File <- FileWithBig
    Failing = {}
    Threads = {t1}
    BulkLimit = 1
    MaxTime = 3
    None = None
INVARIANT FinishedMeansDone
