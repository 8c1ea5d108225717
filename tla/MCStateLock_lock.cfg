SPECIFICATION FairSpec
CONSTANTS
    p1 = p1
    p2 = p2
    p3 = p3
    NoProc = NoProc
    Procs = {p1, p2, p3}
    EmptyRetries = 1
    WriteFaults = FALSE
    MaxCrashes = 2
PROPERTIES DeadLockIsRecovered
