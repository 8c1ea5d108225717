SPECIFICATION FairSpec
CONSTANTS
    w1 = w1
    w2 = w2
    Workers = {w1, w2}
    MaxQueue = 1
    MaxTasks = 6
    Pages = 4
    MaxPages = 3
    MaxCalls = 2
    FetchFails = TRUE
    HandleFails = TRUE
INVARIANTS SharingIsSafe CursorBehindHandled
PROPERTIES SyncEnds
CHECK_DEADLOCK FALSE
