SPECIFICATION Spec
CONSTANTS
    p1 = p1
    p2 = p2
    NoProc = NoProc
    Procs = {p1, p2}
    Commands = {"daemon", "sync", "ingest", "withdraw", "rebuild"}
    MaxPosts = 2
    Eligible = {0, 1}
    Replies = {2}
    ActsLive = FALSE
    MaxPages = 2
    SnapshotEvery = 2
    MaxFaults = 1
INVARIANTS TrainedOnce SnapshotIsSettled CursorIsCovered
 
