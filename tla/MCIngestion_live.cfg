SPECIFICATION FairSpec
CONSTANTS
    p1 = p1
    p2 = p2
    NoProc = NoProc
    Procs = {p1}
    Commands = {"daemon"}
    MaxPosts = 3
    Eligible = {1, 3}
    Replies = {2}
    ActsLive = TRUE
    MaxPages = 1
    SnapshotEvery = 2
    MaxFaults = 2
PROPERTIES EveryPostSettled
