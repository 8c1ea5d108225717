SPECIFICATION FairSpec
CONSTANTS
    w1 = w1
    w2 = w2
    w3 = w3
    Workers = {w1, w2, w3}
    MaxQueue = 2
    MaxTasks = 4
    TaskFails = TRUE
PROPERTIES WaitMeansDone CallsReturn
CHECK_DEADLOCK FALSE
