SPECIFICATION FairSpec
CONSTANTS
    Tasks = {t1, t2, t3, t4}
    t1 = t1
    t2 = t2
    t3 = t3
    t4 = t4
    Concurrency = 2
    MaxDisruptions = 1
INVARIANT FlagHasOwner
INVARIANT EachTaskInOnePlace
PROPERTY WaitingTaskDrained
CHECK_DEADLOCK FALSE
