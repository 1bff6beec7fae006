SPECIFICATION Spec
CONSTANTS
    MaxThreads = 2
    MaxProcs = 2
    Signals = {9, 11, 34, 35}
    ActionMasks = {{35}}
    QueueMax = 2
    MaxSends = 3
    Workloads <- MCWorkloads
INVARIANT SignalsConsistent
PROPERTY LowestFirst
PROPERTY NotDropped
PROPERTY SentToOpenThread
CHECK_DEADLOCK FALSE
