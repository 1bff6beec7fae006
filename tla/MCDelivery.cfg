SPECIFICATION Spec
CONSTANTS
    MaxThreads = 2
    MaxProcs = 2
    Signals = {11}
    ActionMasks = {{}}
    QueueMax = 0
    MaxSends = 0
    Workloads <- MCDelivering
PROPERTY Delivered
CHECK_DEADLOCK FALSE
