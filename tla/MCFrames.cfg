SPECIFICATION Spec
CONSTANTS
    MaxThreads = 5
    MaxProcs = 3
    MaxWaiters = 2
    MaxPid = 6
    MaxTicks = 1
    Addrs = {a1}
    Workloads <- FrameWorkloads
PROPERTY FramesNotMixed
