SPECIFICATION Spec
CONSTANTS
    MaxProcs = 2
    MaxFds = 3
    MinFd = 1
    MaxHandles = 2
    MaxPipes = 1
    PipeCapacity = 1
    MaxTransfers = 1
    MaxWatches = 1
    MaxMaps = 1
    Workloads = {{"pipe", "dup", "close", "pipe_io", "send", "fork", "exit"},
                 {"open", "dup2", "close", "fork", "exec"},
                 {"open", "close", "epoll", "mmap", "fork", "exec", "exit"}}
    ForkOutcomes = {"ok", "mappings"}
INVARIANT HandlesConsistent
PROPERTY EndsFinal
CHECK_DEADLOCK FALSE
