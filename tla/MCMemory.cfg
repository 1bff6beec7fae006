SPECIFICATION Spec
CONSTANTS
    Word = 64
    PageSize = 4
    UserMin = 4
    UserMax = 28
    DynBase = 8
    InterpBase = 12
    MaxElfPages = 2
    InterpMax = 6
    DynamicEntry = 2
    MaxProcs = 3
    MaxPages = 6
    MaxFrames = 10
    StackPage = 5
    HeapPages = 1
    Images <- MCImages
    Written = {"a"}
    Workloads <- MCWorkloads
INVARIANT FramesConsistent
INVARIANT ImagesAsLinked
PROPERTY PrivateMemories
CHECK_DEADLOCK FALSE
