SPECIFICATION VfsSpec
CONSTANTS
    MaxFiles = 2
    Areas = 2
    Sizes = {0, 1, 2}
    MaxGeneration = 4
    MaxFaults = 1
    NoInode = NoInode
    Torn = Torn
    Blank = Blank
    NoTable = NoTable
    Zero = Zero
    Free = Free
    FileBlocks = 2
    MaxOffset = 2
    MaxFds = 2
    MaxInitrd = 5
    MaxPath = 6
    FileNames <- MCNames
    NoDir = NoDir
    Workloads <- MCWorkloads
INVARIANT FilesConsistent
INVARIANT WrittenIsFound
INVARIANT ListedOnce
INVARIANT PathsAgree
PROPERTY MetadataAtomic
