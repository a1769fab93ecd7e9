\* Files and programs.
SPECIFICATION Spec
CHECK_DEADLOCK FALSE
CONSTANTS
    Parts = {"fat", "storage", "programs", "syscalls"}
    ClusterCount = 5
    Slots = 2
    Paths <- MCPaths
    Contents <- MCContents
    FaultyCalls = {"create", "write", "mkdir"}
    MaxFatCalls = 4
    MaxFaults = 1
    MaxWrites = 12
    Wide = 8
    Narrow = 4
    DeviceKinds <- MCDeviceKinds
    Disks <- MCDisks
    MaxDevices = 1
    MaxEntries = 2
    MaxStorageCalls = 2
    PathsUsed <- MCPathsUsed
    Files <- MCFiles
    PrefixSize = 6
    PathSize = 20
    MaxMounts = 2
    DefaultRoot <- MCDefaultRoot
    MaxThreads = 2
    Pages = {1, 2, 3, 4}
    PageBudget = 4
    ArgLists <- MCArgLists
    VectorSize = 6
    MaxProgramCalls = 5
    Words = 5
    UserLow = 1
    UserHigh = 3
    MaxSysCalls = 3
INVARIANTS
    
    StorageSound
    
    
