\* A directory with more names than its first cluster holds.
SPECIFICATION Spec
CHECK_DEADLOCK FALSE
CONSTANTS
    Parts = {"fat"}
    ClusterCount = 5
    Slots = 2
    Paths <- MCPathsCrowded
    Contents <- MCContents
    FaultyCalls = {"create", "write", "mkdir"}
    MaxFatCalls = 4
    MaxFaults = 0
    MaxWrites = 10
    Wide = 16
    Narrow = 4
    DeviceKinds <- MCDeviceKinds
    Disks <- MCDisks
    MaxDevices = 2
    MaxEntries = 2
    MaxStorageCalls = 3
    PathsUsed <- MCPathsUsed
    Files <- MCFiles
    PrefixSize = 6
    PathSize = 20
    MaxMounts = 2
    DefaultRoot <- MCDefaultRoot
    MaxThreads = 2
    Pages = {1, 2, 3, 4}
    PageBudget = 4
    ArgLists <- MCArgLists
    VectorSize = 6
    MaxProgramCalls = 5
    Words = 6
    UserLow = 1
    UserHigh = 3
    MaxSysCalls = 3
INVARIANT DirectoriesProtected
