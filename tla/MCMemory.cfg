\* Memory and processes: address spaces and the page-fault policy, the heap,
\* processes and threads, the boot page tables.
SPECIFICATION Spec
CHECK_DEADLOCK FALSE
CONSTANTS
    Parts = {"vm", "heap", "process", "boot"}
    Spaces = {1, 2}
    Pages = {1, 2}
    Frames = {1, 2, 3, 4, 5, 6}
    Tracked = {1, 2, 3, 4}
    Cells = {0}
    MaxRegions = 1
    MaxCopy = 1
    ProtectShared = FALSE
    MaxTries = 2
    Values = {1}
    Kinds = {"write"}
    Rights <- MCRights
    MaxCalls = 3
    HeapPages = {1, 2, 4}
    PageUnits = 6
    HeaderUnits = 1
    MinSplit = 1
    MaxSpan = 2
    SlabSizes <- MCSlabs
    Requests = {1, 2, 7}
    ObjectSize = 1
    MaxGuards = 1
    MaxLive = 2
    ProcAddresses = {1, 2, 3}
    ThreadAddresses = {1, 2}
    EventLimit = 2
    Events = {1}
    Statuses = {1}
    DestroyLinked = FALSE
    MaxIds = 3
    MaxThreadIds = 2
    MaxSteps = 7
    Boots <- MCBoots
    Budgets = {3, 9}
    PageCells = 2
    TableSpan = 3
    LowCells = 6
    HalfWindow = 2
    HighBase = 20
    GuardPages = {4, 21}
INVARIANTS
    SpacesSound
    HeapSound
    
    BootPagingSound

    
