\* The loader and the start of the kernel.
SPECIFICATION Spec
CHECK_DEADLOCK FALSE
CONSTANTS
    Parts = {"loader", "startup"}
    MaxTables = 3
    MaxCommandLine = 2
    MaxMapEntries = 12
    PageSize = 4
    Selections <- MCSelections
    Firmwares <- MCFirmwares
    Images <- MCImages
    FirmwareMap <- MCFirmwareMap
    Cells = 48
    IdentityPages = 12
    Slack = 3
    MaxAttempts = 4
    MaxGrowth = 2
    Manifest <- MCManifest
    Profiles <- MCProfiles
    FlagSets <- MCFlagSets
    Builds <- MCBuilds
    Rootless = {}
    Requests = {"Running", "MemoryReady", "Halting"}
    ExceptionAt = {8, 20}
    MaxExceptions = 2
    MaxRequests = 2
INVARIANTS
    
    StartupSound
PROPERTIES
    LoaderEnds
    PanicHalts
