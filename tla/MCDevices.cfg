\* Devices and the platform.  Every limit is small enough to be reached.
SPECIFICATION Spec
CHECK_DEADLOCK FALSE
CONSTANTS
    Parts = {"interrupts", "console", "devices", "platform"}
    Irqs = {0, 1, 2, 8}
    MaskCalls = {2, 8, 20, 256}
    MaskLimit = 256
    MaxInterrupts = 3
    MaxIrqCalls = 5
    ScrollbackRows = 4
    ScrollbackColumns = 3
    FitRows = 3
    FitColumns = 2
    Chars = {"a", "b"}
    MaxWritten = 5
    MaxKeys = 3
    Functions <- MCFunctions
    SlotCount = 4
    CapGuard = 4
    DeviceLimit = 3
    StorageLimit = 2
    VectorSlots = 2
    RouteLimit = 2
    ControllerLimit = 1
    PortLimit = 3
    BlockLimit = 3
    Roots <- MCRoots
    Madts <- MCMadts
    LegacyIrqs = {0, 1, 2}
    EntriesAssumed = 3
    ControllerMax = 2
    OverrideMax = 2
    RouteMax = 3
    Machines <- MCMachines
    ClockWord = 1000
    Femto = 100
    Hours = {0, 10, 11, 12, 22, 23}
    MaxTicks = 2
INVARIANTS
    InterruptsSound
    
    DevicesSound
    PlatformSound
PROPERTIES
    ProofsEnd
