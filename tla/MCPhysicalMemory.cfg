SPECIFICATION Spec
CONSTANTS
    MemoryMap <- MCMemoryMap
    MinAllocPage = 2
    CapacityPages = 4
    MaxRecords = 3
    DmaLimit = 6
    MaxReferences = 2
    Limits <- MCLimits
    Constraints <- MCConstraints
    Ranges <- MCRanges
    Watermarks <- MCWatermarks
INVARIANTS
    TypeOK
    PagesPartitioned
    RecordsConsistent
    IntegrityHolds
    PressureCurrent
    ContiguousRunStaysFree
