CONSTANTS
    Bsp = 1
    Madts <- MCMadts
    MaxCpus = 4
    Reliable = FALSE
SPECIFICATION FairSpec
CHECK_DEADLOCK FALSE
INVARIANTS
    StartsAccounted
PROPERTIES
    NeverRestarted
    BspFinishes
