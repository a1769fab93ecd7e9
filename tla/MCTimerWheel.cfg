SPECIFICATION FairSpec
CONSTANTS
    SLOTS = 2
    TIMERS = 4
    Threads = {t1, t2}
    MaxTick = 4
    Advances <- TickByTick
    Rearms <- RearmOtherSlot
INVARIANTS
    WheelSound
PROPERTIES
    ExpiresOnTime
    EveryoneWakes
