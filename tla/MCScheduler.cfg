SPECIFICATION Spec
CONSTANTS
    CpuCount = 2
    Threads = {t1, t2, t3}
    Priorities = {1, 2}
    Channels = {ch1, ch2}
    WaitLimit = 2
    QueueLimit = 3
    AnyTick = FALSE
SYMMETRY ThreadSymmetry
INVARIANTS
    
    PicksFirstOfBest

    
