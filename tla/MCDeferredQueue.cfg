SPECIFICATION FairSpec
CONSTANTS
    Work = {w1, w2}
    Workers = {k1, k2}
    LIMIT = 3
    Budgets <- MCBudgets
INVARIANTS
    RingConsistent
PROPERTIES
    Fifo
    RunPendingTerminates
