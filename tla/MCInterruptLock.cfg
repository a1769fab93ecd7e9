SPECIFICATION FairSpec
CONSTANT Cpus = {c1, c2}
INVARIANTS
    MutualExclusion
    HolderUninterrupted
PROPERTIES
    FlagRestored
    SomeoneEnters
