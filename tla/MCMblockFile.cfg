CONSTANTS
    t1 = t1
    t2 = t2
    Threads <- MCThreads
    NBlocks = 3
    UniqDelta = 2
    MaxUniqGen = 4
    MaxCrashes = 2
    MsyncMayFail = FALSE
    KmemMayFail = FALSE
SYMMETRY Symm
SPECIFICATION Spec
INVARIANT TypeOK
INVARIANT ExclusiveOwnership
INVARIANT CommittedDurable
INVARIANT MapMatchesSlots
