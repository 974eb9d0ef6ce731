CONSTANTS
    t1 = t1
    t2 = t2
    Threads <- MCThreads
    NBlocks = 3
    UniqDelta = 2
    MaxUniqGen = 4
    MaxCrashes = 1
    MsyncMayFail = TRUE
    KmemMayFail = FALSE
SYMMETRY Symm
SPECIFICATION Spec
INVARIANT CommittedDurable
