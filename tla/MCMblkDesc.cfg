CONSTANTS
    MaxKey = 5
    KmemMayFail = FALSE
    WlenPages = {0, 1, 3}
    RaPages = {0, 2}
    SizeBits = 3
    MmapMayFail = TRUE
    MunmapMayFail = TRUE
    MadviseMayFail = TRUE
SPECIFICATION MCSpec
VIEW MCView
INVARIANT TypeOK
INVARIANT WellFormed
PROPERTY RefinesAbstract
PROPERTY MadviseExact
