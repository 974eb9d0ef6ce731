CONSTANTS
    r1 = r1
    r2 = r2
    Recorders <- MCTwoRecorders
    MaxBounds = 1
    MaxBound = 12
    MapSize = 4
    MaxSample = 15
    MaxRecords = 2
    DefaultCnt = 26
    MaxEmits = 0
    EmitMaxCnt = 0
    EmitMayFail = FALSE
SPECIFICATION Spec
INVARIANT
    MaxIsRecordedMaximum
SYMMETRY Symm
