CONSTANTS
    r1 = r1
    r2 = r2
    Recorders <- MCOneRecorder
    MaxBounds = 3
    MaxBound = 12
    MapSize = 4
    MaxSample = 15
    MaxRecords = 2
    DefaultCnt = 26
    MaxEmits = 1
    EmitMaxCnt = 1
    EmitMayFail = FALSE
SPECIFICATION Spec
VIEW EmitView
INVARIANTS
    TypeOK
    HistogramExact
    DefaultBoundsValid
PROPERTIES
    EmitBracketed
    QuiescentEmitExact
