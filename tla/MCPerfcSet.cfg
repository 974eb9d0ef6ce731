CONSTANTS
    h1 = h1
    h2 = h2
    h3 = h3
    Handles <- MCHandles2
    Families = {"F1", "F2"}
    CtrVecs <- MCCtrVecs
    Prios = {1, 2}
    MaxCalls = 3
    AllocMayFail = TRUE
    CtrSub = FALSE
    MaxUpdates = 1
    MaxEmits = 2
    MaxClock = 2
    NsecPerSec = 1000000000
    U64Wrapped = U64Wrapped
    EmitMayFail = TRUE
SYMMETRY Symm
SPECIFICATION Spec
VIEW SetView
INVARIANTS
    TypeOK
    RegistryOwnsLive
