CONSTANTS
    h1 = h1
    h2 = h2
    h3 = h3
    Handles <- MCHandles2
    Families = {"F1", "F2"}
    CtrVecs <- MCCtrVecs
    Prios = {1, 2}
    MaxCalls = 4
    AllocMayFail = FALSE
    CtrSub = FALSE
    MaxUpdates = 0
    MaxEmits = 0
    MaxClock = 1
    NsecPerSec = 1000000000
    U64Wrapped = U64Wrapped
    EmitMayFail = FALSE
SYMMETRY Symm
SPECIFICATION Spec
VIEW SetView
INVARIANT
    HandleSeesLive
