CONSTANTS
    u1 = u1
    u2 = u2
    DefaultName = DefaultName
    TooLong = TooLong
    NoParam = NoParam
    MPolicyCount = 8
    PolicyInputs <- MCPolicyInputs
    ThrottleInputs <- MCThrottleInputs
    DurInputs <- MCDurInputs
    Modes <- MCModes
    ModeInputs <- MCModeInputs
    MaxSets = 1
    PerfcLevelMin = 0
    PerfcLevelMax <- MCPerfcLevelMax
    PerfcLevelDefault = 2
    HeaderValue <- MCHeaderValue
    Bodies <- MCBodies
    PutNames <- MCPutNames
    AddMayFail = TRUE
    MemMayFail = TRUE
    MaxReqs = 2
    MaxKvsOpens = 1
    Configured = {"capacity", "staging"}

SPECIFICATION RestSpec
VIEW RestView

INVARIANT RefcntMatchesEndpoints
