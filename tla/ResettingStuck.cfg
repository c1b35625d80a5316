CONSTANTS
    Lpus = {"lpu0"}
    Fpgas = {}
    Modules <- MCModules
    TrayFpgas = {}
    ChildIds <- MCChildIds
    TimerAdd = {TRUE}
    Lines = {"pg", "bc"}
    ActiveLow = {"bc"}
    PgLine <- MCPgLine
    BcLine <- MCBcLine
    InitOrder <- MCInitOrder
    Calls = {c1}
    NoCall = NoCall
    Kinds = {"Warm", "Cold"}
    PulseResults = {"Ok"}
    ReadMayFail = FALSE
    LogDev = {}
    VrCalls = {}
    IoctlResults = {TRUE}
    MaxTelemetryRetry = 2
    MaxReports = 1
    MayRestart = FALSE
SPECIFICATION Spec
INVARIANT ResettingIsTransient
