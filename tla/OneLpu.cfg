CONSTANTS
    Lpus = {"lpu0"}
    Fpgas = {}
    Modules <- MCModules
    TrayFpgas = {}
    ChildIds <- MCChildIds
    TimerAdd = {TRUE}
    Lines = {"pg", "bc"}
    ActiveLow = {"bc"}
    PgLine <- MCPgLine
    BcLine <- MCBcLine
    InitOrder <- MCInitOrder
    Calls = {c1}
    NoCall = NoCall
    Kinds = {"Warm"}
    PulseResults = {"Ok", "Absent"}
    ReadMayFail = FALSE
    LogDev = {"lpu0"}
    VrCalls = {TRUE, FALSE}
    IoctlResults = {TRUE}
    MaxTelemetryRetry = 2
    MaxReports = 2
    MayRestart = TRUE
SPECIFICATION FairSpec
INVARIANTS PollingFollowsOnline
PROPERTIES CallsAreAnswered HealthyComesOnline
