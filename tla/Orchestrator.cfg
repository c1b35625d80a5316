CONSTANTS
    Lpus = {}
    Fpgas = {"fpga0", "fpga1"}
    Modules = {"m0"}
    TrayFpgas = {"fpga0", "fpga1"}
    ChildIds <- MCChildIds
    TimerAdd = {TRUE, FALSE}
    Lines = {"pg", "bc0", "bc1"}
    ActiveLow = {}
    PgLine <- MCPgLine
    BcLine <- MCBcLine
    InitOrder <- MCInitOrder
    Calls = {c1, c2}
    NoCall = NoCall
    Kinds = {"Cold"}
    PulseResults = {"Ok", "HwError"}
    ReadMayFail = TRUE
    LogDev = {}
    VrCalls = {}
    IoctlResults = {TRUE}
    MaxTelemetryRetry = 1
    MaxReports = 1
    MayRestart = FALSE
SYMMETRY CallSymmetry
SPECIFICATION Spec
INVARIANTS CallAccounting OnlineHasBootComplete
PROPERTIES FsmSpec
