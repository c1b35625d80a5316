CONSTANTS
    ChannelSize = 1
    FailingCalls <- MCFailingCalls
    GpioFaults = {"assert", "hold", "release", "clearAssert"}
    MaxResults = 2
    MayRestart = TRUE
SPECIFICATION FairSpec
INVARIANTS GatesPassed StrapsHeldInSession FinishedSessionIsClean SentinelNeverCompletes ResultsAreKept
PROPERTIES AbortEnds PushesResolve
