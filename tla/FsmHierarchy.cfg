CONSTANTS
    Lpus <- MCLpus
    Fpgas <- MCFpgas
    Modules <- MCModules
    TrayFpgas <- MCFpgas
    ChildIds <- MCChildIds
    TimerAdd = {TRUE}
SPECIFICATION FsmSpec
INVARIANTS BootTimerOnlyWhenPowered PoweredHasBootTimer AggregatesTrackChildren ModuleHidesNothing TrayHidesNoFault
