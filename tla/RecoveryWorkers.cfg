CONSTANTS
  Devices = {d1, d2}
  ChipSelects = 2
  SettleUnits = 1
  ProgramUnits = 1
  Images = 2
  Chunks = 1
  Attempts = 2
  CheckRetries = 2
  ResetRounds = 2
  MaxRecords = 2
  SignalPolls = 2
SPECIFICATION Spec
INVARIANTS ReportedWorkIsDone ExitTellsFailure
PROPERTIES KeepsContract WorkerEnds
