CONSTANTS
  Boards = 2
  StatusTries = 2
  ImageCount = 2
  QueueSize = 3
  Polls = 2
  MaxCodes = 5
  MaxForces = 2
SPECIFICATION VeraSpec
INVARIANTS NoPartialBoot NoCodePassedOver
PROPERTIES WorkerReports
