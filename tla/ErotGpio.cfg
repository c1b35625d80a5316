CONSTANTS
  Clients = {"ap", "exit"}
  Ids = {0, 1}
  Resends = 1
  MaxTries = 1
  MaxEvents = 2
  MaxInFlight = 2
SPECIFICATION Spec
CHECK_DEADLOCK FALSE
INVARIANTS FatalApIsReported
PROPERTIES ChecksEnd RecoveryExitSeen
