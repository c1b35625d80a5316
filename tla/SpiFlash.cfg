CONSTANTS
  Spis = {"code", "data"}
  PortOf <- MCPortOf
  KindsOf <- MCKindsOf
  MaxHistory = 2
  MaxDumps = 2
  MaxOps = 3
  MaxPowerOns = 1
  MaxFaults = 1
SPECIFICATION Spec
CHECK_DEADLOCK FALSE
INVARIANTS FlashesSelectedChip PortHasOwner NewestDumpsReadable
PROPERTIES OperationsEnd
