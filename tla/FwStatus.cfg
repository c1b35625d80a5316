CONSTANTS
  d1 = d1
  d2 = d2
  Devices <- MCDevices
  Mixes <- MCMixes
  Lacks <- MCLacks
  Probe <- MCProbe
  MaxEvents = 2
SPECIFICATION Spec
CHECK_DEADLOCK FALSE
INVARIANTS SettlingHasTimer ConfigsPublished HealthIsCurrent
