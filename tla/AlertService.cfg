SPECIFICATION Spec
CONSTANTS
  Cameras <- MCCameras
  Camera <- MCMixed
  Unsendable = {2}
  MaxAlerts = 3
  NtfyCooldown = 1
  AlertCooldown = 2
  EnableCalls = TRUE
  Recipients = 2
  Prefetch = 2
  MaxTime = 3
  MaxFaults = 1
INVARIANTS
  TypeOK
  CooldownsHold
  AlertConservation
  CountersAddUp
PROPERTY
  AlertsSettle
