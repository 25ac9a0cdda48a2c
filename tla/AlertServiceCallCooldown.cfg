SPECIFICATION Spec
CONSTANTS
  Cameras <- MCCameras
  Camera <- MCTwoCameras
  Unsendable = {}
  MaxAlerts = 3
  NtfyCooldown = 1
  AlertCooldown = 2
  EnableCalls = TRUE
  Recipients = 1
  Prefetch = 2
  MaxTime = 3
  MaxFaults = 0
INVARIANT
  CallCooldownPerCamera
