SPECIFICATION Spec
CONSTANTS
  Alerts = 3
  Threads = {"t1", "t2"}
  MaxFaults = 3
  MaxRepeats = 1
INVARIANTS
  TypeOK
  DeliveriesAccounted
  ResolvedIsLastWord
PROPERTY
  AlertsGetThrough
