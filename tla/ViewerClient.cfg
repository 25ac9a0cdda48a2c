SPECIFICATION Spec
CONSTANTS
  Cameras = {1, 2}
  Days = 3
  MaxAge = 0
  MaxCaptures = 1
  MaxFaults = 1
  MaxPending = 2
  MaxClicks = 3
INVARIANTS
  TypeOK
  CardsOpen
PROPERTY
  LiveFeed
