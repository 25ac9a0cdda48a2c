SPECIFICATION Spec
CONSTANTS
  Day = 3
  Scenes = {1, 2, 3}
  Retries = 2
  MaxFaults = 2
INVARIANTS
  TypeOK
  ScheduleAgrees
  OneStream
  ReferenceAccounted
PROPERTY
  CaptureResumes
