SPECIFICATION Spec
CONSTANTS
  r1 = r1
  r2 = r2
  none = none
  Replicas <- MCReplicas
  MaxFrames = 5
  Cameras = {1}
  Camera <- MCOneCamera
  Hash <- MCImages
  Persons = {2, 3, 4}
  Corrupt = {5}
  NoHash <- MCNoHash
  WarmupLimit = 1
  BufferSize = 1
  MaxFaults = 1
INVARIANTS
  TypeOK
  FrameConservation
  SkipsJustified
PROPERTY
  FramesSettle
