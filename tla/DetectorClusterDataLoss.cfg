SPECIFICATION Spec
CONSTANTS
  r1 = r1
  r2 = r2
  none = none
  Replicas <- MCReplicas
  MaxFrames = 3
  Cameras = {1, 2}
  Camera <- MCThreeCameras
  Hash <- MCThreeHashes
  Persons = {1, 2}
  Corrupt = {3}
  NoHash <- MCNoHash
  WarmupLimit = 0
  BufferSize = 1
  MaxFaults = 1
INVARIANT
  NoDataLoss
