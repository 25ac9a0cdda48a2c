SPECIFICATION Spec
CONSTANTS
  FrameWidth = 5
  FrameHeight = 5
  BlockSize = 2
  MotionThreshold = 8
  MinActiveBlocks = 1
  LightingShiftPercent = 75
  Scenes = {1, 2, 3}
  Picture <- MCPicture
  ZoneChoices <- MCZoneChoices
  MinInterval = 2
  PostRoll = 3
  MaxFrames = 4
  MaxTime = 8
INVARIANTS
  TypeOK
  DispatchSpacing
  PostRollJustified
  MotionJustified
