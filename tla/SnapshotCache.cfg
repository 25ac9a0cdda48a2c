SPECIFICATION Spec
CONSTANTS
  h1 = h1
  h2 = h2
  Handlers <- MCHandlers
  MaxFrames = 3
  Backlog = 1
  FreshFor = 1
  MaxTime = 2
INVARIANTS
  TypeOK
  RepliesWhole
