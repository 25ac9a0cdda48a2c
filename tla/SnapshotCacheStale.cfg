SPECIFICATION Spec
CONSTANTS
  h1 = h1
  h2 = h2
  Handlers <- MCOneHandler
  MaxFrames = 2
  Backlog = 1
  FreshFor = 1
  MaxTime = 2
INVARIANT
  CachedReplyIsFresh
