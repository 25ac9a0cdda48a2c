SPECIFICATION Spec
CONSTANTS
  b1 = b1
  b2 = b2
  b3 = b3
  b4 = b4
  Buffers <- MCBuffers
  ChanSize = 2
  MaxFrames = 3
  MaxDisconnects = 1
INVARIANTS
  TypeOK
  BufferOwnership
  PublishedFaithfully
  CleanShutdown
PROPERTIES
  ShutdownCompletes
  BrokerReconnects
