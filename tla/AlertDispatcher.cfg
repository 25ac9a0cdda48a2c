SPECIFICATION DispatcherSpec
CONSTANTS
  QueueSize = 2
  Retries = 3
  MaxSubmits = 4
INVARIANTS
  DispatcherTypeOK
  UnfinishedAccounting
  LatestNeverEvicted
  ExactlyOnePlace
  AlertsJustified
PROPERTIES
  EverySubmissionSettles
  ImplementsBuffer
