CONSTANTS
  MaxGeneration = 2
  MaxLost = 1
  Caller = {c1, c2}
  MaxTokens = 4
  MaxExpiries = 2
  MaxMishaps = 1
  Parts = 3
  PartSize = 2
  Concurrency = 2
  Key = {k1, k2}
  MaxEvents = 4
  FlushBatchSize = 2
  MaxBatchSize = 3
  MaxQueuedEvents = 2
  MaxSendAttempts = 2
  MaxRollupKeys = 1
  BucketCapacity = 1
  MaxRefills = 1
SPECIFICATION Spec
INVARIANTS
  SessionIsKept
  EventsAddUp
PROPERTIES
  ScreensAreUsable
  PartsBecomeOne
CHECK_DEADLOCK FALSE
