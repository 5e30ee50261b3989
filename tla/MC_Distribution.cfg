CONSTANTS
  Channel = {c1, c2}
  RedisFails = TRUE
  MaxRetries = 3
  MaxCrashes = 0
SPECIFICATION FairSpec
INVARIANTS
  TypeOK
  PublishedIsComplete
  FailedMeansStopped
  RetractedIsOffAir
PROPERTIES
  QueuedIsResolved
CHECK_DEADLOCK FALSE
