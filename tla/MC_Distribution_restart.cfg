CONSTANTS
  Channel = {c1, c2}
  RedisFails = FALSE
  MaxRetries = 1
  MaxCrashes = 1
SPECIFICATION FairSpec
INVARIANTS
  PublishedIsComplete
PROPERTIES
  ResultsArrive
CHECK_DEADLOCK FALSE
