CONSTANTS
  Channel = {c1, c2}
  RedisFails = FALSE
  MaxRetries = 1
  MaxCrashes = 0
SPECIFICATION FairSpec
PROPERTIES
  AllPublishedIsReported
CHECK_DEADLOCK FALSE
