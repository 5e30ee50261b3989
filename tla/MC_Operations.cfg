CONSTANTS
  Handler = {h1, h2}
  MaxGeneration = 2
  MaxAttempts = 3
  MaxApiCrashes = 1
  MaxCommits = 2
  MaxLosses = 2
  Worker = {"media-worker"}
  MaxDcpMoves = 1
  MaxArbiterFaults = 2
SPECIFICATION Spec
PROPERTIES
  WeekIsReviewed
  DeploymentIsTrue
  QueueFollowsDcp
CHECK_DEADLOCK FALSE
