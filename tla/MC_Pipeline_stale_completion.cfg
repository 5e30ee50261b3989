CONSTANTS
  Origins = {"reporter_upload"}
  Analyze = {TRUE}
  MaxGeneration = 2
  MediaAttempts = 1
  AnalysisAttempts = 1
  MaxRetries = 1
  MaxCrashes = 1
SPECIFICATION Spec
INVARIANTS
  ReviewSeesTheEdit
CHECK_DEADLOCK FALSE
