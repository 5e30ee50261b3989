CONSTANTS
  Origins = {"reporter_upload"}
  Analyze = {TRUE}
  MaxGeneration = 1
  MediaAttempts = 1
  AnalysisAttempts = 1
  MaxRetries = 1
  MaxCrashes = 1
SPECIFICATION FairSpec
PROPERTIES
  OutcomesArrive
CHECK_DEADLOCK FALSE
