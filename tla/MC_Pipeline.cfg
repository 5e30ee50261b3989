CONSTANTS
  Origins = {"reporter_upload", "live_vod"}
  Analyze = {TRUE, FALSE}
  MaxGeneration = 2
  MediaAttempts = 1
  AnalysisAttempts = 2
  MaxRetries = 2
  MaxCrashes = 0
SPECIFICATION FairSpec
INVARIANTS
  TypeOK
  ReviewSeesTheEdit
  WorkIsBacked
  RevisionsAreClosed
  FailedMeansStopped
PROPERTIES
  StagesEnd
CHECK_DEADLOCK FALSE
