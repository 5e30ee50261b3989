CONSTANTS
  Request = {r1, r2}
  Origins = {"reporter_upload", "resident_link"}
  MaxGeneration = 2
SPECIFICATION Spec
INVARIANTS
  TypeOK
  ApprovalIsNeverHalfDone
  ReleasedIsSignedOff
  CenterReviewsApprovedWork
  ResidentGate
  RejectedUploadIsClosed
  RevisionIsOnRecord
PROPERTIES
  AuditTrailJoinsUp
  ImplementsReleaseControl
CHECK_DEADLOCK FALSE
