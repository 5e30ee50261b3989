CONSTANTS
  Client = {screen}
  Key = {mp4, mov}
  Large = {mov}
  MaxAttempts = 2
  MaxRecoveries = 1
  MaxDeaths = 1
  Resident = {r1}
  MaxUploads = 1
  MaxIds = 2
  MaxReviews = 2
  MaxCopies = 1
  MaxLostRequests = 1
SPECIFICATION BothSpec
INVARIANTS
  UploadsAreWhole
  LinksHold
PROPERTIES
  UploadsEnd
CHECK_DEADLOCK FALSE
