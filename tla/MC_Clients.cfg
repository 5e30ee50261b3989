CONSTANTS
  Aired = {a, b}
  Octets <- Oct
  MaxTurns = 1
  MaxMoves = 2
  MaxJoinsSent = 3
  MaxFaults = 1
  Tab = {t1, t2}
  StaleAt = 1
  ExpiresAt = 3
  MaxReloads = 3
  MaxCards = 2
  MaxEdits = 6
  MaxSubmits = 2
  MaxIssued = 4
  MaxSlips = 2
  MaxBuilds = 3
  MaxOutages = 1
  Media = {m1}
  Retention = 1
  MaxDays = 2
  MaxNights = 2
  MaxUploads = 2
  Limit = 2
  MaxPicks = 2
  MaxSends = 2
  MaxGlitches = 2
  MaxLooks = 2
  Slot = {s1, s2}
  Attempts = 2
  Timeout = 1
  MaxTroubles = 2
  Sizes <-SizesOf
  Durations = {1, 3}
  Rates = {0, 1, 30}
  MaxSegments = 2
  LongEdge = 16
  ShortEdge = 9
  RenditionHeight = 6
  ShotAt = 1
  MaxRows = 4
  PageSize = 2
  MaxChanges = 1
  MaxAsks = 2
  MaxBreaks = 1
  MaxLines = 8
  MaxOdd = 2
  MaxTime = 6
  Zones = {0, 3}
  MaxVisits = 1
SYMMETRY Alike
SPECIFICATION Spec
INVARIANTS
  MediaIsWhole
  SafeguardsHold
PROPERTIES
  VisitorsAreServed
  PagesTellTheTruth
CHECK_DEADLOCK FALSE
