CONSTANTS
  Operator = {o1, o2}
  MaxComments = 1
  CommentBatch = 1
  MaxPollFailures = 1
  MaxRestarts = 1
  Collected = 3
  PrompterBatch = 1
  MaxJoins = 2
  Viewer = {v1, v2}
  MaxMessages = 1
  ChatRecentLimit = 1
  MaxConnects = 3
  Heights = {"720p", "1080p", "540p"}
  Bucket = {b1, b2}
  Nowhere = nowhere
  MaxDeploys = 1
  Contents = 4
  Limit = 1
  LastMoment = 3
  LastTick = 9
  CacheTtl = 4
  StaleTtl = 4
  RevalidateTtl = 1
  NotFoundTtl = 1
  PresignTtl = 3
  ShortestTtl = 1
  Editor = {e1, e2}
  MaxScenes = 1
  MaxSaves = 2
  MaxUnanswered = 1
  Admin = {d1, d2}
  MaxWrites = 2
  MaxRevisions = 2
  MaxDropped = 1
SPECIFICATION Spec
INVARIANTS
  PublicIsPublished
PROPERTIES
  BroadcastIsFollowed
  WritingIsKept
CHECK_DEADLOCK FALSE
