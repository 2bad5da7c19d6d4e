SPECIFICATION MCSpec
CONSTANTS
  Workers = {w1, w2}
  NoWorker = NoWorker
  MaxEvents = 2
  BatchSize = 2
  LeaseTicks = 2
  MaxAttempts = 3
  Retry <- MCRetry
  Visited = {"v1", "v2"}
  Stops = {"church", "beach"}
  StopOf <- MCStopOf
  Trail = {"church", "beach"}
  PioneerStops = 2
  VisitXp = 50
  XpBoosts = {0, 10}
  Awarders = {"a1", "a2"}
  AwardBatch = 2
  EventLease = 1
  VerdictDelay = 2
  ErrorDelay = 1
  EventTries = 2
  MaxUnpublish = 1
  Official = {"r1", "r2", "again", "r3"}
  RoundNo <- MCRoundNo
  Fans = {"f1"}
  Streaks = {2, 3}
  Milestones = {2}
  Goals = {"g1"}
  Target <- MCTarget
  MaxRound = 3
  Indexers = {"i1", "i2"}
  Blocks = {"g", "a1", "a2", "a3", "b1", "b2", "b3", "c2", "c3"}
  NoBlock = NoBlock
  Height <- MCHeight
  Parent <- MCParent
  LogsIn <- MCLogs
  ClaimLog = "claim"
  Confirmations = 1
  SyncLimit = 3
  MaxReorgs = 3
  Pushes = {1, 2}
  Keys = {"k1", "k2"}
  Categories = {"social", "weekly_recap", "account"}
  DayCap = 1
  CategoryCap <- MCCap
  SendTries = 2
  SendLimit = 2
  Dispatchers = {"d1", "d2"}
  NoDispatcher = NoDispatcher
  NoPush = NoPush
  LastThird = 3
INVARIANT WorkersTypeOK
INVARIANT ReceiptIffCompleted
INVARIANT AwardsAreEarned
INVARIANT IndexFollowsOneBranch
INVARIANT SentWithinCaps
PROPERTY EventsAreWorkedOff
PROPERTY LeasesRespected
CHECK_DEADLOCK FALSE
