SPECIFICATION RoundsSpec
CONSTANTS
  Users = {"ana", "ben"}
  Proposals = {"p1"}
  Quests = {"q1"}
  Credits = {"c1", "c2", "c3"}
  Unit = 1000
  Bond = 25000
  VoteFee = 5000
  FeedbackFee = 2000
  BurnBps = 2000
  Opening <- MCOpening
  ShareSets <- MCShareSets
  Percents = {50}
  Reward = 5
  VoucherCost = 7
  Packages = {5}
  DailyCap = 5
  ControlSets = {{}, {"all"}}
  MaxDay = 1
  AtHome = {"qotd", "cheer"}
  OnSite = {"visit"}
  Answering = "qotd"
  MissionRank <- MCRank
  MissionStamps <- MCMissionStamps
  SpendKeys = {"k1"}
  ClaimStamps = 5
  Day7Stamps = 8
  Cycle = 2
  WeeklyCap = 19
  ChestRequired = 2
  ChestStamps = 7
  ShieldPrice = 9
  ShieldsMax = 2
  PerkBonuses = {0, 4}
  WeekDays = 2
  MonthDays = 3
  LastDay = 3
  Quizzes = {"z1"}
  QuizAttempts = {"t1", "t2"}
  NoAttempt = NoAttempt
  Scores = {3, 4}
  XpReward = 25
  XpBonuses = {0, 5}
  TimeLimit = 1
  Cooldown = 2
  MaxContent = 1
  MaxClock = 2
  Spots = {"s1", "s2"}
  Voters = {"v1"}
  NoSpot = NoSpot
  Drafts = {d1}
  Windows <- MCWindows
  WeekTicks = 2
  DayTicks = 1
  Lead = 2
  Minimum = 1
  Target = 1
  BoostCost <- MCBoostCost
  FirstBallotXp = 25
  TierXp = 10
  WinnerRest = 4
  MinisterRest = 2
  Purse = 125
  MaxWeek = 2
  LastTask = 2
  Snapshots <- MCSnapshots
  Required = {1, 2}
  Processes = {"here", "there"}
  Requests = {r1, r2, r3}
  Far = r3
  ServedBy <- MCServed
  Passes = {w1}
  NoPass = NoPass
  MaxFaults = 1
  Viewers = {"ana", "ben", "cai"}
  Owner = "ana"
  Comments = {"c1"}
  Author <- MCAuthor
  Asks = {r1, r2}
  HideAt = 2
  MaxCheers = 3
  MaxLost = 1
  Climbers = {"ana", "ben", "cai", "dan"}
  Winning = 2
  PodiumSize = 1
  PageSize = 1
  Testers = {"cai"}
  BestScore = 3
  LastWeek = 2
INVARIANT ChampionSitsOut
CHECK_DEADLOCK FALSE
