SPECIFICATION MCSpec
CONSTANTS
  MaxAccount = 2
  Emails = {"e1"}
  Wallets = {"w1"}
  NoWallet = NoWallet
  Visits = {"r1", "r2"}
  MaxCode = 2
  MaxTries = 1
  MaxBreaks = 1
  Processes = {"s1", "s2"}
  Calls = {"c1", "c2"}
  Ttl = 1
  LookupTicks = 1
  MaxFailures = 2
  MaxEpoch = 1
  MaxTick = 2
  Guests = {"ana"}
  Stops = {1, 2}
  Keys = {"k1", "k2"}
  Drafts = {"d1", "d2", "d3"}
  Tiers = {"starter", "explorer", "legendary"}
  SettingPrice <- MCPrice
  Reward <- MCReward
  Prices = {6}
  GenerationPrice = 3
  FreePerWeek = 1
  Discount = 50
  Bonus = 20
  Opening = 5
  MaxWeek = 2
  Tickers = {"t1", "t2"}
  Areas <- MCAreas
  Digests <- MCDigests
  LastMonday = 1
  MaxStops = 1
  Problems <- MCProblems
  NoStart = NoStart
  Moves = 2
  Authors = {"ana", "ben"}
  Places = {"p1", "p2"}
  Photos = {"f1", "f2"}
  PlaceQuests = {"q1", "q2"}
  Nobody = Nobody
  NoPlace = NoPlace
  NoQuest = NoQuest
  MaxRestarts = 1
  Travelers = {"ann", "bob", "cat", "sim"}
  Rank <- MCRank
  Simulated = {"sim"}
  Profile = "ann"
  FollowAsks = {"w1", "w2"}
  Edits = {"e1", "e2"}
  PageLimit = 1
  NoTraveler = NoTraveler
  MaxInstant = 2
  Shoppers = {"ann"}
  Pieces = {"hat", "cape"}
  PieceCost <- MCPieceCost
  PurchaseKeys = {"k1", "k2"}
  Refunds = {"f1", "f2"}
  Items = {"i1", "i2"}
  BadgeItems = {"i2"}
  ItemPrices = {1, 2}
  Wears = {"w1", "w2"}
  NoItem = NoItem
  Income = 3
  CoinReward = 1
  Applicants = {"ana"}
  Applications = {"a1", "a2"}
  Requests = {"r1", "r2"}
  MerchantIds = {"m1", "m2"}
  Towns = {"alaminos", "anda"}
  AreaTowns = {"anda"}
  NoBusiness = NoBusiness
  MaxAudits = 3
  Addresses = {"x"}
  Actors = {"a", "b"}
  NoActor = NoActor
  WindowTicks = 2
  MaxCalls = 1
  CoarseMax = 3
  MaxEntries = 3
  LastMoment = 3
  LastFile = 3
  Boots = {"old", "new", "edited"}
  Content <- MCContent
  NoFile = NoFile
  OldFiles = {1}
  OldContent = "a"
  NoBoot = NoBoot
  MaxStarts = 4
INVARIANT TravelersTypeOK
INVARIANT OwnersAgree
INVARIANT RequestsAreHeld
INVARIANT TrailsHold
INVARIANT FindsWhatExists
INVARIANT MemoryIsBacked
INVARIANT WardrobeHolds
PROPERTY FollowsHold
CHECK_DEADLOCK FALSE
