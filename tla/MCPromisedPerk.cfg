SPECIFICATION MCSpec
CONSTANTS
  Travelers = {t1, t2}
  FirstTraveler = t1
  Holds = {h1, h2}
  Vouchers = {"v1"}
  None = None
  Reward = 50
  FeeBps = 1000
  Terms <- MCTerms
  Offers <- MCOffers
  Amounts = {60}
  Wallets <- MCWallets
  HoldTtl = 1
  Grace = 1
  SponsorDays = 1
  MaxRound = 2
  MaxTime = 2
INVARIANT PerkNeverBlocksReward
CHECK_DEADLOCK FALSE
