SPECIFICATION MCSpec
CONSTANTS
  Travelers = {t1, a1}
  Reviewers = {a1, a2}
  Author = author
  None = None
  Attempts = {x1, x2}
  Proofs = {s1, s2}
  MaxVersion = 2
  MaxPoints = 2
  Reservations = {r1, r2}
  RewardMinor = 2
  AllocatedMinor = 3
  ReservationTime = 1
  AppealTime = 1
INVARIANT TypeOK
INVARIANT PointsCoverLedger
INVARIANT ClaimAndProofAgree
PROPERTY NoRewardAfterCompletion
PROPERTY ClaimsProgress
CHECK_DEADLOCK FALSE
