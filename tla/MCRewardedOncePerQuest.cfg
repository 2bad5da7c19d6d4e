SPECIFICATION MCSpec
CONSTANTS
  Travelers = {t1}
  Reviewers = {a1}
  Author = author
  None = None
  Attempts = {x1, x2}
  Proofs = {s1}
  MaxVersion = 1
  MaxPoints = 2
  Reservations = {r1}
  RewardMinor = 2
  AllocatedMinor = 3
  ReservationTime = 1
  AppealTime = 1
INVARIANT RewardedOncePerQuest
CHECK_DEADLOCK FALSE
