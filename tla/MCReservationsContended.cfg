SPECIFICATION RSpec
CONSTANTS
  Travelers = {t1, t2}
  Reviewers = {a1, a2}
  Author = author
  None = None
  Attempts = {x1, x2}
  Proofs = {s1}
  Reservations = {r1, r2}
  MaxVersion = 1
  MaxPoints = 1
  RewardMinor = 2
  AllocatedMinor = 3
  ReservationTime = 1
  AppealTime = 1
INVARIANT EconomyTypeOK
INVARIANT PoolMatchesReservations
PROPERTY EscrowSpec
PROPERTY ClaimsEndForCause
SYMMETRY People
CHECK_DEADLOCK FALSE
