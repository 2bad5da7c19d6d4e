SPECIFICATION Spec
CONSTANTS
  Badges = {b1, b2}
  Other = other
  NoBadge = none
  MaxAttempts = 2
  Confirmations = 1
  MaxFailures = 1
  MaxCrashes = 1
  MaxRetries = 1
INVARIANTS
  TypeOK
  FinalizedIsMinted
PROPERTY CommandsSettle
INVARIANT SendsAreAccounted
CHECK_DEADLOCK FALSE
