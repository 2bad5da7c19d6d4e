SPECIFICATION Spec
CONSTANTS
  Badges = {b1}
  Other = other
  NoBadge = none
  MaxAttempts = 1
  Confirmations = 1
  MaxFailures = 1
  MaxCrashes = 0
  MaxRetries = 0
PROPERTY DroppedIsRequeued
CHECK_DEADLOCK FALSE
