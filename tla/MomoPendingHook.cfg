SPECIFICATION MomoFairSpec
CONSTANTS
  Attempts = {a1}
  NoAttempt = NoAttempt
  MaxPayCrashes = 0
PROPERTY
  PendingIsNoOp
CHECK_DEADLOCK FALSE
