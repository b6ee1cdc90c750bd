\* Two payment attempts, four calls around the breaker, two overlapping sweeps on
\* three references (refund and payout), and one rider with two deliveries.
SPECIFICATION MoneySpec
CONSTANTS
  Attempts = {a1, a2}
  NoAttempt = NoAttempt
  MaxPayCrashes = 1
  Calls = {c1, c2, c3, c4}
  Threshold = 3
  MaxFailures = 5
  Sweepers = {s1, s2}
  Transfers = {1, 2, 3}
  None = None
  MaxFaults = 2
  RefundsEnabled = TRUE
  MaxCrashes = 1
  Workers = {w1, w2}
  Withdrawals = {1, 2}
  NoReference = NoReference
  Modes = {FALSE, TRUE}
  MaxWorkerCrashes = 1
  Ledgers <- MCLedgers
  MaxPayouts = 2
  MaxRequests = 2
  MaxHandlers = 1
  Kinds = {"RIDER"}
  MinPayout = 1
INVARIANTS
  MoneyTypeOK
  OnePromptAtATime
  BookedAsPaid
  ClosedBelowThreshold
  RefundIsBacked
  OneRefund
  LiabilityCleared
  FailedIsUnpaid
  PaidIsConfirmed
  PaidOnce
PROPERTIES
  PaidStays
  PaidIsRecorded
  RefusedIsReleased
  ClosesOnRecovery
  
  PaidIsTerminal
  PayoutPaidOrSurfaces
  
CHECK_DEADLOCK FALSE
