SPECIFICATION Spec
CONSTANTS
  Sweepers = {s1}
  Transfers = {t1, t2}
  None = None
  MaxFaults = 1
  RefundsEnabled = TRUE
  MaxCrashes = 0
INVARIANT
  NeverFiredTwice
CHECK_DEADLOCK FALSE
