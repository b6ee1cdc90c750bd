SPECIFICATION CashoutSpec
CONSTANTS
  Ledgers <- MCLedgers
  MaxPayouts = 2
  MaxRequests = 1
  MaxHandlers = 1
  Kinds = {"FORMAL"}
  MinPayout = 1
INVARIANTS
  NegativeIsDebt
CHECK_DEADLOCK FALSE
