\* An immediate order with a restart, or a pre-order with redelivered dispatch jobs.
SPECIFICATION SafetySpec
CONSTANTS
  Orders = {o1, o2}
  PreOrders = {o2}
  Discounted = {}
  Items = {i1}
  Riders = {r1, r2}
  NoRider = NoRider
  Workers = {w1, w2}
  MaxRetries = 2
  EarlyAccept = FALSE
  Redelivered = {o2}
  MaxCrashes = 1
INVARIANTS
  TypeOK
  OneVendorDecision
  PaymentBookedOnce
  
  ExpiredWithoutRider
  VendorAlertedOnce
  PenaltyAndRefundAgree
PROPERTY
  RiderKept
SYMMETRY Interchangeable
CHECK_DEADLOCK FALSE
