SPECIFICATION Spec
CONSTANTS
  Orders = {o1}
  PreOrders = {}
  Discounted = {}
  Items = {i1}
  Riders = {r1}
  NoRider = NoRider
  Workers = {w1}
  MaxRetries = 2
  EarlyAccept = FALSE
  Redelivered = {}
  MaxCrashes = 0
PROPERTY
  CancelledIsFinal
CHECK_DEADLOCK FALSE
