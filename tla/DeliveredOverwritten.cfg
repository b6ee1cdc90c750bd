SPECIFICATION Spec
CONSTANTS
  Orders = {o1}
  PreOrders = {}
  Discounted = {}
  Items = {i1}
  Riders = {r1}
  NoRider = NoRider
  Workers = {w1, w2}
  MaxRetries = 2
  EarlyAccept = FALSE
  Redelivered = {}
  MaxCrashes = 0
PROPERTY
  DeliveredIsFinal
CHECK_DEADLOCK FALSE
