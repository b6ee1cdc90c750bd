SPECIFICATION ProgressSpec
CONSTANTS
  Orders = {o1, o2}
  PreOrders = {o2}
  Discounted = {o2}
  Items = {i1}
  Riders = {r1}
  NoRider = NoRider
  Workers = {w1}
  MaxRetries = 3
  EarlyAccept = FALSE
  Redelivered = {}
  MaxCrashes = 1
PROPERTIES
  ImplementsOrderCustody
  PaidOrderIsDecided
  
CHECK_DEADLOCK FALSE
