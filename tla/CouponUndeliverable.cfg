SPECIFICATION OrderingSpec
CONSTANTS
  Consumers = {u1, u2}
  MaxPlaced = 1
  MaxOrderCalls = 1
  ItemPrices = {700, 1200}
  Quantities = {1}
  Distances = {0}
  CouponValue = 2000
  MaxRedemptions = 1
INVARIANTS
  PaidIsDeliverable
CHECK_DEADLOCK FALSE
