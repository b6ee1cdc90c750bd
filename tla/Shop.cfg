\* Two overlapping calls everywhere; two orders of two consumers, three items and
\* categories under a cap of one, two days of hours, four addresses under a cap of
\* two, two jobs, two masked calls, two payout rows of two ledger entries, eight days
\* of payout dates, and two sweeps over two rows.
SPECIFICATION ShopSpec
CONSTANTS
  Consumers = {u1, u2}
  MaxPlaced = 2
  MaxOrderCalls = 2
  ItemPrices = {600, 750}
  Quantities = {1}
  Distances = {0}
  CouponValue = 2000
  MaxRedemptions = 1
  VendorTypes = {"INFORMAL"}
  StockLevel = {"IN_STOCK", "OUT_OF_STOCK"}
  SectionNames = {n1, n2}
  MaxItems = 3
  MaxSections = 3
  MaxMenuCalls = 2
  ItemCap = 1
  SectionCap = 1
  StoreTypes = {"INFORMAL", "RESTAURANT"}
  Days = 2
  Slots <- MCSlots
  Kilometres = {0, 2, 3, 5, 6}
  Radii = {1, 3, 10}
  MaxSaved = 2
  MaxAddressRows = 4
  MaxAddressCalls = 2
  MaxAttempts = 3
  MaxEndpoints = 2
  MaxStalls = 1
  Couriers = {r1, r2}
  Parties = {"consumer", "vendor"}
  NoCourier = NoCourier
  MaxTalks = 2
  Ledgers <- MCLedgers
  MaxPayouts = 2
  MaxRequests = 2
  MaxHandlers = 2
  Kinds = {"INFORMAL", "FORMAL", "RIDER"}
  MinPayout = 1
  Horizon = 200
  Sweeps = {w1, w2}
  VendorRows = {1}
  RiderRows = {2}
  NetXAF <- MCNetXAF
  MaxFloat = 3
  MaxUnseen = 2
INVARIANTS
  ShopTypeOK
  OrderingSafe
  
  AddressesSafe
  
  
CHECK_DEADLOCK FALSE
