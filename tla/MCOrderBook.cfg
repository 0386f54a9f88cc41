\* Three price levels and four orders: two orders queue at a level, a third
\* crosses them and the best price falls past an empty level.
SPECIFICATION FairSpec
CONSTANTS
  MinPrice = 1
  MaxPrice = 3
  TickSize = 1
  MaxOrders = 4
  Requests <- MCRequests
INVARIANTS
  TypeOK
  BestIsExact
  Uncrossed
  LevelTotals
  MapIsExact
  CallbackSeesRestingOrder
  QuantityAccounted
PROPERTIES
  RefinesPriceTime
  AddOrderReturns
CHECK_DEADLOCK FALSE
