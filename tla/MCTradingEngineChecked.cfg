\* check_self_trade on, and clients that also cancel by an order of type
\* Cancel; a wide and a narrow pair of quotes.
SPECIFICATION Spec
CONSTANTS
  HalfSpreads = {1, 2}
  OrderSize = 2
  MaxHolding = 2
  SkewTenths = 3
  MinPrice = 1
  MaxPrice = 5
  TickSize = 1
  MaxPosition = 3
  MaxOrdersPerSecond = 3
  MaxCancelPercent = 80
  CheckSelfTrade = TRUE
  Ticks <- MCTicks
  Externals <- MCExternals
  CancelOrders = TRUE
  MaxOrders = 4
  MaxAttempts = 4
  Second = 1
  MaxTime = 1
INVARIANT
  NoSelfTrade
CHECK_DEADLOCK FALSE
