\* Two orders of clients use up the rate limit; it refuses both quotes of a pair.
SPECIFICATION Spec
CONSTANTS
  HalfSpreads = {1}
  OrderSize = 2
  MaxHolding = 2
  SkewTenths = 3
  MinPrice = 1
  MaxPrice = 4
  TickSize = 1
  MaxPosition = 3
  MaxOrdersPerSecond = 2
  MaxCancelPercent = 80
  CheckSelfTrade = FALSE
  Ticks <- MCTicks
  Externals <- MCExternals
  CancelOrders = FALSE
  MaxOrders = 4
  MaxAttempts = 4
  Second = 1
  MaxTime = 1
INVARIANT
  AQuoteIsLive
CHECK_DEADLOCK FALSE
