\* An external order fills a quote in part, then a tick arrives.
SPECIFICATION Spec
CONSTANTS
  HalfSpreads = {1}
  OrderSize = 2
  MaxHolding = 2
  SkewTenths = 3
  MinPrice = 1
  MaxPrice = 4
  TickSize = 1
  MaxPosition = 3
  MaxOrdersPerSecond = 3
  MaxCancelPercent = 80
  CheckSelfTrade = FALSE
  Ticks <- MCTicks
  Externals <- MCExternals
  CancelOrders = FALSE
  MaxOrders = 5
  MaxAttempts = 5
  Second = 1
  MaxTime = 1
INVARIANT
  NoDoubleQuote
CHECK_DEADLOCK FALSE
