\* As shipped, check_self_trade off: two pairs of quotes or a pair and two
\* external orders, fills in part and whole, refusals by the rate limit.
SPECIFICATION FairSpec
CONSTANTS
  HalfSpreads = {1}
  OrderSize = 2
  MaxHolding = 2
  SkewTenths = 3
  MinPrice = 1
  MaxPrice = 4
  TickSize = 1
  MaxPosition = 3
  MaxOrdersPerSecond = 3
  MaxCancelPercent = 80
  CheckSelfTrade = FALSE
  Ticks <- MCTicks
  Externals <- MCExternals
  CancelOrders = FALSE
  MaxOrders = 5
  MaxAttempts = 5
  Second = 1
  MaxTime = 1
INVARIANTS
  TypeOK
  PositionNetsOut
  QuotesComeInPairs
  OneCancelsOther
  TrackedUntilFilled
PROPERTIES
  RefinesBook
  StuckUntilCancelled
  CallsReturn
CHECK_DEADLOCK FALSE
