\* Two clock units per second and four units: two windows and their seam.
SPECIFICATION Spec
CONSTANTS
  OrderIds = {1, 2, 3}
  Offers <- MCOffers
  MaxPosition = 2
  MaxOrdersPerSecond = 2
  MaxCancelPercent = 80
  CheckSelfTrade = TRUE
  Second = 2
  MaxTime = 4
  MaxAttempts = 3
  PositionBound = 1
INVARIANTS
  TypeOK
  RateBounded
  TrackedUncrossed
