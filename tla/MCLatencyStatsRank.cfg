\* The P99 of 51 ticks has rank 50.49: rounded up it would be the slowest one.
SPECIFICATION Spec
CONSTANTS
  LogicBounds <- MCLogicBounds
  WaitBounds <- MCWaitBounds
  LogicTimes = {0, 70}
  WaitTimes = {9}
  Percents = {500, 990, 999}
  QueueCap = 1
  MaxTicks = 51
INVARIANT
  PercentileRoundsUp
