\* Four ticks between resets give every order of buckets.
SPECIFICATION Spec
CONSTANTS
  LogicBounds <- MCLogicBounds
  WaitBounds <- MCWaitBounds
  LogicTimes = {0, 25, 49, 70}
  WaitTimes = {9, 10, 30}
  Percents = {250, 500, 990, 999}
  QueueCap = 2
  MaxTicks = 4
INVARIANTS
  CountsAgree
  PercentileIsClose
  PercentilesOrdered
