\* The replay stops after its report: no deadlock check, ReplayEnds instead.
SPECIFICATION FairSpec
CONSTANTS
  NumTicks <- MCNumTicks
  Capacity <- MCCapacity
CHECK_DEADLOCK FALSE
INVARIANTS
  TypeOK
  DrainedBeforeLast
  EveryTickAccounted
  NoEarlyDrop
PROPERTIES
  RefinesFifo
  ReplayEnds
