\* Four slots, so three usable: six pushes wrap the ring.
SPECIFICATION FairSpec
CONSTANTS
  Values = {v1, v2}
  Dead = Dead
  Cap = 4
  MaxPushes = 6
INVARIANTS
  TypeOK
  NoOverwriteRace
  NoUninitializedRead
PROPERTIES
  RefinesFifo
  EveryPushIsDelivered
