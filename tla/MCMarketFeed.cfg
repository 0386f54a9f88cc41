\* When all runs are over only stop() is left, which then changes nothing.
SPECIFICATION FairSpec
CONSTANTS
  File <- MCFile
  SocketCap = 2
  MaxArrivals = 3
  MaxRuns = 2
  Capacity = 2
INVARIANTS
  NothingLeftBehind
PROPERTIES
  ArrivalsAreRead
  ReceiverStopIsHeeded
  EngineStopIsHeeded
  QueuedIsHandled
