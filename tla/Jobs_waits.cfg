SPECIFICATION JobsSpec
CONSTANTS
  ClientTimeout = 2
  Timeouts = {0, 5}
  PollIntervals = {0, 4}
  Lag = 1
  MaxQueue = 2
  MaxChunks = 2
INVARIANTS
  TypeOK
  WaitBound
  NoReadyMissed
  ReadyIsFresh
  ResultsExact
PROPERTIES
  IsBoundedWait
  WaitEnds
