SPECIFICATION JobsSpec
CONSTANTS
  ClientTimeout = 1
  Timeouts = {0}
  PollIntervals = {1}
  Lag = 0
  MaxQueue = 1
  MaxChunks = 1
INVARIANTS
  ExpiredIsSkipped
