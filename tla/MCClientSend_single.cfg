SPECIFICATION Spec
CONSTANTS
  NoHint = NoHint
  DEFAULT_RETRY_DELAY = 5
  MODEL_LOADING_DELAY = 5
  LORA_LOADING_DELAY = 1
  LORA_LOADING_MAX_RETRIES = 4
  RESOURCE_EXHAUSTED_DELAY = 2
  RESOURCE_EXHAUSTED_MAX_DELAY = 6
  ShiftWidth = 2
  LongestDuration = 50
  Calls = {c1}
  c1 = c1
  ClientTimeout = 4
  MaxConcurrency = 1
  Lag = 0
  Hints = {NoHint, 0, 3, 40}
  TransferFloor = 9
  BudgetUnits = 14
  OomCaps = {0, 3}
  Requests <- AllRequests
  Responses <- AllResponses
INVARIANTS
  BudgetBound
  RetriesAreResends
  FailFast
  RetryCaps
  ExhaustionNotMasked
PROPERTIES
  NeverReplayedOnceReached
  OomBacksOff
