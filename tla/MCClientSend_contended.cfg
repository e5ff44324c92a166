SPECIFICATION Spec
CONSTANTS
  NoHint = NoHint
  DEFAULT_RETRY_DELAY = 1
  MODEL_LOADING_DELAY = 1
  LORA_LOADING_DELAY = 1
  LORA_LOADING_MAX_RETRIES = 1
  RESOURCE_EXHAUSTED_DELAY = 1
  RESOURCE_EXHAUSTED_MAX_DELAY = 2
  ShiftWidth = 2
  LongestDuration = 50
  Calls = {c1, c2}
  c1 = c1
  c2 = c2
  ClientTimeout = 2
  MaxConcurrency = 1
  Lag = 0
  Hints = {NoHint}
  TransferFloor = 9
  BudgetUnits = 3
  OomCaps = {1}
  Requests <- MixedRequests
  Responses <- FewResponses
INVARIANTS
  PermitsAccounted
  OverrunIsQueueing
PROPERTIES
  ImplementsContract
  EveryCallReturns
