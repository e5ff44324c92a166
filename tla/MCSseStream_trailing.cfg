SPECIFICATION Spec
CONSTANTS
  NoHint = NoHint
  DEFAULT_RETRY_DELAY = 2
  MODEL_LOADING_DELAY = 2
  LORA_LOADING_DELAY = 1
  LORA_LOADING_MAX_RETRIES = 2
  RESOURCE_EXHAUSTED_DELAY = 1
  RESOURCE_EXHAUSTED_MAX_DELAY = 3
  ShiftWidth = 2
  LongestDuration = 50
  Calls = {s1}
  s1 = s1
  ClientTimeout = 4
  Hints = {NoHint, 0, 1, 9}
  ErrorCodes = {"PROVISIONING", "MODEL_LOADING", "RESOURCE_EXHAUSTED", "OTHER"}
  MaxChunks = 2
  BudgetUnits = 7
  OomCaps = {0, 2}
  Requests <- StreamRequests
  Refusals <- StreamRefusals
INVARIANTS
  ErrorNeverSwallowed
