----------------------------- MODULE MCSseStream -----------------------------
(***************************************************************************)
(* Instances of SseStream for TLC.                                         *)
(***************************************************************************)
EXTENDS SseStream

CONSTANTS BudgetUnits, OomCaps

StreamRequests ==
  [policy : {STREAM}, stream : {TRUE}, wait_for_capacity : BOOLEAN,
   provision_timeout : {BudgetUnits}, max_oom_retries : OomCaps]

\* Answers that open no stream, the interesting ones of ClientSend's.
StreamRefusals ==
  [status : {503}, code : {"PROVISIONING", "MODEL_LOADING", "RESOURCE_EXHAUSTED"},
   hint : {NoHint}]
    \cup [status : {502}, code : {"MODEL_LOAD_FAILED"}, hint : {NoHint}]
    \cup [status : {302, 400, 504}, code : {"OTHER"}, hint : {NoHint}]
=============================================================================
