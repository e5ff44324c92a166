---------------------------- MODULE MCClientSend ----------------------------
(***************************************************************************)
(* Instances of ClientSend for TLC: the requests endpoints really make and *)
(* the answers a gateway gives.                                            *)
(***************************************************************************)
EXTENDS ClientSend

CONSTANTS Hints, BudgetUnits, OomCaps, TransferFloor

\* Inference, generation and streaming calls carry the caller's options.
UserCalls(policies, streams) ==
  [policy : policies, stream : streams, wait_for_capacity : BOOLEAN,
   provision_timeout : {BudgetUnits}, max_oom_retries : OomCaps]

\* Metadata calls run under metadata_options.
MetadataCalls ==
  [policy : {NONE, ESTIMATE}, stream : {FALSE}, wait_for_capacity : {FALSE},
   provision_timeout : {AtLeast(ClientTimeout, 1)}, max_oom_retries : {0}]

\* Transfers of files, batches and job inputs: send_with_timeout.
TransferCalls ==
  [policy : {NONE}, stream : {FALSE}, wait_for_capacity : {FALSE},
   provision_timeout : {AtLeast(ClientTimeout, TransferFloor)}, max_oom_retries : {0}]

AllRequests ==
  UserCalls({INFERENCE, ENCODE, GENERATE, STREAM}, {FALSE})
    \cup UserCalls({STREAM}, {TRUE}) \cup MetadataCalls \cup TransferCalls

\* One idempotent call, one generation, one stream.
MixedRequests ==
  {r \in AllRequests : r.policy \in {ENCODE, GENERATE, STREAM} /\ r.wait_for_capacity}

Answers(statuses, codes, hints) ==
  [status : statuses, code : codes, hint : hints]

CapacityCodes == {"PROVISIONING", "MODEL_LOADING", "LORA_LOADING", "RESOURCE_EXHAUSTED"}

AllResponses ==
  Answers({503}, CapacityCodes, Hints)
    \cup Answers({504}, {"OTHER"}, Hints)
    \cup Answers({503}, {"QUEUE_UNAVAILABLE", "OTHER"}, {NoHint})
    \cup Answers({502}, {"MODEL_LOAD_FAILED", "OTHER"}, {NoHint})
    \cup Answers({400}, {"INPUT_TOO_LONG", "OTHER"}, {NoHint})
    \cup Answers({200, 304, 500}, {"OTHER"}, {NoHint})

\* A server that is out of memory, provisioning, or slow, and in the end answers.
FewResponses ==
  Answers({503}, {"PROVISIONING", "RESOURCE_EXHAUSTED"}, {NoHint})
    \cup Answers({504}, {"OTHER"}, {NoHint})
    \cup Answers({200}, {"OTHER"}, {NoHint})
=============================================================================
