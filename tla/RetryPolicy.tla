---------------------------- MODULE RetryPolicy ----------------------------
(***************************************************************************)
(* The per-endpoint retry policies of src/retry/mod.rs: which retry        *)
(* branches an endpoint takes part in.                                     *)
(*                                                                         *)
(* Here and in the other modules a definition introduced by "Slip" is a    *)
(* plausible mistake in the definition that follows it.  No specification  *)
(* uses it; putting it in that definition's place shows that a property    *)
(* can fail.                                                               *)
(***************************************************************************)

RetryPolicyType ==
  [lora_loading : BOOLEAN,
   model_loading_gated_on_wait : BOOLEAN,
   retry_gateway_timeout : BOOLEAN,
   retry_connect : BOOLEAN,
   retry_midflight_transport : BOOLEAN,
   oom_gated_on_wait : BOOLEAN,
   estimate_unroutable : BOOLEAN]

\* /v1/score, /v1/extract: idempotent, everything is replayable.
INFERENCE ==
  [lora_loading |-> FALSE,
   model_loading_gated_on_wait |-> FALSE,
   retry_gateway_timeout |-> TRUE,
   retry_connect |-> TRUE,
   retry_midflight_transport |-> TRUE,
   oom_gated_on_wait |-> FALSE,
   estimate_unroutable |-> FALSE]

\* /v1/encode: the only endpoint that can answer LORA_LOADING.
ENCODE == [INFERENCE EXCEPT !.lora_loading = TRUE]

\* Slip: a generation whose 504 is replayed.
GENERATE_replayed_504 ==
  [lora_loading |-> FALSE,
   model_loading_gated_on_wait |-> TRUE,
   retry_gateway_timeout |-> TRUE,
   retry_connect |-> TRUE,
   retry_midflight_transport |-> FALSE,
   oom_gated_on_wait |-> FALSE,
   estimate_unroutable |-> FALSE]

\* /v1/generate buffered: not idempotent.
GENERATE ==
  [lora_loading |-> FALSE,
   model_loading_gated_on_wait |-> TRUE,
   retry_gateway_timeout |-> FALSE,
   retry_connect |-> TRUE,
   retry_midflight_transport |-> FALSE,
   oom_gated_on_wait |-> FALSE,
   estimate_unroutable |-> FALSE]

\* Chat completions, responses, and every SSE stream.
STREAM ==
  [lora_loading |-> FALSE,
   model_loading_gated_on_wait |-> FALSE,
   retry_gateway_timeout |-> FALSE,
   retry_connect |-> TRUE,
   retry_midflight_transport |-> FALSE,
   oom_gated_on_wait |-> TRUE,
   estimate_unroutable |-> FALSE]

\* Metadata endpoints: models, health, files, batches, jobs, pools.
NONE ==
  [lora_loading |-> FALSE,
   model_loading_gated_on_wait |-> FALSE,
   retry_gateway_timeout |-> FALSE,
   retry_connect |-> FALSE,
   retry_midflight_transport |-> FALSE,
   oom_gated_on_wait |-> FALSE,
   estimate_unroutable |-> FALSE]

\* /v1/estimate.
ESTIMATE == [NONE EXCEPT !.estimate_unroutable = TRUE]
=============================================================================
