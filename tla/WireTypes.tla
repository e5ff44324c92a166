------------------------------ MODULE WireTypes ------------------------------
(***************************************************************************)
(* The JSON the SDK reads (src/types): a type is a struct of fields, each  *)
(* with what serde makes of it when it is missing and when it is null.     *)
(* How a document is read into a type is serde_json's part (external), and *)
(* a constant here: module JsonDocuments has what serde does.              *)
(***************************************************************************)
EXTENDS Fields

CONSTANTS
  Default(_),           \* Default::default of a type
  Deserialize(_, _)     \* a document read as a type, or an error

Text == [is |-> "text"]
Flag == [is |-> "flag"]
Count == [is |-> "count"]         \* u32, u64; their limits are left out
Whole == [is |-> "int"]           \* i64
Real == [is |-> "real"]           \* f64
Json == [is |-> "any"]             \* serde_json::Value
Closed(texts) == [is |-> "closed", texts |-> texts]
Many(type) == [is |-> "many", of |-> type]
Table(type) == [is |-> "table", of |-> type]
Struct(fields) == [is |-> "struct", fields |-> fields]
OneOf(types) == [is |-> "oneof", types |-> types]       \* serde(untagged)

Each(names, type) == [f \in names |-> type]
Field(kind, fields) == [f \in DOMAIN fields |-> [kind |-> kind, of |-> fields[f]]]

\* Slip: serde(default) without null_as_default.
Lenient_plain(fields) == Field("default", fields)

\* serde(default, deserialize_with = "null_as_default")
Lenient(fields) == Field("lenient", fields)

Plain(fields) == Field("default", fields)         \* serde(default)
Optional(fields) == Field("option", fields)       \* serde(default) on an Option
Required(fields) == Field("required", fields)     \* no attribute

(***************************************************************************)
(* A JSON value says what it is: null, text, flag, whole, negative or      *)
(* fraction (numbers), list, object.                                       *)
(***************************************************************************)
Null == [is |-> "null"]

---------------------------------------------------------------------------
(***************************************************************************)
(* src/types/common.rs, src/types/encode.rs                                *)
(***************************************************************************)
ModelState == Closed({"available", "loading", "loaded", "unloading", "failed"})

RequestUsage == Struct(Optional(
  Each({"input_tokens", "pairs", "images", "pages", "output_tokens", "audio_ms",
        "credits_charged"}, Count) ++ [rate_book_version |-> Text]))

RequestMetadata == Struct(
  Plain([retries |-> Count])
  ++ Optional(Each({"id", "rate_book_version", "execution_identity_sha256",
                    "model_revision"}, Text)
              ++ [usage |-> RequestUsage, credits_debited |-> Count]))

(***************************************************************************)
(* src/types/cluster.rs                                                    *)
(***************************************************************************)
ModelDims == Struct(Optional(Each({"dense", "sparse", "multivector"}, Count)))

ModelCapabilities == Struct(Lenient(
  Each({"grammar", "lora_adapters"}, Many(Text)) ++ Each({"tools", "code", "sql", "guard"}, Flag)
  ++ [profile_lora_adapters |-> Table(Many(Text))]))

ModelInfo == Struct(
  Lenient(Each({"inputs", "outputs"}, Many(Text))
          ++ [name |-> Text, loaded |-> Flag, dims |-> ModelDims, profiles |-> Table(Json),
              capabilities |-> ModelCapabilities])
  ++ Optional(Each({"last_error", "revision"}, Text)
              ++ [state |-> ModelState, max_sequence_length |-> Count]))

ModelSummary == Struct(
  Lenient([name |-> Text, worker_count |-> Count, gpu_types |-> Many(Text),
           total_queue_depth |-> Count])
  ++ Optional([state |-> ModelState]))

WorkerInfo == Struct(
  Lenient(Each({"name", "url", "gpu"}, Text)
          ++ Each({"gpu_count", "ready_gpu_slots", "queue_depth", "pending_cost",
                   "inflight_batches", "memory_used_bytes", "memory_total_bytes"}, Count)
          ++ [healthy |-> Flag, loaded_models |-> Many(Text)])
  ++ Optional(Each({"bundle", "bundle_config_hash"}, Text)))

ClusterSummary == Struct(Lenient(
  Each({"worker_count", "gpu_count", "models_loaded"}, Count) ++ [total_qps |-> Real]))

HealthResponse == Struct(Lenient(
  Each({"status", "type"}, Text)
  ++ Each({"configured_gpu_types", "live_gpu_types"}, Many(Text))
  ++ [cluster |-> ClusterSummary, workers |-> Many(WorkerInfo), models |-> Many(ModelSummary)]))

ServerInfo == Struct(Lenient(
  Each({"version", "user", "working_dir"}, Text) ++ [uptime_seconds |-> Count, pid |-> Whole]))

GpuMetrics == Struct(Lenient(
  Each({"device", "name", "gpu_type"}, Text)
  ++ Each({"utilization_pct", "memory_used_bytes", "memory_total_bytes"}, Count)
  ++ [memory_threshold_pct |-> Real]))

ModelConfig == Struct(
  Lenient(Each({"inputs", "outputs"}, Many(Text)) ++ [normalize |-> Flag])
  ++ Optional(Each({"hf_id", "adapter", "pooling"}, Text) ++ [max_sequence_length |-> Count]
              ++ Each({"dims", "adapter_options_loadtime", "adapter_options_runtime"}, Json)))

AdaptiveBatchingStatus == Struct(
  Lenient([calibrated |-> Flag, wait_ms |-> Real, batch_cost |-> Count])
  ++ Optional(Each({"target_p50_ms", "p50_ms", "headroom_ms", "fill_ratio"}, Real)))

ModelStatus == Struct(
  Lenient(Each({"memory_bytes", "queue_depth", "queue_pending_items"}, Count)
          ++ [name |-> Text, config |-> ModelConfig])
  ++ Optional([state |-> ModelState, device |-> Text,
               adaptive_batching |-> AdaptiveBatchingStatus]))

WorkerStatusMessage == Struct(Lenient(
  Each({"name", "machine_profile", "pool_name", "bundle", "bundle_config_hash"}, Text)
  ++ Each({"ready", "saturated"}, Flag) ++ Each({"gpu_count", "max_batch_requests"}, Count)
  ++ [timestamp |-> Real, loaded_models |-> Many(Text), server |-> ServerInfo,
      gpus |-> Many(GpuMetrics), models |-> Many(ModelStatus)]))

ClusterStatusMessage == Struct(Lenient(
  [timestamp |-> Real, cluster |-> ClusterSummary, workers |-> Many(WorkerInfo),
   models |-> Many(ModelSummary)]))

---------------------------------------------------------------------------
(***************************************************************************)
(* src/types/generate.rs, src/types/estimate.rs                            *)
(***************************************************************************)
FinishReason == Closed({"stop", "length", "cancelled", "content_filter", "error"})
ChatFinishReason == Closed({"stop", "length", "tool_calls", "content_filter"})
ChatRole == Closed({"system", "user", "assistant", "tool", "developer"})

Tokens == {"prompt_tokens", "completion_tokens", "total_tokens"}

GenerationUsage == Struct(
  Lenient(Each(Tokens, Count)) ++ Optional([credits_charged |-> Count, rate_book_version |-> Text]))

GenerateResult == Struct(
  Required(Each({"model", "text"}, Text))
  ++ Optional(Each({"ttft_ms", "tpot_ms"}, Real)
              ++ [finish_reason |-> FinishReason, usage |-> GenerationUsage,
                  attempt_id |-> Text, request |-> RequestMetadata]))

GenerateChunk == Struct(
  Lenient([done |-> Flag])
  ++ Optional(Each({"request_id", "text_delta"}, Text)
              ++ [seq |-> Count, logprobs |-> Many(Json), finish_reason |-> FinishReason,
                  usage |-> GenerationUsage, ttft_ms |-> Real]))

ChatImageUrl == OneOf({Text, Struct(Required([url |-> Text]))})

ChatContentPart == Struct(
  Required([type |-> Text]) ++ Optional([text |-> Text, image_url |-> ChatImageUrl]))

ChatContent == OneOf({Text, Many(ChatContentPart)})

ChatMessage == Struct(
  Required([role |-> ChatRole])
  ++ Optional(Each({"name", "tool_call_id"}, Text)
              ++ [content |-> ChatContent, tool_calls |-> Many(Json)]))

ChatUsage == Struct(Lenient(Each(Tokens, Count)))

Choice == Optional([finish_reason |-> ChatFinishReason, logprobs |-> Json])

ChatChoice == Struct(
  Lenient([index |-> Count]) ++ Optional([message |-> ChatMessage]) ++ Choice)

ChatDelta == Struct(Optional(Each({"role", "content"}, Text) ++ [tool_calls |-> Many(Json)]))

ChatChunkChoice == Struct(Lenient([index |-> Count, delta |-> ChatDelta]) ++ Choice)

Completion(choice) ==
  Lenient(Each({"id", "object", "model"}, Text) ++ [created |-> Whole, choices |-> Many(choice)])
  ++ Optional([system_fingerprint |-> Text, usage |-> ChatUsage])

ChatCompletion == Struct(Completion(ChatChoice) ++ Optional([request |-> RequestMetadata]))
ChatCompletionChunk == Struct(Completion(ChatChunkChoice))

ResponseOutputText == Struct(
  Plain([type |-> Text]) ++ Lenient([text |-> Text, annotations |-> Many(Json)]))

ResponseOutputMessage == Struct(
  Plain([type |-> Text])
  ++ Lenient(Each({"id", "role", "status"}, Text) ++ [content |-> Many(ResponseOutputText)]))

ResponseUsage == Struct(Lenient(Each({"input_tokens", "output_tokens", "total_tokens"}, Count)))

ResponseResult == Struct(
  Lenient(Each({"id", "object", "model", "status"}, Text)
          ++ [created_at |-> Whole, output |-> Many(ResponseOutputMessage)])
  ++ Optional([usage |-> ResponseUsage, request |-> RequestMetadata]))

AppliedRate == Struct(Required(
  Each({"rate_numerator", "rate_denominator"}, Whole) ++ [unit |-> Text]))

RateIdentity == Struct(Lenient(Each({"model", "profile", "operation", "region"}, Text)))

CostEstimate == Struct(
  Lenient(Each({"endpoint", "rate_book_version", "rate_book_sha256", "rounding_rule",
                "estimate_basis"}, Text)
          ++ [identity |-> RateIdentity, estimated_credits |-> Count,
              unit_ceilings |-> Table(Count), applied_rates |-> Many(AppliedRate)])
  ++ Optional([minimum_billed_units |-> Table(Count)]))

---------------------------------------------------------------------------
(***************************************************************************)
(* src/types/jobs.rs                                                       *)
(***************************************************************************)
Settled == {"succeeded", "failed", "suspended", "cancelled"}     \* JobState::is_terminal
JobState == Closed(Settled \cup {"queued", "running"})
JobExecution == Closed({"plan", "run"})

JobPreflight == Struct(Optional([estimated_credits |-> Count, estimate_basis |-> Text]))

JobChunk == Struct(
  Lenient([seq |-> Count, items |-> Count, state |-> Text])
  ++ Optional(Each({"ref", "rate_book_version"}, Text) ++ Each({"units", "credits_charged"}, Count)
              ++ [error |-> Json]))

ConnectorJobValidation == Struct(Optional(Each({"source", "identity", "sink"}, Text)))

ConnectorJobCapabilities == Struct(
  Lenient(Each({"incremental_inference", "incremental_source_scan", "incremental_selection"}, Flag))
  ++ Optional(Each({"source_scan", "source_proof", "checkpoint_profile", "inference", "snapshot",
                    "ordering", "deletion_handling", "publication"}, Text)
              ++ [sink_targets |-> Json]))

ConnectorPlanOutputShape == Struct(
  Lenient(Each({"result_kind", "output_field"}, Text) ++ [output_types |-> Many(Text)])
  ++ Optional([dimensions |-> Count]))

ConnectorJobPlan == Struct(
  Lenient(Each({"revision", "rows", "mapped_bytes", "input_bytes", "eligible_count",
                "eligible_input_byte_count", "matched_checkpoint_count",
                "skipped_unchanged_count", "deleted_preserved_count",
                "max_reservation_credits"}, Count)
          ++ [expires_at |-> Real, executable |-> Flag, output |-> ConnectorPlanOutputShape,
              validation |-> ConnectorJobValidation, capabilities |-> ConnectorJobCapabilities])
  ++ Optional(Each({"executor_availability", "blocking_code", "eligible_count_quality",
                    "cost_basis"}, Text)
              ++ [executor_available |-> Flag, output_dimensions |-> Count]))

ConnectorJobCheckpoint == Struct(
  Lenient(Each({"profile_version", "expected_generation", "generation",
                "published_revision"}, Count))
  ++ Optional(Each({"profile", "region"}, Text)))

ConnectorJobItemOutcomes == Struct(Lenient(
  Each({"claimed", "dispatched", "inferred", "staged", "published", "failed",
        "reexecution_required", "skipped_unchanged"}, Count)))

ConnectorJobPublication == Struct(Lenient(
  Each({"attempt_ordinal", "revision", "published", "skipped_unchanged", "deleted", "failed",
        "reexecuted"}, Count) ++ [committed_at |-> Real]))

ConnectorJobOverlapOwner == Struct(Lenient([job_id |-> Text, attempt_ordinal |-> Count]))

ConnectorJobAttempt == Struct(
  Lenient(Each({"action", "state"}, Text)
          ++ [ordinal |-> Count, replayed |-> Flag, created_at |-> Real,
              item_outcomes |-> ConnectorJobItemOutcomes])
  ++ Optional(Each({"outcome", "error_code"}, Text)
              ++ Each({"recovery_attempt_ordinal", "billed_credits"}, Count)
              ++ [overlap_owner |-> ConnectorJobOverlapOwner,
                  publication |-> ConnectorJobPublication, finished_at |-> Real]))

ConnectorJobRepairWindow == Struct(Optional(
  Each({"attempts_used", "attempts_remaining", "attempts_max"}, Count) ++ [expires_at |-> Real]))

ConnectorJobRecovery == Struct(
  Lenient([required |-> Flag, reexecution_required |-> Flag, repair |-> ConnectorJobRepairWindow])
  ++ Optional(Each({"state", "outcome", "error_code"}, Text)))

JobStatus == Struct(
  Lenient(Each({"id", "object", "operation", "model"}, Text)
          ++ [attempts |-> Many(ConnectorJobAttempt)])
  ++ Optional(Each({"phase", "outcome", "error_code"}, Text)
              ++ Each({"total_items", "completed_items", "chunks", "settled_credits",
                       "plan_revision"}, Count)
              ++ Each({"plan_expires_at", "idempotency_expires_at", "created_at",
                       "finished_at"}, Real)
              ++ [state |-> JobState, execution |-> JobExecution, preflight |-> JobPreflight,
                  plan |-> ConnectorJobPlan, checkpoint |-> ConnectorJobCheckpoint,
                  attempt |-> ConnectorJobAttempt, publication |-> ConnectorJobPublication,
                  recovery |-> ConnectorJobRecovery, output |-> Json]))

---------------------------------------------------------------------------
(***************************************************************************)
(* src/types/resources.rs                                                  *)
(***************************************************************************)
Listed(type) ==       \* FileList, BatchList
  Struct(Lenient([object |-> Text, data |-> Many(type), has_more |-> Flag])
         ++ Optional(Each({"first_id", "last_id"}, Text)))

File == Struct(
  Lenient(Each({"id", "object", "filename", "purpose", "status"}, Text)
          ++ [bytes |-> Count, created_at |-> Whole])
  ++ Optional([expires_at |-> Whole]))

FileDeleted == Struct(Lenient([id |-> Text, object |-> Text, deleted |-> Flag]))

BatchRequestCounts == Struct(Lenient(Each({"total", "completed", "failed"}, Count)))

Batch == Struct(
  Lenient(Each({"id", "object", "endpoint", "input_file_id", "completion_window", "status"}, Text)
          ++ [created_at |-> Whole, request_counts |-> BatchRequestCounts])
  ++ Optional(Each({"output_file_id", "error_file_id"}, Text)
              ++ Each({"finished_at", "in_progress_at", "completed_at", "failed_at", "expired_at",
                       "cancelled_at"}, Whole)
              ++ Each({"errors", "metadata"}, Json)))

ConnectionFields ==
  Lenient(Each({"type", "name"}, Text) ++ Each({"id", "authorization_generation"}, Whole)
          ++ [created_at |-> Real])
  ++ Optional(Each({"source_schema", "sink_schema"}, Text))

Connection == Struct(ConnectionFields)

\* serde(flatten)
ConnectionCreated == Struct(Lenient([org |-> Text, account_id |-> Whole]) ++ ConnectionFields)

ConnectionRevoked == Struct(Lenient(
  Each({"org", "name", "state"}, Text) ++ [account_id |-> Whole]))

AssignedWorkerInfo == Struct(Lenient(Each({"name", "url", "gpu", "bundle"}, Text)))

PoolStatusInfo == Struct(Lenient(
  Each({"created_at", "last_renewed"}, Real)
  ++ [state |-> Text, assigned_workers |-> Many(AssignedWorkerInfo)]))

PoolSpecResponse == Struct(
  Lenient(Each({"name", "queue_pool"}, Text) ++ Each({"gpus", "gpu_caps"}, Table(Count))
          ++ [minimum_worker_count |-> Count, pinned_models |-> Many(Text)])
  ++ Optional([bundle |-> Text]))

PoolInfo == Struct(Lenient(
  [name |-> Text, spec |-> PoolSpecResponse, status |-> PoolStatusInfo]))

PoolListItem == Struct(Lenient(
  Each({"name", "state"}, Text) ++ [gpus |-> Table(Count), worker_count |-> Count]))
=============================================================================
