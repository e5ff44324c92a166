----------------------------- MODULE Generation -----------------------------
(***************************************************************************)
(* /v1/generate, /v1/chat/completions, /v1/responses and /v1/estimate      *)
(* (src/client/generate.rs, the sends of src/client/stream.rs): what a     *)
(* builder puts into the body of each of its three uses, to send, to       *)
(* stream and to estimate.  A call's params are the fields its builder's   *)
(* setters set; extra_body is None, an object or another JSON value.       *)
(***************************************************************************)
EXTENDS Items

GenerateParams ==
  {"max_new_tokens", "temperature", "top_p", "stop", "frequency_penalty", "presence_penalty",
   "grammar", "seed", "logit_bias", "routing_key", "prompt_cache_key", "safety_identifier",
   "lora_adapter", "options", "logprobs", "top_logprobs"}

\* No setter of GenerateRequest sets the last two.
GenerateSetters == GenerateParams \ {"max_new_tokens", "logprobs", "top_logprobs"}

ChatParams ==
  {"max_completion_tokens", "max_tokens", "temperature", "top_p", "top_k", "repetition_penalty",
   "stop", "tools", "tool_choice", "parallel_tool_calls", "response_format",
   "frequency_penalty", "presence_penalty", "n", "best_of", "logprobs", "top_logprobs",
   "logit_bias", "seed", "user", "safety_identifier", "lora_adapter", "stream_options"}

ResponseParams == {"max_output_tokens", "temperature", "top_p", "seed"}

\* The params of a builder on which the setters of the given fields were called.
Set(params, given) == [p \in params |-> Get(given, p)]

\* escape_model: a model is the parts its slashes separate.
escape_model(model) ==
  FoldLeft(LAMBDA path, part : path \o <<"__", part>>, <<Head(model)>>, Tail(model))

\* params_object: the fields that were set.
params_object(params) == Given(params)

images_for_json(images) == All([i \in DOMAIN images |-> resolve_image(images[i])])

\* merge_extra_body: an object's entries over the body's, anything else ignored.
merge_extra_body(body, extra) ==
  IF extra = None \/ ~extra.object THEN body ELSE Over(extra.fields, body)

Streamed(stream) == IF stream THEN [stream |-> TRUE] ELSE Empty

\* What defines a generate request, whatever extra_body says.
Defining(call, stream) ==
  Over(Streamed(stream),
       [prompt |-> call.prompt, max_new_tokens |-> call.params.max_new_tokens])

\* Slip: the fields that define the request are not written again.
Reasserted_not(body, call, stream) == body

Reasserted(body, call, stream) == Over(Defining(call, stream), body)

\* GenerateRequest::body
generate_body(call, stream) ==
  LET images == images_for_json(call.images)
      built == Over(Over(Defining(call, stream),
                         IF call.images = <<>> THEN Empty ELSE [images |-> images.value]),
                    params_object(call.params))
      kept == IF Get(call.params, "logprobs") = TRUE THEN built
              ELSE Without(built, {"top_logprobs"})
  IN IF ~images.ok THEN images
     ELSE Ok(Reasserted(merge_extra_body(kept, call.extra_body), call, stream))

\* best_of cannot be streamed.
Streamable(params, stream) == IF stream THEN Without(params, {"best_of"}) ELSE params

\* ChatRequest::body: extra_body has the last word.
chat_body(call, stream) ==
  LET built == Over(Over(Streamed(stream), [model |-> call.model, messages |-> call.messages]),
                    params_object(Streamable(call.params, stream)))
  IN Ok(merge_extra_body(built, call.extra_body))

\* ResponsesRequest::body; there is no stream of it.
responses_body(call) ==
  Ok(Over([model |-> call.model, input |-> call.input], params_object(call.params)))

generation_body(call, stream) ==
  CASE call.op = "generate" -> generate_body(call, stream)
    [] call.op = "chat" -> chat_body(call, stream)
    [] call.op = "responses" -> responses_body(call)

Path(call) ==
  CASE call.op = "generate" -> <<"/v1/generate">> \o escape_model(call.model)
    [] call.op = "chat" -> <<"/v1/chat/completions">>
    [] call.op = "responses" -> <<"/v1/responses">>

Posted(path, body, policy, accept) ==
  IF ~body.ok THEN body
  ELSE Ok([path |-> path, body |-> body.value, policy |-> policy, accept |-> accept])

\* send: one JSON answer; only generate is not replayed by the STREAM policy.
send(call) ==
  Posted(Path(call), generation_body(call, FALSE),
         IF call.op = "generate" THEN "GENERATE" ELSE "STREAM", "json")

\* stream, through sse_request.
stream(call) == Posted(Path(call), generation_body(call, TRUE), "STREAM", "sse")

\* Client::estimate, of an absolute path and a JSON object.
estimate(endpoint, request) ==
  IF ~endpoint.absolute \/ ~request.object THEN Err("invalid")
  ELSE Posted(<<"/v1/estimate">>,
              Ok([endpoint |-> endpoint.path, request |-> request.fields]), "ESTIMATE", "json")

\* Slip: what a stream would post is priced.
estimate_call_streamed(call) ==
  LET body == generation_body(call, TRUE)
  IN IF ~body.ok THEN body
     ELSE estimate([absolute |-> TRUE, path |-> Path(call)],
                   [object |-> TRUE, fields |-> body.value])

\* The estimate of a builder: of what send would post.
estimate_call(call) ==
  LET body == generation_body(call, FALSE)
  IN IF ~body.ok THEN body
     ELSE estimate([absolute |-> TRUE, path |-> Path(call)],
                   [object |-> TRUE, fields |-> body.value])
=============================================================================
