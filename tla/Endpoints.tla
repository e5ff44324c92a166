------------------------------ MODULE Endpoints ------------------------------
(***************************************************************************)
(* One call of the SDK from its arguments to its result: the request it    *)
(* posts, or the error that keeps it from posting one; any answer an       *)
(* honest server gives; the result the answer becomes.  How often the      *)
(* request is sent, and when, is ClientSend's and Polling's part.          *)
(***************************************************************************)
EXTENDS Inference, Generation, ClientConfig, Resources, SseEvents

CONSTANTS
  Calls,            \* a sequence of sets of calls, one set per shape
  Replies(_, _),    \* the answers to a call that has posted a request
  Document(_, _, _) \* the JSON document of an answer

(***************************************************************************)
(* What the builders and the types of the SDK make of any call, and what   *)
(* the readers of an answer make of its bytes before this module starts.   *)
(***************************************************************************)
Inferences == {"encode", "score", "extract"}
Generations == {"generate", "chat", "responses"}

IsJson(value) == value = None \/ (value.object \in BOOLEAN /\ IsObject(value.fields))

IsUrl(url) ==
  IsObject(url) /\ DOMAIN url = {"scheme", "host", "port", "userinfo"} /\ url.userinfo \in BOOLEAN

Sources == {"bytes", "path", "pixels"}

SamplesTyped(samples) ==
  /\ IsList(samples.values) /\ samples.unit \in Nat \ {0}
  /\ \A k \in DOMAIN samples.values : samples.values[k] # None => samples.values[k] \in Int

ItemTyped(item) ==
  /\ IsList(item.images) /\ \A i \in DOMAIN item.images : item.images[i].from \in Sources
  /\ item.audio # None =>
       /\ item.audio.from \in {"bytes", "path", "waveform"}
       /\ item.audio.from = "waveform" => SamplesTyped(item.audio.samples)
  /\ \A input \in {item.video, item.document} \ {None} : input.from \in {"bytes", "path"}

CallTyped(c) ==
  /\ c.op \in Inferences =>
       /\ IsList(c.items) /\ \A i \in DOMAIN c.items : ItemTyped(c.items[i])
       /\ IsJson(c.options) /\ IsJson(c.defaults)
  /\ c.op = "score" => ItemTyped(c.query)
  /\ c.op \in {"encode", "extract"} => "one" \in DOMAIN c /\ c.one \in BOOLEAN
  /\ c.op = "generate" =>
       /\ IsObject(c)
       /\ DOMAIN c = {"op", "model", "prompt", "images", "params", "extra_body"}
       /\ IsObject(c.params) /\ DOMAIN c.params = GenerateParams
       /\ c.params.logprobs = None /\ c.params.top_logprobs = None
       /\ IsJson(c.extra_body)
       /\ IsList(c.images)
       /\ \A i \in DOMAIN c.images :
            /\ IsObject(c.images[i]) /\ {"from", "file", "format"} \subseteq DOMAIN c.images[i]
            /\ c.images[i].from \in Sources
  /\ c.op = "submit" =>
       /\ c.job.execution \in {None, "plan", "run"}
       /\ c.job.sink.to \in {"return", "inplace", "connector"}
       /\ c.job.source.inline \in BOOLEAN
       /\ ~c.job.source.inline => IsObject(c.job.source.uri)
       /\ c.job.sink.to = "connector" => IsObject(c.job.sink.uri)
  /\ c.op = "client" =>
       /\ c.kind \in {"gateway", "connections", "payload", "handshake"}
       /\ c.config.base_url # None => IsUrl(c.config.base_url)
  /\ c.op = "line" => c.line.spaces \in Nat
  /\ c.op = "maxsim" => IsList(c.queries) /\ IsList(c.documents)
  /\ c.op = "sparse_to_dense" =>
       /\ IsList(c.sparse.indices) /\ IsList(c.sparse.values) /\ c.dims \in Nat
       /\ \A k \in DOMAIN c.sparse.indices : c.sparse.indices[k] \in Nat
  /\ c.op = "rows_to_array" => IsList(c.matrix) /\ \A i \in DOMAIN c.matrix : IsList(c.matrix[i])
  /\ c.op = "decode_chunk" /\ c.payload # None /\ c.payload.array => IsList(c.payload.entries)

ItemTensorsTyped(item) ==
  \A key \in {"dense", "sparse", "multivector"}, part \in {"indices", "values"} :
    Get(item, key) # None /\ Get(item[key], part) # None => TensorTyped(item[key][part])

AnswerTyped(c, answer) ==
  /\ answer.status \in Nat /\ answer.retries \in Nat
  /\ c.op \in Inferences /\ answer.status < 400 /\ ItemsOf(answer) # None =>
       IsList(ItemsOf(answer))
  /\ c.op = "encode" /\ answer.status < 400 /\ ItemsOf(answer) # None =>
       \A i \in DOMAIN ItemsOf(answer) : ItemTensorsTyped(ItemsOf(answer)[i])
  /\ c.op = "score" /\ answer.status < 400 /\ answer.body # None
        /\ Get(answer.body, "scores") # None =>
       /\ IsList(answer.body.scores)
       /\ \A i \in DOMAIN answer.body.scores :
            Or(Get(answer.body.scores[i], "rank"), 0) \in Nat

ASSUME CallsAssumption == \A i \in DOMAIN Calls : \A c \in Calls[i] : CallTyped(c)

VARIABLES
  call,             \* the operation and its arguments
  stage,            \* "ready", "posted", "answered", "done"
  request,          \* what was posted
  reply,            \* what was answered
  outcome,          \* what the caller gets
  priced            \* the request an earlier estimate of this call priced

vars == <<call, stage, request, reply, outcome, priced>>

Init ==
  /\ \E i \in DOMAIN Calls : call \in Calls[i]
  /\ stage = "ready" /\ request = None /\ reply = None /\ outcome = None /\ priced = None

Post(ops, result) ==
  /\ stage = "ready" /\ call.op \in ops
  /\ IF result.ok THEN stage' = "posted" /\ request' = result.value /\ UNCHANGED outcome
     ELSE stage' = "done" /\ outcome' = result /\ UNCHANGED request
  /\ UNCHANGED <<call, reply, priced>>

Return(ops, result) ==
  /\ stage = "answered" /\ call.op \in ops
  /\ stage' = "done" /\ outcome' = result
  /\ UNCHANGED <<call, request, reply, priced>>

\* Functions that send nothing.
Compute(ops, result) ==
  /\ stage = "ready" /\ call.op \in ops
  /\ stage' = "done" /\ outcome' = result
  /\ UNCHANGED <<call, request, reply, priced>>

---------------------------------------------------------------------------
(***************************************************************************)
(* Requests                                                                *)
(***************************************************************************)
Infer == Post(Inferences, inference_body(call.defaults, call))

Generate == Post(Generations, send(call))

Stream == Post({"generate", "chat"}, stream(call))

Estimate ==
  \/ priced = None /\ Post(Generations, estimate_call(call))
  \/ Post({"estimate"}, estimate(call.endpoint, call.request))

SubmitJob == Post({"submit"}, submit(call.job))

ActOnJob == Post({"act"}, plan_action(call.id, call.suffix, call.body, call.key))

Upload == Post({"upload"}, upload(call))

List ==
  \/ Post({"files"}, list_files(call))
  \/ Post({"batches"}, list_batches(call))
  \/ Post({"jobs"}, Fetch(<<"/v1/jobs">>, Empty))
  \/ Post({"models"}, Fetch(<<"/v1/models">>, Empty))
  \/ Post({"connections"},
          IF ConnectionsPath(call.client).ok THEN Fetch(ConnectionsPath(call.client).value, Empty)
          ELSE ConnectionsPath(call.client))

One ==
  \/ Post({"file"}, one_file(call))
  \/ Post({"batch"}, one_batch(call))
  \/ Post({"job"}, Ok(Request(IF call.what = "cancel" THEN "POST" ELSE "GET",
                              <<"/v1/jobs", call.id>> \o IF call.what = "cancel" THEN <<"cancel">>
                                                         ELSE <<>>, Empty, "metadata")))
  \/ Post({"model"}, Fetch(<<"/v1/models", call.id>>, Empty))
  \/ Post({"pool"}, Fetch(<<"/v1/pools", call.id>>, Empty))

Create ==
  \/ Post({"create_batch"}, create_batch(call))
  \/ Post({"create_pool"}, create_pool(call))
  \/ Post({"connect"}, add_connection(call.client, call))
  \/ Post({"revoke"}, revoke(call.client, call.name))

Health == Post({"capacity"}, Fetch(<<"/health">>, Empty))

\* A client is built and one request of each kind goes to where it belongs.
Target(c, client) ==
  CASE c.kind = "gateway" -> Ok(client.base_url)
    [] c.kind = "connections" ->
         IF client.control_plane = None \/ client.org = None THEN Err("invalid")
         ELSE Ok(client.control_plane)
    [] c.kind = "payload" -> Ok(c.url)
    [] c.kind = "handshake" -> websocket_url(client)

connect(c) ==
  LET built == build(c.config)
      client == built.value
      target == Target(c, client)
      routed == routing(client, c.gpu)
  IN IF ~built.ok THEN built
     ELSE IF ~target.ok THEN target
     ELSE Ok([client |-> client, url |-> target.value,
              carries |-> Credentials(client, c.kind, target.value),
              headers |-> Over(maybe_header("pool", routed.pool),
                               maybe_header("profile", routed.profile))])

Connect == Post({"client"}, connect(call))

\* What a stream of generate and one of chat yield.
ChunkType(of) == IF of = "generate" THEN GenerateChunk ELSE ChatCompletionChunk

Local ==
  \/ Compute({"maxsim"}, Ok(maxsim_batch(call.queries, call.documents)))
  \/ Compute({"sparse_to_dense"}, sparse_to_dense(call.sparse, call.dims))
  \/ Compute({"rows_to_array"}, rows_to_array(call.matrix))
  \/ Compute({"decode_chunk"}, decode_chunk(call.payload))
  \/ Compute({"skew"}, Ok(warn_once(call.warned, call.sdk, call.server)))
  \/ Compute({"mask"}, Ok(mask_token(call.token)))
  \/ Compute({"log"}, Ok(endpoint_origin_for_log(call.url)))
  \/ Compute({"line"}, LineEvent(call.line, ChunkType(call.of)))

---------------------------------------------------------------------------
(***************************************************************************)
(* Answers, and the type each operation reads its document as.             *)
(***************************************************************************)
Answer ==
  /\ stage = "posted"
  /\ reply' \in Replies(call, request)
  /\ stage' = "answered"
  /\ UNCHANGED <<call, request, outcome, priced>>

\* What is on disk under a path changes between two uses of it.
FileChanges ==
  /\ stage = "ready" /\ priced # None /\ call.op = "generate"
  /\ \E i \in DOMAIN call.images :
       /\ call.images[i].from = "path" /\ call.images[i].file # "gif"
       /\ call' = [call EXCEPT !.images[i].file = "gif"]
  /\ UNCHANGED <<stage, request, reply, outcome, priced>>

\* The listings with an envelope of their own.
Enveloped(key, type) == Struct(Required(key :> Many(type)))

ListKey(op) ==
  CASE op = "jobs" -> "data" [] op = "models" -> "models" [] op = "connections" -> "connections"

Element(op) ==
  CASE op = "files" -> File [] op = "batches" -> Batch [] op = "jobs" -> JobStatus
    [] op = "models" -> ModelInfo [] op = "connections" -> Connection

PolicyOf(posted) ==
  IF posted # None /\ "policy" \in DOMAIN posted THEN posted.policy ELSE None

DocumentType(c, posted) ==
  IF PolicyOf(posted) = "ESTIMATE" THEN CostEstimate
  ELSE
  CASE c.op \in Generations /\ posted.accept = "sse" -> ChunkType(c.op)
    [] c.op = "generate" /\ posted.accept = "json" -> GenerateResult
    [] c.op = "chat" /\ posted.accept = "json" -> ChatCompletion
    [] c.op = "responses" -> ResponseResult
    [] c.op \in {"submit", "act", "job"} -> JobStatus
    [] c.op = "upload" -> File
    [] c.op = "file" -> IF c.what = "delete" THEN FileDeleted
                        ELSE IF c.what = "content" THEN Json ELSE File
    [] c.op \in {"batch", "create_batch"} -> Batch
    [] c.op \in {"files", "batches"} -> Listed(Element(c.op))
    [] c.op \in {"jobs", "models", "connections"} -> Enveloped(ListKey(c.op), Element(c.op))
    [] c.op = "model" -> ModelInfo
    [] c.op \in {"pool", "create_pool"} -> PoolInfo
    [] c.op = "connect" -> ConnectionCreated
    [] c.op = "revoke" -> ConnectionRevoked
    [] c.op = "capacity" -> HealthResponse
    [] c.op = "client" -> IF WatchMode(c.mode, [ok |-> TRUE, value |-> [type |-> c.probed]]) = "worker"
                          THEN WorkerStatusMessage ELSE ClusterStatusMessage

---------------------------------------------------------------------------
(***************************************************************************)
(* Results                                                                 *)
(***************************************************************************)
Refused == reply # None /\ reply.status >= 400

ModelOf(c) == IF c.op \in Inferences \cup Generations THEN c.model ELSE None

\* A pool that is not there is no error of get.
Fail ==
  /\ Refused
  /\ Return({call.op} \ {"capacity"},
            IF call.op = "pool" /\ reply.status = 404 THEN Ok(None)
            ELSE Err(ErrorOf(reply, ModelOf(call), PolicyOf(request))))

Encoded_ ==
  /\ ~Refused
  /\ Return({"encode"}, IF call.one THEN send_one(encode_results(call, reply))
                        ELSE encode_results(call, reply))

Scored == ~Refused /\ Return({"score"}, score_result(reply))

Extracted ==
  /\ ~Refused
  /\ Return({"extract"}, IF call.one THEN send_one(extract_results(reply))
                         ELSE extract_results(reply))

\* metadata::parse reads a JSON envelope's usage: a whole number and a text.
JsonUsage(document) ==
  LET node == Get(document.fields, "usage")
      value(f, is) == IF f \in DOMAIN node.fields /\ node.fields[f].is = is
                      THEN node.fields[f].value ELSE None
  IN IF node = None \/ node.is # "object" THEN None
     ELSE [credits_charged |-> value("credits_charged", "whole"),
           rate_book_version |-> value("rate_book_version", "text")]

\* What send_json, ListRequest::page and the rest make of a document.
Decoded(c, posted, answer) ==
  LET document == Document(c, posted, answer)
      plain == Deserialize(document, DocumentType(c, posted))
  IN CASE c.op \in Generations /\ posted.policy # "ESTIMATE" /\ posted.accept = "json" ->
            IF ~plain.ok THEN plain
            ELSE Ok([plain.value EXCEPT
                       !.request = parse(answer.headers, JsonUsage(document), answer.retries)])
       [] c.op = "files" -> file_page(document)
       [] c.op = "batches" -> batch_page(document)
       [] c.op \in {"jobs", "connections"} -> ListOf(document, ListKey(c.op), Element(c.op))
       [] c.op = "models" -> models_of(document)
       [] c.op = "file" /\ c.what = "content" -> Ok(answer.text)
       [] OTHER -> plain

Documents ==
  Generations \cup {"estimate", "submit", "act", "job", "upload", "file", "batch", "create_batch", "files",
                    "batches", "jobs", "models", "connections", "model", "pool", "create_pool",
                    "connect", "revoke"}

Receive == ~Refused /\ Return(Documents, Decoded(call, request, reply))

\* A status frame; what is neither a status nor the end is passed over.
StatusFrame ==
  /\ ~Refused
  /\ Return({"client"}, CASE Frame(reply.text) = "fail" -> Err("connection")
                          [] Frame(reply.text) = "status" -> Decoded(call, request, reply)
                          [] OTHER -> Ok(None))

\* health and, where there is none, the worker's own probe.
Capacity ==
  Return({"capacity"},
         LET document == Document(call, request, reply)
             health == health_of([status |-> reply.status, body |-> document],
                                 [status |-> reply.probe, text |-> reply.text])
         IN capacity_of(health, call.gpu))

\* The caller builds the call it has had priced again.
BuildAgain ==
  /\ stage = "done" /\ call.op \in Generations /\ request # None /\ request.policy = "ESTIMATE"
  /\ stage' = "ready" /\ priced' = request.body
  /\ request' = None /\ reply' = None /\ outcome' = None
  /\ UNCHANGED call

Requests ==
  \/ Infer \/ Generate \/ Stream \/ Estimate \/ SubmitJob \/ ActOnJob \/ Upload \/ List \/ One
  \/ Create \/ Health \/ Connect \/ Local

Results ==
  Fail \/ Encoded_ \/ Scored \/ Extracted \/ Receive \/ StatusFrame \/ Capacity \/ BuildAgain

Next == Requests \/ Answer \/ FileChanges \/ Results

Spec == Init /\ [][Next]_vars

---------------------------------------------------------------------------
(***************************************************************************)
(* Properties                                                              *)
(***************************************************************************)
Done(ops) == stage = "done" /\ call.op \in ops /\ outcome.ok /\ reply # None

\* One result or many, as a sequence.
Outcomes == IF "one" \in DOMAIN call /\ call.one THEN <<outcome.value>> ELSE outcome.value

\* The call's state fits its stage; what the code keeps as u32 is one, the
\* indices of a sparse vector and the ranks of a score among it.
TypeOK ==
  /\ stage \in {"ready", "posted", "answered", "done"}
  /\ (outcome = None) = (stage # "done")
  /\ stage \in {"posted", "answered"} => request # None
  /\ CallTyped(call)
  /\ stage = "answered" => reply # None /\ AnswerTyped(call, reply)
  /\ priced # None => call.op \in Generations
  /\ Done({"encode"}) =>
       \A i \in DOMAIN Outcomes : Outcomes[i].sparse # None =>
         ToSet(Outcomes[i].sparse.indices) \subseteq 0..u32 - 1
  /\ Done({"score"}) =>
       \A i \in DOMAIN outcome.value.scores : outcome.value.scores[i].rank \in 0..u32 - 1

\* An encode returns exactly one result per item it was given, the i-th being
\* the i-th of the answer, and one result where it was asked for one: a caller
\* who zips items with results pairs nothing wrongly.
EncodeIsPositional ==
  Done({"encode"}) =>
    /\ Len(Outcomes) = Len(call.items)
    /\ Len(Outcomes) = Len(reply.body.items)
    /\ \A i \in DOMAIN Outcomes : Outcomes[i].id = Get(reply.body.items[i], "id")

\* What a caller makes of a tensor, its rows, its sparse form and the scores of
\* it, loses nothing and changes nothing.
ConversionsExact ==
  /\ call.op = "rows_to_array" /\ outcome.ok =>
       /\ outcome.value.elements = FlattenSeq(call.matrix)
       /\ Len(outcome.value.elements) = Product(outcome.value.shape)
  /\ call.op = "sparse_to_dense" /\ outcome.ok =>
       LET indices == call.sparse.indices
           values == call.sparse.values
           pairs == DOMAIN indices \cap DOMAIN values
       IN /\ DOMAIN outcome.value = 0..call.dims - 1
          /\ \A k \in pairs :
               \E l \in pairs :
                 l >= k /\ indices[l] = indices[k] /\ outcome.value[indices[k]] = values[l]
          /\ \A i \in DOMAIN outcome.value :
               (\A k \in pairs : indices[k] # i) => outcome.value[i] = Zero
  /\ call.op = "maxsim" =>
       outcome.value = [q \in DOMAIN call.queries |-> maxsim(call.queries[q], call.documents)]

\* The numbers an encode returns are those the server sent, rounded as little as
\* an f32 has to be: some values of the dtype, written in its width and order, give
\* the bytes of the answer, and each result is the f32 of its value, the value itself
\* below 2^24; a multivector's rows put together are such numbers, and indices are
\* never rounded.
TensorsAsSent ==
  /\ Done({"encode"}) =>
       \A i \in DOMAIN Outcomes :
         LET result == Outcomes[i]
             item == reply.body.items[i]
         IN /\ result.dense # None => AsSent(result.dense, item.dense.values)
            /\ result.multivector # None =>
                 AsSent(FlattenSeq(result.multivector), item.multivector.values)
            /\ result.sparse # None =>
                 /\ Holds(result.sparse.indices, item.sparse.indices)
                 /\ AsSent(result.sparse.values, item.sparse.values)
  /\ stage = "done" => ConversionsExact

Alias(format) == IF format \in {"jpg", "jpe"} THEN "jpeg" ELSE format

\* An image that is known for what it is, whatever is declared of it.
Truthful(image) ==
  /\ image.from = "pixels" => image.encodable
  /\ image.from # "pixels" => image.file \in Formats
  /\ image.format # None =>
       /\ image.format.ascii /\ image.format.length \in 1..32
       /\ Alias(image.format.lowered) = IF image.from = "pixels" THEN "jpeg" ELSE image.file

\* A sample of a waveform: the nearest one of the i16 range.
Nearest(y, x, unit) ==
  LET scaled == Clamp(x, -unit, unit) * IF x < 0 THEN PcmMax ELSE PcmMax - 1
  IN y \in -PcmMax..PcmMax - 1 /\ 2 * (y * unit - scaled) \in -unit..unit

\* The format an item is sent under is that of its bytes: an image whose
\* declaration contradicts them is refused before anything is sent, and one
\* whose declaration agrees, in any spelling, is not.  A waveform is sent as
\* the samples nearest to it, clipped and not wrapped.
MediaTruthful ==
  call.op \in {"encode", "extract"} /\ priced = None =>
    /\ stage = "posted" =>
         \A i \in DOMAIN call.items :
           LET item == call.items[i]
               sent == request.items[i]
           IN /\ \A j \in DOMAIN item.images :
                   Truthful(item.images[j]) /\ sent.images[j].format = sent.images[j].data
              /\ item.audio # None /\ item.audio.from = "waveform" /\ ~item.audio.samples.i16 =>
                   \A k \in DOMAIN item.audio.samples.values :
                     Nearest(sent.audio.data[k], item.audio.samples.values[k],
                             item.audio.samples.unit)
    /\ stage = "done" /\ request = None /\ call.items # <<>> =>
         \E i \in DOMAIN call.items :
           \/ \E j \in DOMAIN call.items[i].images : ~Truthful(call.items[i].images[j])
           \/ \E a \in {call.items[i].audio, call.items[i].video, call.items[i].document} \ {None} :
                a.from = "waveform" \/ a.file = None

Entries(options) == IF options = None THEN Empty ELSE options.fields

\* An option of an inference call is the call's own value, else the client's
\* default, else not sent; whether the items are queries is what the builder
\* was told, also beside options that say otherwise.
OptionsLayered ==
  stage = "posted" /\ call.op \in Inferences =>
    LET where == IF call.op = "score" THEN request ELSE Or(Get(request, "params"), Empty)
        sent == Entries(Get(where, "options"))
        own == Over(IF call.op = "encode" THEN Given([is_query |-> call.is_query]) ELSE Empty,
                    Entries(call.options))
        default == Entries(call.defaults)
    IN sent = Over(own, default)

\* An item whose extraction failed says so, with a code and a message, however
\* its error was written; an item without an error has none.
ExtractFailuresShown ==
  Done({"extract"}) =>
    \A i \in DOMAIN Outcomes :
      LET error == Outcomes[i].error
          node == Get(reply.body.items[i], "error")
      IN /\ (error = None) = (node = None)
         /\ error # None =>
              /\ "" \notin {error.code, error.message}
              /\ Get(node, "code") \notin {None, ""} /\ Get(node, "message") \notin {None, ""} =>
                   error = [code |-> node.code, message |-> node.message]

\* What the results of a call, or its error, say of its metering.
Meters ==
  IF stage # "done" \/ reply = None \/ call.op \notin Inferences \cup Generations THEN {}
  ELSE (IF ~outcome.ok
        THEN IF Refused THEN {request_metadata(outcome.error)} ELSE {Get(outcome, "request")}
        ELSE IF call.op \in {"encode", "extract"}
             THEN {Outcomes[i].request : i \in DOMAIN Outcomes}
        ELSE {Get(outcome.value, "request")}) \ {None}

\* An event whose payload has an error object is an error, with a code and a
\* message, whatever else the payload has: never a chunk, which would make the
\* stream go on and later errors terminal, and never the end.  Only the sentinel
\* ends a stream, and only a line of another field is passed over.
StreamErrorsShown ==
  stage = "done" /\ call.op = "line" =>
    LET line == call.line
        said == line.payload
        wrong == said.is = "object" /\ Get(said.fields, "error") # None /\ said.fields.error.is = "object"
        event == IF outcome.ok THEN outcome.value.event ELSE "failed"
    IN /\ (event = "skipped") = (line.field # "data")
       /\ (event = "done") = (line.field = "data" /\ said.is = "done" /\ line.spaces <= 1)
       /\ (event = "capacity") = (line.field = "data" /\ wrong)
       /\ event = "capacity" => "" \notin {outcome.value.code, outcome.value.message}

\* A settled charge is reported whole, its credits with the rate book that
\* priced them, or not at all; the credits debited are those of the charge
\* where there is one, and only else what the header says.
ChargeIsWhole ==
  \A m \in Meters :
    LET usage == Or(Get(m, "usage"), Empty)
        charged == Get(usage, "credits_charged")
        header == meter_header(reply.headers, "credits_debited")
    IN /\ (charged = None) = (Get(m, "rate_book_version") = None)
       /\ Get(usage, "rate_book_version") = Get(m, "rate_book_version")
       /\ Get(m, "credits_debited") = IF charged = None THEN header ELSE charged
       /\ m.retries = reply.retries

\* An error's code is the one of the error-code header, whatever the body says;
\* without the header, the body's, in the spelling the retry rules know.  Only a
\* request that capacity would help says that it lacks it: a price never does.
EnvelopeCodeAuthoritative ==
  stage = "done" /\ reply # None /\ Refused /\ ~outcome.ok /\ call.op # "capacity" =>
    LET header == Get(reply.headers, "error_code")
        body == IF reply.body = None THEN None ELSE envelope_from_value(reply.body).code
        error == outcome.error
    IN /\ error.status = reply.status
       /\ header \notin {None, ""} => error.code = header
       /\ header \in {None, ""} => error.code \notin {"provisioning"} /\ (error.code = None) = (body = None)
       /\ is_capacity_error(error) => error.code = "PROVISIONING" /\ PolicyOf(request) # "ESTIMATE"
       /\ Family(error) = "request" => reply.status < 500

\* A field that is null is a field that is missing: the same result, or the
\* same error.  Of the fields a server sends, the one that is not so read is the
\* type of a Responses output; request.retries, a count of the SDK's own, is the other
\* that a null fails, and no server sends it.
NullIsAbsence ==
  /\ stage = "answered" /\ call.op \in Documents \cup {"client"} /\ ~Refused
  /\ reply.change.to = "null"
  /\ ~(call.op = "responses" /\ request.policy # "ESTIMATE" /\ Last(reply.change.path) = "type")
  => Decoded(call, request, reply)
       = Decoded(call, request, [reply EXCEPT !.change.to = "absent"])

\* Where extra_body stops overriding: the prompt and the token limit of a generate
\* request are the builder's, and what is read as a stream was asked for as one,
\* whatever it says; every other field it has is its own, and a parameter it does
\* not name is the builder's.  The docs of extra_body say that it overrides anything.
DefiningFieldsHold ==
  stage = "posted" /\ call.op = "generate" =>
    LET body == IF request.policy = "ESTIMATE" THEN request.body.request ELSE request.body
        extra == IF call.extra_body = None \/ ~call.extra_body.object THEN Empty
                 ELSE call.extra_body.fields
        defining == {"prompt", "max_new_tokens"} \cup {f \in {"stream"} : request.accept = "sse"}
    IN /\ body.prompt = call.prompt
       /\ body.max_new_tokens = call.params.max_new_tokens
       /\ request.accept = "sse" => body.stream = TRUE
       /\ \A f \in DOMAIN extra \ defining : body[f] = extra[f]
       /\ \A p \in DOMAIN Given(call.params) \ DOMAIN extra : body[p] = call.params[p]

\* The edge credentials leave for the origin of the base URL only, and always
\* under TLS; the account's token never goes to a payload's store.
EdgeHeadersStayHome ==
  call.op = "client" /\ request # None =>
    LET base == call.config.base_url
        port(url) == Or(url.port, 443)
    IN /\ request.carries.edge =>
            /\ request.url.scheme \in {"https", "wss"} /\ ~request.url.userinfo
            /\ request.url.host = base.host /\ port(request.url) = port(base)
       /\ request.carries.authorization => call.kind # "payload"

\* An estimate prices what a send of the same builder then posts, to the same
\* endpoint; only images that are read from disk at each use can differ.
EstimatePricesTheSend ==
  /\ stage = "posted" /\ priced # None /\ request.policy # "ESTIMATE" /\ request.accept = "json"
  /\ \A i \in DOMAIN Or(Get(call, "images"), <<>>) : call.images[i].from # "path"
  => request.body = priced.request /\ request.path = priced.endpoint

\* A job that reads a store is submitted under a key the server can tell
\* its repetition by, and says whether it only plans; a job of inline items
\* carries none of this, and a sink's connection is never lost.
JobKeyed ==
  stage = "posted" /\ call.op = "submit" =>
    LET body == request.body
        job == call.job
    IN /\ "src" \in DOMAIN body => request.key # None /\ body.execution \in {"plan", "run"}
       /\ "items" \in DOMAIN body => request.key = None /\ DOMAIN body \cap
            {"src", "sink", "connection", "sink_connection", "execution", "field_map"} = {}
       /\ ("src" \in DOMAIN body) # ("items" \in DOMAIN body)
       /\ job.sink.to = "connector" /\ job.sink_connection # Unset =>
            Get(body, "sink_connection") = job.sink_connection
       /\ job.sink.to = "connector" /\ ~is_internal_uri(job.sink.uri) =>
            Or(Get(body, "sink_connection"), Get(body, "connection")) # None
=============================================================================
