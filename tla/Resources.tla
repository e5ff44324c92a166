------------------------------ MODULE Resources ------------------------------
(***************************************************************************)
(* Files, batches, connections, pools, models and health: one metadata     *)
(* request each (src/client/files.rs, batches.rs, connections.rs,          *)
(* pools.rs, meta.rs).  A document read from a body is an object, or a     *)
(* sequence when the body is an array; types are those of WireTypes.       *)
(***************************************************************************)
EXTENDS WireTypes, JobRequests

\* Where a request goes, and the fields of its query or its JSON body.
Request(method, path, fields, timeout) ==
  [method |-> method, path |-> path, fields |-> fields, timeout |-> timeout]

Fetch(path, fields) == Ok(Request("GET", path, fields, "metadata"))

(***************************************************************************)
(* Files                                                                   *)
(***************************************************************************)
\* basename: a path that ends in no name gets the default.
basename(path) == Or(path.last, "upload.jsonl")

\* FileUpload::send: the bytes are read when it is sent.
upload(call) ==
  LET source == call.source
      default == IF source.from = "path" THEN basename(source) ELSE "upload.jsonl"
  IN IF source.file = None THEN Err("io")
     ELSE Ok(Request("POST", <<"/v1/files">>,
                     [purpose |-> Or(call.purpose, "batch"),
                      filename |-> Or(call.filename, default), data |-> source.file],
                     "transfer"))

\* FileListRequest::page, BatchListRequest::page
list_files(call) ==
  Fetch(<<"/v1/files">>, Given(Only(call, {"after", "limit", "order", "purpose"})))

list_batches(call) == Fetch(<<"/v1/batches">>, Given(Only(call, {"after", "limit"})))

\* Files::retrieve, content, delete; Batches::retrieve, cancel
one_file(call) ==
  Ok(Request(IF call.what = "delete" THEN "DELETE" ELSE "GET",
             IF call.what = "content" THEN <<"/v1/files", call.id, "content">>
             ELSE <<"/v1/files", call.id>>, Empty, "metadata"))

one_batch(call) ==
  Ok(IF call.what = "cancel"
     THEN Request("POST", <<"/v1/batches", call.id, "cancel">>, Empty, "metadata")
     ELSE Request("GET", <<"/v1/batches", call.id>>, Empty, "metadata"))

\* BatchCreate::send
create_batch(call) ==
  Ok(Request("POST", <<"/v1/batches">>,
             Over([input_file_id |-> call.input_file_id,
                   endpoint |-> Or(call.endpoint, "/v1/embeddings"),
                   completion_window |-> Or(call.completion_window, "24h")],
                  IF call.metadata = None THEN Empty ELSE [metadata |-> call.metadata]),
             "transfer"))

Cursors(files) == [first_id |-> Head(files).id, last_id |-> Last(files).id]

\* The answer to a listing of files: a bare array of an older gateway gets the
\* envelope it lacks.
file_page(body) ==
  LET files == Deserialize(body, Many(File))
  IN IF files.ok
     THEN Ok(Over([object |-> "list", has_more |-> FALSE, data |-> files.value],
                  IF files.value = <<>> THEN [first_id |-> None, last_id |-> None]
                  ELSE Cursors(files.value)))
     ELSE Deserialize(body, Listed(File))

\* The answer to a listing of batches: the envelope only.
batch_page(body) == Deserialize(body, Listed(Batch))

(***************************************************************************)
(* Connections and jobs                                                    *)
(***************************************************************************)
\* The array under a key of an envelope.
ArrayUnder(body, key, type) ==
  IF body.is # "object" \/ key \notin DOMAIN body.fields THEN Err("decode")
  ELSE Deserialize(body.fields[key], Many(type))

\* Connections::list, Jobs::list: a bare array, or the array under key.
ListOf(body, key, type) ==
  LET bare == Deserialize(body, Many(type))
  IN IF bare.ok THEN bare ELSE ArrayUnder(body, key, type)

\* Connections::base, of a client that was built with both.
ConnectionsPath(client) ==
  IF client.control_plane = None \/ client.org = None THEN Err("invalid")
  ELSE Ok(<<"internal/orgs", client.org, "connections">>)

\* ConnectionAdd::send: the names first, the base last.
add_connection(client, call) ==
  LET schemas == require_connection_schema_policy(call.type, call.source_schema,
                                                  call.sink_schema)
      path == ConnectionsPath(client)
  IN IF call.name = None \/ ~schemas.ok THEN Err("invalid")
     ELSE IF ~path.ok THEN path
     ELSE Ok(Request("POST", path.value,
                     Over([type |-> call.type, name |-> call.name, secret |-> call.secret],
                          schemas.value), "metadata"))

\* Connections::revoke
revoke(client, name) ==
  LET path == ConnectionsPath(client)
  IN IF name = None THEN Err("invalid")
     ELSE IF ~path.ok THEN path
     ELSE Ok(Request("DELETE", Append(path.value, name), Empty, "metadata"))

(***************************************************************************)
(* Pools, models, health                                                   *)
(***************************************************************************)
\* PoolCreate::send, up to the request; an empty text is left out.
create_pool(call) ==
  LET unlessEmpty(text) == IF text = "" THEN None ELSE text
  IN Ok(Request("POST", <<"/v1/pools">>,
                Given([name |-> call.name, gpus |-> call.gpus, gpu_caps |-> call.gpu_caps,
                       queue_pool |-> unlessEmpty(call.queue_pool),
                       bundle |-> unlessEmpty(call.bundle),
                       minimum_worker_count |-> call.minimum_worker_count,
                       pinned_models |-> call.pinned_models]), "metadata"))

\* list_models: the models array of an envelope.
models_of(body) == ArrayUnder(body, "models", ModelInfo)

\* worker_health: the probe's trimmed text is the status.
worker_health(text) ==
  Ok([Default(HealthResponse) EXCEPT !.status = IF text = "" THEN "ok" ELSE text,
                                     !.type = "worker"])

\* health: a server without /health is asked for /healthz.
health_of(first, probe) ==
  CASE first.status = 404 -> IF probe.status >= 400 THEN Err("request")
                             ELSE worker_health(probe.text)
    [] first.status >= 400 /\ first.status # 404 -> Err("request")
    [] OTHER -> Deserialize(first.body, HealthResponse)

WorkerCount(health, gpu, workers) ==
  IF gpu = None THEN health.cluster.worker_count ELSE Len(workers)

\* get_capacity: of a gateway; gpu types compare in lower case.
capacity_of(health, gpu) ==
  LET workers == IF gpu = None THEN health.value.workers
                 ELSE SelectSeq(health.value.workers, LAMBDA w : w.gpu = gpu)
  IN IF ~health.ok THEN health
     ELSE IF health.value.type # "gateway" THEN Err("not_gateway")
     ELSE Ok([status |-> health.value.status,
              worker_count |-> WorkerCount(health.value, gpu, workers),
              gpu_count |-> health.value.cluster.gpu_count,
              models_loaded |-> health.value.cluster.models_loaded,
              configured_gpu_types |-> health.value.configured_gpu_types,
              live_gpu_types |-> health.value.live_gpu_types, workers |-> workers])
=============================================================================
