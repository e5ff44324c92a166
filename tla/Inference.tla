----------------------------- MODULE Inference -----------------------------
(***************************************************************************)
(* /v1/encode, /v1/score and /v1/extract (src/client/encode.rs): the body  *)
(* a call becomes and what its answer becomes.  A msgpack map is an object *)
(* whose nil fields are None (src/wire/msg.rs reads nil as absent, and     *)
(* keys and texts in either encoding); a JSON value is an object or not.   *)
(***************************************************************************)
EXTENDS Items, Metadata, NumpyArray

Object(fields) == [object |-> TRUE, fields |-> fields]
NotObject == [object |-> FALSE, fields |-> Empty]

\* Slip: the client's defaults over the call's own.
merge_options_swapped(defaults, options) ==
  IF defaults = None THEN options
  ELSE IF options = None THEN defaults
  ELSE Object(Over(defaults.fields, options.fields))

\* merge_options: shallow; beside defaults, what is no object has no entries.
merge_options(defaults, options) ==
  IF defaults = None THEN options
  ELSE IF options = None THEN defaults
  ELSE Object(Over(options.fields, defaults.fields))

\* is_query rides inside options, whatever they were.
WithIsQuery(options, is_query) ==
  IF is_query = None THEN options
  ELSE Object(Over([is_query |-> is_query], IF options = None THEN Empty ELSE options.fields))

\* params_map: no entries, no params.
params_map(entries) == IF Given(entries) = Empty THEN None ELSE Given(entries)

\* The body of encode and extract.
ParamsBody(items, entries) ==
  LET packed == items_to_msgpack(items)
  IN IF ~packed.ok THEN packed
     ELSE Ok(Given([items |-> packed.value, params |-> params_map(entries)]))

encode_body(defaults, call) ==
  ParamsBody(call.items,
    [output_types |-> call.output_types, instruction |-> call.instruction,
     output_dtype |-> call.output_dtype,
     options |-> WithIsQuery(merge_options(defaults, call.options), call.is_query)])

extract_body(defaults, call) ==
  ParamsBody(call.items,
    [labels |-> call.labels, output_schema |-> call.output_schema,
     instruction |-> call.instruction,
     options |-> merge_options(defaults, call.options)])

\* Score fields sit at the top level.
score_body(defaults, call) ==
  LET packed == All(<<to_msgpack(call.query), items_to_msgpack(call.items)>>)
  IN IF ~packed.ok THEN packed
     ELSE Ok(Given([query |-> packed.value[1], items |-> packed.value[2],
                    instruction |-> call.instruction,
                    options |-> merge_options(defaults, call.options)]))

\* EncodeRequest::send, ScoreRequest::send, ExtractRequest::send, up to the
\* request; its path names the endpoint and the model.
inference_body(defaults, call) ==
  IF call.items = <<>> THEN Err("invalid")
  ELSE CASE call.op = "encode" -> encode_body(defaults, call)
         [] call.op = "score" -> score_body(defaults, call)
         [] call.op = "extract" -> extract_body(defaults, call)

---------------------------------------------------------------------------
\* tensor: the array nested under values.
tensor(item, key) ==
  LET node == Get(item, key)
  IN IF node = None THEN Ok(None)
     ELSE IF Get(node, "values") = None THEN Err("decode")
     ELSE decode(node.values)

parse_dense(item) ==
  LET array == tensor(item, "dense")
  IN IF array.ok /\ array.value # None THEN Ok(to_f32(array.value)) ELSE array

\* parse_multivector: rows, in f16 when the wire had f16.
parse_multivector(item) ==
  LET array == tensor(item, "multivector")
  IN IF array.ok /\ array.value # None THEN rows(array.value) ELSE array

parse_sparse(item) ==
  LET node == Get(item, "sparse")
      array(f) == decode(node[f])
      parts == All(<<to_u32(array("indices").value), Ok(to_f32(array("values").value))>>)
  IN IF node = None THEN Ok(None)
     ELSE IF Get(node, "indices") = None \/ Get(node, "values") = None THEN Err("decode")
     ELSE IF ~array("indices").ok \/ ~array("values").ok THEN Err("decode")
     ELSE IF ~parts.ok THEN parts
     ELSE Ok([indices |-> parts.value[1], values |-> parts.value[2]])

\* attach_metadata with body_usage: the envelope's own usage.
attach_metadata(response) ==
  parse(response.headers, Get(response.body, "usage"), response.retries)

EncodeResult(item, response) ==
  LET parts == All(<<parse_dense(item), parse_sparse(item), parse_multivector(item)>>)
  IN IF ~parts.ok THEN parts
     ELSE Ok([id |-> Get(item, "id"), dense |-> parts.value[1], sparse |-> parts.value[2],
              multivector |-> parts.value[3], model |-> Get(response.body, "model"),
              timing |-> Get(response.body, "timing"), request |-> attach_metadata(response)])

\* Slip: too few results are an error, too many are not.
CountMismatch_short(call, items) == Len(items) < Len(call.items)

CountMismatch(call, items) == Len(items) # Len(call.items)

\* The array of an answer, None also for an answer that is no msgpack.
ItemsOf(response) ==
  IF response.body = None THEN None ELSE Get(response.body, "items")

\* The rest of EncodeRequest::send: one result per item, or an error, which
\* says what the request has cost.
encode_results(call, response) ==
  LET items == ItemsOf(response)
  IN IF items = None THEN Err("decode")
     ELSE IF CountMismatch(call, items)
     THEN Over([request |-> attach_metadata(response)], Err("ENCODE_RESULT_COUNT_MISMATCH"))
     ELSE All([i \in DOMAIN items |-> EncodeResult(items[i], response)])

\* ScoreRequest::send: the entries as they come; a rank is cut to its width.
ScoreEntry(entry) ==
  IF Get(entry, "item_id") = None \/ Get(entry, "score") = None THEN Err("decode")
  ELSE Ok([item_id |-> entry.item_id, score |-> entry.score,
           rank |-> Or(Get(entry, "rank"), 0) % u32])

score_result(response) ==
  LET body == response.body
      scores == All([i \in DOMAIN body.scores |-> ScoreEntry(body.scores[i])])
      usage == Get(body, "usage")
  IN IF body = None THEN Err("decode")
     ELSE IF Get(body, "model") = None \/ Get(body, "scores") = None THEN Err("decode")
     ELSE IF ~scores.ok THEN scores
     ELSE Ok([model |-> body.model, query_id |-> Get(body, "query_id"), scores |-> scores.value,
              usage |-> IF usage = None THEN None
                        ELSE [input_tokens |-> Or(Get(usage, "input_tokens"), 0),
                              images |-> Get(usage, "images")],
              request |-> attach_metadata(response)])

---------------------------------------------------------------------------
\* Slip: a failure without its code is no failure.
parse_extract_error_dropped(error) ==
  IF "" \in {Or(Get(error, "code"), ""), Or(Get(error, "message"), "")} THEN None
  ELSE [code |-> error.code, message |-> error.message]

\* parse_extract_error: both halves (trimmed), or the SDK's own pair.
parse_extract_error(error) ==
  IF "" \in {Or(Get(error, "code"), ""), Or(Get(error, "message"), "")}
  THEN [code |-> "INTERNAL_ERROR", message |-> "Malformed extraction item error"]
  ELSE [code |-> error.code, message |-> error.message]

\* parse_bbox: numbers only, cut to integers; the rest is dropped.
parse_bbox(bbox) == IF bbox = None THEN None ELSE SelectSeq(bbox, LAMBDA x : x # None)

\* The fields of Entity, Relation, Classification and DetectedObject, with what
\* each is when it is missing.
Lists ==
  [entities |-> [text |-> "", label |-> "", score |-> 0, start |-> None, end |-> None,
                 bbox |-> None],
   relations |-> [head |-> "", tail |-> "", relation |-> "", score |-> 0],
   classifications |-> [label |-> "", score |-> 0],
   objects |-> [label |-> "", score |-> 0, bbox |-> <<>>]]

\* parse_entity, parse_relation, parse_classification, parse_object
Parsed(value, missing) ==
  [f \in DOMAIN missing |->
     Or(IF f = "bbox" THEN parse_bbox(Get(value, f)) ELSE Get(value, f), missing[f])]

\* parse_list: what is no array is an empty list.
parse_list(item, key) ==
  LET values == Or(Get(item, key), <<>>)
  IN [i \in DOMAIN values |-> Parsed(values[i], Lists[key])]

\* ExtractRequest::send: as many results as the answer has; blank data is none.
ExtractResult(item, response) ==
  [id |-> Get(item, "id"), lists |-> [key \in DOMAIN Lists |-> parse_list(item, key)],
   data |-> IF Get(item, "data") = "blank" THEN None ELSE Get(item, "data"),
   error |-> IF Get(item, "error") = None THEN None ELSE parse_extract_error(item.error),
   model |-> Get(response.body, "model"), request |-> attach_metadata(response)]

extract_results(response) ==
  LET items == ItemsOf(response)
  IN IF items = None THEN Err("decode")
     ELSE Ok([i \in DOMAIN items |-> ExtractResult(items[i], response)])

\* send_one of encode and of extract: exactly one result, or an error after
\* the request has been made.
send_one(results) ==
  IF ~results.ok THEN results
  ELSE IF Len(results.value) = 1 THEN Ok(results.value[1]) ELSE Err("invalid")
=============================================================================
