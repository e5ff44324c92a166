----------------------------- MODULE JobRequests -----------------------------
(***************************************************************************)
(* The requests of the jobs namespace (src/client/jobs.rs): what a submit  *)
(* may combine, the body it becomes and the key it travels under, and the  *)
(* decoding of a chunk's payload.  A URI is [scheme, name], its scheme     *)
(* None when the text has no ://; a connection name or a schema is None    *)
(* where it would not be valid, an option that was not set is Unset, and   *)
(* options that are no object are None, as JobSubmit::body leaves them out.*)
(***************************************************************************)
EXTENDS NumpyArray

CONSTANTS
  Unset,
  MaxNesting     \* how deep rmp_serde lets a msgpack value nest

ASSUME NestingAssumption == MaxNesting \in Nat

\* NewSubmit: Jobs::submit; the setters of JobSubmit set its other fields.
NewSubmit(source, model) ==
  [source |-> source, model |-> model, operation |-> "encode", sink |-> [to |-> "return"],
   connection |-> Unset, sink_connection |-> Unset, field_map |-> None, output_field |-> Unset,
   execution |-> None, output_types |-> <<>>, options |-> None, idempotency_key |-> Unset]

\* require_connection_name, valid_schema, require_connector_idempotency_key
require_valid(name) == IF name = None THEN Err("invalid") ELSE Ok(name)

\* connection_name: what stands between :// and the next /, ? or #.
connection_name(uri) == require_valid(uri.name)

is_connector_uri(uri) == uri.scheme # None
is_internal_uri(uri) == uri.scheme = "upload"

\* require_connection_schema_policy: both or neither, and only for postgres.
require_connection_schema_policy(type, source, sink) ==
  IF source = Unset /\ sink = Unset THEN Ok(Empty)
  ELSE IF Unset \in {source, sink} \/ type # "postgres" \/ None \in {source, sink}
  THEN Err("invalid")
  ELSE Ok([source_schema |-> source, sink_schema |-> sink])

---------------------------------------------------------------------------
\* write_source: the fields, among them the connection the source resolves to.
write_source(job) ==
  LET uri == job.source.uri
      resolved == IF job.connection # Unset THEN require_valid(job.connection)
                  ELSE IF is_internal_uri(uri) THEN Ok(None)
                  ELSE connection_name(uri)
  IN IF job.source.inline
     THEN IF job.source.items = <<>> THEN Err("invalid") ELSE Ok([items |-> job.source.items])
     ELSE IF ~is_connector_uri(uri) THEN Err("invalid")
     ELSE IF ~resolved.ok THEN resolved
     ELSE Ok(Given([src |-> uri, connection |-> resolved.value]))

\* A sink in the same store as the source needs no second connection, unless
\* the caller names it.
NamesSinkConnection(job, resolved, source_connection) ==
  job.sink_connection # Unset \/ resolved # source_connection

\* sink_fields
sink_fields(job, source_connection) ==
  LET uri == job.sink.uri
      named == job.sink_connection # Unset
      resolved == IF named THEN require_valid(job.sink_connection)
                  ELSE IF is_internal_uri(uri) THEN Ok(None)
                  ELSE connection_name(uri)
  IN CASE job.sink.to = "return" -> Ok(Empty)
       [] job.sink.to = "inplace" -> Ok([sink |-> "inplace"])
       [] job.sink.to = "connector" ->
            IF ~is_connector_uri(uri) THEN Err("invalid")
            ELSE IF ~resolved.ok THEN resolved
            ELSE Ok(Given([sink |-> uri,
                           sink_connection |->
                             IF NamesSinkConnection(job, resolved.value, source_connection)
                             THEN resolved.value ELSE None]))

\* write_execution: asked of a connector job, which upload:// restricts to Run.
write_execution(job, inline) ==
  LET uses_internal == \/ is_internal_uri(job.source.uri)
                       \/ job.sink.to = "connector" /\ is_internal_uri(job.sink.uri)
  IN IF inline THEN IF job.execution = None THEN Ok(Empty) ELSE Err("invalid")
     ELSE IF job.execution = None \/ (uses_internal /\ job.execution # "run") THEN Err("invalid")
     ELSE Ok([execution |-> job.execution])

\* mapping_fields; a field_map that says nothing is None.
mapping_fields(job) ==
  LET map == job.field_map
  IN IF \/ map # None /\ Get(map, "input_type") \notin {None, "text", "document"}
        \/ map # None /\ "" \in ToSet(Or(Get(map, "carry"), <<>>))
        \/ job.output_field = ""
     THEN Err("invalid")
     ELSE Ok(Given([field_map |-> map,
                    output_field |-> IF job.output_field = Unset THEN None
                                     ELSE job.output_field]))

\* JobSubmit::body: inline items take nothing of a connector job.
submit_body(job) ==
  LET source == write_source(job)
      inline == job.source.inline
      sink == sink_fields(job, Get(source.value, "connection"))
      execution == write_execution(job, inline)
      mapping == mapping_fields(job)
      extra == Given([output_types |-> IF job.output_types = <<>> THEN None ELSE job.output_types,
                      options |-> IF job.options = Empty THEN None ELSE job.options])
  IN IF ~source.ok THEN source
     ELSE IF ~sink.ok THEN sink
     ELSE IF inline /\ (job.connection # Unset \/ job.sink_connection # Unset \/ sink.value # Empty)
     THEN Err("invalid")
     ELSE IF ~execution.ok THEN execution
     ELSE IF ~mapping.ok THEN mapping
     ELSE IF inline /\ mapping.value # Empty THEN Err("invalid")
     ELSE Ok(Over([operation |-> job.operation, model |-> job.model],
                  Over(Over(source.value, sink.value),
                       Over(Over(execution.value, mapping.value), extra))))

\* Slip: a key is checked where there is one.
SubmitKey_optional(job, connector) ==
  IF job.idempotency_key = Unset THEN Ok(None) ELSE require_valid(job.idempotency_key)

\* A connector job has a key, an inline job has none.
SubmitKey(job, connector) ==
  IF connector # (job.idempotency_key # Unset) THEN Err("invalid")
  ELSE IF connector THEN require_valid(job.idempotency_key)
  ELSE Ok(None)

\* JobSubmit::send
submit(job) ==
  LET body == submit_body(job)
      key == SubmitKey(job, "src" \in DOMAIN body.value)
  IN IF ~body.ok THEN body
     ELSE IF ~key.ok THEN key
     ELSE Ok([path |-> <<"/v1/jobs">>, body |-> body.value, key |-> key.value,
              timeout |-> "transfer"])

\* Jobs::execute and Jobs::repair, through plan_action; a job id is escaped to
\* one segment.
plan_action(job_id, suffix, body, key) ==
  IF key = None THEN Err("invalid")
  ELSE Ok([path |-> <<"/v1/jobs", job_id, suffix>>, body |-> body, key |-> key,
           timeout |-> "metadata"])

---------------------------------------------------------------------------
(***************************************************************************)
(* A chunk is a msgpack array of results.  A result's blob is None when it *)
(* is missing or unreadable; its dense is an array of numbers (None where  *)
(* one is no number), a tensor, or an envelope around one of the two.      *)
(***************************************************************************)
\* What an envelope is around, and anything else itself.
Inside(dense) ==
  IF dense.is # "envelope" THEN dense
  ELSE LET keys == SelectSeq(<<"values", "vector", "dense">>, LAMBDA k : k \in DOMAIN dense.nodes)
       IN IF keys = <<>> THEN dense ELSE dense.nodes[keys[1]]

\* The numbers of an array or a tensor; there are none in anything else.
NumbersOf(dense) ==
  CASE dense.is = "tensor" -> LET array == decode(dense.map)
                              IN IF array.ok THEN Ok(to_f32(array.value)) ELSE array
    [] dense.is = "list" -> Ok(SelectSeq(dense.items, LAMBDA x : x # None))
    [] OTHER -> Ok(None)

\* dense_info: the outermost envelope that declares its dims has the last word.
dense_info(dense) ==
  LET opened[n \in 0..MaxNesting] == IF n = 0 THEN dense ELSE Inside(opened[n - 1])
      numbers == NumbersOf(opened[MaxNesting])
      declaring == {n \in 0..MaxNesting : opened[n].is = "envelope" /\ opened[n].dims # None}
  IN IF ~numbers.ok THEN numbers
     ELSE Ok([values |-> numbers.value,
              dims |-> IF declaring # {} THEN opened[Min(declaring)].dims
                       ELSE IF numbers.value = None THEN None ELSE Len(numbers.value)])

\* decode_result_item: what the row says of itself stays, whatever its blob.
decode_result_item(entry) ==
  LET row == [id |-> Get(entry, "id"), success |-> Get(entry, "success"),
              units |-> Get(entry, "units"), error |-> Get(entry, "error"),
              dims |-> None, dense |-> None]
      blob == Get(entry, "result_msgpack")
      info == dense_info(blob.dense)
  IN IF blob = None \/ Get(blob, "dense") = None THEN Ok(row)
     ELSE IF ~info.ok THEN info
     ELSE Ok([row EXCEPT !.dims = info.value.dims, !.dense = info.value.values])

\* decode_chunk: what is no array has no results.
decode_chunk(payload) ==
  IF payload = None THEN Err("decode")
  ELSE IF ~payload.array THEN Ok(<<>>)
  ELSE All([i \in DOMAIN payload.entries |-> decode_result_item(payload.entries[i])])
=============================================================================
