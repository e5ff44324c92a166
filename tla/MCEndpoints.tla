----------------------------- MODULE MCEndpoints -----------------------------
(***************************************************************************)
(* Instances of Endpoints for TLC: for each operation the arguments that   *)
(* its code tells apart, and the answers that its reading tells apart.     *)
(* A set of calls varies one side of an operation at a time.               *)
(***************************************************************************)
EXTENDS JsonDocuments

(***************************************************************************)
(* Items                                                                   *)
(***************************************************************************)
Token(lowered, ascii, length) == [lowered |-> lowered, ascii |-> ascii, length |-> length]

Tokens_ ==
  {None, Token("jpg", TRUE, 3), Token("jpeg", TRUE, 4), Token("png", TRUE, 3),
   Token("", TRUE, 0), Token("x", TRUE, 33), Token("png", FALSE, 3)}

Attachment(from, file, format) ==
  [from |-> from, file |-> file, format |-> format, encodable |-> TRUE, kind |-> "document",
   suffix |-> "pdf", suffixKinds |-> {"document"}]

Images ==
  {Attachment(from, file, format) :
     from \in {"bytes", "path"}, file \in {"jpeg", "png", "text", None}, format \in Tokens_}
    \cup {[Attachment("pixels", None, format) EXCEPT !.encodable = e] :
            format \in Tokens_, e \in BOOLEAN}

Readable == {i \in Images : ~(i.from = "bytes" /\ i.file = None)}

TextItem(id) == [NewItem EXCEPT !.id = id, !.text = "text"]

ImageItems == {[NewItem EXCEPT !.images = <<i>>] : i \in Readable}

Waveform(values, unit, channels, rate, i16) ==
  [from |-> "waveform", format |-> None, channels |-> channels, sample_rate |-> rate,
   samples |-> [i16 |-> i16, unit |-> unit, values |-> values]]

\* Samples in quarters, beyond the full scale on either side too.
Waveforms ==
  {Waveform(<<x, y>>, 4, 1, 8, FALSE) : x, y \in -6..6}
    \cup {Waveform(values, 4, channels, rate, FALSE) :
            values \in {<<>>, <<1>>, <<1, 2>>, <<1, None>>}, channels \in 0..3, rate \in {0, 8}}
    \cup {Waveform(<<-PcmMax, PcmMax - 1>>, 1, 2, 8, TRUE)}

AudioItems == {[NewItem EXCEPT !.audio = w] : w \in Waveforms}

FileItems ==
  {[NewItem EXCEPT !.audio = Attachment(from, file, format)] :
     from \in {"bytes", "path"}, file \in {"wav"}, format \in {None, "mp3"}}
    \cup {[NewItem EXCEPT !.document = Attachment("path", file, None),
                          !.video = Attachment("bytes", "mp4", None)] : file \in {None, "pdf"}}

(***************************************************************************)
(* Inference calls                                                         *)
(***************************************************************************)
InferenceCall(op, items, one) ==
  [op |-> op, model |-> "m", defaults |-> None, items |-> items, one |-> one,
   query |-> TextItem(None), output_types |-> None, instruction |-> None, output_dtype |-> None,
   labels |-> None, output_schema |-> None, options |-> None, is_query |-> None]

AnOptions == {None, Object([a |-> 1]), Object([a |-> 2, b |-> 2]), Object([is_query |-> FALSE])}

LayeredCalls ==
  {[InferenceCall(op, <<TextItem("1")>>, FALSE) EXCEPT
      !.defaults = default, !.options = options, !.is_query = is_query, !.instruction = instruction] :
     op \in Inferences, default \in AnOptions, options \in AnOptions \cup {NotObject},
     is_query \in {None, TRUE}, instruction \in {None, "do"}}

MediaCalls ==
  {InferenceCall(op, <<item>>, TRUE) : op \in {"encode", "extract"}, item \in ImageItems}
    \cup {InferenceCall("encode", <<item>>, TRUE) : item \in FileItems}
WaveformCalls == {InferenceCall("encode", <<item>>, TRUE) : item \in AudioItems}

PlainCalls ==
  {InferenceCall(op, items, FALSE) :
     op \in Inferences, items \in {<<>>, <<TextItem("1"), TextItem("2")>>}}
    \cup {InferenceCall(op, <<TextItem("1")>>, one) :
            op \in {"encode", "extract"}, one \in BOOLEAN}

\* The calls whose answers vary; the others get one plain answer.
Answered == {c \in PlainCalls : c.items # <<>>}

(***************************************************************************)
(* Answers                                                                 *)
(***************************************************************************)
Same == [path |-> <<>>, to |-> "same"]

Answer_(status, headers, body, text) ==
  [status |-> status, headers |-> headers, retries |-> 1, text |-> text, body |-> body,
   change |-> Same, probe |-> 200]

Number(value, canonical) == [value |-> value, canonical |-> canonical]
Words(value, valid) == [value |-> value, valid |-> valid]

MeterHeaders ==
  {Empty, [credits_debited |-> Number(3, TRUE)],
   [credits_debited |-> Number(3, FALSE), input_tokens |-> Number(2, TRUE),
    request_id |-> Words("r", TRUE), model_revision |-> Words("v", FALSE)]}

Usages ==
  {None, Empty, [credits_charged |-> 5], [rate_book_version |-> "b"],
   [credits_charged |-> 5, rate_book_version |-> "b"],
   [credits_charged |-> 5, rate_book_version |-> ""]}

Tensor(kind, mark, shape, data) ==
  [nd |-> TRUE, type |-> [kind |-> kind, mark |-> mark], shape |-> shape, data |-> data]

Digits == 0..Byte - 1

\* A double without the lower half of its pattern.
HighHalf(n) == n \div Bits[4]

\* All buffers of one or two bytes, the corners of the longer ones.
Buffers(n) ==
  IF n <= 2 THEN [1..n -> Digits]
  ELSE {[i \in 1..n |-> IF i \in ones THEN Byte - 1 ELSE 0] :
          ones \in {{}, {1}, {n}, {1, n}, 2..n, 1..n}}

Kinds == Floats \cup Signed \cup Unsigned

Vectors ==
  UNION {{Tensor(kind, mark, <<1>>, data) : mark \in {"<", ">"}, data \in Buffers(Width(kind))} :
         kind \in Kinds}

Malformed ==
  {[nd |-> FALSE, type |-> [kind |-> "u1", mark |-> "<"], shape |-> <<1>>, data |-> <<0>>],
   Tensor("u1", "<", <<2>>, <<0>>), Tensor("u1", "<", <<-1>>, <<0>>),
   Tensor("c8", "<", <<1>>, <<0>>), Tensor("u1", "!", <<1>>, <<0>>)}

Matrices ==
  {Tensor("u1", "<", shape, data) :
     shape \in {<<2, 1>>, <<1, 2>>, <<2>>}, data \in [1..2 -> Digits]}
    \cup {Tensor("f2", ">", <<2, 2>>, data) : data \in [1..8 -> {0, 1}]}
    \cup {Tensor("u1", "<", <<2, 0>>, <<>>)}

DenseItems == {[id |-> "1", dense |-> [values |-> t]] : t \in Vectors \cup Malformed}
MatrixItems == {[id |-> "1", multivector |-> [values |-> t]] : t \in Matrices}
SparseItems ==
  {[id |-> "1", sparse |-> [indices |-> i, values |-> Tensor("u1", "<", <<1>>, <<1>>)]] :
     i \in Vectors \cup Malformed}

InferenceBody(items) == [model |-> "m", timing |-> None, usage |-> None, items |-> items]

Plain_(id) == [id |-> id, dense |-> [values |-> Tensor("u1", "<", <<1>>, <<1>>)]]

EncodeBodies ==
  {InferenceBody(<<item>>) : item \in DenseItems}
    \cup {InferenceBody(<<item>>) : item \in MatrixItems}
    \cup {InferenceBody(<<item>>) : item \in SparseItems}
    \cup {InferenceBody([i \in 1..n |-> Plain_(IF i = 1 THEN "1" ELSE "2")]) : n \in 0..3}
    \cup {[InferenceBody(<<Plain_("1")>>) EXCEPT !.usage = u] : u \in Usages}
    \cup {None, [InferenceBody(<<>>) EXCEPT !.items = None]}

ScoreBodies ==
  {None} \cup {[model |-> "m", usage |-> usage, scores |-> scores] :
     usage \in Usages,
     scores \in {None, <<>>, <<[item_id |-> "1", score |-> 1, rank |-> u32 + 1],
                               [item_id |-> "2", score |-> 0, rank |-> None]>>,
                 <<[item_id |-> "1", score |-> None, rank |-> 0]>>}}

Errors_ == {None} \cup [code : {None, "", "C"}, message : {None, "", "M"}]

ExtractItem(error) ==
  [id |-> "1", error |-> error, data |-> IF error = None THEN "blank" ELSE "data",
   entities |-> <<[text |-> "t", score |-> None, bbox |-> <<1, None, 2>>]>>, objects |-> None]

ExtractBodies ==
  {InferenceBody(<<ExtractItem(e)>>) : e \in Errors_}
    \cup {InferenceBody(<<ExtractItem(e), ExtractItem(None)>>) : e \in Errors_}
    \cup {[InferenceBody(<<ExtractItem(None)>>) EXCEPT !.usage = u] : u \in Usages}
    \cup {InferenceBody(<<>>), [InferenceBody(<<>>) EXCEPT !.items = None]}

\* Error envelopes: of an object, a text, something else, or none.
Node(code, fields) == [is |-> "object", code |-> code, message |-> "m", fields |-> fields]

Nodes ==
  {Node(code, Empty) : code \in {None, "provisioning", "PROVISIONING", "INPUT_TOO_LONG",
                                 "MODEL_LOAD_FAILED", "OTHER"}}
    \cup {Node("MODEL_LOAD_FAILED",
               [model |-> "other", error_class |-> class, permanent |-> FALSE, attempts |-> n]) :
            class \in {"OOM", "ODD"}, n \in {0, 2}}
    \cup {[is |-> "text"], [is |-> "null"]}

ErrorBodies ==
  {None, Empty} \cup {[error |-> n] : n \in Nodes} \cup {[detail |-> n] : n \in Nodes}
    \cup {[error |-> [is |-> "null"], detail |-> Node("OTHER", Empty)]}

ErrorHeaders ==
  {Empty} \cup [error_code : {"", "OTHER", "PROVISIONING", "provisioning", "MODEL_LOAD_FAILED"}]

RefusalsOf(statuses) ==
  {Answer_(status, headers, body, "text") :
     status \in statuses, headers \in ErrorHeaders, body \in ErrorBodies}

AnsweredWith(bodies, headers) == {Answer_(200, h, b, "") : h \in headers, b \in bodies}

---------------------------------------------------------------------------
(***************************************************************************)
(* Generation                                                              *)
(***************************************************************************)
Extras == {None, NotObject, Object([seed |-> 7]), Object([prompt |-> "p2", max_new_tokens |-> 9]),
           Object([stream |-> FALSE, best_of |-> 3])}

Prompt(images, given, extra) ==
  [op |-> "generate", model |-> <<"org", "m">>, prompt |-> "p", images |-> images,
   params |-> Set(GenerateParams, Over([max_new_tokens |-> 4], given)), extra_body |-> extra]

\* No setter was called, or one.
Calling(setters) == {Empty} \cup {s :> 1 : s \in setters}

GenerateCalls ==
  {Prompt(images, given, extra) :
     images \in {<<>>} \cup {<<Attachment(from, file, None)>> :
                               from \in {"bytes", "path"}, file \in {"png", "text"}},
     given \in Calling({"seed"}), extra \in Extras}
    \cup {Prompt(<<>>, given, extra) : given \in Calling(GenerateSetters), extra \in Extras}

ChatCalls ==
  {[op |-> "chat", model |-> "m", messages |-> <<"hello">>,
    params |-> Set(ChatParams, given), extra_body |-> extra] :
     given \in Calling(ChatParams) \cup {[best_of |-> 2, n |-> 1]}, extra \in Extras}

ResponsesCalls ==
  {[op |-> "responses", model |-> "m", input |-> input, params |-> Set(ResponseParams, given)] :
     input \in {"hello"}, given \in Calling(ResponseParams)}

EstimateCalls ==
  {[op |-> "estimate", endpoint |-> [absolute |-> absolute, path |-> <<"/v1/encode">>],
    request |-> body] :
     absolute \in BOOLEAN, body \in {NotObject, Object([a |-> 1])}}

(***************************************************************************)
(* Jobs                                                                    *)
(***************************************************************************)
Uri(scheme, name) == [scheme |-> scheme, name |-> name]
Uris == {Uri("s3", "a"), Uri("s3", None), Uri("upload", "u"), Uri(None, None)}

Sources_ ==
  {[inline |-> FALSE, uri |-> u, items |-> <<>>] : u \in Uris}
    \cup {[inline |-> TRUE, uri |-> Uri(None, None), items |-> items] : items \in {<<>>, <<"i">>}}

Sinks ==
  {[to |-> to, uri |-> Uri(None, None)] : to \in {"return", "inplace"}}
    \cup {[to |-> "connector", uri |-> u] : u \in Uris \cup {Uri("s3", "b")}}

SubmitCalls ==
  {[op |-> "submit",
    job |-> [NewSubmit(source, "m") EXCEPT
               !.sink = sink, !.connection = connection, !.sink_connection = sink_connection,
               !.execution = execution, !.idempotency_key = key]] :
     source \in Sources_, sink \in Sinks, connection \in {Unset, "b", None},
     sink_connection \in {Unset, "a"}, execution \in {None, "plan", "run"},
     key \in {Unset, "k", None}}

MappingCalls ==
  {[op |-> "submit",
    job |-> [NewSubmit(source, "m") EXCEPT
               !.sink = [to |-> "return", uri |-> Uri(None, None)],
               !.execution = IF source.inline THEN None ELSE "run",
               !.idempotency_key = IF source.inline THEN Unset ELSE "k",
               !.field_map = map, !.output_field = field, !.output_types = types,
               !.options = options]] :
     source \in {s \in Sources_ : s.inline \/ s.uri.name = "a"},
     map \in {None, [input_type |-> "text"], [input_type |-> "image"], [carry |-> <<"a", "">>],
              [carry |-> <<"a">>]},
     field \in {Unset, "", "out"}, types \in {<<>>, <<"dense">>},
     options \in {None, Empty, [o |-> 1]}}

ActCalls ==
  {[op |-> "act", id |-> "j", suffix |-> suffix, body |-> [plan_revision |-> 1], key |-> key] :
     suffix \in {"execute", "repair"}, key \in {None, "k"}}

(***************************************************************************)
(* Resources                                                               *)
(***************************************************************************)
UploadCalls ==
  {[op |-> "upload", source |-> [from |-> from, file |-> file, last |-> last],
    purpose |-> purpose, filename |-> name] :
     from \in {"path", "bytes"}, file \in {None, "data"}, last \in {None, "f"},
     purpose \in {None, "p"}, name \in {None, "n"}}

ListCalls ==
  {[op |-> op, after |-> after, limit |-> limit, order |-> None, purpose |-> None] :
     op \in {"files", "batches"}, after \in {None, "a"}, limit \in {None, 2}}

OneCalls ==
  {[op |-> "file", what |-> what, id |-> "f"] : what \in {"retrieve", "content", "delete"}}
    \cup {[op |-> op, what |-> what, id |-> "b"] :
            op \in {"batch", "job"}, what \in {"retrieve", "cancel"}}
    \cup {[op |-> op, what |-> "get", id |-> "x"] : op \in {"model", "pool"}}
    \cup {[op |-> op, what |-> "list", id |-> None] : op \in {"jobs", "models"}}

CreateCalls ==
  {[op |-> "create_batch", input_file_id |-> "f", endpoint |-> e, completion_window |-> None,
    metadata |-> m] : e \in {None, "e"}, m \in {None, "m"}}

PoolCalls ==
  {[op |-> "create_pool", name |-> "p", gpus |-> g, gpu_caps |-> None, queue_pool |-> q,
    bundle |-> "", minimum_worker_count |-> None, pinned_models |-> None] :
     g \in {None, "g"}, q \in {None, "", "q"}}

Planes == {[control_plane |-> plane, org |-> org] : plane \in {None, "cp"}, org \in {None, "o"}}

ConnectionCalls ==
  {[op |-> op, client |-> client, type |-> type, name |-> name, secret |-> "s",
    source_schema |-> source, sink_schema |-> sink] :
     op \in {"connections", "connect", "revoke"}, client \in Planes, type \in {"postgres", "s3"},
     name \in {None, "n"}, source \in {Unset, None, "a"}, sink \in {Unset, "b"}}

CapacityCalls == {[op |-> "capacity", gpu |-> gpu] : gpu \in {None, "x", "y"}}

(***************************************************************************)
(* Clients                                                                 *)
(***************************************************************************)
Url(scheme, host, port, userinfo) ==
  [scheme |-> scheme, host |-> host, port |-> port, userinfo |-> userinfo]

Home == Url("https", "h", None, FALSE)

EdgeHeader(lower) ==
  [name |-> lower, lower |-> lower, token |-> TRUE, websocket |-> FALSE, control |-> FALSE,
   encodable |-> TRUE, value |-> "v"]

Edge ==
  {<<>>, <<EdgeHeader("x-a")>>, <<EdgeHeader("x-a"), EdgeHeader("x-b")>>,
   <<EdgeHeader("x-a"), EdgeHeader("x-a")>>, <<EdgeHeader("cookie")>>,
   <<[EdgeHeader("x-a") EXCEPT !.control = TRUE]>>, <<[EdgeHeader("x-a") EXCEPT !.token = FALSE]>>,
   <<[EdgeHeader("sec-websocket-key") EXCEPT !.websocket = TRUE]>>,
   <<[EdgeHeader("x-a") EXCEPT !.encodable = FALSE]>>}

Config(base, edge, plane, key) ==
  [base_url |-> base, base_url_headers |-> edge, control_plane_url |-> plane, org |-> "o",
   api_key |-> key, gpu |-> None]

Key(encodable) == [encodable |-> encodable]

ClientCall(kind, config, url, mode, probed) ==
  [op |-> "client", kind |-> kind, config |-> config, gpu |-> None, url |-> url, mode |-> mode,
   probed |-> probed]

BuildCalls ==
  {ClientCall("gateway", Config(base, edge, Empty, key), None, None, None) :
     base \in {None, Home, Url("http", "h", None, FALSE), Url("https", "h", None, TRUE),
               Url("ftp", "h", None, FALSE)},
     edge \in Edge, key \in {None, Key(TRUE), Key(FALSE)}}

Elsewhere ==
  {Url(scheme, host, port, userinfo) :
     scheme \in {"http", "https"}, host \in {"h", "other"}, port \in {None, 80, 443, 8443},
     userinfo \in BOOLEAN}

ReachCalls ==
  UNION {{ClientCall("payload", Config(base, <<EdgeHeader("x-a")>>, Empty, Key(TRUE)), url,
                     None, None),
          ClientCall("connections", Config(base, <<EdgeHeader("x-a")>>, [url |-> url], Key(TRUE)),
                     None, None, None)} :
         url \in Elsewhere, base \in {Home, Url("https", "h", 8443, FALSE)}}

WatchCalls ==
  {ClientCall("handshake", Config(base, edge, Empty, None), None, mode, probed) :
     base \in {Home, Url("http", "h", 81, FALSE), Url("ftp", "h", None, FALSE)},
     edge \in {<<>>, <<EdgeHeader("x-a")>>}, mode \in {"auto", "worker", "cluster"},
     probed \in {"worker", "gateway"}}

Label(encodable, empty) == [encodable |-> encodable, empty |-> empty]

RoutingCalls ==
  {[ClientCall("gateway", Config(Home, <<>>, Empty, None), None, None, None) EXCEPT
      !.gpu = gpu, !.config.gpu = default] :
     gpu \in {None, [pool |-> None, profile |-> Label(TRUE, FALSE)]},
     default \in {None, [pool |-> Label(TRUE, FALSE), profile |-> Label(TRUE, TRUE)],
                  [pool |-> Label(FALSE, FALSE), profile |-> Label(TRUE, FALSE)]}}

(***************************************************************************)
(* What sends nothing                                                      *)
(***************************************************************************)
Tokens2 == {<<<<1, 0>>>>, <<<<1, 2>>, <<-1, 1>>>>, <<>>, <<<<-1, -1>>>>}

MaxsimCalls ==
  {[op |-> "maxsim", queries |-> <<q, r>>, documents |-> <<d, e>>] : q, r, d, e \in Tokens2}

SparseCalls ==
  {[op |-> "sparse_to_dense", dims |-> dims,
    sparse |-> [indices |-> indices, values |-> values]] :
     dims \in 1..3, indices \in [1..2 -> 0..2],
     values \in {<<<<"f4", 1>>>>, <<<<"f4", 1>>, <<"f4", 2>>>>,
                <<<<"f4", 1>>, <<"f4", 2>>, <<"f4", 3>>>>}}

RowsCalls ==
  {[op |-> "rows_to_array", matrix |-> m] : m \in {<<>>, <<<<1, 2>>, <<3, 4>>>>, <<<<1>>, <<2, 3>>>>}}

Dense(t) == [is |-> "tensor", map |-> t]
List2 == [is |-> "list", items |-> <<1, None, 2>>]

ChunkEntries ==
  {[id |-> "1", success |-> TRUE, result_msgpack |-> blob] :
     blob \in {None, Empty} \cup
       {[dense |-> d] :
          d \in {Dense(Tensor("u1", "<", <<1>>, <<1>>)), Dense(Tensor("u1", "<", <<2>>, <<1>>)),
                 List2, [is |-> "other"]}
            \cup {[is |-> "envelope", dims |-> dims, nodes |-> nodes] :
                    dims \in {None, 3},
                    nodes \in {Empty, [values |-> List2], [vector |-> List2],
                               [dense |-> [is |-> "envelope", dims |-> 2,
                                           nodes |-> [values |-> List2]]]}}}}

ChunkCalls ==
  {[op |-> "decode_chunk", payload |-> [array |-> array, entries |-> <<e>>]] :
     array \in BOOLEAN, e \in ChunkEntries}

Version(major, minor) == [major |-> major, minor |-> minor]

SkewCalls ==
  {[op |-> "skew", warned |-> warned, sdk |-> Version(1, 2), server |-> server] :
     warned \in BOOLEAN, server \in {None} \cup {Version(a, b) : a \in 0..2, b \in 0..4}}

LogCalls ==
  {[op |-> "log", url |-> url] : url \in {None, Home, Url("http", "h", 81, TRUE),
                                          Url("ftp", "h", None, FALSE)}}
MaskCalls == {[op |-> "mask", token |-> [i \in 1..n |-> i]] : n \in 0..6}

Said_(value) == [is |-> "text", value |-> value]
Object_(fields) == [is |-> "object", fields |-> fields]

Halves == {Null, [is |-> "other"], Said_(""), Said_("RESOURCE_EXHAUSTED")}

ErrorNodes ==
  {Null, Said_("boom"), Object_(Empty)}
    \cup {Object_([code |-> code]) : code \in Halves}
    \cup {Object_([code |-> code, message |-> message]) : code, message \in Halves}

LinePayloads(of) ==
  LET chunk == Sample(ChunkType(of))
  IN {[is |-> "done"], [is |-> "garbled"], Null, Object_(Empty), chunk}
       \cup {Object_([error |-> node]) : node \in ErrorNodes}
       \cup {[chunk EXCEPT !.fields = Over([error |-> node], @)] : node \in ErrorNodes}

LineCalls ==
  UNION {{[op |-> "line", of |-> of,
           line |-> [field |-> field, spaces |-> spaces, payload |-> payload]] :
            field \in {"data", "comment", "blank", "other"}, spaces \in 0..2,
            payload \in LinePayloads(of)} :
         of \in {"generate", "chat"}}

---------------------------------------------------------------------------
MCCalls ==
  <<LayeredCalls, MediaCalls, WaveformCalls, PlainCalls, GenerateCalls, ChatCalls, ResponsesCalls,
    EstimateCalls, SubmitCalls, MappingCalls, ActCalls, UploadCalls, ListCalls, OneCalls, CreateCalls, PoolCalls,
    ConnectionCalls, CapacityCalls, BuildCalls, ReachCalls, WatchCalls, RoutingCalls, MaxsimCalls,
    SparseCalls, RowsCalls, ChunkCalls, SkewCalls, LogCalls, MaskCalls, LineCalls>>

\* One call of each operation gets every change of its document.
Changes(type) ==
  {[path |-> p, to |-> to] : p \in {q \in Paths(type) : q[1] # "request"},
                             to \in {"null", "absent", "other"}}

DocumentAnswers(type) ==
  {[Answer_(200, h, None, text) EXCEPT !.change = change] :
     h \in {Empty}, text \in {"text"}, change \in Changes(type) \cup {Same}}

\* An answer with the document as it should be, and one refusal.
PlainAnswers ==
  {Answer_(200, h, None, "text") : h \in MeterHeaders}
    \cup {Answer_(404, Empty, [error |-> Node("OTHER", Empty)], "")}

BareAnswers(c) ==
  IF c.op \notin {"files", "batches", "jobs", "models", "connections"} THEN {}
  ELSE {[Answer_(200, Empty, None, "") EXCEPT !.change.to = "bare"]}

Frames == {"text", "binary", "ping", "close", "error"}

CapacityAnswers ==
  DocumentAnswers(HealthResponse)
    \cup {[Answer_(status, Empty, Empty, text) EXCEPT !.probe = probe] :
            status \in {404, 500}, probe \in {200, 500}, text \in {"", "fine"}}

Simple(c) ==
  CASE c.op = "generate" -> c = Prompt(<<>>, Empty, None)
    [] c.op = "chat" -> c.extra_body = None /\ Given(c.params) = Empty
    [] c.op = "responses" -> Given(c.params) = Empty
    [] c.op = "connect" -> c.type = "s3"
    [] OTHER -> TRUE

MCReplies(c, posted) ==
  CASE c.op = "encode" /\ c \in Answered ->
         AnsweredWith(EncodeBodies, MeterHeaders) \cup RefusalsOf({400, 500, 502, 503})
    [] c.op = "score" /\ c \in Answered ->
         AnsweredWith(ScoreBodies, MeterHeaders) \cup RefusalsOf({400, 502})
    [] c.op = "extract" /\ c \in Answered ->
         AnsweredWith(ExtractBodies, MeterHeaders) \cup RefusalsOf({502, 503})
    [] c.op \in Inferences /\ c \notin Answered -> {}
    [] c.op = "submit" -> IF Simple(c) /\ c.job.connection = Unset /\ c.job.sink_connection = Unset
                             /\ c.job.sink.to = "inplace"
                          THEN DocumentAnswers(JobStatus) ELSE PlainAnswers
    [] c.op = "client" ->
         IF c.kind # "handshake" THEN {}
         ELSE {Answer_(200, Empty, None, f) : f \in Frames}
                \cup DocumentAnswers(SentType(c, posted))
    [] c.op = "capacity" -> CapacityAnswers
    [] c.op = "generate" /\ Simple(c) /\ PolicyOf(posted) = "ESTIMATE" ->
         PlainAnswers \cup DocumentAnswers(CostEstimate) \cup RefusalsOf({502, 503})
    [] c.op \in Documents \ {"submit"} /\ Simple(c) ->
         PlainAnswers \cup BareAnswers(c) \cup DocumentAnswers(DocumentType(c, posted))
    [] OTHER -> PlainAnswers

\* EndpointsProofs takes of serde_json that a struct is read with its fields, or not
\* at all.  For the answers of a generation, with one field changed, it is so.
ASSUME StructsAreReadHere ==
  \A type \in {CostEstimate, GenerateResult, GenerateChunk, ChatCompletion, ChatCompletionChunk,
               ResponseResult} :
    \A path \in Paths(type), to \in {"absent", "null", "other"} :
      LET read == SerdeDeserialize(Changed(Sample(type), path, to), type)
      IN IF read.ok THEN DOMAIN read.value = DOMAIN type.fields ELSE read = Err("decode")
=============================================================================
