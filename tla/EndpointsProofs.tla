--------------------------- MODULE EndpointsProofs ---------------------------
(***************************************************************************)
(* What module Endpoints says of every call, proved for every call, every  *)
(* answer and every reading of JSON.  A property speaks of a call at some  *)
(* stage, long after the definition that decides it was evaluated, so the  *)
(* invariant keeps what each stage has settled: a request that was posted  *)
(* is the one its operation builds of the call (Asked), an outcome is what *)
(* its operation makes of the answer (Concluded), and what was priced is   *)
(* what the call builds, unless an image is read from disk (Priced).       *)
(***************************************************************************)
EXTENDS Endpoints, NumpyArrayProofs

\* JSON's null and Option::None are no object and no record.
NoneIsNoObject == \A o : IsObject(o) => o # None

\* Every answer to a call has what its readers take for granted.
RepliesTyped ==
  \A c, q : CallTyped(c) => \A r \in Replies(c, q) : r # None /\ AnswerTyped(c, r)

\* A request that was posted is the one that its operation builds.
Built(result, q) == result.ok /\ q = result.value

\* The functions whose results some property is about.
Pure == {"line", "maxsim", "sparse_to_dense", "rows_to_array"}

Asked(q) ==
  /\ call.op \notin Pure
  /\ call.op \in Inferences => Built(inference_body(call.defaults, call), q)
  /\ call.op \in Generations =>
       \/ Built(send(call), q)
       \/ call.op # "responses" /\ Built(stream(call), q)
       \/ Built(estimate_call(call), q)
  /\ call.op = "submit" => Built(submit(call.job), q)
  /\ call.op = "client" => Built(connect(call), q)

\* What an answer becomes.
Concluded(o) ==
  /\ Refused /\ call.op # "capacity" =>
       o = IF call.op = "pool" /\ reply.status = 404 THEN Ok(None)
           ELSE Err(ErrorOf(reply, ModelOf(call), PolicyOf(request)))
  /\ ~Refused /\ call.op = "encode" =>
       o = IF call.one THEN send_one(encode_results(call, reply)) ELSE encode_results(call, reply)
  /\ ~Refused /\ call.op = "score" => o = score_result(reply)
  /\ ~Refused /\ call.op = "extract" =>
       o = IF call.one THEN send_one(extract_results(reply)) ELSE extract_results(reply)
  /\ ~Refused /\ call.op \in Generations => o = Decoded(call, request, reply)

\* What a function that sends nothing returns, and why nothing was posted.
Computed(o) ==
  /\ call.op = "line" => o = LineEvent(call.line, ChunkType(call.of))
  /\ call.op = "maxsim" => o = Ok(maxsim_batch(call.queries, call.documents))
  /\ call.op = "sparse_to_dense" => o = sparse_to_dense(call.sparse, call.dims)
  /\ call.op = "rows_to_array" => o = rows_to_array(call.matrix)
  /\ call.op \in Inferences => ~inference_body(call.defaults, call).ok

\* Whether an image is read from disk each time the call is built.
ReadsFiles(c) == c.op = "generate" /\ \E i \in DOMAIN c.images : c.images[i].from = "path"

\* What the estimate of a builder asks the price of.
PricedBy(c) == [endpoint |-> Path(c), request |-> generation_body(c, FALSE).value]

Priced ==
  /\ call.op \in Generations
  /\ ReadsFiles(call)
     \/ priced = PricedBy(call)

IInv ==
  /\ stage \in {"ready", "posted", "answered", "done"}
  /\ CallTyped(call)
  /\ priced # None => Priced
  /\ stage = "ready" => request = None /\ reply = None /\ outcome = None
  /\ stage = "posted" => Asked(request) /\ reply = None /\ outcome = None
  /\ stage = "answered" =>
       Asked(request) /\ reply # None /\ AnswerTyped(call, reply) /\ outcome = None
  /\ stage = "done" =>
       \/ request = None /\ reply = None /\ Computed(outcome)
       \/ Asked(request) /\ reply # None /\ AnswerTyped(call, reply) /\ Concluded(outcome)

---------------------------------------------------------------------------
(***************************************************************************)
(* The steps                                                               *)
(***************************************************************************)
\* A call that is built either posts what its operation builds or is over.
LEMMA RequestStep ==
  ASSUME Requests
  PROVE  /\ stage = "ready" /\ UNCHANGED <<call, reply, priced>>
         /\ \/ stage' = "posted" /\ Asked(request') /\ UNCHANGED outcome
            \/ stage' = "done" /\ Computed(outcome') /\ UNCHANGED request
<1> USE DEF Post, Compute, Inferences, Generations, Pure
<1>1. CASE Infer
  BY <1>1 DEF Infer, Asked, Computed, Built
<1>2. CASE Generate
  BY <1>2 DEF Generate, Asked, Computed, Built
<1>3. CASE Stream
  BY <1>3 DEF Stream, Asked, Computed, Built
<1>4. CASE Estimate
  BY <1>4 DEF Estimate, Asked, Computed, Built
<1>5. CASE SubmitJob
  BY <1>5 DEF SubmitJob, Asked, Computed, Built
<1>6. CASE ActOnJob \/ Upload \/ Health
  BY <1>6 DEF ActOnJob, Upload, Health, Asked, Computed
<1>7. CASE List
  BY <1>7 DEF List, Asked, Computed
<1>8. CASE One
  BY <1>8 DEF One, Asked, Computed
<1>9. CASE Create
  BY <1>9 DEF Create, Asked, Computed
<1>10. CASE Connect
  BY <1>10 DEF Connect, Asked, Computed, Built
<1>11. CASE Local
  BY <1>11 DEF Local, Asked, Computed
<1> QED
  BY <1>1, <1>2, <1>3, <1>4, <1>5, <1>6, <1>7, <1>8, <1>9, <1>10, <1>11 DEF Requests

\* An answer becomes what its operation makes of it, or the call is built again.
LEMMA ResultStep ==
  ASSUME Results, ~BuildAgain
  PROVE  /\ stage = "answered" /\ stage' = "done" /\ Concluded(outcome')
         /\ UNCHANGED <<call, request, reply, priced>>
<1> USE DEF Return, Inferences, Generations, Concluded
<1>1. CASE Fail
  BY <1>1 DEF Fail
<1>2. CASE Encoded_ \/ Scored \/ Extracted
  BY <1>2 DEF Encoded_, Scored, Extracted
<1>3. CASE Receive
  BY <1>3 DEF Receive, Documents
<1>4. CASE StatusFrame \/ Capacity
  BY <1>4 DEF StatusFrame, Capacity
<1> QED
  BY <1>1, <1>2, <1>3, <1>4 DEF Results

---------------------------------------------------------------------------
(***************************************************************************)
(* The invariant                                                           *)
(***************************************************************************)
\* What each of the three uses of a builder posts.
Use(c, streamed, policy, accept) ==
  [path |-> Path(c), body |-> generation_body(c, streamed).value, policy |-> policy,
   accept |-> accept]

LEMMA SendBuilds ==
  ASSUME NEW c, send(c).ok
  PROVE  send(c).value = Use(c, FALSE, IF c.op = "generate" THEN "GENERATE" ELSE "STREAM", "json")
BY DEF send, Posted, Ok, Use

LEMMA StreamBuilds ==
  ASSUME NEW c, stream(c).ok
  PROVE  stream(c).value = Use(c, TRUE, "STREAM", "sse")
BY DEF stream, Posted, Ok, Use

LEMMA EstimateBuilds ==
  ASSUME NEW c, estimate_call(c).ok
  PROVE  estimate_call(c).value =
           [path |-> <<"/v1/estimate">>, body |-> PricedBy(c), policy |-> "ESTIMATE",
            accept |-> "json"]
BY DEF estimate_call, estimate, Posted, Ok, PricedBy

LEMMA FileStep ==
  ASSUME IInv, FileChanges
  PROVE  CallTyped(call') /\ call'.op = "generate" /\ ReadsFiles(call')
<1>1. PICK i \in DOMAIN call.images :
        /\ call.images[i].from = "path"
        /\ call' = [call EXCEPT !.images[i].file = "gif"]
  BY DEF FileChanges
<1>2. call.op = "generate" /\ CallTyped(call)
  BY DEF FileChanges, IInv
<1> DEFINE image == [call.images[i] EXCEPT !.file = "gif"]
           images == [call.images EXCEPT ![i] = image]
<1>3. call' = [call EXCEPT !.images = images]
  BY <1>1
<1>4. /\ IsObject(image) /\ image.from = "path"
      /\ {"from", "file", "format"} \subseteq DOMAIN image
  BY <1>1, <1>2 DEF CallTyped, IsObject
<1>5. /\ DOMAIN images = DOMAIN call.images /\ Len(images) = Len(call.images)
      /\ images[i] = image /\ \A j \in DOMAIN images : j # i => images[j] = call.images[j]
      /\ IsObject(images)
  BY DEF IsObject
<1>6. IsObject(call') /\ DOMAIN call' = DOMAIN call /\ call'.images = images
      /\ call'.op = call.op /\ call'.params = call.params /\ call'.extra_body = call.extra_body
  BY <1>2, <1>3 DEF CallTyped, IsObject
<1>7. CallTyped(call')
  BY <1>2, <1>4, <1>5, <1>6 DEF CallTyped, IsList, Inferences
<1> QED
  BY <1>1, <1>2, <1>4, <1>5, <1>6, <1>7 DEF ReadsFiles

LEMMA StepHolds ==
  ASSUME RepliesTyped, IInv, [Next]_vars
  PROVE  IInv'
<1>1. CASE Requests
  BY <1>1, RequestStep DEF IInv, Priced, Asked, Computed
<1>2. CASE Answer
  BY <1>2 DEF Answer, IInv, Priced, Asked, RepliesTyped
<1>3. CASE FileChanges
  BY <1>3, FileStep DEF FileChanges, IInv, Priced, Generations
<1>4. CASE Results /\ ~BuildAgain
  <2>1. /\ stage = "answered" /\ stage' = "done" /\ Concluded(outcome')
        /\ UNCHANGED <<call, request, reply, priced>>
    BY <1>4, ResultStep
  <2>2. Concluded(outcome)' /\ Asked(request)'
    BY <2>1 DEF Concluded, Refused, Asked, IInv
  <2> QED
    BY <2>1, <2>2 DEF IInv, Priced
<1>5. CASE BuildAgain
  <2>1. Asked(request) /\ call.op \in Generations /\ request.policy = "ESTIMATE"
    BY <1>5 DEF BuildAgain, IInv
  <2>2. ASSUME Built(send(call), request) PROVE FALSE
    <3>1. request = Use(call, FALSE, IF call.op = "generate" THEN "GENERATE" ELSE "STREAM", "json")
      BY <2>2, SendBuilds DEF Built
    <3> QED
      BY <2>1, <3>1 DEF Use
  <2>3. ASSUME Built(stream(call), request) PROVE FALSE
    <3>1. request = Use(call, TRUE, "STREAM", "sse")
      BY <2>3, StreamBuilds DEF Built
    <3> QED
      BY <2>1, <3>1 DEF Use
  <2>4. Built(estimate_call(call), request)
    BY <2>1, <2>2, <2>3 DEF Asked
  <2>5. request.body = PricedBy(call)
    <3>1. request = [path |-> <<"/v1/estimate">>, body |-> PricedBy(call), policy |-> "ESTIMATE",
                     accept |-> "json"]
      BY <2>4, EstimateBuilds DEF Built
    <3> QED
      BY <3>1
  <2> QED
    BY <1>5, <2>1, <2>5 DEF BuildAgain, IInv, Priced
<1>6. CASE UNCHANGED vars
  <2>1. UNCHANGED <<call, stage, request, reply, outcome, priced>>
    BY <1>6 DEF vars
  <2>2. Asked(request)' = Asked(request) /\ Concluded(outcome)' = Concluded(outcome)
        /\ Computed(outcome)' = Computed(outcome)
    BY <2>1 DEF Asked, Concluded, Computed, Refused
  <2> QED
    BY <2>1, <2>2 DEF IInv, Priced
<1> QED
  BY <1>1, <1>2, <1>3, <1>4, <1>5, <1>6 DEF Next

LEMMA Invariance == ASSUME RepliesTyped PROVE Spec => []IInv
<1>1. Init => IInv
  BY CallsAssumption DEF Init, IInv
<1>2. IInv /\ [Next]_vars => IInv'
  BY StepHolds
<1> QED
  BY <1>1, <1>2, PTL DEF Spec

---------------------------------------------------------------------------
(***************************************************************************)
(* Results and objects                                                     *)
(***************************************************************************)
\* At the end of a call that was answered.
LEMMA Ended ==
  ASSUME IInv, stage = "done", reply # None
  PROVE  Asked(request) /\ AnswerTyped(call, reply) /\ Concluded(outcome) /\ CallTyped(call)
BY DEF IInv

---------------------------------------------------------------------------
(***************************************************************************)
(* Encode                                                                  *)
(***************************************************************************)
\* What encode makes of an answer with as many items as the call has.
LEMMA EncodedResults ==
  ASSUME NEW c, NEW r, encode_results(c, r).ok, IsList(ItemsOf(r)) \/ ItemsOf(r) = None
  PROVE  /\ r.body.items = ItemsOf(r) /\ IsList(r.body.items)
         /\ Len(r.body.items) = Len(c.items)
         /\ encode_results(c, r).value =
              [i \in DOMAIN r.body.items |-> EncodeResult(r.body.items[i], r).value]
         /\ \A i \in DOMAIN r.body.items : EncodeResult(r.body.items[i], r).ok
<1> DEFINE items == ItemsOf(r)
           results == [i \in DOMAIN items |-> EncodeResult(items[i], r)]
<1>1. items # None
  BY DEF encode_results, Err
<1>2. items = r.body.items
  BY <1>1 DEF ItemsOf, Get
<1>3. Len(items) = Len(c.items)
  BY <1>1 DEF encode_results, CountMismatch, Err, Over
<1>4. encode_results(c, r) = All(results)
  BY <1>1, <1>3 DEF encode_results, CountMismatch
<1>5. DOMAIN results = 1..Len(items) /\ Len(items) \in Nat
  BY <1>1 DEF IsList
<1>6. /\ \A i \in DOMAIN results : results[i].ok
      /\ All(results) = Ok([i \in DOMAIN results |-> results[i].value])
  BY <1>4, <1>5, AllResults
<1>7. encode_results(c, r).value = [i \in DOMAIN items |-> EncodeResult(items[i], r).value]
  BY <1>4, <1>6 DEF Ok
<1>8. \A i \in DOMAIN items : EncodeResult(items[i], r).ok
  BY <1>6
<1>9. items = ItemsOf(r) /\ IsList(items)
  BY <1>1
<1> HIDE DEF items
<1> QED
  BY <1>2, <1>3, <1>7, <1>8, <1>9

\* One result of many, or all of them: the sequence that a caller sees.
LEMMA OneOfMany ==
  ASSUME NEW results, send_one(results).ok
  PROVE  results.ok /\ Len(results.value) = 1 /\ send_one(results).value = results.value[1]
BY DEF send_one, Ok, Err

\* A result that EncodeResult makes has the id of its item, the metering of its
\* answer and the three tensors as they were read.
LEMMA EncodedFields ==
  ASSUME NEW item, NEW r, EncodeResult(item, r).ok
  PROVE  LET result == EncodeResult(item, r).value IN
         /\ result.id = Get(item, "id") /\ result.request = attach_metadata(r)
         /\ parse_dense(item).ok /\ result.dense = parse_dense(item).value
         /\ parse_sparse(item).ok /\ result.sparse = parse_sparse(item).value
         /\ parse_multivector(item).ok /\ result.multivector = parse_multivector(item).value
<1> DEFINE three == <<parse_dense(item), parse_sparse(item), parse_multivector(item)>>
           parts == All(three)
<1>1. parts.ok
  BY DEF EncodeResult
<1>2. /\ EncodeResult(item, r).value.id = Get(item, "id")
      /\ EncodeResult(item, r).value.request = attach_metadata(r)
      /\ EncodeResult(item, r).value.dense = parts.value[1]
      /\ EncodeResult(item, r).value.sparse = parts.value[2]
      /\ EncodeResult(item, r).value.multivector = parts.value[3]
  BY <1>1 DEF EncodeResult, Ok
<1>3. \A i \in 1..3 : three[i].ok /\ parts.value[i] = three[i].value
  <2>1. DOMAIN three = 1..3
    OBVIOUS
  <2> HIDE DEF three
  <2> QED
    BY <1>1, <2>1, AllResults DEF Ok
<1>4. /\ three[1] = parse_dense(item) /\ three[2] = parse_sparse(item)
      /\ three[3] = parse_multivector(item)
  OBVIOUS
<1> HIDE DEF three, parts
<1> QED
  BY <1>2, <1>3, <1>4

\* What a caller of encode gets: for each item of the answer what EncodeResult
\* makes of it.
LEMMA EncodeOutcomes ==
  ASSUME IInv, Done({"encode"})
  PROVE  LET items == reply.body.items IN
         /\ call.op = "encode" /\ AnswerTyped(call, reply) /\ ~Refused
         /\ IsList(items) /\ Len(items) = Len(call.items)
         /\ DOMAIN Outcomes = DOMAIN items /\ Len(Outcomes) = Len(items)
         /\ \A i \in DOMAIN items :
              EncodeResult(items[i], reply).ok /\ Outcomes[i] = EncodeResult(items[i], reply).value
<1> DEFINE results == encode_results(call, reply)
           items == reply.body.items
<1>1. /\ stage = "done" /\ reply # None /\ call.op = "encode" /\ outcome.ok
      /\ AnswerTyped(call, reply) /\ Concluded(outcome) /\ CallTyped(call)
  BY Ended DEF Done
<1>2. ~Refused
  BY <1>1 DEF Concluded, Err
<1>3. /\ "one" \in DOMAIN call /\ call.one \in BOOLEAN
      /\ outcome = IF call.one THEN send_one(results) ELSE results
  BY <1>1, <1>2 DEF Concluded, CallTyped
<1>4. results.ok
  BY <1>1, <1>3, OneOfMany
<1>5. IsList(ItemsOf(reply)) \/ ItemsOf(reply) = None
  BY <1>1, <1>2 DEF AnswerTyped, Refused, Inferences
<1>6. /\ IsList(items) /\ Len(items) = Len(call.items)
      /\ results.value = [i \in DOMAIN items |-> EncodeResult(items[i], reply).value]
      /\ \A i \in DOMAIN items : EncodeResult(items[i], reply).ok
  BY <1>4, <1>5, EncodedResults
<1>7. Len(results.value) = Len(items)
  BY <1>6 DEF IsList
<1>8. Len(Outcomes) = Len(items) /\ DOMAIN Outcomes = DOMAIN items
      /\ \A i \in DOMAIN items : Outcomes[i] = EncodeResult(items[i], reply).value
  <2>1. CASE call.one
    <3>1. Len(results.value) = 1 /\ outcome.value = results.value[1]
      BY <1>1, <1>3, <2>1, OneOfMany
    <3>2. Outcomes = <<results.value[1]>>
      BY <1>3, <2>1, <3>1 DEF Outcomes
    <3> QED
      BY <1>6, <1>7, <3>1, <3>2 DEF IsList
  <2>2. CASE ~call.one
    BY <1>3, <1>6, <1>7, <2>2 DEF Outcomes
  <2> QED
    BY <2>1, <2>2
<1> HIDE DEF results
<1> QED
  BY <1>1, <1>2, <1>6, <1>8

(***************************************************************************)
(* Whatever the answer, an encode that returns has one result for each of  *)
(* its items, in the order of the answer's: EncodeIsPositional.            *)
(***************************************************************************)
THEOREM EncodePairsItems ==
  ASSUME RepliesTyped
  PROVE  Spec => []EncodeIsPositional
<1>1. IInv => EncodeIsPositional
  BY EncodeOutcomes, EncodedFields DEF EncodeIsPositional
<1> QED
  BY <1>1, Invariance, PTL

---------------------------------------------------------------------------
(***************************************************************************)
(* Extract                                                                 *)
(***************************************************************************)
\* An error is there exactly when the item has one, and it speaks.
Shown(error, node) ==
  /\ (error = None) = (node = None)
  /\ error # None =>
       /\ "" \notin {error.code, error.message}
       /\ Get(node, "code") \notin {None, ""} /\ Get(node, "message") \notin {None, ""} =>
            error = [code |-> node.code, message |-> node.message]

LEMMA ShownError ==
  ASSUME NoneIsNoObject, NEW item, NEW r
  PROVE  Shown(ExtractResult(item, r).error, Get(item, "error"))
<1> DEFINE node == Get(item, "error")
           code == Or(Get(node, "code"), "")
           message == Or(Get(node, "message"), "")
           error == ExtractResult(item, r).error
<1>1. CASE node = None
  BY <1>1 DEF ExtractResult, Shown
<1>2. CASE node # None
  <2>1. node = item.error
    BY <1>2 DEF Get
  <2>2. error = parse_extract_error(node)
    BY <1>2, <2>1 DEF ExtractResult
  <2>3. \A a, b : [code |-> a, message |-> b] # None
    BY DEF NoneIsNoObject, IsObject
  <2> SUFFICES Shown(error, node)
    OBVIOUS
  <2>0. node # None
    BY <1>2
  <2> HIDE DEF error, node
  <2>4. CASE "" \in {code, message}
    <3>1. error = [code |-> "INTERNAL_ERROR", message |-> "Malformed extraction item error"]
      BY <2>2, <2>4 DEF parse_extract_error
    <3>2. Get(node, "code") \in {None, ""} \/ Get(node, "message") \in {None, ""}
      BY <2>4 DEF Or
    <3> QED
      BY <2>0, <2>3, <3>1, <3>2 DEF Shown
  <2>5. CASE "" \notin {code, message}
    <3>1. code = node.code /\ message = node.message
      BY <2>5 DEF Or, Get
    <3>2. error = [code |-> node.code, message |-> node.message]
      BY <2>2, <2>5 DEF parse_extract_error
    <3> QED
      BY <2>0, <2>3, <2>5, <3>1, <3>2 DEF Shown
  <2> QED
    BY <2>4, <2>5
<1> QED
  BY <1>1, <1>2

LEMMA ExtractOutcomes ==
  ASSUME IInv, Done({"extract"}), NEW i \in DOMAIN Outcomes
  PROVE  ~Refused /\ Outcomes[i] = ExtractResult(reply.body.items[i], reply)
<1> DEFINE results == extract_results(reply)
           items == ItemsOf(reply)
<1>1. /\ stage = "done" /\ reply # None /\ call.op = "extract" /\ outcome.ok
      /\ AnswerTyped(call, reply) /\ Concluded(outcome) /\ CallTyped(call)
  BY Ended DEF Done
<1>2. ~Refused
  BY <1>1 DEF Concluded, Err
<1>3. /\ "one" \in DOMAIN call /\ call.one \in BOOLEAN
      /\ outcome = IF call.one THEN send_one(results) ELSE results
  BY <1>1, <1>2 DEF Concluded, CallTyped
<1>4. results.ok
  BY <1>1, <1>3, OneOfMany
<1>5. items # None
  BY <1>4 DEF extract_results, Err
<1>6. results.value = [j \in DOMAIN items |-> ExtractResult(items[j], reply)]
  BY <1>5 DEF extract_results, Ok
<1>7. items = reply.body.items /\ IsList(items)
  BY <1>1, <1>2, <1>5 DEF AnswerTyped, Refused, Inferences, ItemsOf, Get
<1>8. CASE call.one
  <2>1. Len(results.value) = 1 /\ outcome.value = results.value[1]
    BY <1>1, <1>3, <1>8, OneOfMany
  <2>2. 1 \in DOMAIN items
    <3>1. Len(results.value) = Len(items)
      BY <1>6, <1>7 DEF IsList
    <3> QED
      BY <1>7, <2>1, <3>1 DEF IsList
  <2>3. Outcomes = <<ExtractResult(items[1], reply)>>
    BY <1>3, <1>6, <1>8, <2>1, <2>2 DEF Outcomes
  <2> QED
    BY <1>2, <1>7, <2>3
<1>9. CASE ~call.one
  BY <1>2, <1>3, <1>6, <1>7, <1>9 DEF Outcomes
<1> QED
  BY <1>3, <1>8, <1>9

(***************************************************************************)
(* An item whose extraction failed always says so to the caller:           *)
(* ExtractFailuresShown, for every answer that a server can give.          *)
(***************************************************************************)
THEOREM ExtractionFailuresAreShown ==
  ASSUME NoneIsNoObject, RepliesTyped
  PROVE  Spec => []ExtractFailuresShown
<1>1. ASSUME IInv PROVE ExtractFailuresShown
  <2> SUFFICES ASSUME Done({"extract"}), NEW i \in DOMAIN Outcomes
               PROVE  Shown(Outcomes[i].error, Get(reply.body.items[i], "error"))
    BY DEF ExtractFailuresShown, Shown
  <2>1. Outcomes[i] = ExtractResult(reply.body.items[i], reply)
    BY <1>1, ExtractOutcomes
  <2> QED
    BY <2>1, ShownError
<1> QED
  BY <1>1, Invariance, PTL

---------------------------------------------------------------------------
(***************************************************************************)
(* Options                                                                 *)
(***************************************************************************)
LEMMA Records ==
  ASSUME NoneIsNoObject
  PROVE  /\ \A fields : Object(fields) # None
         /\ \A v : Ok(v) # None
         /\ \A e : Err(e) # None
BY DEF NoneIsNoObject, IsObject, Object, Ok, Err

\* A field of the fields that have a value.
LEMMA GetGiven == ASSUME NEW o, NEW f \in DOMAIN o PROVE Get(Given(o), f) = o[f]
BY DEF Get, Given

\* A body whose params, if it has any, have these options.
HasOptions(body, options) ==
  \E items, entries :
    /\ body = Given([items |-> items, params |-> params_map(entries)])
    /\ "options" \in DOMAIN entries /\ entries.options = options

LEMMA SentOptions ==
  ASSUME NoneIsNoObject, NEW body, NEW options, HasOptions(body, options)
  PROVE  Get(Or(Get(body, "params"), Empty), "options") = options
<1> PICK items, entries :
      /\ body = Given([items |-> items, params |-> params_map(entries)])
      /\ "options" \in DOMAIN entries /\ entries.options = options
  BY DEF HasOptions
<1>1. Get(body, "params") = params_map(entries)
  BY GetGiven
<1>2. CASE Given(entries) = Empty
  BY <1>1, <1>2, GetGiven DEF params_map, Or, Get, Empty
<1>3. CASE Given(entries) # Empty
  <2>1. Given(entries) # None
    BY DEF NoneIsNoObject, IsObject, Given
  <2> QED
    BY <1>1, <1>3, <2>1, GetGiven DEF params_map, Or
<1> QED
  BY <1>2, <1>3

\* The call's own over the client's.
LEMMA MergedEntries ==
  ASSUME NoneIsNoObject, NEW default, NEW options, IsJson(default), IsJson(options)
  PROVE  Entries(merge_options(default, options)) = Over(Entries(options), Entries(default))
<1>1. \A o : IsObject(o) => Over(o, Empty) = o /\ Over(Empty, o) = o
  BY DEF IsObject, Over, Empty
<1>2. IsObject(Empty)
  BY DEF IsObject, Empty
<1>3. CASE default = None
  BY <1>1, <1>2, <1>3 DEF merge_options, Entries, IsJson
<1>4. CASE default # None /\ options = None
  BY <1>1, <1>4 DEF merge_options, Entries, IsJson
<1>5. CASE default # None /\ options # None
  <2>1. merge_options(default, options) = Object(Over(options.fields, default.fields))
    BY <1>5 DEF merge_options
  <2> QED
    BY <1>5, <2>1, Records DEF Entries, Object
<1> QED
  BY <1>3, <1>4, <1>5

LEMMA QueryEntries ==
  ASSUME NoneIsNoObject, NEW options, NEW is_query,
         IsObject(Entries(options))
  PROVE  Entries(WithIsQuery(options, is_query))
           = Over(Given([is_query |-> is_query]), Entries(options))
<1>1. CASE is_query = None
  <2>1. Given([is_query |-> is_query]) = Empty
    BY <1>1 DEF Given, Empty
  <2>2. Over(Empty, Entries(options)) = Entries(options)
    BY DEF Over, Empty, IsObject
  <2> QED
    BY <1>1, <2>1, <2>2 DEF WithIsQuery
<1>2. CASE is_query # None
  <2>1. Given([is_query |-> is_query]) = [is_query |-> is_query]
    BY <1>2 DEF Given
  <2> QED
    BY <1>2, <2>1, Records DEF WithIsQuery, Entries, Object
<1> QED
  BY <1>1, <1>2

LEMMA OverAssociates ==
  ASSUME NEW a, NEW b, NEW c
  PROVE  Over(a, Over(b, c)) = Over(Over(a, b), c)
BY DEF Over

\* What the three operations put into a body.
LEMMA InferenceBodies ==
  ASSUME NEW d, NEW c, inference_body(d, c).ok
  PROVE  /\ c.op = "encode" =>
              HasOptions(inference_body(d, c).value,
                         WithIsQuery(merge_options(d, c.options), c.is_query))
         /\ c.op = "extract" =>
              HasOptions(inference_body(d, c).value, merge_options(d, c.options))
         /\ c.op = "score" =>
              Get(inference_body(d, c).value, "options") = merge_options(d, c.options)
<1>1. c.items # <<>>
  BY DEF inference_body, Err
<1>2. CASE c.op = "encode"
  <2> DEFINE entries == [output_types |-> c.output_types, instruction |-> c.instruction,
                         output_dtype |-> c.output_dtype,
                         options |-> WithIsQuery(merge_options(d, c.options), c.is_query)]
  <2>1. inference_body(d, c) = ParamsBody(c.items, entries)
    BY <1>1, <1>2 DEF inference_body, encode_body
  <2>2. "options" \in DOMAIN entries
        /\ entries.options = WithIsQuery(merge_options(d, c.options), c.is_query)
    OBVIOUS
  <2> HIDE DEF entries
  <2>3. inference_body(d, c).value =
          Given([items |-> items_to_msgpack(c.items).value, params |-> params_map(entries)])
    BY <2>1 DEF ParamsBody, Ok
  <2> QED
    BY <1>2, <2>2, <2>3 DEF HasOptions
<1>3. CASE c.op = "extract"
  <2> DEFINE entries == [labels |-> c.labels, output_schema |-> c.output_schema,
                         instruction |-> c.instruction,
                         options |-> merge_options(d, c.options)]
  <2>1. inference_body(d, c) = ParamsBody(c.items, entries)
    BY <1>1, <1>3 DEF inference_body, extract_body
  <2>2. "options" \in DOMAIN entries /\ entries.options = merge_options(d, c.options)
    OBVIOUS
  <2> HIDE DEF entries
  <2>3. inference_body(d, c).value =
          Given([items |-> items_to_msgpack(c.items).value, params |-> params_map(entries)])
    BY <2>1 DEF ParamsBody, Ok
  <2> QED
    BY <1>3, <2>2, <2>3 DEF HasOptions
<1>4. CASE c.op = "score"
  <2> DEFINE packed == All(<<to_msgpack(c.query), items_to_msgpack(c.items)>>)
             fields == [query |-> packed.value[1], items |-> packed.value[2],
                        instruction |-> c.instruction,
                        options |-> merge_options(d, c.options)]
  <2>1. inference_body(d, c) = IF ~packed.ok THEN packed ELSE Ok(Given(fields))
    BY <1>1, <1>4 DEF inference_body, score_body
  <2>2. "options" \in DOMAIN fields /\ fields.options = merge_options(d, c.options)
    OBVIOUS
  <2> HIDE DEF fields, packed
  <2>3. inference_body(d, c).value = Given(fields)
    BY <2>1 DEF Ok
  <2> QED
    BY <1>4, <2>2, <2>3, GetGiven
<1> QED
  BY <1>2, <1>3, <1>4

(***************************************************************************)
(* The options that a request carries are the call's own over the client's *)
(* defaults, for whatever options there are: OptionsLayered.               *)
(***************************************************************************)
THEOREM OptionsAreLayered ==
  ASSUME NoneIsNoObject, RepliesTyped
  PROVE  Spec => []OptionsLayered
<1>1. ASSUME IInv PROVE OptionsLayered
  <2> DEFINE where == IF call.op = "score" THEN request ELSE Or(Get(request, "params"), Empty)
             own == Over(IF call.op = "encode" THEN Given([is_query |-> call.is_query]) ELSE Empty,
                         Entries(call.options))
             merged == merge_options(call.defaults, call.options)
  <2> SUFFICES ASSUME stage = "posted", call.op \in Inferences
               PROVE  Entries(Get(where, "options")) = Over(own, Entries(call.defaults))
    BY DEF OptionsLayered
  <2>1. Built(inference_body(call.defaults, call), request)
    BY <1>1 DEF IInv, Asked
  <2>2. IsJson(call.options) /\ IsJson(call.defaults)
    BY <1>1 DEF IInv, CallTyped
  <2>3. Entries(merged) = Over(Entries(call.options), Entries(call.defaults))
    BY <2>2, MergedEntries
  <2>4. IsObject(Entries(merged)) /\ IsObject(Entries(call.options))
    BY <2>2, <2>3 DEF IsObject, Over, Entries, IsJson, Empty
  <2>5. CASE call.op = "encode"
    <3>1. Get(where, "options") = WithIsQuery(merged, call.is_query)
      <4>1. HasOptions(request, WithIsQuery(merged, call.is_query))
        BY <2>1, <2>5, InferenceBodies DEF Built
      <4> QED
        BY <2>5, <4>1, SentOptions
    <3>2. Entries(Get(where, "options"))
            = Over(Given([is_query |-> call.is_query]), Entries(merged))
      BY <2>4, <3>1, QueryEntries
    <3> QED
      BY <2>3, <2>5, <3>2, OverAssociates
  <2>6. own = Entries(call.options) \/ call.op = "encode"
    BY <2>4 DEF Over, Empty, IsObject
  <2>7. CASE call.op = "extract"
    <3>1. Get(where, "options") = merged
      <4>1. HasOptions(request, merged)
        BY <2>1, <2>7, InferenceBodies DEF Built
      <4> QED
        BY <2>7, <4>1, SentOptions
    <3> QED
      BY <2>3, <2>6, <2>7, <3>1
  <2>8. CASE call.op = "score"
    <3>1. Get(where, "options") = merged
      BY <2>1, <2>8, InferenceBodies DEF Built
    <3> QED
      BY <2>3, <2>6, <2>8, <3>1
  <2> QED
    BY <2>5, <2>7, <2>8 DEF Inferences
<1> QED
  BY <1>1, Invariance, PTL

---------------------------------------------------------------------------
(***************************************************************************)
(* Errors                                                                  *)
(***************************************************************************)
BodyCode(r) == IF r.body = None THEN None ELSE envelope_from_value(r.body).code

LEMMA EnvelopeCode ==
  ASSUME NEW r
  PROVE  parse_envelope(r).code = Code(Get(r.headers, "error_code"), BodyCode(r))
<1> DEFINE envelope == IF r.body # None THEN envelope_from_value(r.body)
                       ELSE [NoEnvelope EXCEPT !.message = r.text]
<1>1. "code" \in DOMAIN envelope /\ envelope.code = BodyCode(r)
  BY DEF envelope_from_value, NoEnvelope, BodyCode
<1>2. parse_envelope(r) = [envelope EXCEPT !.code = Code(Get(r.headers, "error_code"), @)]
  BY DEF parse_envelope
<1> HIDE DEF envelope
<1> QED
  BY <1>1, <1>2

\* The error of an answer says its status and the envelope's code, and of its
\* kind no more than they do.
LEMMA ErrorSays ==
  ASSUME NEW r, NEW model, NEW policy, r.status \in Nat
  PROVE  LET error == ErrorOf(r, model, policy) IN
         /\ error.status = r.status /\ error.code = parse_envelope(r).code
         /\ is_capacity_error(error) => error.code = "PROVISIONING" /\ policy # "ESTIMATE"
         /\ Family(error) = "request" => r.status < 500
<1> DEFINE error == ErrorOf(r, model, policy)
           code == parse_envelope(r).code
<1>1. CASE r.status = 502 /\ code = "MODEL_LOAD_FAILED"
  <2>1. error = model_load_failed(r, model)
    BY <1>1 DEF ErrorOf
  <2>2. error.status = 502 /\ error.code = code /\ error.kind = "model_load_failed"
    BY <2>1 DEF model_load_failed
  <2> HIDE DEF error
  <2>3. ~is_capacity_error(error) /\ Family(error) = "server"
    BY <2>2 DEF is_capacity_error, Family
  <2> QED
    BY <1>1, <2>2, <2>3 DEF error
<1>2. CASE ~(r.status = 502 /\ code = "MODEL_LOAD_FAILED") /\ Unroutable(r, policy)
  <2>1. error = [kind |-> "estimate_unroutable", code |-> code, status |-> 503,
                 request |-> parse(r.headers, None, r.retries)]
    BY <1>2 DEF ErrorOf
  <2>2. r.status = 503
    BY <1>2 DEF Unroutable
  <2> HIDE DEF error
  <2>3. ~is_capacity_error(error) /\ Family(error) = "server"
    BY <2>1 DEF is_capacity_error, Family
  <2> QED
    BY <2>1, <2>2, <2>3 DEF error
<1>3. CASE ~(r.status = 502 /\ code = "MODEL_LOAD_FAILED") /\ ~Unroutable(r, policy)
  <2>1. error = handle_error(r)
    BY <1>3 DEF ErrorOf
  <2>2. /\ error.status = r.status /\ error.code = code
        /\ error.kind \in {"provisioning", "input_too_long", "server", "request"}
        /\ error.kind = "provisioning" => code = "PROVISIONING" /\ r.status = 503
        /\ error.kind \in {"input_too_long", "request"} => r.status < 500
    BY <2>1 DEF handle_error
  <2>3. error.kind = "provisioning" => policy # "ESTIMATE"
    BY <1>3, <2>2 DEF Unroutable
  <2> HIDE DEF error
  <2>4. /\ is_capacity_error(error) => error.kind = "provisioning"
        /\ Family(error) = "request" => error.kind \in {"input_too_long", "request"}
    BY <2>2 DEF is_capacity_error, Family
  <2> QED
    BY <2>2, <2>3, <2>4 DEF error
<1> QED
  BY <1>1, <1>2, <1>3

(***************************************************************************)
(* The code of every error is the header's, or else the body's as the      *)
(* retry rules spell it: EnvelopeCodeAuthoritative.                        *)
(***************************************************************************)
THEOREM TheHeaderHasTheCode ==
  ASSUME RepliesTyped
  PROVE  Spec => []EnvelopeCodeAuthoritative
<1>1. ASSUME IInv PROVE EnvelopeCodeAuthoritative
  <2> SUFFICES ASSUME stage = "done", reply # None, Refused, ~outcome.ok, call.op # "capacity"
               PROVE  EnvelopeCodeAuthoritative
    BY DEF EnvelopeCodeAuthoritative
  <2> DEFINE error == ErrorOf(reply, ModelOf(call), PolicyOf(request))
             header == Get(reply.headers, "error_code")
  <2>1. outcome = Err(error)
    BY <1>1, Ended DEF Concluded, Ok
  <2>2. outcome.error = error
    BY <2>1 DEF Err
  <2>3. reply.status \in Nat
    BY <1>1, Ended DEF AnswerTyped
  <2>4. /\ error.status = reply.status
        /\ error.code = Code(header, BodyCode(reply))
        /\ is_capacity_error(error) => error.code = "PROVISIONING" /\ PolicyOf(request) # "ESTIMATE"
        /\ Family(error) = "request" => reply.status < 500
    BY <2>3, ErrorSays, EnvelopeCode
  <2> HIDE DEF error
  <2>5. "provisioning" # None /\ "PROVISIONING" # None
    BY NoneIsNoCode
  <2>6. header \notin {None, ""} => error.code = header
    BY <2>4 DEF Code
  <2>7. ASSUME header \in {None, ""}
        PROVE  error.code # "provisioning" /\ (error.code = None <=> BodyCode(reply) = None)
    <3>1. error.code = normalize_error_code(BodyCode(reply))
      BY <2>4, <2>7 DEF Code
    <3> QED
      BY <2>5, <3>1 DEF normalize_error_code
  <2> HIDE DEF header
  <2>8. header \in {None, ""} =>
          outcome.error.code \notin {"provisioning"}
            /\ (outcome.error.code = None) = (BodyCode(reply) = None)
    BY <2>2, <2>7
  <2>9. /\ outcome.error.status = reply.status
        /\ header \notin {None, ""} => outcome.error.code = header
        /\ is_capacity_error(outcome.error) =>
             outcome.error.code = "PROVISIONING" /\ PolicyOf(request) # "ESTIMATE"
        /\ Family(outcome.error) = "request" => reply.status < 500
    BY <2>2, <2>4, <2>6
  <2> QED
    BY <2>8, <2>9, Zenon DEF EnvelopeCodeAuthoritative, BodyCode, header
<1> QED
  BY <1>1, Invariance, PTL

---------------------------------------------------------------------------
(***************************************************************************)
(* Event streams                                                           *)
(***************************************************************************)
(***************************************************************************)
(* A payload with an error is an error, whatever else it has, and only the *)
(* sentinel is the end: StreamErrorsShown, for every line.                 *)
(***************************************************************************)
THEOREM ErrorsInStreamsAreShown ==
  ASSUME NoneIsNoObject, RepliesTyped
  PROVE  Spec => []StreamErrorsShown
<1>1. ASSUME IInv PROVE StreamErrorsShown
  <2> SUFFICES ASSUME stage = "done", call.op = "line"
               PROVE  StreamErrorsShown
    BY DEF StreamErrorsShown
  <2> DEFINE line == call.line
             said == line.payload
             wrong == said.is = "object" /\ Get(said.fields, "error") # None
                        /\ said.fields.error.is = "object"
             event == IF outcome.ok THEN outcome.value.event ELSE "failed"
             type == ChunkType(call.of)
  <2>1. line.spaces \in Nat /\ outcome = LineEvent(line, type)
    BY <1>1 DEF IInv, CallTyped, Computed, Asked, Pure
  <2>2. /\ \A a, b : [code |-> a, message |-> b] # None
        /\ \A f, n, b : [is |-> "payload", spaces |-> n, of |-> b] # NoPayload
    BY DEF NoneIsNoObject, IsObject, NoPayload
  <2>3. CASE line.field # "data"
    BY <2>1, <2>3 DEF LineEvent, data_payload, Ok, StreamErrorsShown
  <2>4. CASE line.field = "data"
    <3> DEFINE spaces == IF line.spaces > 0 THEN line.spaces - 1 ELSE 0
               payload == [is |-> "payload", spaces |-> spaces, of |-> said]
    <3>1. outcome = decode_event(payload, type)
      BY <2>1, <2>2, <2>4 DEF LineEvent, data_payload
    <3>2. spaces = 0 <=> line.spaces <= 1
      BY <2>1
    <3>7. payload.of = said /\ payload.spaces = spaces
      OBVIOUS
    <3> HIDE DEF payload, spaces
    <3>8. ~wrong => chunk_error(said) = None
      BY DEF chunk_error, Get
    <3>3. CASE said.is = "done"
      <4>1. outcome = IF spaces = 0 THEN Ok([event |-> "done"]) ELSE Err("decode")
        BY <3>1, <3>3, <3>7 DEF decode_event
      <4>2. event = IF spaces = 0 THEN "done" ELSE "failed"
        BY <4>1 DEF Ok, Err
      <4>3. ~wrong
        BY <3>3
      <4> QED
        BY <2>4, <3>2, <3>3, <4>2, <4>3 DEF StreamErrorsShown
    <3>4. CASE said.is = "garbled"
      <4>1. ~wrong /\ chunk_error(said) = None
        BY <3>4, <3>8
      <4>2. ~(payload.of.is = "done" /\ payload.spaces = 0) /\ payload.of.is = "garbled"
        BY <3>4, <3>7
      <4>3. outcome = Err("decode")
        BY <3>1, <3>7, <4>1, <4>2 DEF decode_event
      <4>4. event = "failed"
        BY <4>3 DEF Err
      <4> QED
        BY <2>4, <3>4, <4>1, <4>4 DEF StreamErrorsShown
    <3>5. CASE said.is \notin {"done", "garbled"} /\ wrong
      <4>1. chunk_error(said) # None /\ "" \notin {chunk_error(said).code, chunk_error(said).message}
        BY <2>2, <3>5 DEF chunk_error, Said, Get
      <4>2. outcome = Ok([event |-> "capacity", code |-> chunk_error(said).code,
                          message |-> chunk_error(said).message])
        BY <3>1, <3>5, <3>7, <4>1 DEF decode_event
      <4> QED
        BY <2>4, <3>5, <4>1, <4>2 DEF Ok, StreamErrorsShown
    <3>6. CASE said.is \notin {"done", "garbled"} /\ ~wrong
      <4>1. chunk_error(said) = None
        BY <3>6, <3>8
      <4>2. outcome = IF Deserialize(said, type).ok
                      THEN Ok([event |-> "chunk", value |-> Deserialize(said, type).value])
                      ELSE Deserialize(said, type)
        BY <3>1, <3>6, <3>7, <4>1 DEF decode_event
      <4>3. event \in {"chunk", "failed"}
        BY <4>2 DEF Ok
      <4> QED
        BY <2>4, <3>6, <4>3 DEF StreamErrorsShown
    <3> QED
      BY <3>3, <3>4, <3>5, <3>6
  <2> QED
    BY <2>3, <2>4
<1> QED
  BY <1>1, Invariance, PTL


---------------------------------------------------------------------------
(***************************************************************************)
(* Generate                                                                *)
(***************************************************************************)
Extra(c) ==
  IF c.extra_body = None \/ ~c.extra_body.object THEN Empty ELSE c.extra_body.fields

DefiningOf(streamed) == {"prompt", "max_new_tokens"} \cup {f \in {"stream"} : streamed}

\* A body of generate has the fields that define the request, every other one of
\* extra_body, and those of its parameters that extra_body does not name.
HasDefining(body, c, streamed) ==
  /\ body.prompt = c.prompt
  /\ body.max_new_tokens = c.params.max_new_tokens
  /\ streamed => body.stream = TRUE
  /\ \A f \in DOMAIN Extra(c) \ DefiningOf(streamed) : body[f] = Extra(c)[f]
  /\ \A p \in DOMAIN Given(c.params) \ DOMAIN Extra(c) : body[p] = c.params[p]

LEMMA DefiningFields ==
  ASSUME NEW c, NEW s \in BOOLEAN
  PROVE  /\ DOMAIN Defining(c, s) = {"prompt", "max_new_tokens"} \cup (IF s THEN {"stream"} ELSE {})
         /\ Defining(c, s).prompt = c.prompt
         /\ Defining(c, s).max_new_tokens = c.params.max_new_tokens
         /\ s => Defining(c, s).stream = TRUE
BY DEF Defining, Over, Streamed, Empty

LEMMA GenerateBody ==
  ASSUME NEW c, CallTyped(c), c.op = "generate", NEW s \in BOOLEAN, generate_body(c, s).ok
  PROVE  HasDefining(generate_body(c, s).value, c, s)
<1> DEFINE images == images_for_json(c.images)
           front == Over(Defining(c, s),
                         IF c.images = <<>> THEN Empty ELSE [images |-> images.value])
           built == Over(front, params_object(c.params))
           kept == IF Get(c.params, "logprobs") = TRUE THEN built
                   ELSE Without(built, {"top_logprobs"})
           merged == merge_extra_body(kept, c.extra_body)
           body == Over(Defining(c, s), merged)
<1>1. generate_body(c, s).value = body
  BY DEF generate_body, Reasserted, Ok
<1>2. body.prompt = c.prompt /\ body.max_new_tokens = c.params.max_new_tokens
      /\ (s => body.stream = TRUE)
  <2> HIDE DEF merged
  <2> QED
    BY DefiningFields DEF Over
<1>3. ASSUME NEW p \in DOMAIN Given(c.params) \ DOMAIN Extra(c)
      PROVE  body[p] = c.params[p]
  <2>1. p \in GenerateParams /\ p \in DOMAIN c.params /\ p # "top_logprobs"
        /\ p \in DOMAIN Given(c.params) /\ Given(c.params)[p] = c.params[p]
    BY <1>3 DEF Given, CallTyped
  <2>2. p \notin {"prompt", "stream", "images"}
    BY <2>1 DEF GenerateParams
  <2>3. p \in DOMAIN built /\ built[p] = c.params[p]
    <3>1. p \in DOMAIN front => p = "max_new_tokens" /\ front[p] = c.params[p]
      BY <2>2, DefiningFields, ZenonT(30) DEF Over, Empty
    <3> HIDE DEF front
    <3> QED
      BY <2>1, <3>1 DEF Over, params_object
  <2> HIDE DEF built
  <2>4. p \in DOMAIN kept /\ kept[p] = c.params[p]
    BY <2>1, <2>3 DEF Without
  <2> HIDE DEF kept
  <2>5. p \in DOMAIN merged /\ merged[p] = c.params[p]
    BY <1>3, <2>4 DEF merge_extra_body, Over, Extra
  <2> HIDE DEF merged
  <2>6. p \in DOMAIN Defining(c, s) => p = "max_new_tokens" /\ Defining(c, s)[p] = c.params[p]
    BY <2>2, DefiningFields
  <2> QED
    BY <2>5, <2>6 DEF Over
<1>4. ASSUME NEW f \in DOMAIN Extra(c) \ DefiningOf(s) PROVE body[f] = Extra(c)[f]
  <2>1. c.extra_body # None /\ c.extra_body.object /\ Extra(c) = c.extra_body.fields
    BY <1>4 DEF Extra, Empty
  <2> HIDE DEF kept
  <2>2. merged = Over(Extra(c), kept)
    BY <2>1 DEF merge_extra_body
  <2> HIDE DEF merged
  <2>3. f \in DOMAIN merged /\ merged[f] = Extra(c)[f]
    BY <1>4, <2>2 DEF Over
  <2>4. f \notin DOMAIN Defining(c, s)
    BY <1>4, DefiningFields DEF DefiningOf
  <2> QED
    BY <2>3, <2>4 DEF Over
<1> HIDE DEF body
<1> QED
  BY <1>1, <1>2, <1>3, <1>4 DEF HasDefining

(***************************************************************************)
(* The fields that define a generate request are the builder's, whatever   *)
(* extra_body says, and all others that it has are its own:                *)
(* DefiningFieldsHold.                                                     *)
(***************************************************************************)
THEOREM DefiningFieldsAreTheBuilders ==
  ASSUME RepliesTyped
  PROVE  Spec => []DefiningFieldsHold
<1>1. ASSUME IInv PROVE DefiningFieldsHold
  <2> SUFFICES ASSUME stage = "posted", call.op = "generate"
               PROVE  DefiningFieldsHold
    BY DEF DefiningFieldsHold
  <2>1. CallTyped(call) /\ Asked(request)
    BY <1>1 DEF IInv
  <2> DEFINE body == IF request.policy = "ESTIMATE" THEN request.body.request ELSE request.body
  <2>2. ASSUME NEW s \in BOOLEAN, generation_body(call, s).ok,
               body = generation_body(call, s).value,
               request.accept = "sse" => s, s => request.accept = "sse"
        PROVE  DefiningFieldsHold
    <3>1. generation_body(call, s) = generate_body(call, s)
      BY DEF generation_body
    <3>2. HasDefining(body, call, s)
      BY <2>1, <2>2, <3>1, GenerateBody
    <3> QED
      BY <2>2, <3>2 DEF HasDefining, DefiningFieldsHold, Extra, DefiningOf
  <2>3. CASE Built(send(call), request)
    <3>1. generation_body(call, FALSE).ok
      BY <2>3 DEF Built, send, Posted
    <3>2. request = Use(call, FALSE, "GENERATE", "json")
      BY <2>3, SendBuilds DEF Built
    <3>3. body = generation_body(call, FALSE).value /\ request.accept = "json"
      BY <3>2 DEF Use
    <3> QED
      BY <2>2, <3>1, <3>3
  <2>4. CASE Built(stream(call), request)
    <3>1. generation_body(call, TRUE).ok
      BY <2>4 DEF Built, stream, Posted
    <3>2. request = Use(call, TRUE, "STREAM", "sse")
      BY <2>4, StreamBuilds DEF Built
    <3>3. body = generation_body(call, TRUE).value /\ request.accept = "sse"
      BY <3>2 DEF Use
    <3> QED
      BY <2>2, <3>1, <3>3
  <2>5. CASE Built(estimate_call(call), request)
    <3>1. generation_body(call, FALSE).ok
      BY <2>5 DEF Built, estimate_call
    <3>2. request = [path |-> <<"/v1/estimate">>, body |-> PricedBy(call), policy |-> "ESTIMATE",
                     accept |-> "json"]
      BY <2>5, EstimateBuilds DEF Built
    <3>3. body = generation_body(call, FALSE).value /\ request.accept = "json"
      BY <3>2 DEF PricedBy
    <3> QED
      BY <2>2, <3>1, <3>3
  <2> QED
    BY <2>1, <2>3, <2>4, <2>5 DEF Asked, Generations
<1> QED
  BY <1>1, Invariance, PTL

(***************************************************************************)
(* What is posted for a builder that was priced is what was priced, unless *)
(* an image is read from disk: EstimatePricesTheSend.                      *)
(***************************************************************************)
THEOREM WhatIsPricedIsSent ==
  ASSUME NoneIsNoObject, RepliesTyped
  PROVE  Spec => []EstimatePricesTheSend
<1>1. ASSUME IInv PROVE EstimatePricesTheSend
  <2> SUFFICES ASSUME stage = "posted", priced # None, request.policy # "ESTIMATE",
                      request.accept = "json",
                      \A i \in DOMAIN Or(Get(call, "images"), <<>>) : call.images[i].from # "path"
               PROVE  request.body = priced.request /\ request.path = priced.endpoint
    BY DEF EstimatePricesTheSend
  <2>1. CallTyped(call) /\ Asked(request) /\ Priced
    BY <1>1 DEF IInv
  <2>2. ~ReadsFiles(call)
    <3> SUFFICES ASSUME call.op = "generate" PROVE \A i \in DOMAIN call.images : call.images[i].from # "path"
      BY DEF ReadsFiles
    <3>1. "images" \in DOMAIN call /\ IsObject(call.images)
      BY <2>1 DEF CallTyped, IsList
    <3>2. call.images # None
      BY <3>1 DEF NoneIsNoObject
    <3>3. Or(Get(call, "images"), <<>>) = call.images
      BY <3>1, <3>2 DEF Or, Get
    <3> QED
      BY <3>3
  <2>3. priced = PricedBy(call)
    BY <2>1, <2>2 DEF Priced
  <2>4. ~Built(stream(call), request)
    <3> SUFFICES ASSUME Built(stream(call), request) PROVE FALSE
      OBVIOUS
    <3>1. request = Use(call, TRUE, "STREAM", "sse")
      BY StreamBuilds DEF Built
    <3> QED
      BY <3>1 DEF Use
  <2>5. ~Built(estimate_call(call), request)
    <3> SUFFICES ASSUME Built(estimate_call(call), request) PROVE FALSE
      OBVIOUS
    <3>1. request = [path |-> <<"/v1/estimate">>, body |-> PricedBy(call), policy |-> "ESTIMATE",
                     accept |-> "json"]
      BY EstimateBuilds DEF Built
    <3> QED
      BY <3>1
  <2>6. Built(send(call), request)
    BY <2>1, <2>4, <2>5 DEF Asked, Priced
  <2>7. request = Use(call, FALSE, IF call.op = "generate" THEN "GENERATE" ELSE "STREAM", "json")
    BY <2>6, SendBuilds DEF Built
  <2>8. request.body = generation_body(call, FALSE).value /\ request.path = Path(call)
    BY <2>7 DEF Use
  <2> QED
    BY <2>3, <2>8 DEF PricedBy
<1> QED
  BY <1>1, Invariance, PTL


---------------------------------------------------------------------------
(***************************************************************************)
(* Jobs                                                                    *)
(***************************************************************************)
\* The fields each part of a submitted body can have.
LEMMA SourceFields ==
  ASSUME NoneIsNoObject, NEW job, job.source.inline \in BOOLEAN,
         ~job.source.inline => IsObject(job.source.uri), write_source(job).ok
  PROVE  LET fields == DOMAIN write_source(job).value IN
         /\ job.source.inline => fields = {"items"}
         /\ ~job.source.inline => "src" \in fields /\ fields \subseteq {"src", "connection"}
<1> DEFINE uri == job.source.uri
           resolved == IF job.connection # Unset THEN require_valid(job.connection)
                       ELSE IF is_internal_uri(uri) THEN Ok(None)
                       ELSE connection_name(uri)
           given == [src |-> uri, connection |-> resolved.value]
<1>1. CASE job.source.inline
  BY <1>1 DEF write_source, Ok, Err
<1>2. CASE ~job.source.inline
  <2>1. write_source(job).value = Given(given)
    BY <1>2 DEF write_source, Ok, Err
  <2>2. uri # None
    BY <1>2 DEF NoneIsNoObject
  <2>3. DOMAIN given = {"src", "connection"} /\ given["src"] = uri
    OBVIOUS
  <2> HIDE DEF given
  <2> QED
    BY <1>2, <2>1, <2>2, <2>3 DEF Given
<1> QED
  BY <1>1, <1>2

\* A connector sink is in the body, and a connection that leads to it: its own
\* or, where that is the same, the source's.
LEMMA SinkFields ==
  ASSUME NoneIsNoObject, NEW job, NEW source, job.sink.to \in {"return", "inplace", "connector"},
         job.sink.to = "connector" => IsObject(job.sink.uri), sink_fields(job, source).ok
  PROVE  LET sink == sink_fields(job, source).value IN
         /\ DOMAIN sink \subseteq {"sink", "sink_connection"}
         /\ job.sink.to = "connector" =>
              /\ "sink" \in DOMAIN sink
              /\ job.sink_connection # Unset =>
                   "sink_connection" \in DOMAIN sink
                     /\ sink["sink_connection"] = job.sink_connection
                     /\ job.sink_connection # None
              /\ ~is_internal_uri(job.sink.uri) =>
                   \/ "sink_connection" \in DOMAIN sink /\ sink["sink_connection"] # None
                   \/ source # None
<1> DEFINE uri == job.sink.uri
           named == job.sink_connection # Unset
           resolved == IF named THEN require_valid(job.sink_connection)
                       ELSE IF is_internal_uri(uri) THEN Ok(None)
                       ELSE connection_name(uri)
           shown == IF NamesSinkConnection(job, resolved.value, source) THEN resolved.value ELSE None
           given == [sink |-> uri, sink_connection |-> shown]
<1>1. CASE job.sink.to # "connector"
  BY <1>1 DEF sink_fields, Ok, Empty
<1>2. CASE job.sink.to = "connector"
  <2>1. sink_fields(job, source).value = Given(given) /\ resolved.ok
    BY <1>2 DEF sink_fields, Ok, Err
  <2>2. uri # None
    BY <1>2 DEF NoneIsNoObject
  <2>3. named => resolved.value = job.sink_connection /\ job.sink_connection # None
                   /\ shown = job.sink_connection
    BY <2>1 DEF require_valid, Ok, Err, NamesSinkConnection
  <2>4. ~named /\ ~is_internal_uri(uri) => resolved.value # None /\ (shown # None \/ source # None)
    BY <2>1 DEF connection_name, require_valid, Ok, Err, NamesSinkConnection
  <2>5. DOMAIN given = {"sink", "sink_connection"} /\ given["sink"] = uri
        /\ given["sink_connection"] = shown
    OBVIOUS
  <2> HIDE DEF given, shown, resolved
  <2> QED
    BY <1>2, <2>1, <2>2, <2>3, <2>4, <2>5 DEF Given
<1> QED
  BY <1>1, <1>2


JobTyped(job) ==
  /\ job.execution \in {None, "plan", "run"}
  /\ job.source.inline \in BOOLEAN /\ (~job.source.inline => IsObject(job.source.uri))
  /\ job.sink.to \in {"return", "inplace", "connector"}
  /\ job.sink.to = "connector" => IsObject(job.sink.uri)

\* A body of inline items has nothing of a connector job; that of a connector
\* job has its execution, and says how to reach its sink.
InlineBody(body) ==
  DOMAIN body \subseteq {"operation", "model", "items", "output_types", "options"}
    /\ "items" \in DOMAIN body

ConnectorBody(body, job) ==
  /\ "src" \in DOMAIN body /\ "items" \notin DOMAIN body
  /\ "execution" \in DOMAIN body /\ body["execution"] \in {"plan", "run"}
  /\ job.sink.to = "connector" /\ job.sink_connection # Unset =>
       Get(body, "sink_connection") = job.sink_connection
  /\ job.sink.to = "connector" /\ ~is_internal_uri(job.sink.uri) =>
       Get(body, "sink_connection") # None \/ Get(body, "connection") # None

LEMMA SubmittedBody ==
  ASSUME NoneIsNoObject, NEW job, JobTyped(job), submit_body(job).ok
  PROVE  /\ job.source.inline => InlineBody(submit_body(job).value) /\ job.sink.to # "connector"
         /\ ~job.source.inline => ConnectorBody(submit_body(job).value, job)
<1> DEFINE source == write_source(job)
           inline == job.source.inline
           resolved == Get(source.value, "connection")
           sink == sink_fields(job, resolved)
           execution == write_execution(job, inline)
           mapping == mapping_fields(job)
           extra == Given([output_types |-> IF job.output_types = <<>> THEN None
                                            ELSE job.output_types,
                           options |-> IF job.options = Empty THEN None ELSE job.options])
           rest == Over(Over(execution.value, mapping.value), extra)
           front == [operation |-> job.operation, model |-> job.model]
           body == Over(front, Over(Over(source.value, sink.value), rest))
<1>1. /\ source.ok /\ sink.ok /\ execution.ok /\ mapping.ok
      /\ inline => sink.value = Empty /\ mapping.value = Empty
      /\ submit_body(job).value = body
  BY DEF submit_body, Ok, Err
<1>2. DOMAIN extra \subseteq {"output_types", "options"}
  BY DEF Given
<1>3. DOMAIN mapping.value \subseteq {"field_map", "output_field"}
  BY <1>1 DEF mapping_fields, Given, Ok, Err
<1>4. /\ inline => execution.value = Empty
      /\ ~inline => execution.value = [execution |-> job.execution]
                      /\ job.execution \in {"plan", "run"}
  BY <1>1 DEF write_execution, Ok, Err, JobTyped
<1>5. LET fields == DOMAIN source.value IN
      /\ inline => fields = {"items"}
      /\ ~inline => "src" \in fields /\ fields \subseteq {"src", "connection"}
  BY <1>1, SourceFields DEF JobTyped
<1>6. /\ DOMAIN sink.value \subseteq {"sink", "sink_connection"}
      /\ job.sink.to = "connector" =>
           /\ "sink" \in DOMAIN sink.value
           /\ job.sink_connection # Unset =>
                "sink_connection" \in DOMAIN sink.value
                  /\ sink.value["sink_connection"] = job.sink_connection
                  /\ job.sink_connection # None
           /\ ~is_internal_uri(job.sink.uri) =>
                \/ "sink_connection" \in DOMAIN sink.value /\ sink.value["sink_connection"] # None
                \/ resolved # None
  BY <1>1, SinkFields DEF JobTyped
<1>7. DOMAIN Empty = {}
  BY DEF Empty
<1>8. /\ DOMAIN rest = DOMAIN execution.value \cup DOMAIN mapping.value \cup DOMAIN extra
      /\ "execution" \in DOMAIN execution.value => rest["execution"] = execution.value["execution"]
  BY DEF Over
<1>9. resolved # None => "connection" \in DOMAIN source.value
                           /\ source.value["connection"] = resolved
  BY DEF Get
<1> HIDE DEF source, sink, execution, mapping, extra, rest, resolved
<1>10. DOMAIN body = {"operation", "model"} \cup DOMAIN source.value \cup DOMAIN sink.value
                       \cup DOMAIN rest
  BY DEF Over
<1>11. CASE inline
  <2>1. InlineBody(body)
    BY <1>1, <1>2, <1>4, <1>5, <1>7, <1>8, <1>10, <1>11 DEF InlineBody
  <2>2. job.sink.to # "connector"
    BY <1>1, <1>6, <1>7, <1>11
  <2> QED
    BY <1>1, <1>11, <2>1, <2>2
<1>12. CASE ~inline
  <2>1. "execution" \in DOMAIN rest /\ rest["execution"] = job.execution
    BY <1>4, <1>8, <1>12
  <2>2. "src" \in DOMAIN body /\ "items" \notin DOMAIN body /\ "execution" \in DOMAIN body
    BY <1>2, <1>3, <1>4, <1>5, <1>6, <1>8, <1>10, <1>12
  <2>3. body["execution"] = job.execution
    <3>1. "execution" \notin {"operation", "model"} \cup DOMAIN source.value \cup DOMAIN sink.value
      BY <1>5, <1>6, <1>12
    <3> QED
      BY <2>1, <3>1 DEF Over
  <2>4. "sink_connection" \in DOMAIN sink.value =>
          "sink_connection" \in DOMAIN body
            /\ body["sink_connection"] = sink.value["sink_connection"]
    <3>1. "sink_connection" \notin {"operation", "model"} \cup DOMAIN source.value
      BY <1>5, <1>12
    <3> QED
      BY <3>1 DEF Over
  <2>5. "connection" \in DOMAIN source.value =>
          "connection" \in DOMAIN body /\ body["connection"] = source.value["connection"]
    BY DEF Over
  <2> HIDE DEF body
  <2>6. ConnectorBody(body, job)
    BY <1>4, <1>6, <1>9, <1>12, <2>2, <2>3, <2>4, <2>5 DEF ConnectorBody, Get
  <2> QED
    BY <1>1, <1>12, <2>6
<1> QED
  BY <1>11, <1>12 DEF JobTyped

(***************************************************************************)
(* A job that reads a store has a key and an execution, one of inline      *)
(* items has nothing of it, and a sink can be reached: JobKeyed.           *)
(***************************************************************************)
THEOREM JobsAreKeyed ==
  ASSUME NoneIsNoObject, RepliesTyped
  PROVE  Spec => []JobKeyed
<1>1. ASSUME IInv PROVE JobKeyed
  <2> SUFFICES ASSUME stage = "posted", call.op = "submit"
               PROVE  JobKeyed
    BY DEF JobKeyed
  <2> DEFINE job == call.job
             body == submit_body(job).value
             connector == "src" \in DOMAIN body
             key == SubmitKey(job, connector)
  <2>1. JobTyped(job) /\ Built(submit(job), request)
    BY <1>1 DEF IInv, Asked, CallTyped, JobTyped
  <2>2. /\ submit_body(job).ok /\ key.ok
        /\ request = [path |-> <<"/v1/jobs">>, body |-> body, key |-> key.value,
                      timeout |-> "transfer"]
    BY <2>1 DEF Built, submit, Ok, Err
  <2>3. request.body = body /\ request.key = key.value
    BY <2>2
  <2>4. /\ connector => key.value # None
        /\ ~connector => key.value = None
    BY <2>2 DEF SubmitKey, require_valid, Ok, Err
  <2>5. /\ job.source.inline => InlineBody(body) /\ job.sink.to # "connector"
        /\ ~job.source.inline => ConnectorBody(body, job)
    BY <2>1, <2>2, SubmittedBody
  <2> HIDE DEF body, key
  <2>6. CASE job.source.inline
    BY <2>3, <2>4, <2>5, <2>6 DEF InlineBody, JobKeyed
  <2>7. CASE ~job.source.inline
    <3>1. ConnectorBody(body, job)
      BY <2>5, <2>7
    <3>2. Get(body, "sink_connection") # None \/ Get(body, "connection") # None =>
            Or(Get(body, "sink_connection"), Get(body, "connection")) # None
      BY DEF Or
    <3> QED
      BY <2>3, <2>4, <3>1, <3>2 DEF ConnectorBody, JobKeyed
  <2> QED
    BY <2>1, <2>6, <2>7 DEF JobTyped
<1> QED
  BY <1>1, Invariance, PTL


---------------------------------------------------------------------------
(***************************************************************************)
(* Clients                                                                 *)
(***************************************************************************)
\* A URL that an https origin of the base is compared with.
SameHome(url, base) ==
  /\ ~url.userinfo
  /\ url.host = base.host /\ Or(url.port, 443) = Or(base.port, 443)

LEMMA SameOrigin ==
  ASSUME NEW url, NEW base, Origin(base) # None, Origin(url) = Origin(base),
         Origin(base).scheme = "https"
  PROVE  url.scheme = "https" /\ SameHome(url, base)
<1> DEFINE of(u) == [scheme |-> u.scheme, host |-> u.host, port |-> Or(u.port, Ports[u.scheme])]
<1>1. /\ Origin(base) = of(base) /\ Origin(url) = of(url)
      /\ ~url.userinfo
  BY DEF Origin
<1>2. of(url).scheme = url.scheme /\ of(base).scheme = base.scheme
      /\ of(url).host = url.host /\ of(base).host = base.host
      /\ of(url).port = Or(url.port, Ports[url.scheme])
      /\ of(base).port = Or(base.port, Ports[base.scheme])
  OBVIOUS
<1>3. Ports["https"] = 443
  BY DEF Ports
<1> HIDE DEF of
<1> QED
  BY <1>1, <1>2, <1>3 DEF SameHome

\* A client that carries edge headers has an https base.
LEMMA BuiltClient ==
  ASSUME NEW config, build(config).ok
  PROVE  LET client == build(config).value IN
         /\ client.base_url = config.base_url /\ config.base_url # None
         /\ client.base_origin = Origin(config.base_url)
         /\ client.edge_headers # <<>> =>
              client.base_origin # None /\ client.base_origin.scheme = "https"
BY DEF build, Ok, Err

\* The handshake goes to the base, under the WebSocket scheme of its own.
LEMMA Handshake ==
  ASSUME NEW client, IsUrl(client.base_url), websocket_url(client).ok,
         client.base_origin = Origin(client.base_url),
         client.edge_headers # <<>> => client.base_origin.scheme = "https",
         websocket_matches_base_origin(client, websocket_url(client).value)
  PROVE  LET url == websocket_url(client).value IN
         url.scheme = "wss" /\ SameHome(url, client.base_url)
<1> DEFINE base == client.base_url
           url == [base EXCEPT !.scheme = WebSocketOf[@]]
           schemes == {s \in DOMAIN WebSocketOf : WebSocketOf[s] = url.scheme}
           s == CHOOSE t \in schemes : TRUE
           back == [url EXCEPT !.scheme = s]
<1>1. websocket_url(client).value = url /\ base.scheme \in DOMAIN WebSocketOf
  BY DEF websocket_url, Ok, Err
<1>2. url.userinfo = base.userinfo /\ url.host = base.host /\ url.port = base.port
      /\ url.scheme = WebSocketOf[base.scheme]
  BY DEF IsUrl
<1>3. client.base_origin # None /\ Origin(base).scheme = "https" /\ client.base_origin = Origin(base)
  BY DEF websocket_matches_base_origin
<1>4. base.scheme = "https" /\ ~base.userinfo
  BY <1>3 DEF Origin
<1>5. url.scheme = "wss"
  BY <1>2, <1>4 DEF WebSocketOf
<1> QED
  BY <1>1, <1>2, <1>4, <1>5 DEF SameHome

(***************************************************************************)
(* The edge credentials go to the origin of the base URL, under TLS, and   *)
(* the account's token to no payload store: EdgeHeadersStayHome.           *)
(***************************************************************************)
THEOREM EdgeHeadersStayAtHome ==
  ASSUME RepliesTyped
  PROVE  Spec => []EdgeHeadersStayHome
<1>1. ASSUME IInv PROVE EdgeHeadersStayHome
  <2> SUFFICES ASSUME call.op = "client", request # None
               PROVE  EdgeHeadersStayHome
    BY DEF EdgeHeadersStayHome
  <2> DEFINE built == build(call.config)
             client == built.value
             target == Target(call, client)
             base == call.config.base_url
  <2>1. CallTyped(call) /\ Built(connect(call), request)
    BY <1>1 DEF IInv, Asked
  <2>2. /\ built.ok /\ target.ok
        /\ request.url = target.value
        /\ request.carries = Credentials(client, call.kind, target.value)
    BY <2>1 DEF Built, connect, Ok, Err
  <2>3. /\ client.base_url = base /\ base # None /\ client.base_origin = Origin(base)
        /\ client.edge_headers # <<>> =>
             client.base_origin # None /\ client.base_origin.scheme = "https"
    BY <2>2, BuiltClient
  <2>4. IsUrl(base) /\ call.kind \in {"gateway", "connections", "payload", "handshake"}
    BY <2>1, <2>3 DEF CallTyped
  <2> HIDE DEF built, target
  <2>5. ASSUME request.carries.authorization, call.kind = "payload"
        PROVE  FALSE
    <3>1. Credentials(client, call.kind, target.value).authorization = FALSE
      BY <2>5 DEF Credentials
    <3> QED
      BY <2>2, <2>5, <3>1
  <2>6. ASSUME request.carries.edge
        PROVE  request.url.scheme \in {"https", "wss"} /\ SameHome(request.url, base)
    <3>1. CASE call.kind = "handshake"
      <4>1. websocket_url(client).ok /\ target = websocket_url(client)
        BY <2>2, <3>1 DEF target, Target
      <4>2. websocket_matches_base_origin(client, websocket_url(client).value)
        BY <2>2, <2>6, <3>1, <4>1 DEF Credentials
      <4>3. LET url == websocket_url(client).value IN
            url.scheme = "wss" /\ SameHome(url, client.base_url)
        BY <2>3, <2>4, <4>1, <4>2, Handshake
      <4> QED
        BY <2>2, <2>3, <4>1, <4>3
    <3>2. CASE call.kind # "handshake"
      <4>1. edge_headers_apply_to(client, request.url)
        BY <2>2, <2>6, <3>2 DEF Credentials
      <4>2. /\ Origin(base) # None /\ Origin(request.url) = Origin(base)
            /\ Origin(base).scheme = "https"
        BY <2>3, <4>1 DEF edge_headers_apply_to
      <4> QED
        BY <4>2, SameOrigin
    <3> QED
      BY <3>1, <3>2
  <2> QED
    BY <2>5, <2>6 DEF EdgeHeadersStayHome, SameHome
<1> QED
  BY <1>1, Invariance, PTL


---------------------------------------------------------------------------
(***************************************************************************)
(* Metering                                                                *)
(***************************************************************************)
\* What serde makes of a document read as a struct: a value with the struct's
\* fields, or the error of every document that does not decode.
StructsAreRead ==
  \A document, fields :
    LET read == Deserialize(document, Struct(fields))
    IN IF read.ok THEN DOMAIN read.value = DOMAIN fields ELSE read = Err("decode")

\* A metering record that says of its charge all or nothing.
WholeMeter(m, debited, retries) ==
  LET usage == Or(Get(m, "usage"), Empty)
      charged == Get(usage, "credits_charged")
  IN /\ (charged = None) = (Get(m, "rate_book_version") = None)
     /\ Get(usage, "rate_book_version") = Get(m, "rate_book_version")
     /\ Get(m, "credits_debited") = IF charged = None THEN debited ELSE charged
     /\ m.retries = retries


LEMMA GivenGet == ASSUME NEW o, NEW f PROVE Get(Given(o), f) = Get(o, f)
BY DEF Get, Given

LEMMA OverGet ==
  ASSUME NEW a, NEW b, NEW f
  PROVE  Get(Over(a, b), f) = IF f \in DOMAIN a THEN a[f] ELSE Get(b, f)
BY DEF Get, Over

LEMMA ParseIsWhole ==
  ASSUME NoneIsNoObject, NEW headers, NEW usage, NEW retries, parse(headers, usage, retries) # None
  PROVE  WholeMeter(parse(headers, usage, retries), meter_header(headers, "credits_debited"), retries)
<1> DEFINE charge == settled_charge(usage)
           debited == meter_header(headers, "credits_debited")
           units == Given([u \in Units |-> meter_header(headers, u)])
           priced_ == Given([credits_charged |-> charge.credits,
                             rate_book_version |-> charge.version])
           used == Over(units, priced_)
           usedOrNone == IF used = Empty THEN None ELSE used
           fields == [id |-> valid_text(headers, "request_id"), usage |-> usedOrNone,
                      credits_debited |-> IF charge = NoCharge THEN debited ELSE charge.credits,
                      rate_book_version |-> charge.version,
                      execution_identity |-> valid_text(headers, "execution_identity"),
                      model_revision |-> valid_text(headers, "model_revision")]
           m == Over([retries |-> retries], Given(fields))
<1>1. parse(headers, usage, retries) = m
  BY DEF parse
<1>2. /\ charge = NoCharge => charge.credits = None /\ charge.version = None
      /\ charge # NoCharge => charge.credits # None /\ charge.version # None
  <2> DEFINE whole == /\ usage # None /\ Get(usage, "credits_charged") # None
                      /\ Get(usage, "rate_book_version") \notin {None, ""}
  <2>1. ~whole => charge = NoCharge
    BY DEF settled_charge
  <2>2. whole => charge = [credits |-> usage.credits_charged, version |-> usage.rate_book_version]
                 /\ usage.credits_charged # None /\ usage.rate_book_version # None
    BY DEF settled_charge, Get
  <2>3. NoCharge.credits = None /\ NoCharge.version = None
    BY DEF NoCharge
  <2> HIDE DEF charge, whole
  <2> QED
    BY <2>1, <2>2, <2>3
<1>3. /\ Get(used, "credits_charged") = charge.credits
      /\ Get(used, "rate_book_version") = charge.version
  <2>1. DOMAIN units \subseteq Units
    BY DEF Given
  <2>2. Get(priced_, "credits_charged") = charge.credits
        /\ Get(priced_, "rate_book_version") = charge.version
    BY GetGiven
  <2> HIDE DEF units, priced_, charge
  <2> QED
    BY <2>1, <2>2, OverGet DEF Units
<1> HIDE DEF charge
<1>4. used # None
  BY DEF NoneIsNoObject, IsObject, Over
<1>5. Get(Empty, "credits_charged") = None /\ Get(Empty, "rate_book_version") = None
  BY DEF Get, Empty
<1> HIDE DEF used, debited
<1>6. /\ Get(Or(usedOrNone, Empty), "credits_charged") = charge.credits
      /\ Get(Or(usedOrNone, Empty), "rate_book_version") = charge.version
  BY <1>3, <1>4, <1>5 DEF Or
<1>7. /\ Get(m, "usage") = usedOrNone
      /\ Get(m, "rate_book_version") = charge.version
      /\ Get(m, "credits_debited") = IF charge = NoCharge THEN debited ELSE charge.credits
      /\ m.retries = retries
  <2>1. \A f \in DOMAIN fields : Get(Given(fields), f) = fields[f]
    BY GetGiven
  <2>2. \A f \in DOMAIN fields : f # "retries" => Get(m, f) = fields[f]
    <3> HIDE DEF fields
    <3> QED
      BY <2>1, OverGet
  <2>3. m.retries = retries
    <3> HIDE DEF fields
    <3> QED
      BY DEF Over
  <2> QED
    BY <2>2, <2>3
<1> HIDE DEF m, usedOrNone
<1> QED
  BY <1>1, <1>2, <1>6, <1>7 DEF WholeMeter, debited

\* The errors that say nothing of metering.
Decodes(result) == result.ok \/ result = Err("decode")

LEMMA AllDecode ==
  ASSUME NEW results, DOMAIN results \in SUBSET Nat, \A i \in DOMAIN results : Decodes(results[i])
  PROVE  Decodes(All(results))
BY AllResults DEF Decodes, Ok

LEMMA TensorsDecode ==
  ASSUME NEW item
  PROVE  Decodes(parse_dense(item)) /\ Decodes(parse_sparse(item)) /\ Decodes(parse_multivector(item))
<1>1. \A map : Decodes(decode(map))
  BY DEF decode, Decodes, Ok
<1>2. \A key : Decodes(tensor(item, key))
  BY <1>1 DEF tensor, Decodes, Ok
<1>3. \A a : Decodes(rows(a))
  BY DEF rows, cols, Decodes, Ok
<1>4. \A a : Decodes(to_u32(a))
  <2> TAKE a
  <2> DEFINE indices == [i \in DOMAIN Elements(a) |->
                           ToIndex(IF a.kind = "u8" THEN TwosComplement(Elements(a)[i], 8)
                                   ELSE Elements(a)[i])]
  <2>1. DOMAIN indices \in SUBSET Nat
    BY DEF Elements, ChunksExact
  <2>2. \A i \in DOMAIN indices : Decodes(indices[i])
    BY DEF ToIndex, Decodes, Ok
  <2>3. Decodes(All(indices))
    <3> HIDE DEF indices
    <3> QED
      BY <2>1, <2>2, AllDecode
  <2> QED
    BY <2>3 DEF to_u32, Decodes
<1>5. Decodes(parse_dense(item))
  BY <1>2 DEF parse_dense, Decodes, Ok
<1>6. Decodes(parse_multivector(item))
  BY <1>2, <1>3 DEF parse_multivector, Decodes
<1>7. Decodes(parse_sparse(item))
  <2> DEFINE node == Get(item, "sparse")
             array(f) == decode(node[f])
             both == <<to_u32(array("indices").value), Ok(to_f32(array("values").value))>>
             parts == All(both)
  <2>1. Decodes(parts)
    <3>1. DOMAIN both = 1..2 /\ both[1] = to_u32(array("indices").value)
          /\ both[2] = Ok(to_f32(array("values").value))
      OBVIOUS
    <3> HIDE DEF both
    <3> QED
      BY <1>4, <3>1, AllDecode DEF Decodes, Ok
  <2> HIDE DEF parts
  <2>2. parse_sparse(item) =
          IF node = None THEN Ok(None)
          ELSE IF Get(node, "indices") = None \/ Get(node, "values") = None THEN Err("decode")
          ELSE IF ~array("indices").ok \/ ~array("values").ok THEN Err("decode")
          ELSE IF ~parts.ok THEN parts
          ELSE Ok([indices |-> parts.value[1], values |-> parts.value[2]])
    BY DEF parse_sparse, parts
  <2> QED
    BY <2>1, <2>2 DEF Decodes, Ok
<1> QED
  BY <1>5, <1>6, <1>7


LEMMA EncodeDecodes ==
  ASSUME NEW item, NEW r
  PROVE  Decodes(EncodeResult(item, r))
<1> DEFINE three == <<parse_dense(item), parse_sparse(item), parse_multivector(item)>>
           parts == All(three)
<1>1. Decodes(parts)
  <2>1. DOMAIN three = 1..3 /\ three[1] = parse_dense(item) /\ three[2] = parse_sparse(item)
        /\ three[3] = parse_multivector(item)
    OBVIOUS
  <2> HIDE DEF three
  <2> QED
    BY <2>1, TensorsDecode, AllDecode
<1> HIDE DEF parts
<1>2. ~parts.ok => EncodeResult(item, r) = parts
  BY DEF EncodeResult, parts
<1>3. parts.ok => EncodeResult(item, r).ok
  BY DEF EncodeResult, parts, Ok
<1> QED
  BY <1>1, <1>2, <1>3 DEF Decodes

LEMMA ErrorRequest ==
  ASSUME NEW e
  PROVE  Get(Err(e), "request") = None
BY DEF Get, Err

\* What an inference call gets that fails with an answer that is no error.
LEMMA EncodeMeter ==
  ASSUME NEW c, NEW r, IsList(ItemsOf(r)) \/ ItemsOf(r) = None, ~encode_results(c, r).ok
  PROVE  Get(encode_results(c, r), "request") \in {None, attach_metadata(r)}
<1> DEFINE items == ItemsOf(r)
           results == [i \in DOMAIN items |-> EncodeResult(items[i], r)]
<1>1. CASE items = None
  BY <1>1, ErrorRequest DEF encode_results
<1>2. CASE items # None /\ CountMismatch(c, items)
  <2>1. encode_results(c, r)
          = Over([request |-> attach_metadata(r)], Err("ENCODE_RESULT_COUNT_MISMATCH"))
    BY <1>2 DEF encode_results
  <2> QED
    BY <2>1, OverGet
<1>3. CASE items # None /\ ~CountMismatch(c, items)
  <2>1. encode_results(c, r) = All(results)
    BY <1>3 DEF encode_results
  <2>2. DOMAIN results \in SUBSET Nat
    BY <1>3 DEF IsList
  <2>3. \A i \in DOMAIN results : Decodes(results[i])
    BY EncodeDecodes
  <2> HIDE DEF results
  <2>4. Decodes(All(results))
    BY <2>2, <2>3, AllDecode
  <2> QED
    BY <2>1, <2>4, ErrorRequest DEF Decodes
<1> QED
  BY <1>1, <1>2, <1>3

LEMMA OneMeter ==
  ASSUME NEW results, ~send_one(results).ok
  PROVE  \/ ~results.ok /\ send_one(results) = results
         \/ Get(send_one(results), "request") = None
BY ErrorRequest DEF send_one, Ok

LEMMA ScoreMeter ==
  ASSUME NEW r, r.body = None \/ Get(r.body, "scores") = None \/ IsList(r.body.scores)
  PROVE  /\ ~score_result(r).ok => Get(score_result(r), "request") = None
         /\ score_result(r).ok => Get(score_result(r).value, "request") = attach_metadata(r)
<1> DEFINE entries == [i \in DOMAIN r.body.scores |-> ScoreEntry(r.body.scores[i])]
           scores == All(entries)
<1>1. CASE r.body = None \/ Get(r.body, "model") = None \/ Get(r.body, "scores") = None
  BY <1>1, ErrorRequest DEF score_result, Err
<1>2. CASE ~(r.body = None \/ Get(r.body, "model") = None \/ Get(r.body, "scores") = None)
  <2>1. DOMAIN entries \in SUBSET Nat
    BY <1>2 DEF IsList
  <2>2. \A i \in DOMAIN entries : Decodes(entries[i])
    BY DEF ScoreEntry, Decodes, Ok
  <2> HIDE DEF entries
  <2>3. Decodes(scores)
    BY <2>1, <2>2, AllDecode
  <2>4. ~scores.ok => score_result(r) = scores
    BY <1>2 DEF score_result, entries
  <2>5. scores.ok => /\ score_result(r).ok
                     /\ score_result(r).value =
                          [model |-> r.body.model, query_id |-> Get(r.body, "query_id"),
                           scores |-> scores.value,
                           usage |-> IF Get(r.body, "usage") = None THEN None
                                     ELSE [input_tokens |-> Or(Get(Get(r.body, "usage"), "input_tokens"), 0),
                                           images |-> Get(Get(r.body, "usage"), "images")],
                           request |-> attach_metadata(r)]
    BY <1>2 DEF score_result, entries, Ok
  <2> HIDE DEF scores
  <2>6. scores.ok => Get(score_result(r).value, "request") = attach_metadata(r)
    BY <2>5 DEF Get
  <2> QED
    BY <2>3, <2>4, <2>5, <2>6, ErrorRequest DEF Decodes
<1> QED
  BY <1>1, <1>2


\* The document of a generation is read as a struct, and one that is not
\* metered has no field for its metering.
LEMMA GenerationTypes ==
  ASSUME NEW c, NEW q, c.op \in Generations, q # None, "policy" \in DOMAIN q,
         \/ q.policy = "ESTIMATE"
         \/ q.accept = "json"
         \/ q.accept = "sse" /\ c.op # "responses"
  PROVE  \E fields :
           /\ DocumentType(c, q) = Struct(fields)
           /\ q.policy = "ESTIMATE" \/ q.accept = "sse" => "request" \notin DOMAIN fields
<1>1. CASE q.policy = "ESTIMATE"
  <2>1. DocumentType(c, q) = CostEstimate
    BY <1>1 DEF DocumentType, PolicyOf
  <2> DEFINE fields ==
        Lenient(Each({"endpoint", "rate_book_version", "rate_book_sha256", "rounding_rule",
                      "estimate_basis"}, Text)
                ++ [identity |-> RateIdentity, estimated_credits |-> Count,
                    unit_ceilings |-> Table(Count), applied_rates |-> Many(AppliedRate)])
        ++ Optional([minimum_billed_units |-> Table(Count)])
  <2>2. CostEstimate = Struct(fields)
    BY DEF CostEstimate
  <2>3. "request" \notin DOMAIN fields
    BY DEF ++, Over, Lenient, Optional, Field, Each
  <2> QED
    BY <2>1, <2>2, <2>3
<1>2. CASE q.policy # "ESTIMATE" /\ q.accept = "json"
  <2>1. DocumentType(c, q) \in {GenerateResult, ChatCompletion, ResponseResult}
    BY <1>2 DEF DocumentType, PolicyOf, Generations
  <2> QED
    BY <1>2, <2>1 DEF GenerateResult, ChatCompletion, ResponseResult
<1>3. CASE q.policy # "ESTIMATE" /\ q.accept = "sse" /\ c.op # "responses"
  <2>1. DocumentType(c, q) = ChunkType(c.op)
    BY <1>3 DEF DocumentType, PolicyOf, Generations
  <2>2. CASE c.op = "generate"
    <3> DEFINE fields ==
          Lenient([done |-> Flag])
          ++ Optional(Each({"request_id", "text_delta"}, Text)
                      ++ [seq |-> Count, logprobs |-> Many(Json), finish_reason |-> FinishReason,
                          usage |-> GenerationUsage, ttft_ms |-> Real])
    <3>1. DocumentType(c, q) = Struct(fields)
      BY <2>1, <2>2 DEF ChunkType, GenerateChunk
    <3>2. "request" \notin DOMAIN fields
      BY DEF ++, Over, Lenient, Optional, Field, Each
    <3> QED
      BY <3>1, <3>2
  <2>3. CASE c.op # "generate"
    <3> DEFINE fields == Completion(ChatChunkChoice)
    <3>1. DocumentType(c, q) = Struct(fields)
      BY <2>1, <2>3 DEF ChunkType, ChatCompletionChunk
    <3>2. "request" \notin DOMAIN fields
      BY DEF Completion, ++, Over, Lenient, Optional, Field, Each
    <3> QED
      BY <3>1, <3>2
  <2> QED
    BY <2>2, <2>3
<1> QED
  BY <1>1, <1>2, <1>3

\* What a generation gets is metered by its headers and its document's usage.
LEMMA GenerationMeter ==
  ASSUME NoneIsNoObject, StructsAreRead, NEW c, NEW q, NEW r,
         c.op \in Generations,
         \/ Built(send(c), q)
         \/ c.op # "responses" /\ Built(stream(c), q)
         \/ Built(estimate_call(c), q)
  PROVE  /\ ~Decoded(c, q, r).ok => Get(Decoded(c, q, r), "request") = None
         /\ Decoded(c, q, r).ok =>
              \E usage : Get(Decoded(c, q, r).value, "request")
                           \in {None, parse(r.headers, usage, r.retries)}
<1> DEFINE document == Document(c, q, r)
           plain == Deserialize(document, DocumentType(c, q))
           metered == q.policy # "ESTIMATE" /\ q.accept = "json"
           value == [plain.value EXCEPT !.request = parse(r.headers, JsonUsage(document), r.retries)]
<1>1. /\ q # None /\ "policy" \in DOMAIN q
      /\ \/ q.policy = "ESTIMATE"
         \/ q.accept = "json"
         \/ q.accept = "sse" /\ c.op # "responses"
  <2>1. \A path, body, policy, accept :
          [path |-> path, body |-> body, policy |-> policy, accept |-> accept] # None
    BY DEF NoneIsNoObject, IsObject
  <2>2. CASE Built(send(c), q)
    <3>1. q = Use(c, FALSE, IF c.op = "generate" THEN "GENERATE" ELSE "STREAM", "json")
      BY <2>2, SendBuilds DEF Built
    <3>2. q # None
      BY <2>1, <3>1 DEF Use
    <3> QED
      BY <3>1, <3>2 DEF Use
  <2>3. CASE c.op # "responses" /\ Built(stream(c), q)
    <3>1. q = Use(c, TRUE, "STREAM", "sse")
      BY <2>3, StreamBuilds DEF Built
    <3>2. q # None
      BY <2>1, <3>1 DEF Use
    <3> QED
      BY <2>3, <3>1, <3>2 DEF Use
  <2>4. CASE Built(estimate_call(c), q)
    <3>1. q = [path |-> <<"/v1/estimate">>, body |-> PricedBy(c), policy |-> "ESTIMATE",
               accept |-> "json"]
      BY <2>4, EstimateBuilds DEF Built
    <3>2. q # None
      BY <2>1, <3>1
    <3> QED
      BY <3>1, <3>2
  <2> QED
    BY <2>2, <2>3, <2>4
<1>2. PICK fields :
        /\ DocumentType(c, q) = Struct(fields)
        /\ q.policy = "ESTIMATE" \/ q.accept = "sse" => "request" \notin DOMAIN fields
  BY <1>1, GenerationTypes
<1>3. IF plain.ok THEN DOMAIN plain.value = DOMAIN fields ELSE plain = Err("decode")
  BY <1>2 DEF StructsAreRead
<1> HIDE DEF document
<1>4. CASE metered
  <2>1. Decoded(c, q, r) = IF ~plain.ok THEN plain ELSE Ok(value)
    BY <1>4 DEF Decoded, document, Generations
  <2>2. Get(value, "request") \in {None, parse(r.headers, JsonUsage(document), r.retries)}
    BY DEF Get
  <2> HIDE DEF plain, value
  <2> QED
    BY <1>3, <2>1, <2>2, ErrorRequest DEF Ok
<1>5. CASE ~metered
  <2>1. Decoded(c, q, r) = plain
    BY <1>5 DEF Decoded, document, Generations
  <2>2. "request" \notin DOMAIN fields
    BY <1>1, <1>2, <1>5
  <2> HIDE DEF plain
  <2>3. plain.ok => Get(plain.value, "request") = None
    BY <1>3, <2>2 DEF Get
  <2> QED
    BY <1>3, <2>1, <2>3, ErrorRequest
<1> QED
  BY <1>4, <1>5


\* An error of an answer of 400 or more is metered by its headers, if at all.
LEMMA ErrorMeter ==
  ASSUME NEW r, NEW model, NEW policy
  PROVE  request_metadata(ErrorOf(r, model, policy)) \in {None, parse(r.headers, None, r.retries)}
<1>1. request_metadata(model_load_failed(r, model)) = parse(r.headers, None, r.retries)
  BY DEF request_metadata, model_load_failed
<1>2. request_metadata(handle_error(r)) \in {None, parse(r.headers, None, r.retries)}
  BY DEF request_metadata, handle_error
<1>3. CASE ErrorOf(r, model, policy) \in {model_load_failed(r, model), handle_error(r)}
  BY <1>1, <1>2, <1>3
<1>4. CASE ErrorOf(r, model, policy) \notin {model_load_failed(r, model), handle_error(r)}
  <2>1. ErrorOf(r, model, policy)
          = [kind |-> "estimate_unroutable", code |-> parse_envelope(r).code, status |-> 503,
             request |-> parse(r.headers, None, r.retries)]
    BY <1>4 DEF ErrorOf
  <2> QED
    BY <2>1 DEF request_metadata
<1> QED
  BY <1>3, <1>4

\* Every metering record a caller sees is what parse makes of the headers and
\* of some usage.
LEMMA MetersAreParsed ==
  ASSUME NoneIsNoObject, StructsAreRead, IInv, NEW m \in Meters
  PROVE  m # None /\ \E usage : m = parse(reply.headers, usage, reply.retries)
<1> DEFINE parsed(x) == \E usage : x = parse(reply.headers, usage, reply.retries)
<1>1. /\ stage = "done" /\ reply # None /\ m # None
      /\ call.op \in Inferences \cup Generations
      /\ ~outcome.ok => m = IF Refused THEN request_metadata(outcome.error)
                            ELSE Get(outcome, "request")
      /\ outcome.ok /\ call.op \in {"encode", "extract"} =>
           \E i \in DOMAIN Outcomes : m = Outcomes[i].request
      /\ outcome.ok /\ call.op \notin {"encode", "extract"} => m = Get(outcome.value, "request")
  BY DEF Meters
<1>2. Asked(request) /\ AnswerTyped(call, reply) /\ Concluded(outcome) /\ CallTyped(call)
  BY <1>1, Ended
<1>3. parsed(attach_metadata(reply))
  BY DEF attach_metadata
<1>4. CASE Refused
  <2>1. outcome = Err(ErrorOf(reply, ModelOf(call), PolicyOf(request)))
    BY <1>1, <1>2, <1>4 DEF Concluded, Inferences, Generations
  <2>2. ~outcome.ok /\ outcome.error = ErrorOf(reply, ModelOf(call), PolicyOf(request))
    BY <2>1 DEF Err
  <2>3. m = parse(reply.headers, None, reply.retries)
    BY <1>1, <1>4, <2>2, ErrorMeter
  <2> QED
    BY <1>1, <2>3
<1>5. CASE ~Refused /\ call.op = "encode"
  <2> DEFINE results == encode_results(call, reply)
  <2>1. outcome = IF call.one THEN send_one(results) ELSE results
    BY <1>2, <1>5 DEF Concluded
  <2>2. CASE outcome.ok
    <3>1. Done({"encode"})
      BY <1>1, <1>5, <2>2 DEF Done
    <3>2. PICK i \in DOMAIN Outcomes : m = Outcomes[i].request
      BY <1>1, <1>5, <2>2
    <3>3. EncodeResult(reply.body.items[i], reply).ok
          /\ Outcomes[i] = EncodeResult(reply.body.items[i], reply).value
      BY <3>1, EncodeOutcomes
    <3>4. m = attach_metadata(reply)
      BY <3>2, <3>3, EncodedFields
    <3> QED
      BY <1>1, <1>3, <3>4
  <2>3. CASE ~outcome.ok
    <3>1. m = Get(outcome, "request")
      BY <1>1, <1>5, <2>3
    <3>2. IsList(ItemsOf(reply)) \/ ItemsOf(reply) = None
      BY <1>1, <1>2, <1>5 DEF AnswerTyped, Refused, Inferences
    <3>3. ~results.ok => Get(results, "request") \in {None, attach_metadata(reply)}
      BY <3>2, EncodeMeter
    <3> HIDE DEF results
    <3>4. m = attach_metadata(reply)
      BY <1>1, <2>1, <2>3, <3>1, <3>3, OneMeter
    <3> QED
      BY <1>1, <1>3, <3>4
  <2> QED
    BY <2>2, <2>3
<1>6. CASE ~Refused /\ call.op = "extract"
  <2> DEFINE results == extract_results(reply)
  <2>1. outcome = IF call.one THEN send_one(results) ELSE results
    BY <1>2, <1>6 DEF Concluded
  <2>2. CASE outcome.ok
    <3>1. Done({"extract"})
      BY <1>1, <1>6, <2>2 DEF Done
    <3>2. PICK i \in DOMAIN Outcomes : m = Outcomes[i].request
      BY <1>1, <1>6, <2>2
    <3>3. Outcomes[i] = ExtractResult(reply.body.items[i], reply)
      BY <3>1, ExtractOutcomes
    <3>4. m = attach_metadata(reply)
      BY <3>2, <3>3 DEF ExtractResult
    <3> QED
      BY <1>1, <1>3, <3>4
  <2>3. CASE ~outcome.ok
    <3>1. ~results.ok => Get(results, "request") = None
      BY ErrorRequest DEF extract_results, Ok
    <3> HIDE DEF results
    <3>2. Get(outcome, "request") = None
      BY <2>1, <2>3, <3>1, OneMeter
    <3> QED
      BY <1>1, <1>6, <2>3, <3>2
  <2> QED
    BY <2>2, <2>3
<1>7. CASE ~Refused /\ call.op = "score"
  <2>1. outcome = score_result(reply)
    BY <1>2, <1>7 DEF Concluded
  <2>2. reply.body = None \/ Get(reply.body, "scores") = None \/ IsList(reply.body.scores)
    BY <1>1, <1>2, <1>7 DEF AnswerTyped, Refused
  <2>3. m = attach_metadata(reply)
    BY <1>1, <1>7, <2>1, <2>2, ScoreMeter
  <2> QED
    BY <1>1, <1>3, <2>3
<1>8. CASE ~Refused /\ call.op \in Generations
  <2>1. outcome = Decoded(call, request, reply)
    BY <1>2, <1>8 DEF Concluded
  <2>2. \/ Built(send(call), request)
        \/ call.op # "responses" /\ Built(stream(call), request)
        \/ Built(estimate_call(call), request)
    BY <1>2, <1>8 DEF Asked
  <2>3. /\ ~outcome.ok => Get(outcome, "request") = None
        /\ outcome.ok => \E usage : Get(outcome.value, "request")
                                      \in {None, parse(reply.headers, usage, reply.retries)}
    BY <1>8, <2>1, <2>2, GenerationMeter
  <2> QED
    BY <1>1, <1>8, <2>3 DEF Generations
<1> QED
  BY <1>1, <1>4, <1>5, <1>6, <1>7, <1>8 DEF Inferences

(***************************************************************************)
(* Whatever an answer says of its metering, a caller is told a whole       *)
(* charge or none: ChargeIsWhole.                                          *)
(***************************************************************************)
THEOREM ChargesAreWhole ==
  ASSUME NoneIsNoObject, RepliesTyped, StructsAreRead
  PROVE  Spec => []ChargeIsWhole
<1>1. ASSUME IInv PROVE ChargeIsWhole
  <2> SUFFICES ASSUME NEW m \in Meters
               PROVE  WholeMeter(m, meter_header(reply.headers, "credits_debited"), reply.retries)
    BY DEF ChargeIsWhole, WholeMeter
  <2>1. m # None
    BY <1>1, MetersAreParsed
  <2>2. PICK usage : m = parse(reply.headers, usage, reply.retries)
    BY <1>1, MetersAreParsed
  <2> QED
    BY <2>1, <2>2, ParseIsWhole
<1> QED
  BY <1>1, Invariance, PTL


---------------------------------------------------------------------------
(***************************************************************************)
(* Types                                                                   *)
(***************************************************************************)
\* Whatever a document is read as, there is a result.
ReadingEnds == \A document, type : Deserialize(document, type) # None

\* A result is there, and so is what it is a result of.
Sound(result) == result # None /\ (result.ok => result.value # None)

LEMMA AllThere ==
  ASSUME NoneIsNoObject, NEW results, DOMAIN results \in SUBSET Nat,
         \A i \in DOMAIN results : results[i] # None
  PROVE  All(results) # None
BY AllResults, Records

LEMMA ImagesThere ==
  ASSUME NoneIsNoObject, NEW images, IsList(images),
         \A i \in DOMAIN images : images[i].from \in Sources
  PROVE  All([i \in DOMAIN images |-> resolve_image(images[i])]) # None
<1> DEFINE results == [i \in DOMAIN images |-> resolve_image(images[i])]
<1>1. ASSUME NEW i \in DOMAIN images PROVE resolve_image(images[i]) # None
  <2>1. Encoded(images[i]) # None
    BY <1>1, Records DEF Encoded, Sources, read_file, encode_jpeg
  <2> QED
    BY <2>1, Records DEF resolve_image, detect_image_format, Declared, canonical_format
<1>2. DOMAIN results \in SUBSET Nat /\ \A i \in DOMAIN results : results[i] # None
  BY <1>1 DEF IsList
<1> HIDE DEF results
<1>3. All(results) # None
  BY <1>2, AllThere
<1> QED
  BY <1>3 DEF results

LEMMA ItemThere ==
  ASSUME NoneIsNoObject, NEW item, ItemTyped(item)
  PROVE  to_msgpack(item) # None
<1> DEFINE images == All([i \in DOMAIN item.images |-> resolve_image(item.images[i])])
           audio == Attached(item.audio, resolve_audio(item.audio))
           video == Attached(item.video, resolve_binary(item.video))
           document == Attached(item.document, resolve_binary(item.document))
           four == <<images, audio, video, document>>
           parts == All(four)
<1>1. images # None
  BY ImagesThere DEF ItemTyped
<1>2. \A input : input.from \in {"bytes", "path"} =>
        Encoded(input) # None /\ resolve_binary(input) # None
  BY Records DEF Encoded, read_file, resolve_binary
<1>3. video # None /\ document # None
  BY <1>2, Records DEF ItemTyped, Attached
<1>4. audio # None
  <2>1. CASE item.audio = None
    BY <2>1, Records DEF Attached
  <2>2. CASE item.audio # None /\ item.audio.from = "waveform"
    <3>1. encode_wav(item.audio.samples, item.audio.channels, item.audio.sample_rate) # None
      BY Records DEF encode_wav, to_pcm16
    <3> QED
      BY <2>2, <3>1, Records DEF resolve_audio, Attached
  <2>3. CASE item.audio # None /\ item.audio.from \in {"bytes", "path"}
    BY <1>2, <2>3, Records DEF resolve_audio, Attached
  <2> QED
    BY <2>1, <2>2, <2>3 DEF ItemTyped
<1> HIDE DEF images, audio, video, document
<1>5. parts # None
  <2>1. DOMAIN four \in SUBSET Nat /\ \A i \in DOMAIN four : four[i] # None
    <3>1. DOMAIN four = 1..4 /\ four[1] = images /\ four[2] = audio /\ four[3] = video
          /\ four[4] = document
      OBVIOUS
    <3> HIDE DEF four
    <3> QED
      BY <1>1, <1>3, <1>4, <3>1
  <2> HIDE DEF four
  <2> QED
    BY <2>1, AllThere
<1>6. ~parts.ok => to_msgpack(item) = parts
  BY DEF to_msgpack, images, audio, video, document
<1>7. parts.ok => \E v : to_msgpack(item) = Ok(v)
  BY DEF to_msgpack, images, audio, video, document
<1> QED
  BY <1>5, <1>6, <1>7, Records

LEMMA ItemsThere ==
  ASSUME NoneIsNoObject, NEW items, IsList(items), \A i \in DOMAIN items : ItemTyped(items[i])
  PROVE  items_to_msgpack(items) # None
<1> DEFINE results == [i \in DOMAIN items |-> to_msgpack(items[i])]
<1>1. DOMAIN results \in SUBSET Nat /\ \A i \in DOMAIN results : results[i] # None
  BY ItemThere DEF IsList
<1> HIDE DEF results
<1>2. All(results) # None
  BY <1>1, AllThere
<1> QED
  BY <1>2 DEF items_to_msgpack, results

LEMMA InferSound ==
  ASSUME NoneIsNoObject, NEW c, CallTyped(c), c.op \in Inferences
  PROVE  Sound(inference_body(c.defaults, c))
<1>1. items_to_msgpack(c.items) # None
  BY ItemsThere DEF CallTyped
<1>2. \A o : Given(o) # None
  BY DEF NoneIsNoObject, IsObject, Given
<1>3. \A entries : Sound(ParamsBody(c.items, entries))
  BY <1>1, <1>2, Records DEF ParamsBody, Sound, Ok
<1>4. Sound(encode_body(c.defaults, c)) /\ Sound(extract_body(c.defaults, c))
  BY <1>3 DEF encode_body, extract_body
<1>5. c.op = "score" => Sound(score_body(c.defaults, c))
  <2> HAVE c.op = "score"
  <2> DEFINE both == <<to_msgpack(c.query), items_to_msgpack(c.items)>>
             packed == All(both)
  <2>1. to_msgpack(c.query) # None
    BY ItemThere DEF CallTyped
  <2>2. packed # None
    <3>1. DOMAIN both = 1..2 /\ both[1] = to_msgpack(c.query) /\ both[2] = items_to_msgpack(c.items)
      OBVIOUS
    <3> HIDE DEF both
    <3> QED
      BY <1>1, <2>1, <3>1, AllThere
  <2> DEFINE fields == [query |-> packed.value[1], items |-> packed.value[2],
                        instruction |-> c.instruction,
                        options |-> merge_options(c.defaults, c.options)]
  <2>3. score_body(c.defaults, c) = IF ~packed.ok THEN packed ELSE Ok(Given(fields))
    BY DEF score_body
  <2> HIDE DEF packed, fields
  <2>4. packed.ok => Sound(Ok(Given(fields)))
    BY <1>2, Records DEF Sound, Ok
  <2> QED
    BY <2>2, <2>3, <2>4 DEF Sound
<1>6. Sound(Err("invalid"))
  BY Records DEF Sound, Err
<1> QED
  BY <1>4, <1>5, <1>6 DEF inference_body, Inferences

LEMMA GenerateSound ==
  ASSUME NoneIsNoObject, NEW c, CallTyped(c), c.op \in Generations
  PROVE  Sound(send(c)) /\ Sound(stream(c)) /\ Sound(estimate_call(c))
<1>1. ASSUME NEW s PROVE generation_body(c, s) # None
  <2>1. c.op = "generate" => images_for_json(c.images) # None
    BY ImagesThere DEF CallTyped, images_for_json
  <2>2. c.op = "generate" => generate_body(c, s) # None
    BY <2>1, Records DEF generate_body
  <2>3. chat_body(c, s) # None /\ responses_body(c) # None
    BY Records DEF chat_body, responses_body
  <2> QED
    BY <2>2, <2>3 DEF generation_body, Generations
<1>2. \A path, body, policy, accept : body # None => Sound(Posted(path, body, policy, accept))
  <2> TAKE path, body, policy, accept
  <2> HAVE body # None
  <2>1. [path |-> path, body |-> body.value, policy |-> policy, accept |-> accept] # None
    BY DEF NoneIsNoObject, IsObject
  <2> QED
    BY <2>1, Records DEF Posted, Sound, Ok
<1>3. Sound(send(c)) /\ Sound(stream(c))
  BY <1>1, <1>2 DEF send, stream
<1>4. \A endpoint, fields : Sound(estimate(endpoint, fields))
  BY <1>2, Records DEF estimate, Sound, Err
<1>5. Sound(estimate_call(c))
  BY <1>1, <1>4 DEF estimate_call, Sound
<1> QED
  BY <1>3, <1>5

LEMMA SubmitSound ==
  ASSUME NoneIsNoObject, NEW job, JobTyped(job)
  PROVE  Sound(submit(job))
<1>1. \A name : require_valid(name) # None
  BY Records DEF require_valid
<1>2. write_source(job) # None
  BY <1>1, Records DEF write_source, connection_name
<1>3. \A source : sink_fields(job, source) # None
  BY <1>1, Records DEF sink_fields, connection_name, JobTyped
<1>4. \A inline : write_execution(job, inline) # None
  BY Records DEF write_execution
<1>5. mapping_fields(job) # None
  BY Records DEF mapping_fields
<1>6. submit_body(job) # None
  BY <1>2, <1>3, <1>4, <1>5, Records DEF submit_body
<1>7. \A connector : SubmitKey(job, connector) # None
  BY <1>1, Records DEF SubmitKey
<1>8. \A path, body, key, timeout :
        [path |-> path, body |-> body, key |-> key, timeout |-> timeout] # None
  BY DEF NoneIsNoObject, IsObject
<1> QED
  BY <1>6, <1>7, <1>8, Records DEF submit, Sound, Ok

LEMMA MetadataSound ==
  ASSUME NoneIsNoObject, NEW c
  PROVE  /\ \A path, fields : Sound(Fetch(path, fields))
         /\ \A method, path, fields, timeout : Sound(Ok(Request(method, path, fields, timeout)))
         /\ \A suffix, body, key : Sound(plan_action(c.id, suffix, body, key))
         /\ Sound(upload(c)) /\ Sound(list_files(c)) /\ Sound(list_batches(c))
         /\ Sound(one_file(c)) /\ Sound(one_batch(c))
         /\ Sound(create_batch(c)) /\ Sound(create_pool(c))
         /\ Sound(add_connection(c.client, c)) /\ Sound(revoke(c.client, c.name))
         /\ ConnectionsPath(c.client) # None
<1>1. \A method, path, fields, timeout : Request(method, path, fields, timeout) # None
  BY DEF NoneIsNoObject, IsObject, Request
<1>2. \A method, path, fields, timeout : Sound(Ok(Request(method, path, fields, timeout)))
  BY <1>1, Records DEF Sound, Ok
<1>3. \A e : Sound(Err(e))
  BY Records DEF Sound, Err
<1>4. \A path, fields : Sound(Fetch(path, fields))
  BY <1>2 DEF Fetch
<1>5. \A suffix, body, key : Sound(plan_action(c.id, suffix, body, key))
  <2> TAKE suffix, body, key
  <2>1. [path |-> <<"/v1/jobs", c.id, suffix>>, body |-> body, key |-> key,
         timeout |-> "metadata"] # None
    BY DEF NoneIsNoObject, IsObject
  <2> QED
    BY <1>3, <2>1, Records DEF plan_action, Sound, Ok
<1>6. Sound(upload(c)) /\ Sound(list_files(c)) /\ Sound(list_batches(c))
  BY <1>2, <1>3, <1>4 DEF upload, list_files, list_batches
<1>7. Sound(one_file(c)) /\ Sound(one_batch(c))
  BY <1>2 DEF one_file, one_batch
<1>8. Sound(create_batch(c)) /\ Sound(create_pool(c))
  BY <1>2 DEF create_batch, create_pool
<1>9. ConnectionsPath(c.client) # None /\ ~ConnectionsPath(c.client).ok =>
        Sound(ConnectionsPath(c.client))
  BY DEF Sound
<1>10. ConnectionsPath(c.client) # None
  BY Records DEF ConnectionsPath
<1>11. Sound(add_connection(c.client, c))
  BY <1>2, <1>3, <1>9, <1>10 DEF add_connection
<1>12. Sound(revoke(c.client, c.name))
  BY <1>2, <1>3, <1>9, <1>10 DEF revoke
<1> QED
  BY <1>2, <1>4, <1>5, <1>6, <1>7, <1>8, <1>10, <1>11, <1>12

LEMMA ConnectSound ==
  ASSUME NoneIsNoObject, NEW c, c.kind \in {"gateway", "connections", "payload", "handshake"}
  PROVE  Sound(connect(c))
<1>1. build(c.config) # None
  BY Records DEF build
<1>2. \A client : Target(c, client) # None
  BY Records DEF Target, websocket_url
<1>3. \A client, url, carries, headers :
        [client |-> client, url |-> url, carries |-> carries, headers |-> headers] # None
  BY DEF NoneIsNoObject, IsObject
<1> QED
  BY <1>1, <1>2, <1>3, Records DEF connect, Sound, Ok


LEMMA LocalThere ==
  ASSUME NoneIsNoObject, ReadingEnds, NEW c, CallTyped(c)
  PROVE  /\ \A sparse, dims : sparse_to_dense(sparse, dims) # None
         /\ \A matrix : rows_to_array(matrix) # None
         /\ \A line, type : LineEvent(line, type) # None
         /\ c.op = "decode_chunk" => decode_chunk(c.payload) # None
<1>1. \A sparse, dims : sparse_to_dense(sparse, dims) # None
  BY Records DEF sparse_to_dense
<1>2. \A matrix : rows_to_array(matrix) # None
  BY Records DEF rows_to_array
<1>3. \A line, type : LineEvent(line, type) # None
  <2>1. \A payload, type : decode_event(payload, type) # None
    BY Records DEF ReadingEnds, decode_event
  <2> QED
    BY <2>1, Records DEF LineEvent
<1>4. c.op = "decode_chunk" => decode_chunk(c.payload) # None
  <2> HAVE c.op = "decode_chunk"
  <2> DEFINE rows_ == [i \in DOMAIN c.payload.entries |->
                         decode_result_item(c.payload.entries[i])]
  <2>1. \A map : decode(map) # None
    BY Records DEF decode
  <2>2. \A dense : NumbersOf(dense) # None
    BY <2>1, Records DEF NumbersOf
  <2>3. \A dense : dense_info(dense) # None
    BY <2>2, Records DEF dense_info
  <2>4. \A entry : decode_result_item(entry) # None
    BY <2>3, Records DEF decode_result_item
  <2>5. c.payload # None /\ c.payload.array =>
          DOMAIN rows_ \in SUBSET Nat /\ \A i \in DOMAIN rows_ : rows_[i] # None
    BY <2>4 DEF CallTyped, IsList
  <2> HIDE DEF rows_
  <2>6. c.payload # None /\ c.payload.array => All(rows_) # None
    BY <2>5, AllThere
  <2> QED
    BY <2>6, Records DEF decode_chunk, rows_
<1> QED
  BY <1>1, <1>2, <1>3, <1>4

\* What was posted, and what the caller gets, is there as soon as it can be.
Complete ==
  /\ stage \in {"posted", "answered"} => request # None
  /\ stage = "done" => outcome # None

LEMMA RequestsComplete ==
  ASSUME NoneIsNoObject, ReadingEnds, CallTyped(call), Requests
  PROVE  Complete'
<1>1. ASSUME NEW ops, NEW result, call.op \in ops => Sound(result), Post(ops, result)
      PROVE  Complete'
  BY <1>1 DEF Post, Sound, Complete
<1>2. ASSUME NEW ops, NEW result, call.op \in ops => result # None, Compute(ops, result)
      PROVE  Complete'
  BY <1>2 DEF Compute, Complete
<1>3. CASE Infer
  BY <1>1, <1>3, InferSound DEF Infer
<1>4. CASE Generate
  BY <1>1, <1>4, GenerateSound DEF Generate
<1>5. CASE Stream
  BY <1>1, <1>5, GenerateSound DEF Stream, Generations
<1>6. CASE Estimate
  <2>1. \A endpoint, fields : Sound(estimate(endpoint, fields))
    <3>1. \A path, body, policy, accept :
            [path |-> path, body |-> body, policy |-> policy, accept |-> accept] # None
      BY DEF NoneIsNoObject, IsObject
    <3> QED
      BY <3>1, Records DEF estimate, Posted, Sound, Ok, Err
  <2> QED
    BY <1>1, <1>6, <2>1, GenerateSound DEF Estimate
<1>7. CASE SubmitJob
  <2>1. call.op = "submit" => Sound(submit(call.job))
    BY SubmitSound DEF CallTyped, JobTyped
  <2> QED
    BY <1>1, <1>7, <2>1 DEF SubmitJob
<1>8. CASE ActOnJob \/ Upload \/ Health
  BY <1>1, <1>8, MetadataSound DEF ActOnJob, Upload, Health
<1>9. CASE List
  <2>1. Sound(IF ConnectionsPath(call.client).ok
              THEN Fetch(ConnectionsPath(call.client).value, Empty)
              ELSE ConnectionsPath(call.client))
    BY MetadataSound DEF Sound
  <2> QED
    BY <1>1, <1>9, <2>1, MetadataSound DEF List
<1>10. CASE One
  BY <1>1, <1>10, MetadataSound DEF One
<1>11. CASE Create
  BY <1>1, <1>11, MetadataSound DEF Create
<1>12. CASE Connect
  <2>1. call.op = "client" => Sound(connect(call))
    BY ConnectSound DEF CallTyped
  <2> QED
    BY <1>1, <1>12, <2>1 DEF Connect
<1>13. CASE Local
  BY <1>2, <1>13, LocalThere, Records DEF Local
<1> QED
  BY <1>3, <1>4, <1>5, <1>6, <1>7, <1>8, <1>9, <1>10, <1>11, <1>12, <1>13 DEF Requests

LEMMA ResultsThere ==
  ASSUME NoneIsNoObject, ReadingEnds, NEW c, NEW q, NEW r, AnswerTyped(c, r)
  PROVE  /\ c.op = "encode" /\ r.status < 400 => encode_results(c, r) # None
         /\ c.op = "score" /\ r.status < 400 => score_result(r) # None
         /\ extract_results(r) # None
         /\ \A results : results # None => send_one(results) # None
         /\ Decoded(c, q, r) # None
         /\ \A health, gpu : health # None => capacity_of(health, gpu) # None
         /\ \A first, probe : health_of(first, probe) # None
<1>1. c.op = "encode" /\ r.status < 400 => encode_results(c, r) # None
  <2> HAVE c.op = "encode" /\ r.status < 400
  <2> DEFINE items == ItemsOf(r)
             results == [i \in DOMAIN items |-> EncodeResult(items[i], r)]
  <2>1. \A i \in DOMAIN results : results[i] # None
    <3>1. \A item : Decodes(EncodeResult(item, r)) /\ (EncodeResult(item, r).ok =>
            \E v : EncodeResult(item, r) = Ok(v))
      <4>1. \A item : Decodes(EncodeResult(item, r))
        BY EncodeDecodes
      <4>2. \A item : EncodeResult(item, r).ok => \E v : EncodeResult(item, r) = Ok(v)
        BY DEF EncodeResult
      <4> QED
        BY <4>1, <4>2
    <3> QED
      BY <3>1, Records DEF Decodes
  <2>2. items # None => DOMAIN results \in SUBSET Nat
    BY DEF AnswerTyped, Inferences, IsList
  <2> HIDE DEF results
  <2>3. items # None => All(results) # None
    BY <2>1, <2>2, AllThere
  <2>4. Over([request |-> attach_metadata(r)], Err("ENCODE_RESULT_COUNT_MISMATCH")) # None
    BY DEF NoneIsNoObject, IsObject, Over
  <2> QED
    BY <2>3, <2>4, Records DEF encode_results, results
<1>2. c.op = "score" /\ r.status < 400 => score_result(r) # None
  <2> HAVE c.op = "score" /\ r.status < 400
  <2> DEFINE entries == [i \in DOMAIN r.body.scores |-> ScoreEntry(r.body.scores[i])]
  <2>1. \A i \in DOMAIN entries : entries[i] # None
    BY Records DEF ScoreEntry
  <2>2. r.body # None /\ Get(r.body, "scores") # None => DOMAIN entries \in SUBSET Nat
    BY DEF AnswerTyped, IsList
  <2> HIDE DEF entries
  <2>3. r.body # None /\ Get(r.body, "scores") # None => All(entries) # None
    BY <2>1, <2>2, AllThere
  <2> QED
    BY <2>3, Records DEF score_result, entries
<1>3. extract_results(r) # None
  BY Records DEF extract_results
<1>4. \A results : results # None => send_one(results) # None
  BY Records DEF send_one
<1>5. Decoded(c, q, r) # None
  <2>1. \A document, key, type : ArrayUnder(document, key, type) # None
    BY Records DEF ReadingEnds, ArrayUnder
  <2>2. \A document, key, type : ListOf(document, key, type) # None /\ models_of(document) # None
    BY <2>1 DEF ReadingEnds, ListOf, models_of
  <2>3. \A document : file_page(document) # None /\ batch_page(document) # None
    BY Records DEF ReadingEnds, file_page, batch_page
  <2> QED
    BY <2>2, <2>3, Records DEF ReadingEnds, Decoded
<1>6. \A health, gpu : health # None => capacity_of(health, gpu) # None
  BY Records DEF capacity_of
<1>7. \A first, probe : health_of(first, probe) # None
  BY Records DEF ReadingEnds, health_of, worker_health
<1> QED
  BY <1>1, <1>2, <1>3, <1>4, <1>5, <1>6, <1>7


LEMMA ResultsComplete ==
  ASSUME NoneIsNoObject, ReadingEnds, IInv, Results
  PROVE  Complete'
<1>1. CASE BuildAgain
  BY <1>1 DEF BuildAgain, Complete
<1>2. ASSUME NEW ops, NEW result, Return(ops, result),
             stage = "answered" /\ call.op \in ops /\ AnswerTyped(call, reply) => result # None
      PROVE  Complete'
  BY <1>2 DEF Return, IInv, Complete
<1>3. CASE Fail
  BY <1>2, <1>3, Records DEF Fail
<1>4. stage = "answered" /\ ~Refused /\ AnswerTyped(call, reply) => reply.status < 400
  BY DEF IInv, Refused, AnswerTyped
<1>5. CASE Encoded_
  BY <1>2, <1>4, <1>5, ResultsThere DEF Encoded_
<1>6. CASE Scored
  BY <1>2, <1>4, <1>6, ResultsThere DEF Scored
<1>7. CASE Extracted
  BY <1>2, <1>7, ResultsThere DEF Extracted
<1>8. CASE Receive
  BY <1>2, <1>8, ResultsThere DEF Receive
<1>9. CASE StatusFrame
  BY <1>2, <1>9, ResultsThere, Records DEF StatusFrame
<1>10. CASE Capacity
  BY <1>2, <1>10, ResultsThere DEF Capacity
<1> QED
  BY <1>1, <1>3, <1>5, <1>6, <1>7, <1>8, <1>9, <1>10 DEF Results

LEMMA CompleteStep ==
  ASSUME NoneIsNoObject, ReadingEnds, RepliesTyped, IInv, Complete, [Next]_vars
  PROVE  Complete'
<1>1. CASE Requests
  BY <1>1, RequestsComplete DEF IInv
<1>2. CASE Results
  BY <1>2, ResultsComplete
<1>3. CASE Answer
  BY <1>3 DEF Answer, Complete
<1>4. CASE FileChanges
  BY <1>4 DEF FileChanges, Complete
<1>5. CASE UNCHANGED vars
  BY <1>5 DEF vars, Complete
<1> QED
  BY <1>1, <1>2, <1>3, <1>4, <1>5 DEF Next

LEMMA WidthOfIndex == u32 \in Nat /\ u32 > 0
BY Ranges DEF u32

LEMMA SparseFits ==
  ASSUME NEW item, parse_sparse(item).ok, parse_sparse(item).value # None
  PROVE  ToSet(parse_sparse(item).value.indices) \subseteq 0..u32 - 1
<1> DEFINE node == Get(item, "sparse")
           array(f) == decode(node[f])
           a == array("indices").value
           both == <<to_u32(a), Ok(to_f32(array("values").value))>>
           parts == All(both)
<1>1. parts.ok /\ parse_sparse(item).value = [indices |-> parts.value[1], values |-> parts.value[2]]
  BY DEF parse_sparse, Ok, Err
<1>2. to_u32(a).ok /\ parts.value[1] = to_u32(a).value
  <2>1. DOMAIN both = 1..2 /\ both[1] = to_u32(a)
    OBVIOUS
  <2> HIDE DEF both
  <2> QED
    BY <1>1, <2>1, AllResults DEF Ok
<1> DEFINE indices == [i \in DOMAIN Elements(a) |->
                         ToIndex(IF a.kind = "u8" THEN TwosComplement(Elements(a)[i], 8)
                                 ELSE Elements(a)[i])]
<1>3. to_u32(a) = All(indices)
  BY <1>2 DEF to_u32, Err
<1>4. DOMAIN indices \in SUBSET Nat
  BY DEF Elements, ChunksExact
<1>5. \A i \in DOMAIN indices : indices[i].ok => indices[i].value \in 0..u32 - 1
  BY DEF ToIndex, Ok, Err
<1> HIDE DEF indices
<1>6. /\ \A i \in DOMAIN indices : indices[i].ok
      /\ to_u32(a).value = [i \in DOMAIN indices |-> indices[i].value]
  BY <1>2, <1>3, <1>4, AllResults DEF Ok
<1>7. ToSet(to_u32(a).value) \subseteq 0..u32 - 1
  BY <1>5, <1>6 DEF ToSet
<1> HIDE DEF parts
<1> QED
  BY <1>1, <1>2, <1>7

LEMMA RanksFit ==
  ASSUME NEW r, score_result(r).ok, IsList(r.body.scores),
         \A i \in DOMAIN r.body.scores : Or(Get(r.body.scores[i], "rank"), 0) \in Nat
  PROVE  \A i \in DOMAIN score_result(r).value.scores :
           score_result(r).value.scores[i].rank \in 0..u32 - 1
<1> DEFINE entries == [i \in DOMAIN r.body.scores |-> ScoreEntry(r.body.scores[i])]
           scores == All(entries)
<1>1. scores.ok /\ score_result(r).value.scores = scores.value
  BY DEF score_result, Ok, Err
<1>2. DOMAIN entries \in SUBSET Nat
  BY DEF IsList
<1>3. \A n \in Nat : n % u32 \in 0..u32 - 1
  BY WidthOfIndex
<1>4. \A i \in DOMAIN entries : entries[i].ok => entries[i].value.rank \in 0..u32 - 1
  BY <1>3 DEF ScoreEntry, Ok, Err
<1> HIDE DEF entries
<1>5. scores.value = [i \in DOMAIN entries |-> entries[i].value]
      /\ \A i \in DOMAIN entries : entries[i].ok
  BY <1>1, <1>2, AllResults DEF Ok
<1> HIDE DEF scores
<1> QED
  BY <1>1, <1>4, <1>5

(***************************************************************************)
(* The type invariant: a call's state fits its stage, and what the code    *)
(* keeps as u32 fits one, for every answer.                                *)
(***************************************************************************)
THEOREM TypeCorrect ==
  ASSUME NoneIsNoObject, RepliesTyped, ReadingEnds
  PROVE  Spec => []TypeOK
<1>1. Init => Complete
  BY DEF Init, Complete
<1>2. IInv /\ Complete /\ [Next]_vars => Complete'
  BY CompleteStep
<1>3. ASSUME IInv, Complete PROVE TypeOK
  <2>1. /\ stage \in {"ready", "posted", "answered", "done"}
        /\ (outcome = None) = (stage # "done")
        /\ stage \in {"posted", "answered"} => request # None
        /\ CallTyped(call)
        /\ stage = "answered" => reply # None /\ AnswerTyped(call, reply)
        /\ priced # None => call.op \in Generations
    BY <1>3 DEF IInv, Complete, Priced
  <2>2. ASSUME Done({"encode"}), NEW i \in DOMAIN Outcomes, Outcomes[i].sparse # None
        PROVE  ToSet(Outcomes[i].sparse.indices) \subseteq 0..u32 - 1
    <3> DEFINE item == reply.body.items[i]
    <3>1. EncodeResult(item, reply).ok /\ Outcomes[i] = EncodeResult(item, reply).value
      BY <1>3, <2>2, EncodeOutcomes
    <3>2. parse_sparse(item).ok /\ Outcomes[i].sparse = parse_sparse(item).value
      BY <3>1, EncodedFields
    <3> QED
      BY <2>2, <3>2, SparseFits
  <2>3. ASSUME Done({"score"})
        PROVE  \A i \in DOMAIN outcome.value.scores :
                 outcome.value.scores[i].rank \in 0..u32 - 1
    <3>1. /\ call.op = "score" /\ outcome.ok /\ reply # None
          /\ AnswerTyped(call, reply) /\ Concluded(outcome)
      BY <1>3, <2>3, Ended DEF Done
    <3>2. ~Refused /\ outcome = score_result(reply)
      BY <3>1 DEF Concluded, Err
    <3>3. reply.body # None /\ Get(reply.body, "scores") # None
      BY <3>1, <3>2 DEF score_result, Err
    <3>4. IsList(reply.body.scores) /\ \A i \in DOMAIN reply.body.scores :
            Or(Get(reply.body.scores[i], "rank"), 0) \in Nat
      BY <3>1, <3>2, <3>3 DEF AnswerTyped, Refused
    <3> QED
      BY <3>1, <3>2, <3>4, RanksFit
  <2> QED
    BY <2>1, <2>2, <2>3 DEF TypeOK
<1> QED
  BY <1>1, <1>2, <1>3, Invariance, PTL DEF Spec

---------------------------------------------------------------------------
(***************************************************************************)
(* Media                                                                   *)
(***************************************************************************)
\* What a division leaves over.
LEMMA DivisionRests ==
  ASSUME NEW p \in Int, NEW q \in Nat \ {0}
  PROVE  (p \div q) \in Int /\ p - (p \div q) * q \in 0..q - 1
OBVIOUS

\* What is rounded is less than half a unit away.
LEMMA RoundsToNearest ==
  ASSUME NEW p \in Int, NEW q \in Nat \ {0}
  PROVE  /\ RoundTiesEven(p, q) \in Int
         /\ 2 * (RoundTiesEven(p, q) * q - p) \in -q..q
<1> DEFINE low == p \div q
           rest == p - low * q
           y == RoundTiesEven(p, q)
<1>1. low \in Int /\ rest \in 0..q - 1
  BY DivisionRests
<1>2. \/ y = low /\ 2 * rest <= q
      \/ y = low + 1 /\ 2 * rest >= q
  BY <1>1 DEF RoundTiesEven
<1>3. low * q \in Int /\ (low + 1) * q = low * q + q
  BY <1>1
<1>4. p = low * q + rest
  BY <1>1, <1>3
<1> HIDE DEF low, rest, y
<1>5. ASSUME y = low, 2 * rest <= q
      PROVE  y \in Int /\ 2 * (y * q - p) \in -q..q
  BY <1>1, <1>3, <1>4, <1>5
<1>6. ASSUME y = low + 1, 2 * rest >= q
      PROVE  y \in Int /\ 2 * (y * q - p) \in -q..q
  <2>1. y * q - p = q - rest
    BY <1>1, <1>3, <1>4, <1>6
  <2> QED
    BY <1>1, <1>6, <2>1
<1>7. y \in Int /\ 2 * (y * q - p) \in -q..q
  BY <1>2, <1>5, <1>6
<1> QED
  BY <1>7 DEF y

\* Rounding stays between whole numbers.
LEMMA RoundsBetween ==
  ASSUME NEW p \in Int, NEW q \in Nat \ {0}, NEW low \in Int, NEW high \in Int,
         low * q <= p, p <= high * q
  PROVE  RoundTiesEven(p, q) \in low..high
<1> DEFINE y == RoundTiesEven(p, q)
<1>1. y \in Int /\ 2 * (y * q - p) \in -q..q
  BY RoundsToNearest
<1> HIDE DEF y
<1>2. y * q \in Int /\ low * q \in Int /\ high * q \in Int
  BY <1>1
<1>3. ASSUME y < low PROVE FALSE
  <2>1. (y + 1) * q <= low * q
    BY <1>1, <1>3, ProductOrder
  <2>2. (y + 1) * q = y * q + q
    BY <1>1
  <2> QED
    BY <1>1, <1>2, <2>1, <2>2
<1>4. ASSUME y > high PROVE FALSE
  <2>1. (high + 1) * q <= y * q
    BY <1>1, <1>4, ProductOrder
  <2>2. (high + 1) * q = high * q + q
    OBVIOUS
  <2> QED
    BY <1>1, <1>2, <2>1, <2>2
<1>5. y \in low..high
  BY <1>1, <1>3, <1>4
<1> QED
  BY <1>5 DEF y

\* A sample is rounded to the nearest one of the i16 range; the last clamp of pcm16
\* has nothing to do.
LEMMA SamplesAreNearest ==
  ASSUME NEW x \in Int, NEW unit \in Nat \ {0}
  PROVE  Nearest(pcm16(x, unit), x, unit)
<1> DEFINE clamped == Clamp(x, -unit, unit)
           scale == IF x < 0 THEN PcmMax ELSE PcmMax - 1
           scaled == clamped * scale
           y == RoundTiesEven(scaled, unit)
<1>1. clamped \in -unit..unit /\ (clamped < 0) = (x < 0)
  BY DEF Clamp
<1>2. Scale(clamped) = scale /\ scale \in Int
  BY <1>1, PcmAssumption DEF Scale
<1>3. scaled \in Int /\ (-PcmMax) * unit <= scaled /\ scaled <= (PcmMax - 1) * unit
  <2> HIDE DEF clamped
  <2>1. CASE x < 0
    <3>1. scaled = clamped * PcmMax
      BY <2>1
    <3>2. (-unit) * PcmMax <= clamped * PcmMax /\ clamped * PcmMax <= 0 * PcmMax
      BY <1>1, <2>1, PcmAssumption, ProductOrder
    <3>3. 0 * unit <= (PcmMax - 1) * unit
      BY PcmAssumption, ProductOrder
    <3>4. (-unit) * PcmMax = (-PcmMax) * unit /\ 0 * PcmMax = 0 /\ 0 * unit = 0
          /\ clamped * PcmMax \in Int /\ (PcmMax - 1) * unit \in Int
      BY <1>1, PcmAssumption
    <3> QED
      BY <3>1, <3>2, <3>3, <3>4
  <2>2. CASE ~(x < 0)
    <3>1. scaled = clamped * (PcmMax - 1)
      BY <2>2
    <3>2. 0 * (PcmMax - 1) <= clamped * (PcmMax - 1)
          /\ clamped * (PcmMax - 1) <= unit * (PcmMax - 1)
      BY <1>1, <2>2, PcmAssumption, ProductOrder
    <3>3. (-PcmMax) * unit <= 0 * unit
      BY PcmAssumption, ProductOrder
    <3>4. unit * (PcmMax - 1) = (PcmMax - 1) * unit /\ 0 * (PcmMax - 1) = 0 /\ 0 * unit = 0
          /\ clamped * (PcmMax - 1) \in Int /\ (-PcmMax) * unit \in Int
      BY <1>1, PcmAssumption
    <3> QED
      BY <3>1, <3>2, <3>3, <3>4
  <2> QED
    BY <2>1, <2>2
<1> HIDE DEF clamped, scaled, scale
<1>4. y \in -PcmMax..PcmMax - 1
  <2>1. -PcmMax \in Int /\ PcmMax - 1 \in Int
    BY PcmAssumption
  <2>2. RoundTiesEven(scaled, unit) \in (-PcmMax)..(PcmMax - 1)
    BY <1>3, <2>1, RoundsBetween
  <2> QED
    BY <2>2
<1>5. 2 * (y * unit - scaled) \in -unit..unit
  BY <1>3, RoundsToNearest
<1>6. pcm16(x, unit) = Clamp(y, -PcmMax, PcmMax - 1)
  BY <1>2 DEF pcm16, clamped, scaled
<1> HIDE DEF y
<1>7. pcm16(x, unit) = y
  BY <1>4, <1>6, PcmAssumption DEF Clamp
<1> QED
  BY <1>4, <1>5, <1>7 DEF Nearest, clamped, scaled, scale

\* An image is resolved exactly when it is what is said of it, and what is sent as
\* its format is what its bytes say.
LEMMA ResolvedIsTruthful ==
  ASSUME NEW image, image.from \in Sources
  PROVE  /\ resolve_image(image).ok => Truthful(image)
         /\ ~resolve_image(image).ok => ~Truthful(image)
         /\ resolve_image(image).ok =>
              resolve_image(image).value.format = resolve_image(image).value.data
<1> DEFINE content == IF image.from = "pixels" THEN "jpeg" ELSE image.file
           token == image.format
           bytes == Encoded(image)
           detected == detect_image_format(bytes.value)
<1>1. CASE ~bytes.ok
  <2>1. ~resolve_image(image).ok
    BY <1>1 DEF resolve_image
  <2>2. \/ image.from = "pixels" /\ ~image.encodable
        \/ image.from = "path" /\ image.file = None
    BY <1>1 DEF Encoded, read_file, encode_jpeg, Sources, Ok, Err
  <2> QED
    BY <2>1, <2>2, NoneIsNoFormat DEF Truthful
<1>2. CASE bytes.ok
  <2>1. /\ bytes = Ok(content) /\ bytes.value = content
        /\ image.from = "pixels" => image.encodable
    BY <1>2 DEF Encoded, read_file, encode_jpeg, Sources, Ok, Err
  <2> HIDE DEF bytes
  <2>2. CASE content \notin Formats
    <3>1. ~detected.ok /\ image.from # "pixels"
      BY <2>1, <2>2 DEF detect_image_format, Err, Formats
    <3> QED
      BY <1>2, <2>2, <3>1 DEF resolve_image, Truthful, bytes
  <2>3. CASE content \in Formats
    <3>1. detected = Ok(content) /\ detected.ok /\ detected.value = content
      BY <2>1, <2>3 DEF detect_image_format, Ok
    <3>2. (image.from = "pixels" => image.encodable)
          /\ (image.from # "pixels" => image.file \in Formats)
      BY <2>1, <2>3
    <3> HIDE DEF detected
    <3>3. CASE token = None
      BY <1>2, <2>1, <3>1, <3>2, <3>3 DEF resolve_image, Truthful, bytes, detected, Ok
    <3>4. CASE token # None /\ ~Declared(token).ok
      <4>1. ~(token.ascii /\ token.length \in 1..32)
        BY <3>4 DEF Declared, canonical_format, Ok
      <4>2. resolve_image(image) = Declared(token)
        BY <1>2, <3>1, <3>4 DEF resolve_image, bytes, detected
      <4> QED
        BY <3>4, <4>1, <4>2 DEF Truthful
    <3>5. CASE token # None /\ Declared(token).ok
      <4>1. token.ascii /\ token.length \in 1..32 /\ Declared(token).value = Alias(token.lowered)
        BY <3>5 DEF Declared, canonical_format, Ok, Err, Alias
      <4>2. resolve_image(image) =
              IF Declared(token).value # detected.value THEN Err("invalid")
              ELSE Ok([data |-> bytes.value, format |-> detected.value])
        BY <1>2, <3>1, <3>5 DEF resolve_image, bytes, detected
      <4>3. Truthful(image) <=> Alias(token.lowered) = content
        BY <3>2, <3>5, <4>1 DEF Truthful
      <4> HIDE DEF token, content
      <4> QED
        BY <2>1, <3>1, <4>1, <4>2, <4>3 DEF Ok, Err
    <3> QED
      BY <3>3, <3>4, <3>5
  <2> QED
    BY <2>2, <2>3
<1> QED
  BY <1>1, <1>2

\* What is wrong with an item that cannot be sent.
Faulty(item) ==
  \/ \E j \in DOMAIN item.images : ~Truthful(item.images[j])
  \/ \E a \in {item.audio, item.video, item.document} \ {None} :
       a.from = "waveform" \/ a.file = None

\* The images of an item, all of them resolved or one of them at fault.
LEMMA ImagesResolved ==
  ASSUME NEW images, IsList(images), \A i \in DOMAIN images : images[i].from \in Sources
  PROVE  LET all == All([i \in DOMAIN images |-> resolve_image(images[i])]) IN
         /\ ~all.ok => \E i \in DOMAIN images : ~Truthful(images[i])
         /\ all.ok => \A i \in DOMAIN images :
              Truthful(images[i]) /\ all.value[i].format = all.value[i].data
<1> DEFINE results == [i \in DOMAIN images |-> resolve_image(images[i])]
           all == All(results)
<1>1. /\ DOMAIN results = DOMAIN images
      /\ \A i \in DOMAIN images : results[i] = resolve_image(images[i])
  OBVIOUS
<1>2. DOMAIN results \in SUBSET Nat
  BY DEF IsList
<1> HIDE DEF results
<1>3. CASE all.ok
  <2>1. (\A i \in DOMAIN results : results[i].ok)
        /\ all.value = [i \in DOMAIN results |-> results[i].value]
    BY <1>2, <1>3, AllResults DEF Ok
  <2> QED
    BY <1>1, <1>3, <2>1, ResolvedIsTruthful DEF results
<1>4. CASE ~all.ok
  <2>1. PICK i \in DOMAIN results : ~results[i].ok
    BY <1>2, <1>4, AllResults DEF Ok
  <2> QED
    BY <1>1, <1>4, <2>1, ResolvedIsTruthful DEF results
<1> QED
  BY <1>3, <1>4

\* A waveform that is sent is sent as the samples nearest to it.
LEMMA WaveformIsNearest ==
  ASSUME NEW audio, audio.from = "waveform", SamplesTyped(audio.samples), ~audio.samples.i16,
         resolve_audio(audio).ok
  PROVE  \A k \in DOMAIN audio.samples.values :
           Nearest(resolve_audio(audio).value.data[k], audio.samples.values[k], audio.samples.unit)
<1> DEFINE samples == audio.samples
           wav == encode_wav(samples, audio.channels, audio.sample_rate)
<1>1. wav.ok /\ resolve_audio(audio).value.data = wav.value
  BY DEF resolve_audio, Ok
<1>2. wav = to_pcm16(samples)
  BY <1>1 DEF encode_wav, Err
<1>3. /\ \A k \in DOMAIN samples.values : samples.values[k] # None
      /\ wav.value = [k \in DOMAIN samples.values |-> pcm16(samples.values[k], samples.unit)]
  BY <1>1, <1>2 DEF to_pcm16, Ok, Err
<1>4. \A k \in DOMAIN samples.values :
        Nearest(pcm16(samples.values[k], samples.unit), samples.values[k], samples.unit)
  BY <1>3, SamplesAreNearest DEF SamplesTyped
<1> QED
  BY <1>1, <1>3, <1>4

\* What goes out for an item that can be sent.
ItemSent(item, sent) ==
  /\ \A j \in DOMAIN item.images :
       Truthful(item.images[j]) /\ sent.images[j].format = sent.images[j].data
  /\ item.audio # None /\ item.audio.from = "waveform" /\ ~item.audio.samples.i16 =>
       \A k \in DOMAIN item.audio.samples.values :
         Nearest(sent.audio.data[k], item.audio.samples.values[k], item.audio.samples.unit)

LEMMA AttachedFails ==
  ASSUME NEW input, input.from \in {"bytes", "path"}
  PROVE  /\ ~resolve_binary(input).ok => input.file = None
         /\ ~resolve_audio(input).ok => input.file = None
BY DEF resolve_binary, resolve_audio, Encoded, read_file, Ok

LEMMA ItemOut ==
  ASSUME NoneIsNoObject, NEW item, ItemTyped(item)
  PROVE  /\ to_msgpack(item).ok => ItemSent(item, to_msgpack(item).value)
         /\ ~to_msgpack(item).ok => Faulty(item)
<1> DEFINE images == All([i \in DOMAIN item.images |-> resolve_image(item.images[i])])
           audio == Attached(item.audio, resolve_audio(item.audio))
           video == Attached(item.video, resolve_binary(item.video))
           document == Attached(item.document, resolve_binary(item.document))
           four == <<images, audio, video, document>>
           parts == All(four)
           fields == [id |-> item.id, text |-> item.text, metadata |-> item.metadata,
                      images |-> IF item.images = <<>> THEN None ELSE parts.value[1],
                      audio |-> parts.value[2], video |-> parts.value[3],
                      document |-> parts.value[4]]
<1>1. DOMAIN four = 1..4 /\ four[1] = images /\ four[2] = audio /\ four[3] = video
      /\ four[4] = document
  OBVIOUS
<1>2. to_msgpack(item) = IF ~parts.ok THEN parts ELSE Ok(Given(fields))
  BY DEF to_msgpack
<1>3. /\ ~images.ok => \E j \in DOMAIN item.images : ~Truthful(item.images[j])
      /\ images.ok => \A j \in DOMAIN item.images :
           Truthful(item.images[j]) /\ images.value[j].format = images.value[j].data
  BY ImagesResolved DEF ItemTyped
<1>4. IsObject(images.value) \/ ~images.ok
  <2> DEFINE results == [i \in DOMAIN item.images |-> resolve_image(item.images[i])]
  <2>1. DOMAIN results \in SUBSET Nat
    BY DEF ItemTyped, IsList
  <2> HIDE DEF results
  <2>2. IsObject(All(results).value) \/ ~All(results).ok
    BY <2>1, AllResults DEF Ok, IsObject
  <2> QED
    BY <2>2 DEF results
<1>f. /\ "images" \in DOMAIN fields /\ "audio" \in DOMAIN fields
      /\ fields.images = IF item.images = <<>> THEN None ELSE parts.value[1]
      /\ fields.audio = parts.value[2]
  OBVIOUS
<1> HIDE DEF four, fields
<1>5. CASE parts.ok
  <2>1. /\ \A i \in 1..4 : four[i].ok
        /\ parts.value[1] = images.value /\ parts.value[2] = audio.value
    BY <1>1, <1>5, AllResults DEF Ok
  <2> DEFINE sent == to_msgpack(item).value
  <2>2. sent = Given(fields) /\ to_msgpack(item).ok
    BY <1>2, <1>5 DEF Ok
  <2>3. images.ok /\ audio.ok
    BY <1>1, <2>1
  <2> HIDE DEF images, audio, parts, sent
  <2>4. item.images # <<>> => sent.images = images.value
    <3>1. IsObject(images.value)
      BY <1>4, <2>3
    <3>2. images.value # None
      BY <3>1 DEF NoneIsNoObject
    <3> QED
      BY <1>f, <2>1, <2>2, <3>2 DEF Given
  <2>5. audio.value # None => sent.audio = audio.value
    BY <1>f, <2>1, <2>2 DEF Given
  <2>6. \A j \in DOMAIN item.images :
          Truthful(item.images[j]) /\ sent.images[j].format = sent.images[j].data
    <3>1. item.images = <<>> => DOMAIN item.images = {}
      OBVIOUS
    <3> QED
      BY <1>3, <2>3, <2>4, <3>1
  <2>7. ASSUME item.audio # None, item.audio.from = "waveform", ~item.audio.samples.i16,
               NEW k \in DOMAIN item.audio.samples.values
        PROVE  Nearest(sent.audio.data[k], item.audio.samples.values[k],
                       item.audio.samples.unit)
    <3>1. audio = resolve_audio(item.audio)
      BY <2>7 DEF audio, Attached
    <3>2. \E v : audio.value = [data |-> v, format |-> Or(item.audio.format, "wav"),
                               sample_rate |-> item.audio.sample_rate]
      BY <2>3, <2>7, <3>1 DEF resolve_audio, Ok
    <3>3. audio.value # None
      <4>1. IsObject(audio.value)
        BY <3>2 DEF IsObject
      <4> QED
        BY <4>1 DEF NoneIsNoObject
    <3>4. SamplesTyped(item.audio.samples)
      BY <2>7 DEF ItemTyped
    <3> QED
      BY <2>3, <2>5, <2>7, <3>1, <3>3, <3>4, WaveformIsNearest
  <2> QED
    BY <2>2, <2>6, <2>7 DEF ItemSent, sent
<1>6. CASE ~parts.ok
  <2>1. \E i \in 1..4 : ~four[i].ok
    BY <1>1, <1>6, AllResults DEF Ok
  <2>2. ~images.ok \/ ~audio.ok \/ ~video.ok \/ ~document.ok
    <3> HIDE DEF images, audio, video, document
    <3> QED
      BY <1>1, <2>1
  <2>3. ASSUME ~images.ok PROVE Faulty(item)
    BY <1>3, <2>3 DEF Faulty
  <2>4. ASSUME ~audio.ok PROVE Faulty(item)
    <3>1. item.audio # None /\ ~resolve_audio(item.audio).ok
      BY <2>4 DEF Attached, Ok
    <3> QED
      BY <3>1, AttachedFails DEF Faulty, ItemTyped
  <2>5. ASSUME ~video.ok PROVE Faulty(item)
    <3>1. item.video # None /\ ~resolve_binary(item.video).ok
      BY <2>5 DEF Attached, Ok
    <3> QED
      BY <3>1, AttachedFails DEF Faulty, ItemTyped
  <2>6. ASSUME ~document.ok PROVE Faulty(item)
    <3>1. item.document # None /\ ~resolve_binary(item.document).ok
      BY <2>6 DEF Attached, Ok
    <3> QED
      BY <3>1, AttachedFails DEF Faulty, ItemTyped
  <2>7. ~to_msgpack(item).ok
    BY <1>2, <1>6
  <2> QED
    BY <2>2, <2>3, <2>4, <2>5, <2>6, <2>7
<1> QED
  BY <1>5, <1>6

\* The items of a body are those of the call, each one sent or one of them at fault.
LEMMA BodyItems ==
  ASSUME NoneIsNoObject, NEW items, IsList(items), \A i \in DOMAIN items : ItemTyped(items[i]),
         NEW entries
  PROVE  /\ ParamsBody(items, entries).ok =>
              /\ ParamsBody(items, entries).value # None
              /\ \A i \in DOMAIN items :
                   ItemSent(items[i], ParamsBody(items, entries).value.items[i])
         /\ ~ParamsBody(items, entries).ok => \E i \in DOMAIN items : Faulty(items[i])
<1> DEFINE results == [i \in DOMAIN items |-> to_msgpack(items[i])]
           packed == items_to_msgpack(items)
           fields == [items |-> packed.value, params |-> params_map(entries)]
<1>1. /\ DOMAIN results = DOMAIN items /\ DOMAIN results \in SUBSET Nat
      /\ \A i \in DOMAIN items : results[i] = to_msgpack(items[i])
  BY DEF IsList
<1>2. packed = All(results)
  BY DEF items_to_msgpack
<1>3. ParamsBody(items, entries) = IF ~packed.ok THEN packed ELSE Ok(Given(fields))
  BY DEF ParamsBody
<1>4. "items" \in DOMAIN fields /\ fields.items = packed.value
  OBVIOUS
<1> HIDE DEF results, packed, fields
<1>5. CASE packed.ok
  <2>1. (\A i \in DOMAIN results : results[i].ok)
        /\ packed.value = [i \in DOMAIN results |-> results[i].value]
    BY <1>1, <1>2, <1>5, AllResults DEF Ok
  <2>2. packed.value # None
    BY <2>1 DEF NoneIsNoObject, IsObject
  <2>3. Given(fields).items = packed.value /\ Given(fields) # None
    BY <1>4, <2>2 DEF Given, NoneIsNoObject, IsObject
  <2>4. ParamsBody(items, entries).ok /\ ParamsBody(items, entries).value = Given(fields)
    BY <1>3, <1>5 DEF Ok
  <2>5. \A i \in DOMAIN items : ItemSent(items[i], packed.value[i])
    BY <1>1, <2>1, ItemOut
  <2> QED
    BY <2>3, <2>4, <2>5
<1>6. CASE ~packed.ok
  <2>1. PICK i \in DOMAIN results : ~results[i].ok
    BY <1>1, <1>2, <1>6, AllResults DEF Ok
  <2>2. Faulty(items[i])
    BY <1>1, <2>1, ItemOut
  <2> QED
    BY <1>1, <1>3, <1>6, <2>2
<1> QED
  BY <1>5, <1>6

(***************************************************************************)
(* An image is sent as what its bytes are and only if nothing that is      *)
(* declared of it says otherwise, a waveform as the samples nearest to it, *)
(* and what keeps a call from being sent is in one of its items:           *)
(* MediaTruthful.                                                          *)
(***************************************************************************)
THEOREM MediaAreTruthful ==
  ASSUME NoneIsNoObject, RepliesTyped
  PROVE  Spec => []MediaTruthful
<1>1. ASSUME IInv, call.op \in {"encode", "extract"}
      PROVE  /\ stage = "posted" =>
                  \A i \in DOMAIN call.items : ItemSent(call.items[i], request.items[i])
             /\ stage = "done" /\ request = None /\ call.items # <<>> =>
                  \E i \in DOMAIN call.items : Faulty(call.items[i])
  <2> DEFINE body == inference_body(call.defaults, call)
  <2>1. IsList(call.items) /\ \A i \in DOMAIN call.items : ItemTyped(call.items[i])
    BY <1>1 DEF IInv, CallTyped, Inferences
  <2>2. call.items # <<>> => \E entries : body = ParamsBody(call.items, entries)
    BY <1>1 DEF inference_body, encode_body, extract_body
  <2>3. call.items = <<>> => ~body.ok
    BY DEF inference_body, Err
  <2> HIDE DEF body
  <2>4. /\ body.ok => body.value # None /\ \A i \in DOMAIN call.items :
             ItemSent(call.items[i], body.value.items[i])
        /\ ~body.ok /\ call.items # <<>> => \E i \in DOMAIN call.items : Faulty(call.items[i])
    BY <2>1, <2>2, <2>3, BodyItems
  <2>5. Asked(request) => body.ok /\ request = body.value
    BY <1>1 DEF Asked, Built, Inferences, body
  <2>6. Computed(outcome) => ~body.ok
    BY <1>1 DEF Computed, Inferences, body
  <2>7. stage = "posted" => Asked(request)
    BY <1>1 DEF IInv
  <2>8. stage = "done" => (request = None /\ Computed(outcome)) \/ Asked(request)
    BY <1>1 DEF IInv
  <2> QED
    BY <2>4, <2>5, <2>6, <2>7, <2>8
<1>2. IInv => MediaTruthful
  BY <1>1 DEF MediaTruthful, ItemSent, Faulty
<1> QED
  BY <1>2, Invariance, PTL

---------------------------------------------------------------------------
(***************************************************************************)
(* Tensors                                                                 *)
(***************************************************************************)
\* A tensor of an item that was read is one that decode accepts.
LEMMA TensorRead ==
  ASSUME NEW item, NEW key, tensor(item, key).ok, tensor(item, key).value # None
  PROVE  /\ Get(item, key) # None /\ Get(item[key], "values") # None
         /\ tensor(item, key) = decode(item[key].values)
<1> DEFINE node == Get(item, key)
<1>1. node # None
  BY DEF tensor, Ok
<1>2. node = item[key]
  BY <1>1 DEF Get
<1>3. Get(node, "values") # None
  BY <1>1 DEF tensor, Err
<1>4. tensor(item, key) = decode(node.values)
  BY <1>1, <1>3 DEF tensor
<1> HIDE DEF node
<1> QED
  BY <1>1, <1>2, <1>3, <1>4 DEF node

LEMMA DenseRead ==
  ASSUME NEW item, ItemTensorsTyped(item), parse_dense(item).ok, parse_dense(item).value # None
  PROVE  AsSent(parse_dense(item).value, item.dense.values)
<1> DEFINE array == tensor(item, "dense")
           map == item.dense.values
<1>1. array.ok /\ array.value # None /\ parse_dense(item).value = to_f32(array.value)
  BY DEF parse_dense, Ok
<1>2. Get(item, "dense") # None /\ Get(item["dense"], "values") # None /\ array = decode(map)
  BY <1>1, TensorRead
<1>3. TensorTyped(map)
  BY <1>2 DEF ItemTensorsTyped
<1> HIDE DEF array, map
<1>4. AsSent(to_f32(array.value), map)
  BY <1>1, <1>2, <1>3, TensorsAreRead
<1> QED
  BY <1>1, <1>4 DEF map

LEMMA MultivectorRead ==
  ASSUME NEW item, ItemTensorsTyped(item), parse_multivector(item).ok,
         parse_multivector(item).value # None
  PROVE  AsSent(FlattenSeq(parse_multivector(item).value), item.multivector.values)
<1> DEFINE array == tensor(item, "multivector")
           map == item.multivector.values
<1>1. array.ok /\ array.value # None /\ parse_multivector(item) = rows(array.value)
  BY DEF parse_multivector
<1>2. Get(item, "multivector") # None /\ Get(item["multivector"], "values") # None
      /\ array = decode(map)
  BY <1>1, TensorRead
<1>3. TensorTyped(map)
  BY <1>2 DEF ItemTensorsTyped
<1> HIDE DEF array, map
<1>4. AsSent(FlattenSeq(rows(array.value).value), map)
  BY <1>1, <1>2, <1>3, TensorsAreRead
<1> QED
  BY <1>1, <1>4 DEF map

LEMMA SparseRead ==
  ASSUME NEW item, ItemTensorsTyped(item), parse_sparse(item).ok, parse_sparse(item).value # None
  PROVE  /\ Holds(parse_sparse(item).value.indices, item.sparse.indices)
         /\ AsSent(parse_sparse(item).value.values, item.sparse.values)
<1> DEFINE node == Get(item, "sparse")
           indices == decode(node.indices)
           values == decode(node.values)
           both == <<to_u32(indices.value), Ok(to_f32(values.value))>>
           parts == All(both)
<1>1. /\ node # None /\ Get(node, "indices") # None /\ Get(node, "values") # None
      /\ indices.ok /\ values.ok /\ parts.ok
      /\ parse_sparse(item).value = [indices |-> parts.value[1], values |-> parts.value[2]]
  BY DEF parse_sparse, Ok, Err
<1>2. node = item.sparse
  BY <1>1 DEF Get
<1>3. TensorTyped(node.indices) /\ TensorTyped(node.values)
  <2> HIDE DEF indices, values, both, parts
  <2>1. Get(item, "sparse") # None /\ Get(item["sparse"], "indices") # None
        /\ Get(item["sparse"], "values") # None
    BY <1>1, <1>2
  <2>2. TensorTyped(item["sparse"]["indices"]) /\ TensorTyped(item["sparse"]["values"])
    BY <2>1 DEF ItemTensorsTyped
  <2> QED
    BY <1>2, <2>2
<1>4. /\ to_u32(indices.value).ok /\ parts.value[1] = to_u32(indices.value).value
      /\ parts.value[2] = to_f32(values.value)
  <2>1. DOMAIN both = 1..2 /\ both[1] = to_u32(indices.value) /\ both[2] = Ok(to_f32(values.value))
    OBVIOUS
  <2> HIDE DEF both
  <2>2. \A i \in 1..2 : both[i].ok /\ parts.value[i] = both[i].value
    BY <1>1, <2>1, AllResults DEF Ok
  <2> QED
    BY <2>1, <2>2 DEF Ok
<1> HIDE DEF node, parts
<1>5. Holds(to_u32(indices.value).value, node.indices)
  BY <1>1, <1>3, <1>4, TensorsAreRead
<1>6. AsSent(to_f32(values.value), node.values)
  BY <1>1, <1>3, TensorsAreRead
<1> QED
  BY <1>1, <1>2, <1>4, <1>5, <1>6

LEMMA ConversionsHold ==
  ASSUME IInv, stage = "done"
  PROVE  ConversionsExact
<1>1. call.op \in Pure => Computed(outcome)
  BY DEF IInv, Asked
<1>2. CallTyped(call)
  BY DEF IInv
<1>3. ASSUME call.op = "rows_to_array", outcome.ok
      PROVE  /\ outcome.value.elements = FlattenSeq(call.matrix)
             /\ Len(outcome.value.elements) = Product(outcome.value.shape)
  <2>1. outcome = rows_to_array(call.matrix)
    BY <1>1, <1>3 DEF Computed, Pure
  <2>2. IsList(call.matrix) /\ \A i \in DOMAIN call.matrix : IsList(call.matrix[i])
    BY <1>2, <1>3 DEF CallTyped
  <2> QED
    BY <1>3, <2>1, <2>2, ArrayOfRows
<1>4. ASSUME call.op = "sparse_to_dense", outcome.ok
      PROVE  LET indices == call.sparse.indices
                 values == call.sparse.values
                 pairs == DOMAIN indices \cap DOMAIN values
             IN /\ DOMAIN outcome.value = 0..call.dims - 1
                /\ \A k \in pairs :
                     \E l \in pairs : /\ l >= k /\ indices[l] = indices[k]
                                      /\ outcome.value[indices[k]] = values[l]
                /\ \A i \in DOMAIN outcome.value :
                     (\A k \in pairs : indices[k] # i) => outcome.value[i] = Zero
  <2>1. outcome = sparse_to_dense(call.sparse, call.dims)
    BY <1>1, <1>4 DEF Computed, Pure
  <2>2. /\ call.dims \in Nat /\ IsList(call.sparse.indices) /\ IsList(call.sparse.values)
        /\ \A k \in DOMAIN call.sparse.indices : call.sparse.indices[k] \in Nat
    BY <1>2, <1>4 DEF CallTyped
  <2> QED
    BY <1>4, <2>1, <2>2, DenseOfSparse
<1>5. ASSUME call.op = "maxsim"
      PROVE  outcome.value =
               [q \in DOMAIN call.queries |-> maxsim(call.queries[q], call.documents)]
  <2>1. outcome.value = maxsim_batch(call.queries, call.documents)
    BY <1>1, <1>5 DEF Computed, Pure, Ok
  <2>2. IsList(call.documents)
    BY <1>2, <1>5 DEF CallTyped
  <2> QED
    BY <2>1, <2>2, BatchIsMaxsim
<1> QED
  BY <1>3, <1>4, <1>5 DEF ConversionsExact

(***************************************************************************)
(* The numbers of every encode are read of those the server sent, in every *)
(* type, order, shape and length, an integer within one part in 2^24, and  *)
(* what a caller makes of tensors changes none of them: TensorsAsSent.     *)
(***************************************************************************)
THEOREM TensorsAreAsSent ==
  ASSUME RepliesTyped
  PROVE  Spec => []TensorsAsSent
<1>1. ASSUME IInv, Done({"encode"}), NEW i \in DOMAIN Outcomes
      PROVE  LET result == Outcomes[i]
                 item == reply.body.items[i]
             IN /\ result.dense # None => AsSent(result.dense, item.dense.values)
                /\ result.multivector # None =>
                     AsSent(FlattenSeq(result.multivector), item.multivector.values)
                /\ result.sparse # None =>
                     /\ Holds(result.sparse.indices, item.sparse.indices)
                     /\ AsSent(result.sparse.values, item.sparse.values)
  <2> DEFINE item == reply.body.items[i]
  <2>1. /\ EncodeResult(item, reply).ok /\ Outcomes[i] = EncodeResult(item, reply).value
        /\ i \in DOMAIN reply.body.items /\ call.op = "encode" /\ ~Refused
        /\ AnswerTyped(call, reply)
    BY <1>1, EncodeOutcomes
  <2>2. ItemTensorsTyped(item)
    <3>1. reply # None /\ stage = "done" /\ outcome.ok /\ Concluded(outcome)
      BY <1>1, Ended DEF Done
    <3>2. reply.status < 400
      BY <2>1, <3>1 DEF Refused, AnswerTyped
    <3>3. ItemsOf(reply) # None /\ ItemsOf(reply) = reply.body.items
      <4>1. encode_results(call, reply).ok
        BY <2>1, <3>1, OneOfMany DEF Concluded
      <4>2. ItemsOf(reply) # None
        BY <4>1 DEF encode_results, Err
      <4> QED
        BY <4>2 DEF ItemsOf, Get
    <3> QED
      BY <2>1, <3>2, <3>3 DEF AnswerTyped
  <2> HIDE DEF item
  <2>3. /\ parse_dense(item).ok /\ Outcomes[i].dense = parse_dense(item).value
        /\ parse_sparse(item).ok /\ Outcomes[i].sparse = parse_sparse(item).value
        /\ parse_multivector(item).ok
        /\ Outcomes[i].multivector = parse_multivector(item).value
    BY <2>1, EncodedFields
  <2> QED
    BY <2>2, <2>3, DenseRead, MultivectorRead, SparseRead DEF item
<1>2. IInv => TensorsAsSent
  BY <1>1, ConversionsHold DEF TensorsAsSent
<1> QED
  BY <1>2, Invariance, PTL
=============================================================================
