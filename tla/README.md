# sie-sdk in TLA+

A model of the Rust client SDK for a SIE inference server: its retry machine,
its request path, its event streams, its pool leases, its waits and downloads,
and what each endpoint makes of its arguments and of its answers; checked with
TLC and, where it matters most, proved with TLAPS. Paths are relative to the repository;
`client/`, `retry/` and so on are under its `src/`.

## The system

A `Client` is a cheap clone of one shared `Inner` (`client/mod.rs`). Any number
of tasks call it at the same time. What they share is the connection pool, an
optional semaphore (`max_concurrency`) and the registry of pool leases; all the
rest of a call's state is its own.

| Component | State | Operations | What makes it correct |
|---|---|---|---|
| Retry machine (`retry/mod.rs`) | per call: policy, options, `start`, `retries`, `oom_retries`, `lora_retries` | `attempt_timeout`, `on_transport_error`, `on_response` | the budget and each cap hold over any mixture of answers; generations are not repeated; counts are exact; the reported error is the cause |
| Backoff (`retry/backoff.rs`) | none | `retry_after`, `oom_backoff`, `transport_delay` | delays stay within their ceilings and the budget |
| Request path (`client/mod.rs`) | semaphore, per call: attempt, timeout | `send`, `send_streaming`, `send_once`, `send_with_timeout` | permits are accounted for on every way out; every call returns |
| SSE streams (`client/stream.rs`) | retry state, `yielded`, the open body | `sse_stream` | chunks of one generation only; one budget over all reconnections; errors reach the consumer; the stream ends |
| Line framing, events (`wire/sse.rs`) | `buffer` | `push`, `finish`, `data_payload`, `chunk_error` | the lines do not depend on how the network cuts the body; an error event is never taken for a chunk |
| Pools (`client/pools.rs`) | `Inner::leases`, a renewer task per pool | `create`, `get`, `delete`, `LeaseRenewer::run`, `Drop` | one renewer per pool, always stoppable; none for a pool this client deleted |
| Wire errors, metering (`wire/mod.rs`, `error.rs`, `http/metadata.rs`) | none | `parse_envelope`, `handle_error`, `parse` | the code that decides a retry is the server's; a charge is reported whole |
| Client, headers (`client/mod.rs`, `http/`) | the configuration; one warning per process | `build`, `routing`, credentials, origins | edge credentials stay at the base URL's origin |
| Metadata, capacity (`client/meta.rs`) | per call: `start` | `health`, `get_capacity`, `wait_for_capacity`, models | waits end at their deadline and report what they saw |
| Jobs (`client/jobs.rs`) | on the server | `submit`, `wait`, `results`, plans, repair | a settled job is noticed; results match the chunks; a job that reads a store is keyed |
| Watch (`client/watch.rs`) | a WebSocket | `watch` | the right socket, with the right credentials |
| Encode, score, extract (`client/encode.rs`, `types/item.rs`, `media.rs`) | none | builders, attachments, decoding of results | a result for each item, in the order of the answer; a format that is that of the bytes; a failed item says so |
| Generation (`client/generate.rs`) | none | bodies to send, stream and estimate | what defines a request survives `extra_body`, all else gives way; an estimate prices the send |
| Files, batches, connections | none | one request each | validation, and as the request path |
| Types and binary formats (`types/`, `wire/ndarray.rs`, `ndarray.rs`, `scoring.rs`) | none | decoding | null is absence; the numbers are those the server sent, to the precision of an `f32` |
| Blocking facade (`blocking.rs`) | a runtime | `call`, `collect`, `for_each` | as the asynchronous client |

How they meet: every endpoint builds a `PreparedRequest`, picks a
`RetryPolicy`, and goes through `send` or, for streams, `send_streaming`. Both
ask a `RetryState` for the attempt's timeout, take a permit, send, give the
permit back, and ask the `RetryState` what to do with the outcome. `sse_stream`
keeps one `RetryState` over several `send_streaming` calls and consults it again
when the first event is a capacity error. Pool operations are metadata requests
that also start and stop renewer tasks.

The hard parts: a clock that runs through everything, so that what was computed
before an `await` is stale after it; a request that was sent and whose fate is
unknown; futures dropped at any `await`; counters that several branches move;
and, for leases, creates and deletes racing on clones of one client.
`PROJECT.json` lists the hazards with their lines and the properties aimed at
them.

## Modules

The request path, over time:

| Module | Models | Notes |
|---|---|---|
| `Backoff` | `retry/backoff.rs` | a jittered delay is the set of values it can take; the shift and the product keep their widths |
| `RetryPolicy` | the policy constants | records with the source's fields |
| `RetryState` | `retry/mod.rs`, `handle_error` and the checks before it | decisions as partial actions on a call's `phase`: `Fail`, `Retry`, `Accept` |
| `ClientSend` | `send`, `send_streaming`, `send_once`, `send_with_timeout`, the semaphore | extends `RetryState`; any number of calls |
| `RequestContract` | nothing: what a client promises, abstractly | `ClientSend` implements it |
| `SseStream` | `sse_stream` of `client/stream.rs` | extends `RetryState`; reuses its decisions for openings and first events |
| `StreamContract` | nothing: what a stream promises, abstractly | `SseStream` implements it |
| `LineDecoder` | `LineDecoder` of `wire/sse.rs` | the loop is a recursive function, turn by turn; the reference definition works by positions |
| `PoolLease` | `client/pools.rs`, `Drop for Inner` | callers, renewers and the gateway |
| `Polling` | `jobs.wait`, `wait_for_capacity`, `health`, `get_capacity` | over a job or a cluster that moves |
| `BoundedWait` | nothing: a wait, abstractly | the three loops of `Polling` implement it |
| `Jobs` | `jobs.results` next to a wait | extends `Polling` with chunks, payloads that expire, repairs |

One call from its arguments to its result, without time:

| Module | Models | Notes |
|---|---|---|
| `Fields` | optional fields, `Result` | the vocabulary of the modules below |
| `Items` | `types/item.rs`, `media.rs` | items, attachments, formats, PCM |
| `NumpyArray` | `wire/ndarray.rs`, `ndarray.rs`, `scoring.rs` | dtypes, byte orders, shapes, conversions |
| `Metadata` | `http/metadata.rs`, `wire/mod.rs`, `error.rs` | metering, envelopes, errors |
| `Inference` | `client/encode.rs`, `types/encode.rs` | bodies and results of encode, score and extract |
| `Generation` | `client/generate.rs`, the sends of `client/stream.rs` | three uses of one builder |
| `WireTypes` | `types/` | every struct that is read, field by field, and what serde makes of a missing and of a null field |
| `SseEvents` | `wire/sse.rs`, `decode_event` | a line, its payload, the event |
| `JobRequests` | the requests of `client/jobs.rs` | submit's rules, actions on plans, chunk decoding |
| `Resources` | files, batches, connections, pools, models, health | one request and one reading each |
| `ClientConfig` | `ClientBuilder`, headers, origins, `redaction.rs`, `http/version.rs`, `client/watch.rs` | who gets which credentials |
| `Endpoints` | the calls | composes all of these |
| `JsonDocuments` | what serde makes of a missing, a null and a wrong field | gives `Endpoints` its reading of JSON, and the honest document of each type |

`MCClientSend`, `MCSseStream` and `MCEndpoints` are instances for TLC.
`RetryStateProofs`, `ClientSendProofs`, `SseStreamProofs`, `LineDecoderProofs`,
`PoolLeaseProofs`, `JobsProofs` (which has the proofs about `Polling` too),
`NumpyArrayProofs` and `EndpointsProofs` hold the proofs.

`Endpoints` takes the reading of JSON (`Deserialize`) and the documents of each
type (`Document`) as constants. `JsonDocuments` defines both, recursively, for
the run; the theorems hold for any reading that has the properties they name.

### Correspondence

`phase[c]` says at which `await` of the loop a call is: `loop` (about to call
`attempt_timeout`), `queued` (in `permit().await`), `inflight` (in
`send().await`, and in `HttpResponse::read` for a buffered call: the permit is
held over both), `body` (a stream's refusal being read, or an open stream's
events: no permit), `asleep` (in `tokio::time::sleep`), `done`, and `dropped`
(the caller dropped the future). The code between two awaits is one action:
`Answered` is the end of `HttpResponse::read`, the permit's release and the
whole of `on_response`. `retries`, `oom_retries` and `lora_retries` are the
fields of the same name. `attempts`, `reached`, `last` and `queuedAt` are
history: the code does not keep them and no guard reads them.

The server answers anything or nothing. What it answers is a status, a code of
the few the client tells apart, and a hint or none; bodies and messages are left
out. A transport failure is `Connect` (transient or not), `MidFlight` or
`Timeout`, as `classify_transport_error` says; a timeout comes first, even while
connecting, so it counts as one that may have reached a worker.

In `PoolLease` a task's operation has three steps: it starts (`delete` stops the
lease in the same step, before its `await`), the gateway handles it or not, and
the caller goes on with the answer (`create` starts the lease). A dropped call
leaves its request under way. The mutex of the registry is held inside one
action only. The server's pools are not this client's alone: at any moment a lease
may expire or another client delete the pool (`Vanishes`), and another client may
create it (`MadeByAnother`); this client is not told. `effect` is history: the
latest of this client's operations that the server carried out.

In `Polling` a look is a request: `Look` computes its timeout and asks for a
permit, `Permitted` sends it and starts its timer, `Serve` is the moment the
server reads its state, and one of the `...Answered` and `...Failed` actions is
its end together with everything the loop does up to its next `await`. What is
waited for moves in `WorldMoves`, between any two of these. Who else
holds the permits is left open: a request may queue for any time up to `MaxQueue`
per look. `readyAt`, `unreadyAt`, `swallowed` and `queued` are history. `Jobs` adds the chunks on the server
and the locals of `results` under their names. The wait and the download are
alternatives of its caller: `results` reads the status itself and does not care
who has waited before.

`Endpoints` has one state per step of a call: `ready` (the builder holds its
arguments), `posted` (the request, or the error that kept it from being sent),
`answered`, `done`. A call, a request and an answer are records; the operators
that turn one into the next keep the names of the functions they model. `Calls`
and `Replies` enumerate arguments and answers; an answer that is a JSON document
is the honest document of its type with at most one change, a field that is
null, missing or of another kind, at any depth. A text matters only as far as
the code looks into it: a format token is its lowered form, its length and
whether it is ASCII, a URL its scheme, host, port and userinfo, a header's number
its value and whether its digits are canonical. A number of a tensor is what it
is read as, with its value, if an integer was converted to `f32` (rounded to the
nearest even, at 24 bits), or its pattern, if it was a float: `f2` and `f4` keep
theirs, which are read as the `f32` they stand for, and what `as` makes of an `f8` is
a parameter, `Narrowed`. A byte has `Byte` values, any even
number of them, and a sample `2 * PcmMax`, both parameters: two and three in the run. Widths, orders, two's
complement and the asymmetry of the sample's range are there at any size.
`priced` is the body an estimate was asked for, with which the same builder is
then sent, an image on disk having changed or not.

Definitions introduced by "Slip" are plausible mistakes. No specification uses
them. Each shows, put in the place of the definition after it, that some
property can fail.

### Time and fairness

Time is a counter that `Tick` moves. It does not pass over something that is
due (a call in its loop, a permit that can be granted, an expired timer), except
by `Lag` units for timers, so the bounds on time are about the code and not
about a stopped process. An attempt takes at least one unit, a unit being as
short as the fastest round trip: without that, `Retry-After: 0` would allow
infinitely many attempts in an instant.

Liveness assumes that time passes and that the runtime polls what is ready: weak
fairness on the client's own steps and on its timers. Nothing is assumed of the
server, the network or the caller: no answer is ever owed. That is what the
client's timeouts are for, why a stream's end rests on `BodyTimedOut` and a
wait's on the timeout of its request, and why nothing is claimed about a
renewal, which has no timeout. A download adds fairness for its own requests,
which have one. A wait also assumes that its requests get their permits: tokio's
semaphore is first in, first out, and every other request ends with its own
timeout, so the queue moves on (`ClientSend` has it with the queue itself,
`EveryCallReturns`); how long that takes nothing in the code limits.

## What is checked

Runs that pass:

| Run | Instance | Shows |
|---|---|---|
| `single` | one call: every endpoint's policy, both loops, transfers, waiting or not, OOM cap 0 or 3, a budget of 14 with a timeout of 4, hints none, 0, 3 and 40, a shift of two bits (1 140 000 states) | `BudgetBound`, `RetriesAreResends`, `FailFast`, `RetryCaps`, `ExhaustionNotMasked`, `NeverReplayedOnceReached`, `OomBacksOff` |
| `contended` | two calls, one permit, budget 3, timeout 2 (465 000 states) | `PermitsAccounted`, `OverrunIsQueueing`, `ImplementsContract`, `EveryCallReturns` |
| `sse` | one stream, budget 7, timeout 4, two chunks per generation (40 500 states) | `OneGeneration`, `OneBudget`, `ImplementsStreamContract`, `EveryStreamEnds` |
| `framing` | bodies of up to six bytes over newline, carriage return and one other, cut in every way | `FramingIgnoresChunks` |
| `pool` | one pool that may expire or be made by others at any time, two tasks, three renewers, rounds of two attempts (105 000 states) | `TypeOK`, `RegistryExact`, `NoOrphanWithoutOverlap` |
| `waits` | the three waits, timeouts 0 and 5, intervals 0 and 4, requests of two units that may queue for two more, timers one unit late; downloads of up to two chunks (257 000 states) | `TypeOK`, `WaitBound`, `NoReadyMissed`, `ReadyIsFresh`, `ResultsExact`, `IsBoundedWait`, `WaitEnds` |
| `endpoints` | 30 sets of calls, the arguments and the answers their code tells apart (58 000 states) | the thirteen below, and `TypeOK` |

What `endpoints` shows, by property: `EncodeIsPositional` (the i-th result is the
i-th of the answer, however many the server sends; whether the server kept the
items' order the client has no means to see), `TensorsAsSent` (some values of the
dtype, written in its width and order, give the server's bytes, and each number is
the `f32` of its value, off by one part in 2^24 at most and exact below 2^24; indices
are never rounded; a dense vector made of a sparse one has the last value given
to each index and zero elsewhere, also when there are more indices than values), `MediaTruthful` (a format that contradicts its bytes
never leaves; samples are the nearest, clipped and not wrapped),
`OptionsLayered` (a call's options over the client's), `ExtractFailuresShown`
and `StreamErrorsShown` (an error with half of its fields missing still is one),
`ChargeIsWhole`, `EnvelopeCodeAuthoritative`, `NullIsAbsence` (over every field
that a server sends, at any depth, but for the one that does not hold it: the type of
an output of Responses; `request.retries`, `types/common.rs:129`, would be another,
but the SDK counts it itself), `DefiningFieldsHold` (`prompt`, `max_new_tokens` and,
on a stream, `stream` stay the builder's; every other field of `extra_body` wins), `EstimatePricesTheSend`,
`EdgeHeadersStayHome` and `JobKeyed`. The type invariants of `ClientSend` and
`SseStream` are not in the runs, since they are proved (`TypeCorrect`,
`StreamTypeCorrect`); that of `Endpoints` has `AnswerTyped`, what the theorems take
for granted of an answer, in it, so that the run looks at every answer it gives.

Why these bounds are enough. In `single` the budget is more than two timeouts,
two default delays and an adapter's whole cap, so each way a call can end is
reached after several retries of different kinds, and the hint of 40 exceeds
every ceiling; doubled it exceeds what a `Duration` holds there. Three replays
after an exhaustion are one more than the shift has bits, as 33 are in the code. One call suffices for what a call does by itself: calls meet in
the semaphore only. In `contended` one permit and two calls give queueing,
granting and dropping in every order; the proofs cover any number of calls. In
`sse` the caps are small enough to be used up across a refusal and a first
event, and streams share nothing. In `framing` six bytes hold two line ends of
two bytes and the bytes around them. In `pool` two tasks are what overlap takes,
pools do not touch each other, and three renewers let a pool be created, deleted
and created again. `Renewers` is the one bound that is not a parameter of the
code: when all were used, a create waits for ever in the model, so nothing about
creates returning is claimed. In `waits` the timeout of five is not a multiple of
the interval, so the last sleep is a cut one, and an interval of zero gives looks
without a pause; two chunks give a good one before and after a bad one; a
download's loop does nothing else with a third, and the proofs cover any number.
In `endpoints` an argument takes each of the values its code branches on, and
arguments that meet in no branch are varied apart; buffers are all those of one
or two bytes and the corners of the longer ones. `HighHalf` stands for the narrowing of a double: it
is one of the functions `Narrowed` may be. With two
values to a byte an `f32` keeps three bits of an integer, and the corners are rounded
up and down, at half too.

`LineDecoder.cfg` and `MCEndpoints.cfg` turn the deadlock check off, because a
closed body and a finished call have no next step. In the other modules an
explicit last step (`Quiescent`, `Gone`) says where stopping is right.

One disagreement shows in a run that passes. The docs of `extra_body`
(`generate.rs:300`) let it override anything the builder set; `DefiningFieldsHold`
holds of the code in `endpoints` and says the opposite of `prompt`, `max_new_tokens`
and a stream's `stream`.

Runs that end in a violation, each a disagreement between the code and what it
says of itself:

| Run | Property | What happens |
|---|---|---|
| `budget` | `BudgetBound` | the attempt's timeout is computed before the wait for a permit, so a call that queued outlives `provision_timeout`; `OverrunIsQueueing` bounds by how much |
| `transfer` | `TransferGetsItsTime` | `send_with_timeout` raises the budget to the floor, but each attempt keeps the client's timeout |
| `trailing` | `ErrorNeverSwallowed` | an error event without a final newline ends the stream as if it were complete |
| `kept` | `CreatedPoolIsRenewed` | `delete` stops the lease and then fails: the pool is left without renewer |
| `expired` | `ExpiredIsSkipped` | a payload that expires between the status and its download fails `results` instead of being left out |

## What is proved

For any sets of calls, requests, answers and events, any number of permits,
pools, tasks and chunks, any delays, caps, timeouts, intervals and lag that meet
the modules' assumptions (durations are natural numbers, the base delays and the
client's timeout are positive, `max_concurrency` is positive, the OOM ceiling is a
`Duration` that the base reaches within the width of the shift):

| Theorem | States |
|---|---|
| `TypeCorrect` | `[]TypeOK` of `ClientSend` |
| `ScheduleDoubles` | each delay of the OOM schedule is twice the one before, up to the ceiling, for every attempt, hint and width |
| `SleepsKeepDoubling` | `OomBacksOff`, an action property |
| `PermitsNeverLeak` | `[]PermitsAccounted` |
| `SleepsFitTheBudget` | `[]OverrunIsQueueing` |
| `ReportedRetriesAreExact` | `[]RetriesAreResends` |
| `GenerationNeverReplayed` | `NeverReplayedOnceReached`, an action property |
| `Refinement` | `ClientSend` implements `RequestContract` |
| `CapsHold` | `[]RetryCaps` |
| `ImpatientFailsFast` | `[]FailFast` |
| `NoCallOutlivesItsBudget` | `[]BudgetBound`, if there is a permit for every call (`PermitForEach`) |
| `ExhaustionIsReported` | `[]ExhaustionNotMasked`, if timers are on time (`Lag = 0`) |
| `OneGenerationPerStream` | `[]OneGeneration` of `SseStream` |
| `OneBudgetPerStream` | `[]OneBudget` |
| `StreamTypeCorrect` | `[]TypeOK` of `SseStream` |
| `StreamsKeepTheContract` | `SseStream` implements `StreamContract` |
| `ChunksMakeNoDifference` | `[]FramingIgnoresChunks` of `LineDecoder`, for any alphabet, body and chunks |
| `RegistryIsExact` | `[]RegistryExact` of `PoolLease` |
| `NoOrphans` | `[]NoOrphanWithoutOverlap`, whatever happens to the pools elsewhere |
| `LeaseTypeCorrect` | `[]TypeOK` of `PoolLease` |
| `JobsWaitBound`, `JobsNoReadyMissed`, `JobsReadyIsFresh`, `JobsTypeCorrect` | `[]WaitBound`, `[]NoReadyMissed`, `[]ReadyIsFresh`, `[]TypeOK` of `Jobs`; the bound counts the time the look's requests queued for permits |
| `JobsWaitsAreBounded` | the waits implement `BoundedWait`, among jobs and downloads |
| `DownloadsAreExact` | `[]ResultsExact` |

And of `Endpoints`, for any calls, any answers, any configuration, any `Byte`,
`Narrowed` and `PcmMax`, and whatever is read of a JSON document. All take `RepliesTyped` (an
answer has what its readers take for granted of an answer to that operation,
`AnswerTyped`), and some take more:

| Theorem | States | Takes, besides |
|---|---|---|
| `TypeCorrect` | `[]TypeOK` | `NoneIsNoObject`, `ReadingEnds` |
| `EncodePairsItems` | `[]EncodeIsPositional` | |
| `TensorsAreAsSent` | `[]TensorsAsSent` | |
| `MediaAreTruthful` | `[]MediaTruthful` | `NoneIsNoObject` |
| `OptionsAreLayered` | `[]OptionsLayered` | `NoneIsNoObject` |
| `ExtractionFailuresAreShown` | `[]ExtractFailuresShown` | `NoneIsNoObject` |
| `ErrorsInStreamsAreShown` | `[]StreamErrorsShown` | `NoneIsNoObject` |
| `ChargesAreWhole` | `[]ChargeIsWhole` | `NoneIsNoObject`, `StructsAreRead` |
| `TheHeaderHasTheCode` | `[]EnvelopeCodeAuthoritative` | |
| `DefiningFieldsAreTheBuilders` | `[]DefiningFieldsHold` | |
| `EdgeHeadersStayAtHome` | `[]EdgeHeadersStayHome` | |
| `WhatIsPricedIsSent` | `[]EstimatePricesTheSend` | `NoneIsNoObject` |
| `JobsAreKeyed` | `[]JobKeyed` | `NoneIsNoObject` |

And of the operators of `NumpyArray`, for any arguments that have their types:

| Theorem | States |
|---|---|
| `TensorsAreRead` | a tensor that is accepted and its rows are read of the values its buffer holds, each as an `f32` next to it or equal; its indices are the numbers of its buffer |
| `ArrayOfRows` | an array has the elements of its rows, as many as its shape says |
| `DenseOfSparse` | a dense vector has a value that was given for each index, none that a later one overwrites, and zero elsewhere |
| `BatchIsMaxsim` | `maxsim_batch` is `maxsim` of each query |

`NoneIsNoObject` says that `None`, a constant, is not one of the functions that
stand for objects. `ReadingEnds` says that reading a document has a result, and
`StructsAreRead` that a document read as a struct gives the struct's fields or the
decoding error. What these say of serde is all the theorems know of it;
`MCEndpoints` has TLC evaluate the last for every struct an answer of a generation
is read as (`StructsAreReadHere`). That calls have what their types say
(`CallTyped`) is an assumption of the module itself, `CallsAssumption`, which TLC
evaluates on the run's 30 sets.

The arguments:

* *Decisions.* `RetryStateProofs` shows what the send loop needs to know of a
  decision (`Decided`): the call is over, or some budget is left and it sleeps
  no longer than that budget. Everything after it argues about `Decided`
  instead of about nine kinds of answers.
* *Permits.* `PermitsAccounted` is not inductive by itself: a granted permit
  must go to a call that really waits, and a dropped future must be found in the
  queue. `QueueOK` says that the queue holds exactly the queued calls, each
  once; with it, each step either moves one call outside the queue (`Moves`) or
  is one of the queue's three operations.
* *Budget.* `BudgetInv` strengthens `OverrunIsQueueing` with what a call knows
  ahead of time: a sleeper's wake-up lies within the budget, and the timeout of
  a queued or sent attempt fits the budget as it was when it was computed. The
  runtime's lag is the only slack.
* *Retries.* `ResendsInv` keeps `attempts` and `retries` in pace in every phase,
  the queue included.
* *No replay.* `ReplayInv` says where a generation that may have run can be:
  done, dropped, or reading the body of a stream's refusal that no branch
  retries.
* *Refinement.* The mapping takes `inflight` calls for the requests on the wire
  and `reached` for what may have run. Each step of the loops is one of the
  contract's four actions or invisible; `PermitsAccounted` gives the limit and
  `ReplayInv` that a generation is put on the wire only before it may have run.
* *Caps.* `CapsInv` charges each replay to the counters: an OOM or an adapter
  replay is one of `retries`, so no mixture of answers exceeds a cap by spending
  the other's; only the answer that exhausts the adapter's cap is counted and
  not replayed. `FastAt` remembers what a sleeping call sleeps after.
* *Streams.* A stream's safety rests on what it is between two connections:
  `Charged` (one retry per request, whether a refusal or a first event asked for
  it), `Clean` (no connection before the last delivered anything, nor the last
  one while another may follow) and `InTime` (sleeps and deadlines lie within
  the budget of the first connection). `RetryStateProofs` supplies what a
  decision does.
* *Stream contract.* The contract sees of a stream how it is over, its requests,
  and which of them its consumer has chunks of. Each action is told by what it does
  to one stream's share of that. The retry machine's decisions, whatever was
  answered, are one of two things: the stream fails, or nothing is seen
  (`Verdict`). `Clean` is what lets a connection follow another, `InTime` what
  lets time pass, `Charged` that a stream which ends well did send something.
* *Budget, sharply.* With a permit for each call nobody is seen waiting when time
  passes (`PromptInv`, a counting argument: a waiter leaves a permit unused), so
  an attempt is sent at the moment its timeout was computed and `BudgetInv`'s
  slack for the queue is nothing. Without that hypothesis the property is false:
  run `budget` has the counterexample.
* *Exhaustion.* `ExhaustionInv` follows a call from a `RESOURCE_EXHAUSTED` answer
  through its sleep: a sleep is taken only if it leaves some of the budget, and a
  timer on time wakes it with that rest, so `attempt_timeout` does not find the
  budget gone. A late timer can, which is why `Lag = 0` is needed.
* *Backing off.* The schedule is a shift, a product and a minimum, each at its width.
  `Factors` says where the shift ends, and `ScaledIsCapped` that a product which no
  `Duration` holds exceeds the ceiling anyway; from these each delay is twice the
  one before (`ScheduleDoubles`). A larger base only lengthens it
  (`DoublingIsFloor`), so no hint makes a sleep fall below the doubling base.
* *Framing.* `push` is followed turn by turn with the place of the whole body that
  it has come to (`Reached`): the lines handed out are those of the bytes before
  it, the rest is what is after it, and each turn goes on to the next newline or
  there is none (`CutReaches`). That the loop comes to its end is an induction over
  its turns, from the well-foundedness of the naturals (`Reaches`); that the k-th
  newline ends the k-th line is an argument on cardinalities (`NextLine`). More
  bytes do not change the lines of those before (`MoreBytes`).
* *Registry.* `LeaseInv` adds to `RegistryExact` the types and `CallsHold`: a
  call that is awaited keeps the client alive, so a create's answer never starts
  a renewer after the drop.
* *Orphans.* `Untangled` says of a pool without overlap what is on its way: a
  delete in progress has stopped the lease, and a create that was answered well
  was the latest thing done to the name by this client, because no other task of it
  can be deleting it. The argument is about `effect` and not about the pools
  themselves: a pool that expired, or that another client deleted, keeps a renewer,
  since `run` (`pools.rs:229`) goes on after failed rounds.
* *Waits.* Four invariants next to the types. `Clock` ties the time of each phase
  to the deadline and to `queued`: a look starts before the deadline or at the first
  wake-up after it, and from there only its requests' timeouts and its queueing count.
  `Seen` relates the history to the world. `Answered` says that what the server
  read was true at a moment of this request. `Outcome` carries the verdict from
  there to the end. `BoundedWait`'s steps then follow action by action.
* *Downloads.* `results` reads a snapshot of the chunks: `SoFar` says that `items`
  are exactly the rows of the chunks passed over, in order, and `retrieved`
  their number; `StillThere` that a chunk which is read now has the rows its
  status had, since payloads only expire and repairs leave what succeeded alone.
  Exactness follows at the last chunk; the counting is a lemma on cardinalities.
* *Endpoints.* A property speaks of a call at some stage, after the operators that
  decide it were evaluated, so the invariant keeps what each stage has settled: a
  posted request is the one its operation builds of the call (`Asked`), an outcome
  is what its operation makes of the answer (`Concluded`) or, when nothing was sent,
  of the arguments (`Computed`), and what was priced is what the call builds, unless
  an image is read from disk (`Priced`). Each property is then a lemma about those
  operators: that `All` of a list of results keeps places, that a body built in
  layers has the last layer's fields, that a metering record is completed or
  dropped as a whole.
* *Tensors.* A recursive function over lengths has a table (`TableExists`), and an
  induction over lengths is the least element of the lengths at which it fails
  (`Reaches`); with these two the number that some bytes are is followed byte by
  byte. A digit of a number is that byte again, for a pattern and for its two's
  complement (`BytesRoundTrip`), a buffer cut into elements or into rows is the
  buffer when put together, and an accepted buffer is a whole number of elements:
  its length is right modulo `usize`, which every width divides, a byte having an
  even number of values (`WidthDivides`). An integer's `f32` is a
  multiple of a power of two that is at most one part in 2^23 of it (`UnitIs`), so the
  nearest is off by half of that (`RoundedNear`). `TensorsAreAsSent` then needs of the
  protocol only that an encode's result is made of its item (`EncodedFields`).

Proving corrected the model: cases of `CASE` that overlapped, of which TLC had
taken the first, are now chains of `IF` in the code's order. It also showed that
the last clamp of the PCM conversion does nothing, the scaled sample being in
range already; that a byte of an odd number of values would let a buffer end in the
middle of an element, which `ByteAssumption` now excludes; and that the statement
about sparse vectors was about indices which have no value, where `zip` stops.

Only model-checked: the three liveness properties, which are outside the provers'
reach, and `NullIsAbsence`, which is about serde's reading itself, recursive over
types, that the theorems leave open.

## What is not modelled, and why

* Jitter is a set of whole units, not a distribution; sub-unit times are not
  there. In time, `Retry-After` is a number or nothing: its parsing, and what a
  `Duration` does with a number it cannot hold, are left out.
* Redirects, connection pooling, TLS, and everything inside `reqwest`, `serde`,
  `rmpv` and the WebSocket library, but for what the SDK relies on.
* The wording of messages; the accessors of results and types (`sparse_map`,
  `require_dense`, `delta` and the like), constructors of plain data (messages,
  grammars), `msg::to_json`, the tables of dtype names.
* The JPEG encoder, the magic bytes by which formats are recognised and the bytes
  of a WAV header: what a file is, is an input. Floating point: scores
  and samples are whole numbers; a float of a tensor is its pattern, so not-a-number
  is a pattern like others, and how `as` rounds a double is the parameter `Narrowed`.
* Some hazards have no property, or one that covers a part of them only, because the
  code promises nothing more; `PROJECT.json` says of each why. Among them: a server that
  reorders its answer, which no client can see; a stream that the client's own timeout
  cuts between two chunks; errors that no wait can cure (a wrong URL, a bad key) and
  that waits swallow until their deadline.
* Documents given as JSON arrays: `serde` reads structs from those as well,
  `JsonDocuments` reads them from objects only.
* `max_concurrency(0)`, which waits for ever, is excluded by `SendAssumption`.
* A consumer that holds a stream without polling it: the models poll at once.
* The blocking facade, which drives the asynchronous client on a runtime of its
  own, one call at a time.

## Plan

Done: the request path, the streams, the leases and the waits with their abstract
specifications, framing, every endpoint's requests and answers, and the theorems
above. Left, in this order:

1. Streams that reconnect under the shared semaphore, next to buffered calls.
2. A renewer in real time next to its pool's time to live on the server, to say
   for which intervals a lease survives a round of failed attempts.
