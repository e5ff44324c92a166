------------------------------ MODULE SseStream ------------------------------
(***************************************************************************)
(* One generation read as server-sent events (src/client/stream.rs): the   *)
(* connection is opened through send_streaming, its events are decoded one *)
(* line at a time, and a capacity error in the first event reconnects with *)
(* the retry state the opening already used.  Each call is one stream; the *)
(* streams of one client do not touch each other, so Calls may be a        *)
(* singleton.                                                              *)
(*                                                                         *)
(* The consumer polls the stream as soon as something is ready, or drops   *)
(* it.  MaxChunks bounds the chunks of one generation in the model only.   *)
(***************************************************************************)
EXTENDS RetryState, Sequences

CONSTANTS
  Requests,      \* options of the streams; the policy is STREAM
  Refusals,      \* answers that open no stream
  Hints,         \* Retry-After values an opening response may carry
  ErrorCodes,    \* codes an error event may carry
  MaxChunks

ASSUME StreamAssumption ==
  /\ Requests \subseteq [policy : {STREAM}, stream : {TRUE}, wait_for_capacity : BOOLEAN,
                         provision_timeout : Nat, max_oom_retries : Nat]
  /\ Refusals \subseteq [status : (300..599), code : Codes, hint : Hint]
  /\ Hints \subseteq Hint
  /\ ErrorCodes \subseteq Codes
  /\ MaxChunks \in Nat

VARIABLES
  deadline,     \* when the current attempt times out, its body included
  sentAt,       \* when the current attempt was sent
  hint,         \* Retry-After of the response that opened the stream
  yielded,      \* sse_stream's local: a chunk was handed to the consumer
  \* History, for the properties.
  attempts,     \* requests sent
  delivered,    \* chunks handed to the consumer, per connection
  lastEvent     \* the latest event of the current connection

history == <<attempts, delivered, lastEvent>>

vars == <<now, req, start, retries, oom_retries, lora_retries, phase, wakeAt,
          result, deadline, sentAt, hint, yielded, history>>

Live(c) == phase[c] \notin {"idle", "done", "dropped"}

---------------------------------------------------------------------------
Init ==
  /\ now = 0
  /\ req \in [Calls -> Requests]
  /\ start = [c \in Calls |-> 0]
  /\ retries = [c \in Calls |-> 0]
  /\ oom_retries = [c \in Calls |-> 0]
  /\ lora_retries = [c \in Calls |-> 0]
  /\ phase = [c \in Calls |-> "idle"]
  /\ wakeAt = [c \in Calls |-> 0]
  /\ result = [c \in Calls |-> "none"]
  /\ deadline = [c \in Calls |-> 0]
  /\ sentAt = [c \in Calls |-> 0]
  /\ hint = [c \in Calls |-> NoHint]
  /\ yielded = [c \in Calls |-> FALSE]
  /\ attempts = [c \in Calls |-> 0]
  /\ delivered = [c \in Calls |-> <<>>]
  /\ lastEvent = [c \in Calls |-> "none"]

\* The first poll of the stream.
Begin(c) ==
  /\ phase[c] = "idle"
  /\ phase' = [phase EXCEPT ![c] = "loop"]
  /\ start' = [start EXCEPT ![c] = now]
  /\ UNCHANGED <<now, req, counters, wakeAt, result, deadline, sentAt, hint, yielded, history>>

(***************************************************************************)
(* Opening a connection: send_streaming without its semaphore, which       *)
(* module ClientSend has.                                                  *)
(***************************************************************************)
OutOfBudget(c) ==
  /\ phase[c] = "loop"
  /\ Remaining(c) = 0
  /\ Fail(c, "Provisioning")
  /\ UNCHANGED <<now, req, start, oom_retries, lora_retries, deadline, sentAt, hint,
                 yielded, history>>

Connect(c) ==
  /\ phase[c] = "loop"
  /\ Remaining(c) > 0
  /\ phase' = [phase EXCEPT ![c] = "inflight"]
  /\ deadline' = [deadline EXCEPT ![c] = now + AttemptTimeout(c)]
  /\ sentAt' = [sentAt EXCEPT ![c] = now]
  /\ attempts' = [attempts EXCEPT ![c] = @ + 1]
  /\ delivered' = [delivered EXCEPT ![c] = Append(@, 0)]
  /\ lastEvent' = [lastEvent EXCEPT ![c] = "none"]
  /\ UNCHANGED <<now, req, start, counters, wakeAt, result, hint, yielded>>

Opened(c) ==
  /\ phase[c] = "inflight" /\ now > sentAt[c]
  /\ phase' = [phase EXCEPT ![c] = "body"]
  /\ \E h \in Hints : hint' = [hint EXCEPT ![c] = h]
  /\ UNCHANGED <<now, req, start, counters, wakeAt, result, deadline, sentAt, yielded, history>>

Refused(c) ==
  /\ phase[c] = "inflight" /\ now > sentAt[c]
  /\ \E r \in Refusals :
       \/ r.status >= 400 /\ OnResponse(c, r)
       \/ r.status < 400 /\ Fail(c, "Request") /\ UNCHANGED counters
  /\ UNCHANGED <<now, req, start, deadline, sentAt, hint, yielded, history>>

\* Slip: the timer of the attempt stops when the response opens.
Expired_headOnly(c) == now >= deadline[c] /\ phase[c] = "inflight"

Expired(c) == now >= deadline[c]

\* send() fails, or the body of a refusal does, which is never retried.
ConnectionFailed(c) ==
  /\ phase[c] = "inflight" /\ now > sentAt[c]
  /\ \/ \E transient \in BOOLEAN : OnTransportError(c, "Connect", transient)
     \/ OnTransportError(c, "MidFlight", FALSE)
     \/ Expired(c) /\ OnTransportError(c, "Timeout", FALSE)
     \/ Fail(c, "Connection") /\ UNCHANGED counters
  /\ UNCHANGED <<now, req, start, deadline, sentAt, hint, yielded, history>>

---------------------------------------------------------------------------
(***************************************************************************)
(* Reading the body.  Event is the part every decoded event has in common. *)
(***************************************************************************)
Event(c, kind) ==
  /\ phase[c] = "body" /\ now <= deadline[c]
  /\ lastEvent' = [lastEvent EXCEPT ![c] = kind]
  /\ UNCHANGED <<now, req, start, deadline, sentAt, hint, attempts>>

BodyFailed(c) ==
  /\ phase[c] = "body"
  /\ Fail(c, "Connection")
  /\ UNCHANGED <<now, req, start, oom_retries, lora_retries, deadline, sentAt, hint,
                 yielded, history>>

BodyLost(c) == BodyFailed(c)

\* The body outlived the timeout of its attempt.
BodyTimedOut(c) == Expired(c) /\ BodyFailed(c)

Delivered(c) == delivered' = [delivered EXCEPT ![c][attempts[c]] = @ + 1]

ChunkEvent(c) ==
  /\ Event(c, "chunk")
  /\ delivered[c][attempts[c]] < MaxChunks
  /\ yielded' = [yielded EXCEPT ![c] = TRUE]
  /\ Delivered(c)
  /\ UNCHANGED <<counters, phase, wakeAt, result>>

\* `data: [DONE]`.
DoneEvent(c) ==
  /\ Event(c, "done")
  /\ Return(c, "Ended")
  /\ UNCHANGED <<oom_retries, lora_retries, yielded, delivered>>

\* The same rules as a 503 before the stream opened, on the opening's Retry-After.
AsCapacityResponse(c, code) == [status |-> 503, code |-> code, hint |-> hint[c]]

\* Slip: what was yielded is not looked at.
FirstEvent_any(c) == TRUE

FirstEvent(c) == ~yielded[c]

ErrorEvent(c, code) ==
  /\ Event(c, "error")
  /\ \/ ~FirstEvent(c) /\ Fail(c, "Server") /\ UNCHANGED counters
     \/ FirstEvent(c) /\ OnResponse(c, AsCapacityResponse(c, code))
  /\ UNCHANGED <<yielded, delivered>>

MalformedEvent(c) ==
  /\ Event(c, "malformed")
  /\ Fail(c, "Decode")
  /\ UNCHANGED <<oom_retries, lora_retries, yielded, delivered>>

\* The body ended on a line boundary.
EndOfBody(c) ==
  /\ Event(c, lastEvent[c])
  /\ Return(c, "Ended")
  /\ UNCHANGED <<oom_retries, lora_retries, yielded, delivered>>

\* The body ended in a line without its newline: a last event, decoded once more,
\* but only a chunk or a malformed payload is acted on.
TrailingEvent(c) ==
  /\ \/ /\ Event(c, "chunk")
        /\ delivered[c][attempts[c]] < MaxChunks
        /\ Delivered(c) /\ Return(c, "Ended")
     \/ /\ \E kind \in {"done", "trailing error"} : Event(c, kind)
        /\ Return(c, "Ended") /\ UNCHANGED delivered
     \/ Event(c, "malformed") /\ Fail(c, "Decode") /\ UNCHANGED delivered
  /\ UNCHANGED <<oom_retries, lora_retries, yielded>>

---------------------------------------------------------------------------
Wake(c) ==
  /\ phase[c] = "asleep" /\ now >= wakeAt[c]
  /\ phase' = [phase EXCEPT ![c] = "loop"]
  /\ UNCHANGED <<now, req, start, counters, wakeAt, result, deadline, sentAt, hint,
                 yielded, history>>

DropStream(c) ==
  /\ Live(c) /\ phase[c] # "loop"
  /\ phase' = [phase EXCEPT ![c] = "dropped"]
  /\ UNCHANGED <<now, req, start, counters, wakeAt, result, deadline, sentAt, hint,
                 yielded, history>>

Tick ==
  /\ \E c \in Calls : Live(c)
  /\ \A c \in Calls :
       /\ phase[c] # "loop"
       /\ phase[c] = "asleep" => now < wakeAt[c]
       /\ phase[c] \in {"inflight", "body"} => now < deadline[c]
  /\ now' = now + 1
  /\ UNCHANGED <<req, start, counters, phase, wakeAt, result, deadline, sentAt, hint,
                 yielded, history>>

Read(c) ==
  \/ BodyLost(c) \/ BodyTimedOut(c) \/ ChunkEvent(c) \/ DoneEvent(c) \/ MalformedEvent(c)
  \/ EndOfBody(c) \/ TrailingEvent(c)
  \/ \E code \in ErrorCodes : ErrorEvent(c, code)

Quiescent == (\A c \in Calls : phase[c] \in {"done", "dropped"}) /\ UNCHANGED vars

Next ==
  \/ \E c \in Calls :
       \/ Begin(c) \/ OutOfBudget(c) \/ Connect(c) \/ Opened(c) \/ Refused(c)
       \/ ConnectionFailed(c) \/ Read(c) \/ Wake(c) \/ DropStream(c)
  \/ Tick
  \/ Quiescent

\* The server owes no event; the attempt's timer and the consumer's polls do run.
Fairness ==
  /\ WF_vars(Tick)
  /\ \A c \in Calls :
       WF_vars(\/ OutOfBudget(c) \/ Connect(c) \/ Wake(c)
               \/ (Expired(c) /\ ConnectionFailed(c)) \/ BodyTimedOut(c))

Spec == Init /\ [][Next]_vars /\ Fairness

---------------------------------------------------------------------------
TypeOK ==
  /\ RetryTypeOK
  /\ \A f \in {deadline, sentAt, attempts} : f \in [Calls -> Nat]
  /\ hint \in [Calls -> Hints \cup {NoHint}]
  /\ yielded \in [Calls -> BOOLEAN]
  /\ \A c \in Calls :
       /\ Len(delivered[c]) = attempts[c]
       /\ {wakeAt[c], deadline[c]} \subseteq 0..start[c] + Budget(c)

\* "Once a chunk has been yielded, any error is terminal": the consumer never gets
\* chunks of two generations, however the opening and the reading interleave, and
\* nothing is sent once it got one.
OneGeneration ==
  \A c \in Calls : \A i \in 1..Len(delivered[c]) :
    delivered[c][i] > 0 => i = Len(delivered[c])

\* A stream keeps to one budget and one set of caps over all its connections: it is
\* over when provision_timeout is, and the RESOURCE_EXHAUSTED replays that answer a
\* refusal and those that answer a first event share max_oom_retries.
OneBudget ==
  \A c \in Calls :
    /\ Live(c) => now <= start[c] + Budget(c)
    /\ oom_retries[c] <= req[c].max_oom_retries
    /\ phase[c] \in {"inflight", "body"} => attempts[c] = retries[c] + 1

\* "An error that arrives as the first SSE event is treated exactly like an HTTP 503"
\* and "once a chunk has been yielded, any error is terminal": no stream whose server
\* ended it with an error event ends cleanly.
ErrorNeverSwallowed ==
  \A c \in Calls : result[c] = "Ended" => lastEvent[c] # "trailing error"

\* How a stream is over, and the connections its consumer has chunks of.
Status(c) ==
  IF phase[c] \in {"idle", "dropped"} THEN phase[c]
  ELSE IF phase[c] # "done" THEN "open"
  ELSE IF result[c] = "Ended" THEN "ended" ELSE "failed"

Sources(c) == {i \in DOMAIN delivered[c] : delivered[c][i] > 0}

Contract == INSTANCE StreamContract WITH
  Streams <- Calls,
  budget <- [c \in Calls |-> Budget(c)],
  status <- [c \in Calls |-> Status(c)],
  since <- start,
  sent <- attempts,
  sources <- [c \in Calls |-> Sources(c)]

\* sse_stream keeps the promises of StreamContract: through refusals, failed
\* connections and capacity errors in a first event, it asks again only while its
\* consumer has nothing and its provision_timeout lasts.
ImplementsStreamContract == Contract!Spec

\* Whatever the server sends or holds back, a polled stream ends.
EveryStreamEnds ==
  \A c \in Calls : Live(c) ~> ~Live(c)
=============================================================================
