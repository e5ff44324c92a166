----------------------------- MODULE ClientSend -----------------------------
(***************************************************************************)
(* The request path every endpoint goes through (src/client/mod.rs): the   *)
(* buffered loop `send` and the streaming loop `send_streaming`, for any   *)
(* number of concurrent calls on one client.  The calls share the          *)
(* max_concurrency semaphore and the clock, and decide what to do with     *)
(* every outcome through RetryState.  The environment is a server that     *)
(* answers anything, late or never, a network that fails before or after   *)
(* the request is written, and a caller that may drop the future at any    *)
(* await.                                                                  *)
(*                                                                         *)
(* An attempt takes at least one unit of time, a unit being as short as    *)
(* the fastest round trip.  Timers fire at most Lag units late.            *)
(***************************************************************************)
EXTENDS RetryState, Sequences, FiniteSets

CONSTANTS
  Requests,        \* what the calls may ask for
  Responses,       \* the answers the server may give
  MaxConcurrency,  \* permits of the semaphore (no semaphore: one per call)
  Lag              \* how late the runtime may run an expired timer

ASSUME SendAssumption ==
  /\ Requests \subseteq Request
  /\ Responses \subseteq Response
  /\ MaxConcurrency \in Nat \ {0}
  /\ Lag \in Nat

VARIABLES
  permits,         \* available permits of Inner::concurrency
  waiters,         \* calls queued on the semaphore, first come first served
  timeout,         \* timeout of the current attempt
  sentAt,          \* when the current attempt was put on the wire
  answer,          \* the refused answer whose body is being read (streams)
  \* What happened so far, for the properties; the code keeps none of these.
  attempts,        \* requests put on the wire
  reached,         \* an attempt may have started work on a worker
  last,            \* how the latest attempt ended
  queuedAt         \* when the attempt's timeout was computed

history == <<attempts, reached, last, queuedAt>>

vars == <<now, req, start, retries, oom_retries, lora_retries, phase, wakeAt,
          result, permits, waiters, timeout, sentAt, answer, history>>

Live(c) == phase[c] \notin {"idle", "done", "dropped"}
Holders == {c \in Calls : phase[c] = "inflight"}
NoAnswer == [status |-> 0, code |-> "OTHER", hint |-> NoHint]

\* A gateway timeout comes after the request was published to the workers' queue;
\* a 2xx, a 4xx or a plain 5xx may come from a worker.  A 503 never ran anything.
MayHaveRun(r) == r.status # 503 /\ ~LoadFailed(r)

\* A queue in which c stands once, with c gone from it.
Without(queue, c) ==
  LET i == CHOOSE k \in 1..Len(queue) : queue[k] = c
  IN SubSeq(queue, 1, i - 1) \o SubSeq(queue, i + 1, Len(queue))

\* A code asks the client to come back only in a 503.
Outcome(r) ==
  IF r.status < 400 THEN "ok" ELSE IF r.status = 503 THEN r.code ELSE "OTHER"
Outcomes == Codes \cup {"none", "ok", "Connect", "MidFlight", "Timeout"}

---------------------------------------------------------------------------
Init ==
  /\ now = 0
  /\ req \in [Calls -> Requests]
  /\ start = [c \in Calls |-> 0]
  /\ retries = [c \in Calls |-> 0]
  /\ oom_retries = [c \in Calls |-> 0]
  /\ lora_retries = [c \in Calls |-> 0]
  /\ phase = [c \in Calls |-> "idle"]
  /\ wakeAt = [c \in Calls |-> 0]
  /\ result = [c \in Calls |-> "none"]
  /\ permits = MaxConcurrency
  /\ waiters = <<>>
  /\ timeout = [c \in Calls |-> 0]
  /\ sentAt = [c \in Calls |-> 0]
  /\ answer = [c \in Calls |-> NoAnswer]
  /\ attempts = [c \in Calls |-> 0]
  /\ reached = [c \in Calls |-> FALSE]
  /\ last = [c \in Calls |-> "none"]
  /\ queuedAt = [c \in Calls |-> 0]

\* RetryState::new.
Begin(c) ==
  /\ phase[c] = "idle"
  /\ phase' = [phase EXCEPT ![c] = "loop"]
  /\ start' = [start EXCEPT ![c] = now]
  /\ UNCHANGED <<now, req, counters, wakeAt, result, permits, waiters, timeout,
                 sentAt, answer, history>>

(***************************************************************************)
(* The head of the loop.  attempt_timeout is computed first; only then     *)
(* does the call ask for its permit.                                       *)
(***************************************************************************)
OutOfBudget(c) ==
  /\ phase[c] = "loop"
  /\ Remaining(c) = 0
  /\ Fail(c, "Provisioning")
  /\ UNCHANGED <<now, req, start, oom_retries, lora_retries, permits, waiters,
                 timeout, sentAt, answer, history>>

Enqueue(c) ==
  /\ phase[c] = "loop"
  /\ Remaining(c) > 0
  /\ phase' = [phase EXCEPT ![c] = "queued"]
  /\ timeout' = [timeout EXCEPT ![c] = AttemptTimeout(c)]
  /\ waiters' = Append(waiters, c)
  /\ queuedAt' = [queuedAt EXCEPT ![c] = now]
  /\ UNCHANGED <<now, req, start, counters, wakeAt, result, permits, sentAt,
                 answer, attempts, reached, last>>

\* Slip: every call gets a permit.
PermitFree_always == TRUE

PermitFree == permits > 0

\* tokio's semaphore grants permits in the order they were asked for.
Send(c) ==
  /\ waiters # <<>> /\ Head(waiters) = c
  /\ PermitFree
  /\ permits' = permits - 1
  /\ waiters' = Tail(waiters)
  /\ phase' = [phase EXCEPT ![c] = "inflight"]
  /\ sentAt' = [sentAt EXCEPT ![c] = now]
  /\ attempts' = [attempts EXCEPT ![c] = @ + 1]
  /\ UNCHANGED <<now, req, start, counters, wakeAt, result, timeout, answer,
                 reached, last, queuedAt>>

---------------------------------------------------------------------------
Deadline(c) == sentAt[c] + timeout[c]

\* Slip: the requests that open streams are built without a timeout.
Expired_bufferedOnly(c) == now >= Deadline(c) /\ ~req[c].stream

Expired(c) == now >= Deadline(c)

\* Slip: an attempt that ended keeps its permit.
Release_never == UNCHANGED permits

Release == permits' = permits + 1

Ended(c, how, ran) ==
  /\ last' = [last EXCEPT ![c] = how]
  /\ reached' = [reached EXCEPT ![c] = @ \/ ran]
  /\ UNCHANGED <<now, req, start, waiters, timeout, sentAt, attempts, queuedAt>>

\* A buffered answer was read to its end; the permit goes before the decision's sleep.
Answered(c, r) ==
  /\ phase[c] = "inflight" /\ ~req[c].stream
  /\ now > sentAt[c]
  /\ Release
  /\ OnResponse(c, r)
  /\ Ended(c, Outcome(r), MayHaveRun(r))
  /\ UNCHANGED answer

\* The stream opened: the call returns its body, the permit is already back.
StreamOpened(c, r) ==
  /\ phase[c] = "inflight" /\ req[c].stream
  /\ now > sentAt[c]
  /\ r.status \in 200..299
  /\ Release
  /\ Return(c, "Stream")
  /\ Ended(c, "ok", TRUE)
  /\ UNCHANGED <<oom_retries, lora_retries, answer>>

\* The head of a refusal arrived; its body is read without a permit.
StreamRefused(c, r) ==
  /\ phase[c] = "inflight" /\ req[c].stream
  /\ now > sentAt[c]
  /\ r.status \notin 200..299
  /\ Release
  /\ phase' = [phase EXCEPT ![c] = "body"]
  /\ answer' = [answer EXCEPT ![c] = r]
  /\ Ended(c, Outcome(r), MayHaveRun(r))
  /\ UNCHANGED <<counters, wakeAt, result>>

\* Accepting an answer that opened no stream is still an error (handle_error).
RefusalRead(c) ==
  /\ phase[c] = "body"
  /\ \/ answer[c].status >= 400 /\ OnResponse(c, answer[c])
     \/ answer[c].status < 400 /\ Fail(c, "Request") /\ UNCHANGED counters
  /\ answer' = [answer EXCEPT ![c] = NoAnswer]
  /\ UNCHANGED <<now, req, start, permits, waiters, timeout, sentAt, history>>

\* The refusal's body broke off: a transport failure that is not offered for retry.
RefusalLost(c) ==
  /\ phase[c] = "body"
  /\ Fail(c, "Connection")
  /\ answer' = [answer EXCEPT ![c] = NoAnswer]
  /\ UNCHANGED <<now, req, start, oom_retries, lora_retries, permits, waiters,
                 timeout, sentAt, history>>

ConnectFailed(c, transient) ==
  /\ phase[c] = "inflight"
  /\ now > sentAt[c]
  /\ Release
  /\ OnTransportError(c, "Connect", transient)
  /\ Ended(c, "Connect", FALSE)
  /\ UNCHANGED answer

ConnectionLost(c) ==
  /\ phase[c] = "inflight"
  /\ now > sentAt[c]
  /\ Release
  /\ OnTransportError(c, "MidFlight", FALSE)
  /\ Ended(c, "MidFlight", TRUE)
  /\ UNCHANGED answer

TimedOut(c) ==
  /\ phase[c] = "inflight"
  /\ Expired(c)
  /\ Release
  /\ OnTransportError(c, "Timeout", FALSE)
  /\ Ended(c, "Timeout", TRUE)
  /\ UNCHANGED answer

Wake(c) ==
  /\ phase[c] = "asleep"
  /\ now >= wakeAt[c]
  /\ phase' = [phase EXCEPT ![c] = "loop"]
  /\ UNCHANGED <<now, req, start, counters, wakeAt, result, permits, waiters,
                 timeout, sentAt, answer, history>>

\* The caller drops the future at one of its awaits: the permit of an attempt in
\* flight and the place of a queued one go with it.
DropFuture(c) ==
  /\ phase[c] \in {"queued", "inflight", "body", "asleep"}
  /\ phase' = [phase EXCEPT ![c] = "dropped"]
  /\ permits' = IF phase[c] = "inflight" THEN permits + 1 ELSE permits
  /\ waiters' = IF phase[c] = "queued" THEN Without(waiters, c) ELSE waiters
  /\ answer' = [answer EXCEPT ![c] = NoAnswer]
  /\ UNCHANGED <<now, req, start, counters, wakeAt, result, timeout, sentAt, history>>

\* Time does not pass over a step that is due, except for the runtime's lag.
Tick ==
  /\ \E c \in Calls : Live(c)
  /\ \A c \in Calls : phase[c] # "loop"
  /\ waiters = <<>> \/ ~PermitFree
  /\ \A c \in Calls :
       /\ phase[c] = "asleep" => now < wakeAt[c] + Lag
       /\ phase[c] \in {"inflight", "body"} => now < Deadline(c) + Lag
  /\ now' = now + 1
  /\ UNCHANGED <<req, start, counters, phase, wakeAt, result, permits, waiters,
                 timeout, sentAt, answer, history>>

Attempt(c) ==
  \/ \E r \in Responses :
       Answered(c, r) \/ StreamOpened(c, r) \/ StreamRefused(c, r)
  \/ RefusalRead(c)
  \/ RefusalLost(c)
  \/ \E transient \in BOOLEAN : ConnectFailed(c, transient)
  \/ ConnectionLost(c)
  \/ TimedOut(c)

\* Every call has returned or was dropped.
Quiescent == (\A c \in Calls : phase[c] \in {"done", "dropped"}) /\ UNCHANGED vars

Next ==
  \/ \E c \in Calls :
       \/ Begin(c) \/ OutOfBudget(c) \/ Enqueue(c) \/ Send(c)
       \/ Attempt(c) \/ Wake(c) \/ DropFuture(c)
  \/ Tick
  \/ Quiescent

\* The runtime polls what is ready and time passes; the server, the network and
\* the caller owe nothing.
Fairness ==
  /\ WF_vars(Tick)
  /\ \A c \in Calls :
       WF_vars(OutOfBudget(c) \/ Enqueue(c) \/ Send(c) \/ TimedOut(c)
               \/ RefusalLost(c) \/ Wake(c))

Spec == Init /\ [][Next]_vars /\ Fairness

---------------------------------------------------------------------------
TypeOK ==
  /\ RetryTypeOK
  /\ req \in [Calls -> Requests]
  /\ permits \in Nat
  /\ waiters \in Seq(Calls)
  /\ timeout \in [Calls -> Nat]
  /\ sentAt \in [Calls -> Nat]
  /\ answer \in [Calls -> Responses \cup {NoAnswer}]
  /\ attempts \in [Calls -> Nat]
  /\ reached \in [Calls -> BOOLEAN]
  /\ last \in [Calls -> Outcomes]
  /\ queuedAt \in [Calls -> Nat]

\* No outcome of an attempt, no dropped future and no path out of the loop leaks or
\* mints a permit (`permit`, and the scopes it lives in), and the queue holds each
\* waiting call once and nobody else: a dropped future left in it would be granted
\* a permit nobody gives back.
PermitsAccounted ==
  /\ permits + Cardinality(Holders) = MaxConcurrency
  /\ \A c \in Calls :
       Cardinality({i \in DOMAIN waiters : waiters[i] = c})
         = IF phase[c] = "queued" THEN 1 ELSE 0

\* Generation "never replays a request that may already have reached a worker": once
\* an attempt of a generate or stream call may have run, no further request is sent.
NeverReplayedOnceReached ==
  [][\A c \in Calls :
       Policy(c) \in {GENERATE, STREAM} /\ reached[c] => attempts'[c] = attempts[c]]_vars

\* Sleeps end inside provision_timeout, and an attempt can outlive it only by the
\* time its call stood in the semaphore's queue after the timeout was computed.
OverrunIsQueueing ==
  \A c \in Calls :
    /\ phase[c] \in {"loop", "asleep"} => now <= start[c] + Budget(c) + Lag
    /\ phase[c] \in {"inflight", "body"} =>
         now <= start[c] + Budget(c) + (sentAt[c] - queuedAt[c]) + Lag

\* "Total wall-clock budget for the call, retries included": no call is still
\* running after its provision_timeout.  True when no call has to queue.
BudgetBound ==
  \A c \in Calls : Live(c) => now <= start[c] + Budget(c) + Lag

\* The number of retries a successful call reports is the number of requests it
\* sent after the first.
RetriesAreResends ==
  \A c \in Calls :
    /\ result[c] \in {"Accepted", "Stream"} => attempts[c] = retries[c] + 1
    /\ phase[c] \in {"inflight", "body"} => attempts[c] = retries[c] + 1
    /\ phase[c] \in {"loop", "queued", "asleep"} => attempts[c] = retries[c]

\* wait_for_capacity = false fails fast: such a call never sleeps after a
\* PROVISIONING, a 504 or a transport failure, whatever came before.
FailFast ==
  \A c \in Calls :
    phase[c] = "asleep" /\ ~Wait(c) =>
      last[c] \in {"MODEL_LOADING", "LORA_LOADING", "RESOURCE_EXHAUSTED"}

\* The separate caps hold over any mixture of answers: at most max_oom_retries
\* replays after RESOURCE_EXHAUSTED and LORA_LOADING_MAX_RETRIES after
\* LORA_LOADING, and each of them is one of the counted retries.
RetryCaps ==
  \A c \in Calls :
    /\ oom_retries[c] <= req[c].max_oom_retries
    /\ oom_retries[c] + AtMost(lora_retries[c], LORA_LOADING_MAX_RETRIES) <= retries[c] +
         (IF result[c] = "LoraLoading" THEN 1 ELSE 0)
    /\ lora_retries[c] > LORA_LOADING_MAX_RETRIES => phase[c] = "done"

\* Twice as long each time, up to the ceiling.
Doubling(replays) ==
  LET delay[n \in 0..replays] ==
        AtMost(IF n = 0 THEN RESOURCE_EXHAUSTED_DELAY ELSE 2 * delay[n - 1],
               RESOURCE_EXHAUSTED_MAX_DELAY)
  IN delay

\* "`Retry-After: 0` cannot collapse the schedule" (oom_backoff_with): whatever the
\* hints, a call's sleeps after RESOURCE_EXHAUSTED, but for the first, which may be
\* the server's own, are no shorter than jitter makes the doubling base, however many
\* they are, and none exceeds the ceiling.
OomBacksOff ==
  [][\A c \in Calls :
       oom_retries'[c] # oom_retries[c] =>
         LET slept == wakeAt'[c] - now IN
         /\ slept <= RESOURCE_EXHAUSTED_MAX_DELAY
         /\ oom_retries[c] > 0 =>
              4 * slept >= 3 * Doubling(req[c].max_oom_retries)[oom_retries[c]]]_vars

Status(c) == IF phase[c] = "idle" THEN "idle" ELSE IF Live(c) THEN "open" ELSE "closed"

\* What a client promises about its calls, abstractly (module RequestContract).
Contract == INSTANCE RequestContract WITH
  Limit <- MaxConcurrency,
  once <- {c \in Calls : Policy(c) \in {GENERATE, STREAM}},
  status <- [c \in Calls |-> Status(c)],
  wire <- Holders,
  ran <- {c \in Calls : reached[c]}

\* Loop, queue, retries and drops together implement that promise: at most
\* max_concurrency requests between send and their answer, no request of a closed
\* call, and none after a generation may have run.
ImplementsContract == Contract!Spec

\* "Sleeping the whole remaining budget would surface a timeout instead of the root
\* cause": a call whose latest answer was RESOURCE_EXHAUSTED never ends with the
\* budget error (with timers on time).
ExhaustionNotMasked ==
  \A c \in Calls : result[c] = "Provisioning" => last[c] # "RESOURCE_EXHAUSTED"

\* "The per-request timeout that suits an inference call is too tight" for a
\* transfer (send_with_timeout): one that got no answer is not given up before the
\* budget raised for it is over.
TransferGetsItsTime ==
  \A c \in Calls :
    Policy(c) = NONE /\ result[c] = "Connection" /\ last[c] = "Timeout" =>
      now >= start[c] + Budget(c)

\* Whatever the server does or does not do, a call that was started returns, unless
\* its caller drops it.
EveryCallReturns ==
  \A c \in Calls : Live(c) ~> phase[c] \in {"done", "dropped"}
=============================================================================
