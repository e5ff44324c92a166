----------------------------- MODULE RetryState -----------------------------
(***************************************************************************)
(* The retry state machine of src/retry/mod.rs, one instance per logical   *)
(* call: the counters, the clock it reads, and what it decides about every *)
(* answer and every transport failure.  A decision is written as a partial *)
(* action on the call's phase; the send loop that asks for it is module    *)
(* ClientSend.                                                             *)
(***************************************************************************)
EXTENDS Backoff, RetryPolicy

CONSTANTS
  Calls,          \* the logical calls made on one client
  ClientTimeout   \* ClientBuilder::timeout

ASSUME ClientTimeoutAssumption == ClientTimeout \in Nat \ {0}

VARIABLES
  now,            \* the monotonic clock behind Instant::now()
  req,            \* per call: policy, options, and whether it opens a stream
  start,          \* RetryState::start
  retries,        \* RetryState::retries
  oom_retries,    \* RetryState::oom_retries
  lora_retries,   \* RetryState::lora_retries
  phase,          \* where the call is in its send loop
  wakeAt,         \* when the sleep of a Decision::Retry ends
  result          \* what the call returned

counters == <<retries, oom_retries, lora_retries>>

Request == [policy : RetryPolicyType, stream : BOOLEAN,
            wait_for_capacity : BOOLEAN, provision_timeout : Nat,
            max_oom_retries : Nat]

\* The error codes the client tells apart; "OTHER" is any other code, or none.
Codes == {"PROVISIONING", "MODEL_LOADING", "LORA_LOADING", "RESOURCE_EXHAUSTED",
          "MODEL_LOAD_FAILED", "QUEUE_UNAVAILABLE", "INPUT_TOO_LONG", "OTHER"}

Response == [status : Nat, code : Codes, hint : Hint]

Errors == {"Provisioning", "ModelLoading", "LoraLoading", "ResourceExhausted",
           "ModelLoadFailed", "EstimateUnroutable", "Connection",
           "InputTooLong", "Server", "Request"}

\* What a call ends with: an error, an answer, an open stream, or (SseStream) a
\* stream that ended or could not be decoded.
Results == Errors \cup {"none", "Accepted", "Stream", "Ended", "Decode"}

Phases == {"idle", "loop", "queued", "inflight", "body", "asleep", "done", "dropped"}

RetryTypeOK ==
  /\ now \in Nat
  /\ req \in [Calls -> Request]
  /\ start \in [Calls -> Nat]
  /\ retries \in [Calls -> Nat]
  /\ oom_retries \in [Calls -> Nat]
  /\ lora_retries \in [Calls -> Nat]
  /\ phase \in [Calls -> Phases]
  /\ wakeAt \in [Calls -> Nat]
  /\ result \in [Calls -> Results]

---------------------------------------------------------------------------
Policy(c) == req[c].policy
Wait(c) == req[c].wait_for_capacity
Budget(c) == req[c].provision_timeout

Elapsed(c) == now - start[c]
Remaining(c) == IF Elapsed(c) >= Budget(c) THEN 0 ELSE Budget(c) - Elapsed(c)

\* Slip: an attempt may use the whole client timeout however little is left.
AttemptTimeout_unclamped(c) == ClientTimeout

\* The timeout of the next attempt while some budget is left.
AttemptTimeout(c) == AtMost(ClientTimeout, Remaining(c))

(***************************************************************************)
(* The three decisions.  Err: the call is over.  Retry: every caller of    *)
(* the retry branches bumps `retries`, then sleeps.  Accept: the caller    *)
(* gets the response.                                                      *)
(***************************************************************************)
Return(c, value) ==
  /\ phase' = [phase EXCEPT ![c] = "done"]
  /\ result' = [result EXCEPT ![c] = value]
  /\ UNCHANGED <<retries, wakeAt>>

Fail(c, error) == Return(c, error)
Accept(c) == Return(c, "Accepted")

\* Slip: the retry is not counted.
Retry_uncounted(c, delays) ==
  \E d \in delays :
    /\ phase' = [phase EXCEPT ![c] = "asleep"]
    /\ wakeAt' = [wakeAt EXCEPT ![c] = now + d]
    /\ UNCHANGED <<retries, result>>

Retry(c, delays) ==
  \E d \in delays :
    /\ phase' = [phase EXCEPT ![c] = "asleep"]
    /\ wakeAt' = [wakeAt EXCEPT ![c] = now + d]
    /\ retries' = [retries EXCEPT ![c] = @ + 1]
    /\ UNCHANGED result

---------------------------------------------------------------------------
\* classify_transport_error puts a timeout first, even one while connecting.
OnTransportError(c, kind, transient) ==
  LET retryable == /\ Wait(c)
                   /\ IF kind = "Connect"
                      THEN Policy(c).retry_connect /\ transient
                      ELSE Policy(c).retry_midflight_transport
  IN /\ \/ retryable /\ Retry(c, TransportDelay(Remaining(c)))
        \/ ~(retryable /\ Remaining(c) > 0) /\ Fail(c, "Connection")
     /\ UNCHANGED <<oom_retries, lora_retries>>

---------------------------------------------------------------------------
(***************************************************************************)
(* on_response: the answers each branch takes, then the branches.          *)
(***************************************************************************)
LoadFailed(r) == r.status = 502 /\ r.code = "MODEL_LOAD_FAILED"

Unroutable(c, r) ==
  /\ Policy(c).estimate_unroutable
  /\ r.status = 503
  /\ r.code \in {"QUEUE_UNAVAILABLE", "PROVISIONING"}

Capacity(c, r, code) ==
  /\ r.status = 503
  /\ r.code = code
  /\ ~Unroutable(c, r)

ModelLoadingPolled(c) == ~Policy(c).model_loading_gated_on_wait \/ Wait(c)

\* Slip: the caller's choice not to wait is forgotten.
GatewayReplayed_ungated(c) == Policy(c).retry_gateway_timeout /\ Remaining(c) > 0

GatewayReplayed(c) ==
  Policy(c).retry_gateway_timeout /\ Wait(c) /\ Remaining(c) > 0

\* The answers none of the retry branches takes: handle_error, and the 504 that
\* a non-idempotent endpoint reports instead of replaying.
Terminal(c, r) ==
  /\ r.status >= 400
  /\ ~LoadFailed(r)
  /\ ~Unroutable(c, r)
  /\ r.status = 503 =>
       /\ r.code \notin {"PROVISIONING", "RESOURCE_EXHAUSTED"}
       /\ r.code = "LORA_LOADING" => ~Policy(c).lora_loading
       /\ r.code = "MODEL_LOADING" => ~ModelLoadingPolled(c)
  /\ r.status = 504 => ~GatewayReplayed(c)

TerminalError(r) ==
  CASE r.status = 400 /\ r.code = "INPUT_TOO_LONG" -> "InputTooLong"
    [] r.status >= 500 -> "Server"
    [] OTHER -> "Request"

OnProvisioning(c, r) ==
  /\ Capacity(c, r, "PROVISIONING")
  /\ \/ /\ ~Wait(c) \/ Remaining(c) = 0
        /\ Fail(c, "Provisioning")
     \/ /\ Wait(c) /\ Remaining(c) > 0
        /\ Retry(c, IF r.hint = NoHint
                    THEN Jitter(AtMost(DEFAULT_RETRY_DELAY, Remaining(c)))
                    ELSE {AtMost(r.hint, Remaining(c))})
  /\ UNCHANGED <<oom_retries, lora_retries>>

OnModelLoading(c, r) ==
  /\ Capacity(c, r, "MODEL_LOADING") /\ ModelLoadingPolled(c)
  /\ \/ Remaining(c) = 0 /\ Fail(c, "ModelLoading")
     \/ /\ Remaining(c) > 0
        /\ Retry(c, {AtMost(RetryAfterOr(r.hint, MODEL_LOADING_DELAY), Remaining(c))})
  /\ UNCHANGED <<oom_retries, lora_retries>>

\* The counter moves before the cap is looked at.
OnLoraLoading(c, r) ==
  LET exhausted == \/ lora_retries[c] + 1 > LORA_LOADING_MAX_RETRIES
                   \/ Remaining(c) = 0
  IN /\ Capacity(c, r, "LORA_LOADING") /\ Policy(c).lora_loading
     /\ lora_retries' = [lora_retries EXCEPT ![c] = @ + 1]
     /\ \/ exhausted /\ Fail(c, "LoraLoading")
        \/ /\ ~exhausted
           /\ Retry(c, {AtMost(RetryAfterOr(r.hint, LORA_LOADING_DELAY), Remaining(c))})
     /\ UNCHANGED oom_retries

\* Slip: one replay more than the cap.
OomRetriesSpent_late(c) == oom_retries[c] > req[c].max_oom_retries

OomRetriesSpent(c) == oom_retries[c] >= req[c].max_oom_retries

\* Slip: a sleep may use up the budget.
OomSleepFits_exactly(c, d) == d <= Remaining(c)

\* A sleep that would use up the budget is not taken: the exhaustion is reported.
OomSleepFits(c, d) == d < Remaining(c)

OnResourceExhausted(c, r) ==
  LET refused == \/ Policy(c).oom_gated_on_wait /\ ~Wait(c)
                 \/ OomRetriesSpent(c)
                 \/ Remaining(c) = 0
      delays == OomBackoff(r.hint, oom_retries[c])
  IN /\ Capacity(c, r, "RESOURCE_EXHAUSTED")
     /\ \/ /\ refused \/ \E d \in delays : ~OomSleepFits(c, d)
           /\ Fail(c, "ResourceExhausted")
           /\ UNCHANGED oom_retries
        \/ /\ ~refused
           /\ Retry(c, {d \in delays : OomSleepFits(c, d)})
           /\ oom_retries' = [oom_retries EXCEPT ![c] = @ + 1]
     /\ UNCHANGED lora_retries

OnGatewayTimeout(c, r) ==
  /\ r.status = 504 /\ GatewayReplayed(c)
  /\ Retry(c, {AtMost(RetryAfterOr(r.hint, MODEL_LOADING_DELAY), Remaining(c))})
  /\ UNCHANGED <<oom_retries, lora_retries>>

OnResponse(c, r) ==
  \/ LoadFailed(r) /\ Fail(c, "ModelLoadFailed") /\ UNCHANGED counters
  \/ Unroutable(c, r) /\ Fail(c, "EstimateUnroutable") /\ UNCHANGED counters
  \/ OnProvisioning(c, r)
  \/ OnModelLoading(c, r)
  \/ OnLoraLoading(c, r)
  \/ OnResourceExhausted(c, r)
  \/ OnGatewayTimeout(c, r)
  \/ Terminal(c, r) /\ Fail(c, TerminalError(r)) /\ UNCHANGED counters
  \/ r.status < 400 /\ Accept(c) /\ UNCHANGED counters
=============================================================================
