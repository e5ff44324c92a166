------------------------------ MODULE Backoff ------------------------------
(***************************************************************************)
(* The delay arithmetic of src/retry/backoff.rs.  Durations are whole      *)
(* units of time (seconds in the TLC models).  An operator whose result is *)
(* jittered is the set of the delays the random sample can give.  The OOM  *)
(* schedule keeps its widths: the shift's, and that of a Duration.         *)
(***************************************************************************)
EXTENDS Integers

CONSTANTS
  NoHint,                          \* no usable Retry-After header
  DEFAULT_RETRY_DELAY,             \* 5 s: provisioning and transport retries
  MODEL_LOADING_DELAY,             \* 5 s: poll interval while a model loads
  LORA_LOADING_DELAY,              \* 1 s: poll interval while an adapter loads
  LORA_LOADING_MAX_RETRIES,        \* 10
  RESOURCE_EXHAUSTED_DELAY,        \* 5 s: base of the OOM schedule
  RESOURCE_EXHAUSTED_MAX_DELAY,    \* 30 s: ceiling of one OOM sleep
  ShiftWidth,                      \* 32: the bits of a u32
  LongestDuration                  \* Duration::MAX

ASSUME BackoffAssumption ==
  /\ NoHint \notin Nat
  /\ DEFAULT_RETRY_DELAY \in Nat \ {0}
  /\ MODEL_LOADING_DELAY \in Nat \ {0}
  /\ LORA_LOADING_DELAY \in Nat \ {0}
  /\ LORA_LOADING_MAX_RETRIES \in Nat
  /\ RESOURCE_EXHAUSTED_DELAY \in Nat \ {0}
  /\ RESOURCE_EXHAUSTED_MAX_DELAY \in Nat \ {0}

\* What one bit is shifted left by n.
Shifted[n \in 0..ShiftWidth] == IF n = 0 THEN 1 ELSE 2 * Shifted[n - 1]

u32MAX == Shifted[ShiftWidth] - 1

\* The ceiling is a Duration that the base reaches within the shift's width.
ASSUME WidthAssumption ==
  /\ ShiftWidth \in Nat \ {0}
  /\ LongestDuration \in Nat
  /\ RESOURCE_EXHAUSTED_MAX_DELAY <= LongestDuration
  /\ RESOURCE_EXHAUSTED_MAX_DELAY <= RESOURCE_EXHAUSTED_DELAY * u32MAX

Hint == Nat \cup {NoHint}

AtMost(a, b) == IF a <= b THEN a ELSE b
AtLeast(a, b) == IF a >= b THEN a ELSE b

\* Downward-only jitter: between three quarters of the delay and the delay.
Jitter(d) == {t \in 0..d : 4 * t >= 3 * d}

\* The hint when the server sent one, zero included, else the default.
RetryAfterOr(hint, default) == IF hint = NoHint THEN default ELSE hint

\* Slip: << takes the shift modulo the width.
Factor_wrapping(attempt) == Shifted[attempt % ShiftWidth]

\* 1u32.checked_shl(attempt).unwrap_or(u32::MAX)
Factor(attempt) == IF attempt < ShiftWidth THEN Shifted[attempt] ELSE u32MAX

\* checked_mul: a product no Duration holds is the ceiling.
OomScaled(hint, attempt) ==
  LET base == AtLeast(RetryAfterOr(hint, 0), RESOURCE_EXHAUSTED_DELAY)
      product == base * Factor(attempt)
  IN AtMost(IF product > LongestDuration THEN RESOURCE_EXHAUSTED_MAX_DELAY ELSE product,
            RESOURCE_EXHAUSTED_MAX_DELAY)

\* The first hint is obeyed as it is; every later sleep is on the jittered schedule.
OomBackoff(hint, attempt) ==
  IF hint # NoHint /\ attempt = 0
  THEN {AtMost(hint, RESOURCE_EXHAUSTED_MAX_DELAY)}
  ELSE Jitter(OomScaled(hint, attempt))

\* Delays before replaying after a transport failure; none when the budget is spent.
TransportDelay(remaining) ==
  IF remaining = 0 THEN {} ELSE Jitter(AtMost(DEFAULT_RETRY_DELAY, remaining))
=============================================================================
