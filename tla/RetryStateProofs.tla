-------------------------- MODULE RetryStateProofs --------------------------
(***************************************************************************)
(* Lemmas about the retry machine, for every policy, budget, cap and       *)
(* delay: what the delay arithmetic can give, that the OOM schedule        *)
(* doubles at whatever width its integers have, and that every decision    *)
(* keeps the state's type.                                                 *)
(***************************************************************************)
EXTENDS RetryState, WellFoundedInduction, TLAPS

\* The downward-only jitter gives a delay between zero and the delay it jitters.
LEMMA JitterBounded ==
  ASSUME NEW d \in Nat, NEW t \in Jitter(d)
  PROVE  t \in Nat /\ t <= d
BY DEF Jitter

\* The smaller of two durations is a duration.
LEMMA AtMostNat ==
  ASSUME NEW a \in Nat, NEW b \in Nat
  PROVE  AtMost(a, b) \in Nat /\ AtMost(a, b) <= a /\ AtMost(a, b) <= b
BY DEF AtMost

\* A hint or a default is a duration.
LEMMA RetryAfterNat ==
  ASSUME NEW hint \in Hint, NEW default \in Nat
  PROVE  RetryAfterOr(hint, default) \in Nat
BY BackoffAssumption DEF RetryAfterOr, Hint

\* Every sleep of the out-of-memory schedule is a duration.
LEMMA OomBackoffNat ==
  ASSUME NEW hint \in Hint, NEW attempt \in Nat, NEW d \in OomBackoff(hint, attempt)
  PROVE  d \in Nat
<1>1. CASE hint # NoHint /\ attempt = 0
  <2>1. hint \in Nat BY <1>1 DEF Hint
  <2>2. d = AtMost(hint, RESOURCE_EXHAUSTED_MAX_DELAY) BY <1>1 DEF OomBackoff
  <2> QED BY <2>1, <2>2, AtMostNat, BackoffAssumption
<1>2. CASE ~(hint # NoHint /\ attempt = 0)
  BY <1>2 DEF OomBackoff, Jitter
<1> QED BY <1>1, <1>2

\* A transport retry never sleeps past what is left of the budget.
LEMMA TransportDelayBounded ==
  ASSUME NEW remaining \in Nat, NEW d \in TransportDelay(remaining)
  PROVE  d \in Nat /\ d <= remaining /\ remaining > 0
<1> DEFINE capped == AtMost(DEFAULT_RETRY_DELAY, remaining)
<1>1. remaining # 0 /\ d \in Jitter(capped) BY DEF TransportDelay
<1>2. capped \in Nat /\ capped <= remaining BY AtMostNat, BackoffAssumption
<1> HIDE DEF capped
<1>3. d \in Nat /\ d <= capped BY <1>1, <1>2, JitterBounded
<1> QED BY <1>1, <1>2, <1>3

---------------------------------------------------------------------------
(***************************************************************************)
(* The OOM schedule.                                                       *)
(***************************************************************************)
LEMMA LeastExists ==
  ASSUME NEW S \in SUBSET Nat, S # {}
  PROVE  \E x \in S : \A y \in S : x <= y
<1> DEFINE Below == {p \in Nat \X Nat : p[1] < p[2]}
<1>1. IsWellFoundedOn(Below, Nat)
  BY NatLessThanWellFounded DEF OpToRel
<1> HIDE DEF Below
<1>2. \E x \in S : \A y \in S : <<y, x>> \notin Below
  BY <1>1, WFMin
<1>3. \A x, y \in S : <<y, x>> \notin Below => x <= y
  BY DEF Below
<1> QED
  BY <1>2, <1>3

\* A set of numbers that has 0 and the successor of each of its numbers below n
\* has all numbers up to n.
LEMMA Reaches ==
  ASSUME NEW n \in Nat, NEW S, 0 \in S, \A k \in 0..n - 1 : k \in S => k + 1 \in S
  PROVE  0..n \subseteq S
<1> DEFINE missing == {k \in 0..n : k \notin S}
<1>1. missing \in SUBSET Nat
  OBVIOUS
<1>2. ASSUME missing # {} PROVE FALSE
  <2> HIDE DEF missing
  <2>1. PICK x \in missing : \A y \in missing : x <= y
    BY <1>1, <1>2, LeastExists
  <2>2. x \in 0..n /\ x \notin S
    BY <2>1 DEF missing
  <2>3. x - 1 \in 0..n - 1 /\ x - 1 \notin missing
    BY <2>1, <2>2
  <2>4. x - 1 \in S
    BY <2>3 DEF missing
  <2> QED
    BY <2>2, <2>3, <2>4
<1> QED
  BY <1>2

\* A function iterated n times has a table of its values.
Iterates(f, g, b, n) ==
  f \in [0..n -> Nat] /\ f[0] = b /\ \A i \in 1..n : f[i] = g[f[i - 1]]

LEMMA IteratesExist ==
  ASSUME NEW g \in [Nat -> Nat], NEW b \in Nat, NEW n \in Nat
  PROVE  \E f : Iterates(f, g, b, n)
<1> DEFINE S == {m \in Nat : \E f : Iterates(f, g, b, m)}
<1>1. 0 \in S
  <2>1. Iterates([i \in 0..0 |-> b], g, b, 0)
    BY DEF Iterates
  <2> QED
    BY <2>1
<1>2. ASSUME NEW m \in 0..n - 1, m \in S PROVE m + 1 \in S
  <2>1. PICK f : Iterates(f, g, b, m)
    BY <1>2
  <2> DEFINE h == [i \in 0..m + 1 |-> IF i = m + 1 THEN g[f[m]] ELSE f[i]]
  <2>2. f[m] \in Nat /\ \A i \in 0..m : f[i] \in Nat
    BY <2>1, SMTT(30) DEF Iterates
  <2>3. h \in [0..m + 1 -> Nat] /\ h[0] = b
    <3>1. g[f[m]] \in Nat /\ f[0] = b /\ m + 1 # 0
      BY <2>1, <2>2 DEF Iterates
    <3>2. \A i \in 0..m + 1 : i # m + 1 => i \in 0..m
      OBVIOUS
    <3> QED
      BY <2>2, <3>1, <3>2
  <2>4. ASSUME NEW i \in 1..m + 1 PROVE h[i] = g[h[i - 1]]
    <3>1. h[i - 1] = f[i - 1]
      OBVIOUS
    <3>2. CASE i = m + 1
      BY <3>1, <3>2
    <3>3. CASE i \in 1..m
      BY <2>1, <3>1, <3>3 DEF Iterates
    <3> QED
      BY <3>2, <3>3
  <2> HIDE DEF h
  <2>5. Iterates(h, g, b, m + 1)
    BY <2>3, <2>4 DEF Iterates
  <2> QED
    BY <2>5
<1> HIDE DEF S
<1>3. 0..n \subseteq S
  BY <1>1, <1>2, Reaches
<1> QED
  BY <1>3 DEF S

\* A shift to the left by one more is a doubling.
LEMMA Shifts ==
  /\ ShiftWidth \in Nat \ {0}
  /\ Shifted[0] = 1
  /\ \A n \in 1..ShiftWidth : Shifted[n] = 2 * Shifted[n - 1]
  /\ \A n \in 0..ShiftWidth : Shifted[n] \in Nat
<1> DEFINE g == [x \in Nat |-> 2 * x]
<1>1. ShiftWidth \in Nat \ {0}
  BY WidthAssumption
<1>2. PICK f : Iterates(f, g, 1, ShiftWidth)
  <2>1. g \in [Nat -> Nat]
    OBVIOUS
  <2> HIDE DEF g
  <2> QED
    BY <1>1, <2>1, IteratesExist
<1>3. /\ f \in [0..ShiftWidth -> Nat] /\ f[0] = 1
      /\ \A n \in 1..ShiftWidth : f[n] = 2 * f[n - 1]
  <2>1. /\ f \in [0..ShiftWidth -> Nat] /\ f[0] = 1
        /\ \A n \in 1..ShiftWidth : f[n] = g[f[n - 1]]
    <3> HIDE DEF g
    <3> QED
      BY <1>2 DEF Iterates
  <2>2. \A n \in 1..ShiftWidth : f[n - 1] \in Nat
    BY <1>1, <2>1
  <2> QED
    BY <2>1, <2>2
<1>4. f = [n \in 0..ShiftWidth |-> IF n = 0 THEN 1 ELSE 2 * f[n - 1]]
  BY <1>1, <1>3
<1>5. Shifted = [n \in 0..ShiftWidth |-> IF n = 0 THEN 1 ELSE 2 * Shifted[n - 1]]
  BY <1>4 DEF Shifted
<1>6. Shifted[0] = 1 /\ \A n \in 1..ShiftWidth : Shifted[n] = 2 * Shifted[n - 1]
  BY <1>1, <1>5
<1> DEFINE S == {n \in 0..ShiftWidth : Shifted[n] \in Nat}
<1>7. 0 \in S
  BY <1>1, <1>6
<1>8. ASSUME NEW k \in 0..ShiftWidth - 1, k \in S PROVE k + 1 \in S
  <2>1. k + 1 \in 1..ShiftWidth /\ (k + 1) - 1 = k
    BY <1>1
  <2> QED
    BY <1>6, <1>8, <2>1
<1> HIDE DEF S
<1>9. 0..ShiftWidth \subseteq S
  BY <1>1, <1>7, <1>8, Reaches
<1> QED
  BY <1>1, <1>6, <1>9 DEF S

\* What the schedule starts from, whatever the hint.
OomBase(hint) == AtLeast(RetryAfterOr(hint, 0), RESOURCE_EXHAUSTED_DELAY)

LEMMA OomBaseNat ==
  ASSUME NEW hint \in Hint
  PROVE  OomBase(hint) \in Nat /\ OomBase(hint) >= RESOURCE_EXHAUSTED_DELAY
<1>1. RetryAfterOr(hint, 0) \in Nat
  BY RetryAfterNat
<1> QED
  BY <1>1, BackoffAssumption DEF OomBase, AtLeast

\* The factors double up to the width of the shift, and stop there.
LEMMA Factors ==
  /\ Factor(0) = 1
  /\ \A n \in Nat : /\ Factor(n) \in Nat
                    /\ n + 1 < ShiftWidth => Factor(n + 1) = 2 * Factor(n)
                    /\ n + 1 >= ShiftWidth => Factor(n + 1) = u32MAX
                    /\ n + 1 = ShiftWidth => 2 * Factor(n) = u32MAX + 1
                    /\ n >= ShiftWidth => Factor(n) = u32MAX
<1>1. u32MAX \in Int /\ u32MAX = Shifted[ShiftWidth] - 1
  BY Shifts DEF u32MAX
<1>2. u32MAX \in Nat
  <2>1. RESOURCE_EXHAUSTED_DELAY * u32MAX >= 1
    BY <1>1, WidthAssumption, BackoffAssumption
  <2>2. u32MAX < 0 => RESOURCE_EXHAUSTED_DELAY * u32MAX <= 0
    <3>1. ASSUME NEW d \in Nat, NEW u \in Int, u < 0 PROVE d * u <= 0
      BY <3>1
    <3> QED
      BY <1>1, <3>1, BackoffAssumption
  <2> QED
    BY <1>1, <2>1, <2>2, BackoffAssumption
<1>3. ASSUME NEW n \in Nat
      PROVE  /\ Factor(n) \in Nat
             /\ n + 1 < ShiftWidth => Factor(n + 1) = 2 * Factor(n)
             /\ n + 1 >= ShiftWidth => Factor(n + 1) = u32MAX
             /\ n + 1 = ShiftWidth => 2 * Factor(n) = u32MAX + 1
             /\ n >= ShiftWidth => Factor(n) = u32MAX
  <2>1. CASE n + 1 <= ShiftWidth
    <3>1. Factor(n) = Shifted[n] /\ Shifted[n] \in Nat
      BY <2>1, Shifts DEF Factor
    <3>2. Shifted[n + 1] = 2 * Shifted[n]
      <4>1. n + 1 \in 1..ShiftWidth /\ (n + 1) - 1 = n
        BY <2>1, Shifts
      <4> QED
        BY <4>1, Shifts
    <3>3. Factor(n + 1) = IF n + 1 < ShiftWidth THEN Shifted[n + 1] ELSE u32MAX
      BY DEF Factor
    <3> QED
      BY <1>1, <2>1, <3>1, <3>2, <3>3, Shifts
  <2>2. CASE n >= ShiftWidth
    BY <1>2, <2>2, Shifts DEF Factor
  <2> QED
    BY <2>1, <2>2, Shifts
<1>4. Factor(0) = 1
  BY Shifts DEF Factor
<1> QED
  BY <1>3, <1>4

\* No width is felt: a product beyond a Duration is beyond the ceiling too.
LEMMA ScaledIsCapped ==
  ASSUME NEW hint \in Hint, NEW n \in Nat
  PROVE  /\ OomBase(hint) * Factor(n) \in Nat
         /\ OomScaled(hint, n) = AtMost(OomBase(hint) * Factor(n), RESOURCE_EXHAUSTED_MAX_DELAY)
<1>1. OomBase(hint) * Factor(n) \in Nat
  BY OomBaseNat, Factors
<1>2. OomScaled(hint, n)
        = AtMost(IF OomBase(hint) * Factor(n) > LongestDuration THEN RESOURCE_EXHAUSTED_MAX_DELAY
                 ELSE OomBase(hint) * Factor(n), RESOURCE_EXHAUSTED_MAX_DELAY)
  BY DEF OomScaled, OomBase
<1> DEFINE product == OomBase(hint) * Factor(n)
<1> HIDE DEF product
<1>3. product \in Nat
  BY <1>1 DEF product
<1>4. AtMost(IF product > LongestDuration THEN RESOURCE_EXHAUSTED_MAX_DELAY
             ELSE product, RESOURCE_EXHAUSTED_MAX_DELAY)
        = AtMost(product, RESOURCE_EXHAUSTED_MAX_DELAY)
  BY <1>3, WidthAssumption, BackoffAssumption DEF AtMost
<1> QED
  BY <1>1, <1>2, <1>4 DEF product

\* oom_backoff_with doubles its base with every attempt until the ceiling and stays
\* there, for every attempt, hint and width of the integers: neither the shift nor
\* the product ever wraps to a shorter delay.
THEOREM ScheduleDoubles ==
  ASSUME NEW hint \in Hint
  PROVE  /\ OomScaled(hint, 0) = AtMost(OomBase(hint), RESOURCE_EXHAUSTED_MAX_DELAY)
         /\ \A n \in Nat :
              OomScaled(hint, n + 1) = AtMost(2 * OomScaled(hint, n), RESOURCE_EXHAUSTED_MAX_DELAY)
<1> DEFINE base == OomBase(hint)
           max == RESOURCE_EXHAUSTED_MAX_DELAY
<1>1. base \in Nat /\ base >= RESOURCE_EXHAUSTED_DELAY /\ max \in Nat
  BY OomBaseNat, BackoffAssumption
<1>2. \A n \in Nat : /\ base * Factor(n) \in Nat
                     /\ OomScaled(hint, n) = AtMost(base * Factor(n), max)
  BY ScaledIsCapped
<1>3. base * u32MAX >= max /\ u32MAX \in Nat
  <2>1. u32MAX \in Nat
    <3>1. ShiftWidth \in Nat /\ ShiftWidth >= ShiftWidth
      BY Shifts
    <3>2. Factor(ShiftWidth) \in Nat /\ Factor(ShiftWidth) = u32MAX
      BY <3>1, Factors
    <3> QED
      BY <3>2
  <2>2. base * u32MAX >= RESOURCE_EXHAUSTED_DELAY * u32MAX
    <3>1. ASSUME NEW a \in Nat, NEW b \in Nat, NEW u \in Nat, a >= b PROVE a * u >= b * u
      BY <3>1
    <3> HIDE DEF base
    <3> QED
      BY <1>1, <2>1, <3>1, BackoffAssumption
  <2>3. base * u32MAX \in Nat /\ RESOURCE_EXHAUSTED_DELAY * u32MAX \in Nat
    BY <1>1, <2>1, BackoffAssumption
  <2> HIDE DEF base
  <2> QED
    BY <1>1, <2>1, <2>2, <2>3, WidthAssumption
<1> HIDE DEF base, max
<1>4. OomScaled(hint, 0) = AtMost(base, max)
  BY <1>1, <1>2, Factors
<1>5. ASSUME NEW n \in Nat
      PROVE  OomScaled(hint, n + 1) = AtMost(2 * OomScaled(hint, n), max)
  <2> DEFINE p == base * Factor(n)
             q == base * Factor(n + 1)
  <2>1. /\ p \in Nat /\ OomScaled(hint, n) = AtMost(p, max)
        /\ q \in Nat /\ OomScaled(hint, n + 1) = AtMost(q, max)
    BY <1>2
  <2>2. \/ q = 2 * p
        \/ q >= max /\ 2 * p >= max
    <3>1. CASE n + 1 < ShiftWidth
      <4>1. Factor(n + 1) = 2 * Factor(n) /\ Factor(n) \in Nat
        BY <3>1, Factors
      <4> QED
        BY <1>1, <4>1
    <3>2. CASE n + 1 = ShiftWidth
      <4>1. Factor(n + 1) = u32MAX /\ 2 * Factor(n) = u32MAX + 1 /\ Factor(n) \in Nat
        BY <3>2, Factors
      <4>2. 2 * p = base * (2 * Factor(n))
        BY <1>1, <4>1
      <4>3. base * (u32MAX + 1) = base * u32MAX + base
        BY <1>1, <1>3
      <4>4. base * u32MAX \in Nat /\ q = base * u32MAX
        BY <1>1, <1>3, <4>1
      <4> QED
        BY <1>1, <1>3, <4>1, <4>2, <4>3, <4>4
    <3>3. CASE n >= ShiftWidth
      <4>1. Factor(n + 1) = u32MAX /\ Factor(n) = u32MAX
        BY <3>3, Factors, Shifts
      <4> QED
        BY <1>1, <1>3, <2>1, <4>1
    <3> QED
      BY <3>1, <3>2, <3>3, Shifts
  <2> HIDE DEF p, q
  <2> QED
    BY <1>1, <2>1, <2>2 DEF AtMost
<1> QED
  BY <1>4, <1>5 DEF base, max

\* A sleep of the schedule is at most a quarter shorter than it says.
LEMMA OomBackoffBounds ==
  ASSUME NEW hint \in Hint, NEW attempt \in Nat, NEW d \in OomBackoff(hint, attempt)
  PROVE  /\ d <= RESOURCE_EXHAUSTED_MAX_DELAY
         /\ attempt > 0 => 4 * d >= 3 * OomScaled(hint, attempt)
<1>1. /\ OomScaled(hint, attempt) \in Nat
      /\ OomScaled(hint, attempt) <= RESOURCE_EXHAUSTED_MAX_DELAY
  BY ScaledIsCapped, AtMostNat, BackoffAssumption
<1>2. CASE hint # NoHint /\ attempt = 0
  <2>1. hint \in Nat BY <1>2 DEF Hint
  <2>2. d = AtMost(hint, RESOURCE_EXHAUSTED_MAX_DELAY) BY <1>2 DEF OomBackoff
  <2> QED BY <1>2, <2>1, <2>2, AtMostNat, BackoffAssumption
<1>3. CASE ~(hint # NoHint /\ attempt = 0)
  <2>1. d \in Jitter(OomScaled(hint, attempt))
    BY <1>3 DEF OomBackoff
  <2> QED
    BY <1>1, <2>1, BackoffAssumption DEF Jitter
<1> QED
  BY <1>2, <1>3

---------------------------------------------------------------------------
\* What is left of a budget is a duration.
LEMMA RemainingNat ==
  ASSUME RetryTypeOK, NEW c \in Calls
  PROVE  Remaining(c) \in Nat /\ Budget(c) \in Nat
<1>1. now \in Nat /\ start[c] \in Nat /\ Budget(c) \in Nat
  BY DEF RetryTypeOK, Request, Budget
<1> QED BY <1>1 DEF Remaining, Elapsed

\* Ending a call keeps the state's type.
LEMMA ReturnTyped ==
  ASSUME RetryTypeOK, NEW c \in Calls, NEW v \in Results, Return(c, v),
         UNCHANGED <<now, req, start, oom_retries, lora_retries>>
  PROVE  RetryTypeOK'
BY DEF RetryTypeOK, Return, Phases

\* So does a retry whose delays are durations.
LEMMA RetryTyped ==
  ASSUME RetryTypeOK, NEW c \in Calls, NEW delays \in SUBSET Nat, Retry(c, delays)
  PROVE  /\ phase' \in [Calls -> Phases]
         /\ wakeAt' \in [Calls -> Nat]
         /\ retries' \in [Calls -> Nat]
         /\ result' = result
<1>1. PICK d \in delays : 
        /\ phase' = [phase EXCEPT ![c] = "asleep"]
        /\ wakeAt' = [wakeAt EXCEPT ![c] = now + d]
        /\ retries' = [retries EXCEPT ![c] = @ + 1]
        /\ UNCHANGED result
  BY DEF Retry
<1>2. now + d \in Nat BY DEF RetryTypeOK
<1> QED BY <1>1, <1>2 DEF RetryTypeOK, Phases

\* And so does every decision on a transport failure.
LEMMA OnTransportErrorTyped ==
  ASSUME RetryTypeOK, NEW c \in Calls, NEW kind, NEW transient \in BOOLEAN,
         OnTransportError(c, kind, transient), UNCHANGED <<now, req, start>>
  PROVE  RetryTypeOK'
<1>1. TransportDelay(Remaining(c)) \in SUBSET Nat
  BY RemainingNat, TransportDelayBounded
<1>2. CASE Retry(c, TransportDelay(Remaining(c)))
  BY <1>1, <1>2, RetryTyped DEF RetryTypeOK, OnTransportError
<1>3. CASE Fail(c, "Connection")
  BY <1>3, ReturnTyped DEF Fail, OnTransportError, Results, Errors
<1> QED BY <1>2, <1>3 DEF OnTransportError

\* The delays every capacity branch retries with are durations.
LEMMA HintedDelayNat ==
  ASSUME RetryTypeOK, NEW c \in Calls, NEW hint \in Hint, NEW default \in Nat
  PROVE  AtMost(RetryAfterOr(hint, default), Remaining(c)) \in Nat
BY RemainingNat, RetryAfterNat, AtMostNat

\* Every decision on an answer keeps the state's type.
LEMMA OnResponseTyped ==
  ASSUME RetryTypeOK, NEW c \in Calls, NEW r \in Response, OnResponse(c, r),
         UNCHANGED <<now, req, start>>
  PROVE  RetryTypeOK'
<1>1. r.hint \in Hint BY DEF Response
<1>2. CASE OnProvisioning(c, r)
  <2>1. CASE Fail(c, "Provisioning")
    BY <1>2, <2>1, ReturnTyped DEF Fail, OnProvisioning, Results, Errors
  <2> DEFINE delays == IF r.hint = NoHint
                       THEN Jitter(AtMost(DEFAULT_RETRY_DELAY, Remaining(c)))
                       ELSE {AtMost(r.hint, Remaining(c))}
  <2>2. CASE Retry(c, delays)
    <3>1. delays \in SUBSET Nat
      <4>1. \A d : d \in Jitter(AtMost(DEFAULT_RETRY_DELAY, Remaining(c))) => d \in Nat
        BY DEF Jitter
      <4>2. r.hint # NoHint => AtMost(r.hint, Remaining(c)) \in Nat
        BY <1>1, RemainingNat, AtMostNat DEF Hint
      <4> QED BY <4>1, <4>2
    <3> HIDE DEF delays
    <3> QED BY <1>2, <2>2, <3>1, RetryTyped DEF OnProvisioning, RetryTypeOK
  <2> QED BY <1>2, <2>1, <2>2 DEF OnProvisioning
<1>3. CASE OnModelLoading(c, r)
  <2>1. CASE Fail(c, "ModelLoading")
    BY <1>3, <2>1, ReturnTyped DEF Fail, OnModelLoading, Results, Errors
  <2> DEFINE delays == {AtMost(RetryAfterOr(r.hint, MODEL_LOADING_DELAY), Remaining(c))}
  <2>2. CASE Retry(c, delays)
    <3>1. delays \in SUBSET Nat BY <1>1, HintedDelayNat, BackoffAssumption
    <3> HIDE DEF delays
    <3> QED BY <1>3, <2>2, <3>1, RetryTyped DEF OnModelLoading, RetryTypeOK
  <2> QED BY <1>3, <2>1, <2>2 DEF OnModelLoading
<1>4. CASE OnLoraLoading(c, r)
  <2>1. lora_retries' \in [Calls -> Nat] BY <1>4 DEF OnLoraLoading, RetryTypeOK
  <2>2. CASE Fail(c, "LoraLoading")
    BY <1>4, <2>1, <2>2
    DEF Fail, Return, OnLoraLoading, Results, Errors, RetryTypeOK, Phases
  <2> DEFINE delays == {AtMost(RetryAfterOr(r.hint, LORA_LOADING_DELAY), Remaining(c))}
  <2>3. CASE Retry(c, delays)
    <3>1. delays \in SUBSET Nat BY <1>1, HintedDelayNat, BackoffAssumption
    <3> HIDE DEF delays
    <3> QED BY <1>4, <2>1, <2>3, <3>1, RetryTyped DEF OnLoraLoading, RetryTypeOK
  <2> QED BY <1>4, <2>2, <2>3 DEF OnLoraLoading
<1>5. CASE OnResourceExhausted(c, r)
  <2> DEFINE delays == {d \in OomBackoff(r.hint, oom_retries[c]) : OomSleepFits(c, d)}
  <2>1. CASE Fail(c, "ResourceExhausted") /\ UNCHANGED oom_retries
    BY <1>5, <2>1, ReturnTyped DEF Fail, OnResourceExhausted, Results, Errors
  <2>2. CASE Retry(c, delays) /\ oom_retries' = [oom_retries EXCEPT ![c] = @ + 1]
    <3>1. delays \in SUBSET Nat BY <1>1, OomBackoffNat DEF RetryTypeOK
    <3>2. oom_retries' \in [Calls -> Nat] BY <2>2 DEF RetryTypeOK
    <3> HIDE DEF delays
    <3> QED BY <1>5, <2>2, <3>1, <3>2, RetryTyped DEF OnResourceExhausted, RetryTypeOK
  <2> QED BY <1>5, <2>1, <2>2 DEF OnResourceExhausted
<1>6. CASE OnGatewayTimeout(c, r)
  <2> DEFINE delays == {AtMost(RetryAfterOr(r.hint, MODEL_LOADING_DELAY), Remaining(c))}
  <2>1. delays \in SUBSET Nat BY <1>1, HintedDelayNat, BackoffAssumption
  <2>2. Retry(c, delays) BY <1>6 DEF OnGatewayTimeout
  <2> HIDE DEF delays
  <2> QED BY <1>6, <2>1, <2>2, RetryTyped DEF OnGatewayTimeout, RetryTypeOK
<1>7. CASE \E v \in Results : Return(c, v) /\ UNCHANGED counters
  BY <1>7, ReturnTyped DEF counters
<1>8. TerminalError(r) \in Errors BY DEF TerminalError, Errors
<1> QED BY <1>2, <1>3, <1>4, <1>5, <1>6, <1>7, <1>8
        DEF OnResponse, Fail, Accept, Results, Errors

---------------------------------------------------------------------------
\* What a decision comes to, whatever was answered: the call is over, or it sleeps,
\* with some budget left and no longer than that budget.
Decided(c) ==
  \/ \E v \in Results \ {"none"} : Return(c, v)
  \/ Remaining(c) > 0 /\ \E delays \in SUBSET (0..Remaining(c)) : Retry(c, delays)

\* A transport failure ends the call or puts it to sleep, within what is left of the budget.
LEMMA OnTransportErrorDecides ==
  ASSUME RetryTypeOK, NEW c \in Calls, NEW kind, NEW transient,
         OnTransportError(c, kind, transient)
  PROVE  Decided(c)
<1> DEFINE delays == TransportDelay(Remaining(c))
<1>1. CASE Fail(c, "Connection")
  BY <1>1 DEF Decided, Fail, Results, Errors
<1>2. CASE Retry(c, delays)
  <2>1. \A d \in delays : d \in 0..Remaining(c) /\ Remaining(c) > 0
    BY RemainingNat, TransportDelayBounded
  <2>2. \E d : d \in delays BY <1>2 DEF Retry
  <2> HIDE DEF delays
  <2> QED BY <1>2, <2>1, <2>2 DEF Decided
<1> QED BY <1>1, <1>2 DEF OnTransportError

\* A hinted delay cut at what is left of the budget does not exceed it.
LEMMA HintedDelayBounded ==
  ASSUME RetryTypeOK, NEW c \in Calls, NEW hint \in Hint, NEW default \in Nat
  PROVE  AtMost(RetryAfterOr(hint, default), Remaining(c)) \in 0..Remaining(c)
<1>1. Remaining(c) \in Nat /\ RetryAfterOr(hint, default) \in Nat
  BY RemainingNat, RetryAfterNat
<1> QED BY <1>1, AtMostNat

\* Every answer ends the call or puts it to sleep, within what is left of the budget.
LEMMA OnResponseDecides ==
  ASSUME RetryTypeOK, NEW c \in Calls, NEW r \in Response, OnResponse(c, r)
  PROVE  Decided(c)
<1>1. r.hint \in Hint BY DEF Response
<1>2. Remaining(c) \in Nat BY RemainingNat
<1>3. TerminalError(r) \in Errors BY DEF TerminalError, Errors
<1>4. ASSUME NEW v \in Errors \cup {"Accepted"}, Return(c, v) PROVE Decided(c)
  BY <1>4 DEF Decided, Results, Errors
<1>5. ASSUME NEW delays, Retry(c, delays), delays \subseteq 0..Remaining(c), Remaining(c) > 0
      PROVE  Decided(c)
  BY <1>5 DEF Decided
<1>6. CASE OnProvisioning(c, r)
  <2> DEFINE delays == IF r.hint = NoHint
                       THEN Jitter(AtMost(DEFAULT_RETRY_DELAY, Remaining(c)))
                       ELSE {AtMost(r.hint, Remaining(c))}
  <2>1. delays \subseteq 0..Remaining(c)
    <3>1. CASE r.hint = NoHint
      <4> DEFINE capped == AtMost(DEFAULT_RETRY_DELAY, Remaining(c))
      <4>1. capped \in Nat /\ capped <= Remaining(c) BY <1>2, AtMostNat, BackoffAssumption
      <4> HIDE DEF capped
      <4>2. \A d \in Jitter(capped) : d \in 0..Remaining(c)
        BY <1>2, <4>1, JitterBounded
      <4> QED BY <3>1, <4>2 DEF capped
    <3>2. CASE r.hint # NoHint
      <4>1. r.hint \in Nat BY <1>1, <3>2 DEF Hint
      <4>2. AtMost(r.hint, Remaining(c)) \in 0..Remaining(c)
        BY <1>2, <4>1 DEF AtMost
      <4> QED BY <3>2, <4>2
    <3> QED BY <3>1, <3>2
  <2>2. CASE Fail(c, "Provisioning") BY <1>4, <2>2 DEF Fail, Errors
  <2>3. CASE Remaining(c) > 0 /\ Retry(c, delays)
    <3> HIDE DEF delays
    <3> QED BY <1>5, <2>1, <2>3
  <2> QED BY <1>6, <2>2, <2>3 DEF OnProvisioning
<1>7. CASE OnModelLoading(c, r)
  <2> DEFINE delays == {AtMost(RetryAfterOr(r.hint, MODEL_LOADING_DELAY), Remaining(c))}
  <2>1. delays \subseteq 0..Remaining(c) BY <1>1, HintedDelayBounded, BackoffAssumption
  <2>2. CASE Fail(c, "ModelLoading") BY <1>4, <2>2 DEF Fail, Errors
  <2>3. CASE Remaining(c) > 0 /\ Retry(c, delays)
    <3> HIDE DEF delays
    <3> QED BY <1>5, <2>1, <2>3
  <2> QED BY <1>7, <2>2, <2>3 DEF OnModelLoading
<1>8. CASE OnLoraLoading(c, r)
  <2> DEFINE delays == {AtMost(RetryAfterOr(r.hint, LORA_LOADING_DELAY), Remaining(c))}
  <2>1. delays \subseteq 0..Remaining(c) BY <1>1, HintedDelayBounded, BackoffAssumption
  <2>2. CASE Fail(c, "LoraLoading") BY <1>4, <2>2 DEF Fail, Errors
  <2>3. CASE Remaining(c) # 0 /\ Retry(c, delays)
    <3>1. Remaining(c) > 0 BY <1>2, <2>3
    <3> HIDE DEF delays
    <3> QED BY <1>5, <2>1, <2>3, <3>1
  <2> QED BY <1>8, <2>2, <2>3 DEF OnLoraLoading
<1>9. CASE OnResourceExhausted(c, r)
  <2> DEFINE delays == {d \in OomBackoff(r.hint, oom_retries[c]) : OomSleepFits(c, d)}
  <2>1. delays \subseteq 0..Remaining(c)
    <3>1. oom_retries[c] \in Nat BY DEF RetryTypeOK
    <3>2. \A d \in OomBackoff(r.hint, oom_retries[c]) : d \in Nat
      BY <1>1, <3>1, OomBackoffNat
    <3> QED BY <1>2, <3>2 DEF OomSleepFits
  <2>2. CASE Fail(c, "ResourceExhausted") BY <1>4, <2>2 DEF Fail, Errors
  <2>3. CASE Remaining(c) # 0 /\ Retry(c, delays)
    <3>1. Remaining(c) > 0 BY <1>2, <2>3
    <3> HIDE DEF delays
    <3> QED BY <1>5, <2>1, <2>3, <3>1
  <2> QED BY <1>9, <2>2, <2>3 DEF OnResourceExhausted
<1>10. CASE OnGatewayTimeout(c, r)
  <2> DEFINE delays == {AtMost(RetryAfterOr(r.hint, MODEL_LOADING_DELAY), Remaining(c))}
  <2>1. delays \subseteq 0..Remaining(c) BY <1>1, HintedDelayBounded, BackoffAssumption
  <2>2. Remaining(c) > 0 /\ Retry(c, delays)
    BY <1>10 DEF OnGatewayTimeout, GatewayReplayed
  <2> HIDE DEF delays
  <2> QED BY <1>5, <2>1, <2>2
<1>11. CASE \E v \in Errors \cup {"Accepted"} : Return(c, v)
  BY <1>4, <1>11
<1> QED BY <1>3, <1>6, <1>7, <1>8, <1>9, <1>10, <1>11
        DEF OnResponse, Fail, Accept, Errors
=============================================================================
