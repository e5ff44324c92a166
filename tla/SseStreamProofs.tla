-------------------------- MODULE SseStreamProofs --------------------------
(***************************************************************************)
(* The stream's promises, proved for every set of streams, budget, cap,    *)
(* answer and event: one generation reaches the consumer, all the          *)
(* connections of a stream share one budget and one set of caps, and a     *)
(* stream implements StreamContract.                                       *)
(*                                                                         *)
(* All rest on what a stream is between two connections: it has been       *)
(* charged one retry per request, has delivered nothing (Clean), and       *)
(* sleeps within what was left of its budget (InTime).                     *)
(***************************************************************************)
EXTENDS SseStream, RetryStateProofs

Types ==
  /\ RetryTypeOK
  /\ req \in [Calls -> Requests]
  /\ deadline \in [Calls -> Nat] /\ sentAt \in [Calls -> Nat] /\ attempts \in [Calls -> Nat]
  /\ hint \in [Calls -> Hints \cup {NoHint}]
  /\ yielded \in [Calls -> BOOLEAN]
  /\ delivered \in [Calls -> Seq(Nat)]

InTime(c) ==
  /\ wakeAt[c] <= start[c] + Budget(c) /\ deadline[c] <= start[c] + Budget(c)
  /\ Live(c) => now <= start[c] + Budget(c)
  /\ phase[c] # "queued"
  /\ phase[c] = "idle" => start[c] = 0

Charged(c) ==
  /\ oom_retries[c] <= req[c].max_oom_retries
  /\ Len(delivered[c]) = attempts[c]
  /\ phase[c] \in {"idle", "loop", "asleep"} => attempts[c] = retries[c]
  /\ phase[c] \in {"inflight", "body"} => attempts[c] = retries[c] + 1

\* A connection before the last never delivered anything, nor did the last one
\* while another may follow.
Clean(c) ==
  /\ \A i \in 1..Len(delivered[c]) : i < Len(delivered[c]) => delivered[c][i] = 0
  /\ (phase[c] \in {"idle", "loop", "asleep", "inflight"} \/ (phase[c] = "body" /\ ~yielded[c])) =>
       \A i \in 1..Len(delivered[c]) : delivered[c][i] = 0

OK(c) == InTime(c) /\ Charged(c) /\ Clean(c)

StreamInv == Types /\ \A c \in Calls : OK(c)

\* What a step of stream c leaves alone in stream d.
Same(d) ==
  /\ now' = now /\ req' = req
  /\ start'[d] = start[d] /\ retries'[d] = retries[d] /\ oom_retries'[d] = oom_retries[d]
  /\ phase'[d] = phase[d] /\ wakeAt'[d] = wakeAt[d] /\ deadline'[d] = deadline[d]
  /\ yielded'[d] = yielded[d] /\ attempts'[d] = attempts[d] /\ delivered'[d] = delivered[d]

LEMMA SameOK ==
  ASSUME NEW d \in Calls, OK(d), Same(d)
  PROVE  OK(d)'
BY DEF OK, InTime, Charged, Clean, Same, Live, Budget

LEMMA OnlyOne ==
  ASSUME StreamInv, NEW c \in Calls, Types', OK(c)', \A d \in Calls \ {c} : Same(d)
  PROVE  StreamInv'
BY SameOK DEF StreamInv

LEMMA RequestsTyped == Requests \subseteq Request
<1>1. STREAM \in RetryPolicyType
  BY DEF STREAM, RetryPolicyType
<1>2. {STREAM} \subseteq RetryPolicyType /\ {TRUE} \subseteq BOOLEAN
  BY <1>1
<1>3. ASSUME NEW P, NEW S, P \subseteq RetryPolicyType, S \subseteq BOOLEAN
      PROVE  [policy : P, stream : S, wait_for_capacity : BOOLEAN,
              provision_timeout : Nat, max_oom_retries : Nat] \subseteq Request
  BY <1>3 DEF Request
<1> QED
  BY <1>2, <1>3, StreamAssumption

LEMMA StreamInit == Init => StreamInv
<1> SUFFICES ASSUME Init PROVE StreamInv
  OBVIOUS
<1>1. RetryTypeOK
  BY RequestsTyped DEF Init, RetryTypeOK, Phases, Results
<1>2. Types
  BY <1>1 DEF Init, Types
<1>3. SUFFICES ASSUME NEW c \in Calls PROVE OK(c)
  BY <1>2 DEF StreamInv
<1>4. Budget(c) \in Nat /\ req[c].max_oom_retries \in Nat
  BY <1>1 DEF RetryTypeOK, Request, Budget
<1> QED
  BY <1>4 DEF Init, OK, InTime, Charged, Clean, Live

---------------------------------------------------------------------------
(***************************************************************************)
(* The kinds of step that end a connection: the stream delivers a last     *)
(* chunk and ends; it ends or is dropped without one (Quits); or the retry *)
(* machine decides, before the connection has delivered anything.          *)
(***************************************************************************)
LastChunk(c) ==
  /\ \E p \in {"done", "dropped"} : phase' = [phase EXCEPT ![c] = p]
  /\ \E n \in Nat : delivered' = [delivered EXCEPT ![c][attempts[c]] = n]
  /\ result' \in [Calls -> Results]
  /\ attempts[c] \in 1..Len(delivered[c])
  /\ UNCHANGED <<now, req, start, counters, wakeAt, deadline, sentAt, hint, yielded, attempts>>

LEMMA LastChunkHolds ==
  ASSUME StreamInv, NEW c \in Calls, LastChunk(c)
  PROVE  StreamInv'
<1>1. Types /\ OK(c)
  BY DEF StreamInv
<1>2. PICK n \in Nat : delivered' = [delivered EXCEPT ![c][attempts[c]] = n]
  BY DEF LastChunk
<1>3. /\ delivered[c] \in Seq(Nat) /\ attempts[c] \in DOMAIN delivered[c]
      /\ delivered'[c] = [delivered[c] EXCEPT ![attempts[c]] = n]
  <2>1. delivered[c] \in Seq(Nat) /\ attempts[c] \in DOMAIN delivered[c]
    BY <1>1 DEF Types, LastChunk
  <2>2. delivered'[c] = [delivered[c] EXCEPT ![attempts[c]] = n]
    BY <1>1, <1>2 DEF Types
  <2> QED
    BY <2>1, <2>2
<1>4. delivered'[c] \in Seq(Nat) /\ Len(delivered'[c]) = Len(delivered[c])
  BY <1>3
<1>5. Types'
  BY <1>1, <1>2, <1>4 DEF Types, RetryTypeOK, LastChunk, counters, Phases
<1>6. InTime(c)'
  BY <1>1 DEF OK, InTime, LastChunk, Live, Budget, Types, RetryTypeOK
<1>7. Charged(c)'
  BY <1>1, <1>4 DEF OK, Charged, LastChunk, counters, Types, RetryTypeOK
<1>8. Clean(c)'
  <2>1. \A i \in 1..Len(delivered'[c]) : i < Len(delivered'[c]) => delivered'[c][i] = 0
    BY <1>1, <1>3, <1>4 DEF OK, Charged, Clean, Types
  <2>2. phase'[c] \in {"done", "dropped"}
    BY <1>1 DEF LastChunk, Types, RetryTypeOK
  <2> QED
    BY <2>1, <2>2 DEF Clean
<1>9. \A d \in Calls \ {c} : Same(d)
  BY <1>1, <1>2 DEF LastChunk, Same, counters, Types, RetryTypeOK
<1> QED
  BY <1>5, <1>6, <1>7, <1>8, <1>9, OnlyOne DEF OK

\* Nothing was delivered by a connection that may be followed by another.
Unused(c) == phase[c] = "inflight" \/ (phase[c] = "body" /\ ~yielded[c])

Quits(c) ==
  /\ \E p \in {"done", "dropped"} : phase' = [phase EXCEPT ![c] = p]
  /\ result' \in [Calls -> Results]
  /\ oom_retries' = oom_retries /\ lora_retries' \in [Calls -> Nat]
  /\ UNCHANGED <<now, req, start, retries, wakeAt, deadline, sentAt, hint, yielded, attempts,
                 delivered>>

LEMMA QuitsHolds ==
  ASSUME StreamInv, NEW c \in Calls, Quits(c)
  PROVE  StreamInv'
<1>1. Types /\ OK(c)
  BY DEF StreamInv
<1>2. Types'
  BY <1>1 DEF Types, RetryTypeOK, Quits, Phases
<1>3. phase'[c] \in {"done", "dropped"}
  BY <1>1 DEF Quits, Types, RetryTypeOK
<1>4. OK(c)'
  BY <1>1, <1>3 DEF OK, InTime, Charged, Clean, Quits, Live, Budget
<1>5. \A d \in Calls \ {c} : Same(d)
  BY <1>1 DEF Quits, Same, Types, RetryTypeOK
<1> QED
  BY <1>2, <1>4, <1>5, OnlyOne

\* A retry is charged, and sleeps within what was left of the budget.
LEMMA RetryHolds ==
  ASSUME StreamInv, NEW c \in Calls, Unused(c),
         Remaining(c) > 0, NEW delays \in SUBSET (0..Remaining(c)), Retry(c, delays),
         \A d \in Calls \ {c} : oom_retries'[d] = oom_retries[d],
         oom_retries'[c] <= req[c].max_oom_retries,
         RetryTypeOK',
         UNCHANGED <<now, req, start, deadline, sentAt, hint, yielded, attempts, delivered>>
  PROVE  StreamInv'
<1>1. Types /\ OK(c)
  BY DEF StreamInv
<1>2. PICK t \in delays :
        /\ phase' = [phase EXCEPT ![c] = "asleep"]
        /\ wakeAt' = [wakeAt EXCEPT ![c] = now + t]
        /\ retries' = [retries EXCEPT ![c] = @ + 1]
  BY DEF Retry
<1>3. Types'
  BY <1>1 DEF Types
<1>4. /\ now \in Nat /\ start[c] \in Nat /\ Budget(c) \in Nat /\ retries[c] \in Nat
      /\ phase'[c] = "asleep" /\ wakeAt'[c] = now + t /\ retries'[c] = retries[c] + 1
  BY <1>1, <1>2, RemainingNat DEF Types, RetryTypeOK
<1>5. t \in Nat /\ t <= Remaining(c) /\ Remaining(c) \in Nat
  BY <1>1, RemainingNat DEF Types
<1>6. now + t <= start[c] + Budget(c) /\ now <= start[c] + Budget(c)
  BY <1>4, <1>5 DEF Remaining, Elapsed
<1>7. InTime(c)'
  BY <1>1, <1>4, <1>6 DEF OK, InTime, Budget
<1>8. Charged(c)'
  BY <1>1, <1>4 DEF OK, Charged, Unused
<1>9. Clean(c)'
  BY <1>1, <1>4 DEF OK, Clean, Unused
<1>10. \A d \in Calls \ {c} : Same(d)
  BY <1>1, <1>2 DEF Same, Types, RetryTypeOK
<1> QED
  BY <1>3, <1>7, <1>8, <1>9, <1>10, OnlyOne DEF OK

LEMMA DecidedHolds ==
  ASSUME StreamInv, NEW c \in Calls, Unused(c), Decided(c),
         \A d \in Calls \ {c} : oom_retries'[d] = oom_retries[d],
         oom_retries'[c] <= req[c].max_oom_retries,
         RetryTypeOK',
         UNCHANGED <<now, req, start, deadline, sentAt, hint, yielded, attempts, delivered>>
  PROVE  StreamInv'
<1>1. Types /\ OK(c)
  BY DEF StreamInv
<1>2. CASE \E v \in Results \ {"none"} : Return(c, v)
  <2>1. Types'
    BY <1>1 DEF Types
  <2>2. phase'[c] = "done" /\ wakeAt' = wakeAt /\ retries' = retries
    BY <1>1, <1>2 DEF Return, Types, RetryTypeOK
  <2>3. OK(c)'
    BY <1>1, <2>2 DEF OK, InTime, Charged, Clean, Live, Budget
  <2>4. \A d \in Calls \ {c} : Same(d)
    BY <1>1, <1>2 DEF Return, Same, Types, RetryTypeOK
  <2> QED
    BY <2>1, <2>3, <2>4, OnlyOne
<1>3. CASE Remaining(c) > 0 /\ \E delays \in SUBSET (0..Remaining(c)) : Retry(c, delays)
  BY <1>3, RetryHolds
<1> QED
  BY <1>2, <1>3 DEF Decided

\* max_oom_retries bounds the RESOURCE_EXHAUSTED replays of an answer and of a
\* first event alike.
LEMMA OomCapped ==
  ASSUME StreamInv, NEW c \in Calls, NEW r \in Response, OnResponse(c, r)
  PROVE  /\ \A d \in Calls \ {c} : oom_retries'[d] = oom_retries[d]
         /\ oom_retries'[c] <= req[c].max_oom_retries
<1>1. /\ oom_retries \in [Calls -> Nat] /\ oom_retries[c] <= req[c].max_oom_retries
      /\ req[c].max_oom_retries \in Nat
  BY DEF StreamInv, Types, RetryTypeOK, OK, Charged, Request
<1>2. CASE OnResourceExhausted(c, r) /\ oom_retries' = [oom_retries EXCEPT ![c] = @ + 1]
      /\ ~OomRetriesSpent(c)
  BY <1>1, <1>2 DEF OomRetriesSpent
<1>3. CASE UNCHANGED oom_retries
  BY <1>1, <1>3
<1> QED
  BY <1>2, <1>3 DEF OnResponse, OnProvisioning, OnModelLoading, OnLoraLoading,
     OnResourceExhausted, OnGatewayTimeout, counters

LEMMA ResultTyped ==
  ASSUME StreamInv, NEW c \in Calls, NEW v \in Results,
         result' = [result EXCEPT ![c] = v]
  PROVE  result' \in [Calls -> Results]
BY DEF StreamInv, Types, RetryTypeOK

LEMMA ReturnHolds ==
  ASSUME StreamInv, NEW c \in Calls, NEW v \in Results, Return(c, v),
         UNCHANGED <<oom_retries, lora_retries, now, req, start, deadline, sentAt, hint,
                     yielded, attempts, delivered>>
  PROVE  StreamInv'
<1>1. Quits(c)
  BY ResultTyped DEF Return, Quits, StreamInv, Types, RetryTypeOK
<1> QED
  BY <1>1, QuitsHolds

---------------------------------------------------------------------------
\* A connection is charged when it is opened, and has delivered nothing.
LEMMA BeginHolds ==
  ASSUME StreamInv, NEW c \in Calls, Begin(c)
  PROVE  StreamInv'
<1>1. Types /\ OK(c) /\ Budget(c) \in Nat
  BY RemainingNat DEF StreamInv, Types
<1>2. Types'
  BY <1>1 DEF Types, RetryTypeOK, Begin, Phases, history, counters
<1>3. /\ now \in Nat /\ start[c] = 0 /\ wakeAt[c] \in Nat /\ deadline[c] \in Nat
      /\ phase'[c] = "loop" /\ start'[c] = now
  BY <1>1 DEF Begin, OK, InTime, Types, RetryTypeOK
<1>4. InTime(c)'
  BY <1>1, <1>3 DEF Begin, OK, InTime, Live, Budget
<1>5. Charged(c)' /\ Clean(c)'
  BY <1>1, <1>3 DEF Begin, OK, Charged, Clean, counters, history
<1>6. \A d \in Calls \ {c} : Same(d)
  BY <1>1 DEF Begin, Same, Types, RetryTypeOK, counters, history
<1> QED
  BY <1>2, <1>4, <1>5, <1>6, OnlyOne DEF OK

LEMMA ConnectHolds ==
  ASSUME StreamInv, NEW c \in Calls, Connect(c)
  PROVE  StreamInv'
<1>1. Types /\ OK(c)
  BY DEF StreamInv
<1>2. /\ now \in Nat /\ start[c] \in Nat /\ Budget(c) \in Nat /\ Remaining(c) \in Nat
      /\ attempts[c] \in Nat /\ retries[c] \in Nat
  BY <1>1, RemainingNat DEF Types, RetryTypeOK
<1>3. AttemptTimeout(c) \in Nat /\ AttemptTimeout(c) <= Remaining(c)
  BY <1>2, AtMostNat, ClientTimeoutAssumption DEF AttemptTimeout
<1>4. now + AttemptTimeout(c) <= start[c] + Budget(c)
  BY <1>2, <1>3 DEF Connect, Remaining, Elapsed
<1>5. /\ phase'[c] = "inflight" /\ deadline'[c] = now + AttemptTimeout(c)
      /\ attempts'[c] = attempts[c] + 1 /\ delivered'[c] = Append(delivered[c], 0)
      /\ delivered[c] \in Seq(Nat) /\ delivered'[c] \in Seq(Nat)
      /\ phase[c] = "loop"
  BY <1>1 DEF Connect, Types, RetryTypeOK
<1>6. Types'
  <2>1. now + AttemptTimeout(c) \in Nat
    BY <1>2, <1>3
  <2>2. /\ deadline' \in [Calls -> Nat] /\ sentAt' \in [Calls -> Nat]
        /\ attempts' \in [Calls -> Nat]
    BY <1>1, <1>2, <2>1 DEF Types, Connect
  <2>3. delivered' \in [Calls -> Seq(Nat)]
    BY <1>1, <1>5 DEF Types, Connect
  <2>4. RetryTypeOK'
    BY <1>1 DEF Types, RetryTypeOK, Connect, Phases, counters
  <2> QED
    BY <1>1, <2>2, <2>3, <2>4 DEF Types, Connect
<1>7. InTime(c)'
  BY <1>1, <1>2, <1>4, <1>5 DEF Connect, OK, InTime, Live, Budget
<1>8. Charged(c)'
  BY <1>1, <1>2, <1>5 DEF Connect, OK, Charged, counters
<1>9. Clean(c)'
  <2>1. \A i \in 1..Len(delivered[c]) : delivered[c][i] = 0
    BY <1>1, <1>5 DEF OK, Clean
  <2>2. \A i \in 1..Len(delivered'[c]) : delivered'[c][i] = 0
    BY <1>5, <2>1
  <2> QED
    BY <2>2 DEF Clean
<1>10. \A d \in Calls \ {c} : Same(d)
  BY <1>1 DEF Connect, Same, Types, RetryTypeOK, counters
<1> QED
  BY <1>6, <1>7, <1>8, <1>9, <1>10, OnlyOne DEF OK

LEMMA OpenedHolds ==
  ASSUME StreamInv, NEW c \in Calls, Opened(c)
  PROVE  StreamInv'
<1>1. Types /\ OK(c)
  BY DEF StreamInv
<1>2. phase[c] = "inflight" /\ phase'[c] = "body"
  BY <1>1 DEF Opened, Types, RetryTypeOK
<1>3. Types'
  BY <1>1, SMTT(30) DEF Types, RetryTypeOK, Opened, Phases, counters, history
<1>4. OK(c)'
  BY <1>1, <1>2 DEF Opened, OK, InTime, Charged, Clean, Live, Budget, counters, history
<1>5. \A d \in Calls \ {c} : Same(d)
  BY <1>1 DEF Opened, Same, Types, RetryTypeOK, counters, history
<1> QED
  BY <1>3, <1>4, <1>5, OnlyOne

LEMMA WakeHolds ==
  ASSUME StreamInv, NEW c \in Calls, Wake(c)
  PROVE  StreamInv'
<1>1. Types /\ OK(c)
  BY DEF StreamInv
<1>2. phase[c] = "asleep" /\ phase'[c] = "loop"
  BY <1>1 DEF Wake, Types, RetryTypeOK
<1>3. Types'
  BY <1>1 DEF Types, RetryTypeOK, Wake, Phases, counters, history
<1>4. OK(c)'
  BY <1>1, <1>2 DEF Wake, OK, InTime, Charged, Clean, Live, Budget, counters, history
<1>5. \A d \in Calls \ {c} : Same(d)
  BY <1>1 DEF Wake, Same, Types, RetryTypeOK, counters, history
<1> QED
  BY <1>3, <1>4, <1>5, OnlyOne

\* The connection that reads is the last one.
LEMMA Reading ==
  ASSUME StreamInv, NEW c \in Calls, phase[c] = "body"
  PROVE  /\ attempts[c] \in 1..Len(delivered[c]) /\ attempts[c] = Len(delivered[c])
         /\ delivered[c][attempts[c]] + 1 \in Nat
<1>1. Types /\ OK(c)
  BY DEF StreamInv
<1>2. delivered[c] \in Seq(Nat) /\ retries[c] \in Nat
  BY <1>1 DEF Types, RetryTypeOK
<1>3. attempts[c] = Len(delivered[c]) /\ attempts[c] = retries[c] + 1
  BY <1>1 DEF OK, Charged
<1>4. attempts[c] \in 1..Len(delivered[c])
  BY <1>2, <1>3
<1>5. delivered[c][attempts[c]] \in Nat
  BY <1>2, <1>4
<1> QED
  BY <1>3, <1>4, <1>5

LEMMA ChunkHolds ==
  ASSUME StreamInv, NEW c \in Calls, ChunkEvent(c)
  PROVE  StreamInv'
<1>1. Types /\ OK(c) /\ phase[c] = "body"
  BY DEF StreamInv, ChunkEvent, Event
<1> DEFINE a == attempts[c]
           n == delivered[c][attempts[c]] + 1
<1>2. a \in 1..Len(delivered[c]) /\ a = Len(delivered[c]) /\ n \in Nat
  BY <1>1, Reading
<1>3. /\ delivered' = [delivered EXCEPT ![c][a] = n]
      /\ yielded' = [yielded EXCEPT ![c] = TRUE]
      /\ UNCHANGED <<now, req, start, counters, phase, wakeAt, result, deadline, sentAt, hint,
                     attempts>>
  BY DEF ChunkEvent, Event, Delivered
<1> HIDE DEF a, n
<1>4. delivered'[c] = [delivered[c] EXCEPT ![a] = n] /\ delivered[c] \in Seq(Nat)
  BY <1>1, <1>3 DEF Types
<1>5. delivered'[c] \in Seq(Nat) /\ Len(delivered'[c]) = Len(delivered[c])
  BY <1>2, <1>4
<1>6. Types'
  BY <1>1, <1>3, <1>5 DEF Types, RetryTypeOK, counters
<1>7. InTime(c)' /\ Charged(c)'
  BY <1>1, <1>3, <1>5 DEF OK, InTime, Charged, Live, Budget, counters
<1>8. Clean(c)'
  <2>1. yielded'[c] = TRUE
    BY <1>1, <1>3 DEF Types
  <2>2. \A i \in 1..Len(delivered'[c]) : i < Len(delivered'[c]) => delivered'[c][i] = 0
    BY <1>1, <1>2, <1>4, <1>5 DEF OK, Clean
  <2> QED
    BY <1>1, <1>3, <2>1, <2>2 DEF Clean
<1>9. \A d \in Calls \ {c} : Same(d)
  BY <1>1, <1>3 DEF Same, Types, counters
<1> QED
  BY <1>6, <1>7, <1>8, <1>9, OnlyOne DEF OK

LEMMA TrailingHolds ==
  ASSUME StreamInv, NEW c \in Calls, TrailingEvent(c)
  PROVE  StreamInv'
<1>1. phase[c] = "body"
  BY DEF TrailingEvent, Event
<1>2. CASE Event(c, "chunk") /\ Delivered(c) /\ Return(c, "Ended")
  <2>1. result' \in [Calls -> Results]
    BY <1>2, ResultTyped DEF Return, Results
  <2>2. LastChunk(c)
    BY <1>1, <1>2, <2>1, Reading DEF TrailingEvent, Event, Delivered, Return, LastChunk, counters
  <2> QED
    BY <2>2, LastChunkHolds
<1>3. CASE /\ UNCHANGED delivered
           /\ \E kind : Event(c, kind)
           /\ \E v \in Results : Return(c, v)
  BY <1>3, ReturnHolds DEF TrailingEvent, Event
<1> QED
  BY <1>2, <1>3 DEF TrailingEvent, Fail, Results

\* What the retry machine decides of a refusal, a failed connection, or an error in
\* the first event.
LEMMA AnsweredHolds ==
  ASSUME StreamInv, NEW c \in Calls, Unused(c), NEW r \in Response, OnResponse(c, r),
         UNCHANGED <<now, req, start, deadline, sentAt, hint, yielded, attempts, delivered>>
  PROVE  StreamInv'
<1>1. RetryTypeOK
  BY DEF StreamInv, Types
<1> QED
  BY <1>1, OnResponseTyped, OnResponseDecides, OomCapped, DecidedHolds

LEMMA TransportHolds ==
  ASSUME StreamInv, NEW c \in Calls, Unused(c), NEW kind, NEW transient \in BOOLEAN,
         OnTransportError(c, kind, transient),
         UNCHANGED <<now, req, start, deadline, sentAt, hint, yielded, attempts, delivered>>
  PROVE  StreamInv'
<1>1. RetryTypeOK /\ oom_retries[c] <= req[c].max_oom_retries
  BY DEF StreamInv, Types, OK, Charged
<1>2. RetryTypeOK'
  BY <1>1, OnTransportErrorTyped
<1>3. Decided(c)
  BY <1>1, OnTransportErrorDecides
<1>4. UNCHANGED oom_retries
  BY DEF OnTransportError
<1> QED
  BY <1>1, <1>2, <1>3, <1>4, DecidedHolds

LEMMA FailHolds ==
  ASSUME StreamInv, NEW c \in Calls, NEW v \in Results, Fail(c, v),
         UNCHANGED <<oom_retries, lora_retries, now, req, start, deadline, sentAt, hint,
                     yielded, attempts, delivered>>
  PROVE  StreamInv'
BY ReturnHolds DEF Fail

LEMMA RefusedHolds ==
  ASSUME StreamInv, NEW c \in Calls, Refused(c)
  PROVE  StreamInv'
<1>1. /\ Unused(c)
      /\ UNCHANGED <<now, req, start, deadline, sentAt, hint, yielded, attempts, delivered>>
  BY DEF Refused, Unused, history
<1>2. Refusals \subseteq Response
  BY StreamAssumption DEF Response
<1>3. CASE \E r \in Refusals : OnResponse(c, r)
  BY <1>1, <1>2, <1>3, AnsweredHolds
<1>4. CASE Fail(c, "Request") /\ UNCHANGED counters
  BY <1>1, <1>4, FailHolds DEF Results, Errors, counters
<1> QED
  BY <1>3, <1>4 DEF Refused

LEMMA ConnectionFailedHolds ==
  ASSUME StreamInv, NEW c \in Calls, ConnectionFailed(c)
  PROVE  StreamInv'
<1>1. /\ Unused(c)
      /\ UNCHANGED <<now, req, start, deadline, sentAt, hint, yielded, attempts, delivered>>
  BY DEF ConnectionFailed, Unused, history
<1>2. CASE \E kind : \E transient \in BOOLEAN : OnTransportError(c, kind, transient)
  BY <1>1, <1>2, TransportHolds
<1>3. CASE Fail(c, "Connection") /\ UNCHANGED counters
  BY <1>1, <1>3, FailHolds DEF Results, Errors, counters
<1> QED
  BY <1>2, <1>3 DEF ConnectionFailed

LEMMA ErrorEventHolds ==
  ASSUME StreamInv, NEW c \in Calls, NEW code \in ErrorCodes, ErrorEvent(c, code)
  PROVE  StreamInv'
<1>1. /\ phase[c] = "body"
      /\ UNCHANGED <<now, req, start, deadline, sentAt, hint, yielded, attempts, delivered>>
  BY DEF ErrorEvent, Event
<1>2. AsCapacityResponse(c, code) \in Response
  <2>1. hint[c] \in Hint /\ code \in Codes
    BY StreamAssumption DEF StreamInv, Types, Hint
  <2> QED
    BY <2>1 DEF AsCapacityResponse, Response
<1>3. CASE FirstEvent(c) /\ OnResponse(c, AsCapacityResponse(c, code))
  BY <1>1, <1>2, <1>3, AnsweredHolds DEF FirstEvent, Unused
<1>4. CASE Fail(c, "Server") /\ UNCHANGED counters
  BY <1>1, <1>4, FailHolds DEF Results, Errors, counters
<1> QED
  BY <1>3, <1>4 DEF ErrorEvent

LEMMA ReadHolds ==
  ASSUME StreamInv, NEW c \in Calls, Read(c)
  PROVE  StreamInv'
<1>1. CASE BodyFailed(c)
  BY <1>1, FailHolds DEF BodyFailed, Results, Errors, history
<1>2. CASE ChunkEvent(c)
  BY <1>2, ChunkHolds
<1>3. CASE DoneEvent(c) \/ EndOfBody(c)
  <2>1. Return(c, "Ended") /\ \E kind : Event(c, kind)
    BY <1>3 DEF DoneEvent, EndOfBody
  <2> QED
    BY <1>3, <2>1, ReturnHolds DEF DoneEvent, EndOfBody, Event, Results
<1>4. CASE MalformedEvent(c)
  BY <1>4, FailHolds DEF MalformedEvent, Event, Results
<1>5. CASE TrailingEvent(c)
  BY <1>5, TrailingHolds
<1>6. CASE \E code \in ErrorCodes : ErrorEvent(c, code)
  BY <1>6, ErrorEventHolds
<1> QED
  BY <1>1, <1>2, <1>3, <1>4, <1>5, <1>6 DEF Read, BodyLost, BodyTimedOut

LEMMA DropHolds ==
  ASSUME StreamInv, NEW c \in Calls, DropStream(c)
  PROVE  StreamInv'
<1>1. Quits(c)
  BY DEF DropStream, Quits, StreamInv, Types, RetryTypeOK, counters, history
<1> QED
  BY <1>1, QuitsHolds

\* Time passes only while every stream sleeps or reads before its timer.
LEMMA TickHolds == StreamInv /\ Tick => StreamInv'
<1> SUFFICES ASSUME StreamInv, Tick PROVE StreamInv'
  OBVIOUS
<1>1. Types /\ now \in Nat /\ now' = now + 1
  BY DEF StreamInv, Types, RetryTypeOK, Tick
<1>2. Types'
  BY <1>1, SMTT(30) DEF Tick, Types, RetryTypeOK, counters, history
<1>3. ASSUME NEW c \in Calls PROVE OK(c)'
  <2>1. OK(c) /\ Budget(c) \in Nat /\ start[c] \in Nat /\ wakeAt[c] \in Nat /\ deadline[c] \in Nat
    BY <1>1, RemainingNat DEF StreamInv, Types, RetryTypeOK
  <2>2. /\ phase[c] # "loop"
        /\ phase[c] = "asleep" => now < wakeAt[c]
        /\ phase[c] \in {"inflight", "body"} => now < deadline[c]
    BY DEF Tick
  <2>3. phase[c] \in Phases
    BY <1>1 DEF Types, RetryTypeOK
  <2>4. Live(c) => now + 1 <= start[c] + Budget(c)
    BY <1>1, <2>1, <2>2, <2>3 DEF Live, OK, InTime, Phases
  <2>5. InTime(c)'
    BY <1>1, <2>1, <2>4 DEF Tick, OK, InTime, Live, Budget
  <2>6. Charged(c)' /\ Clean(c)'
    BY <2>1 DEF Tick, OK, Charged, Clean, counters, history
  <2> QED
    BY <2>5, <2>6 DEF OK
<1> QED
  BY <1>2, <1>3 DEF StreamInv

LEMMA UnchangedHolds == StreamInv /\ UNCHANGED vars => StreamInv'
<1> SUFFICES ASSUME StreamInv, UNCHANGED vars PROVE StreamInv'
  OBVIOUS
<1>1. Types'
  BY DEF StreamInv, Types, RetryTypeOK, vars, history
<1>2. \A c \in Calls : Same(c)
  BY DEF Same, vars, history
<1> QED
  BY <1>1, <1>2, SameOK DEF StreamInv

LEMMA StreamNext == StreamInv /\ [Next]_vars => StreamInv'
<1> SUFFICES ASSUME StreamInv, [Next]_vars PROVE StreamInv'
  OBVIOUS
<1>1. ASSUME NEW c \in Calls, OutOfBudget(c) PROVE StreamInv'
  BY <1>1, FailHolds DEF OutOfBudget, Results, Errors, history
<1> QED
  BY <1>1, BeginHolds, ConnectHolds, OpenedHolds, RefusedHolds, ConnectionFailedHolds, ReadHolds,
     WakeHolds, DropHolds, TickHolds, UnchangedHolds DEF Next, Quiescent

THEOREM StreamInvariant == Spec => []StreamInv
  BY StreamInit, StreamNext, PTL DEF Spec

---------------------------------------------------------------------------
\* Every variable of a stream keeps its type; a connection and a sleep end within
\* the budget.
THEOREM StreamTypeCorrect == Spec => []TypeOK
<1>1. StreamInv => TypeOK
  <2>1. SUFFICES ASSUME StreamInv, NEW c \in Calls
                 PROVE  /\ Len(delivered[c]) = attempts[c]
                        /\ {wakeAt[c], deadline[c]} \subseteq 0..start[c] + Budget(c)
    BY DEF StreamInv, Types, TypeOK
  <2>2. /\ wakeAt[c] \in Nat /\ deadline[c] \in Nat /\ start[c] \in Nat /\ Budget(c) \in Nat
        /\ OK(c)
    BY <2>1, RemainingNat DEF StreamInv, Types, RetryTypeOK
  <2> QED
    BY <2>2 DEF OK, InTime, Charged
<1> QED
  BY <1>1, StreamInvariant, PTL

\* The consumer of a stream never gets chunks of two generations, and once it has
\* one nothing more is sent, whatever the server answers and whenever it fails.
THEOREM OneGenerationPerStream == Spec => []OneGeneration
<1>1. StreamInv => OneGeneration
  <2>1. SUFFICES ASSUME StreamInv, NEW c \in Calls, NEW i \in 1..Len(delivered[c]),
                        delivered[c][i] > 0
                 PROVE  i = Len(delivered[c])
    BY DEF OneGeneration
  <2>2. delivered[c] \in Seq(Nat) /\ Clean(c)
    BY <2>1 DEF StreamInv, Types, OK
  <2>3. Len(delivered[c]) \in Nat /\ ~(i < Len(delivered[c]))
    BY <2>1, <2>2 DEF Clean
  <2> QED
    BY <2>1, <2>3
<1> QED
  BY <1>1, StreamInvariant, PTL

\* All the connections of a stream share provision_timeout and max_oom_retries.
THEOREM OneBudgetPerStream == Spec => []OneBudget
<1>1. StreamInv => OneBudget
  BY DEF StreamInv, OK, InTime, Charged, OneBudget
<1> QED
  BY <1>1, StreamInvariant, PTL
---------------------------------------------------------------------------
(***************************************************************************)
(* Refinement of StreamContract.  The contract sees of a stream how it is  *)
(* over (Status), when it was opened, its requests, and which of them its  *)
(* consumer has chunks of (Sources).  A step of stream c changes these for *)
(* c alone, so each action is told by what it does to c.                   *)
(***************************************************************************)
budgets == [c \in Calls |-> Budget(c)]
statuses == [c \in Calls |-> Status(c)]
sourcesOf == [c \in Calls |-> Sources(c)]

contractVars == <<now, budgets, statuses, start, attempts, sourcesOf>>

\* Nothing the contract sees of another stream changes, nor what is fixed.
Alone(c) ==
  /\ now' = now /\ req' = req
  /\ \A d \in Calls \ {c} : Status(d)' = Status(d) /\ Sources(d)' = Sources(d)

LEMMA OthersSame ==
  ASSUME NEW c, \A d \in Calls \ {c} : /\ phase'[d] = phase[d] /\ result'[d] = result[d]
                                       /\ delivered'[d] = delivered[d],
         now' = now, req' = req
  PROVE  Alone(c)
BY DEF Alone, Status, Sources

LEMMA BudgetsFixed ==
  ASSUME req' = req
  PROVE  budgets' = budgets
BY DEF budgets, Budget

\* How c is over has become h; its consumer has the same chunks.
LEMMA StatusSet ==
  ASSUME NEW c \in Calls, NEW h, Alone(c), Status(c)' = h
  PROVE  statuses' = [statuses EXCEPT ![c] = h]
<1>1. \A d \in Calls : Status(d)' = IF d = c THEN h ELSE Status(d)
  BY DEF Alone
<1> QED
  BY <1>1 DEF statuses

LEMMA StatusKept ==
  ASSUME NEW c \in Calls, Alone(c), Status(c)' = Status(c)
  PROVE  statuses' = statuses
BY DEF Alone, statuses

LEMMA SourcesSet ==
  ASSUME NEW c \in Calls, NEW S, Alone(c), Sources(c)' = S
  PROVE  sourcesOf' = [sourcesOf EXCEPT ![c] = S]
<1>1. \A d \in Calls : Sources(d)' = IF d = c THEN S ELSE Sources(d)
  BY DEF Alone
<1> QED
  BY <1>1 DEF sourcesOf

LEMMA SourcesKept ==
  ASSUME NEW c \in Calls, Alone(c), Sources(c)' = Sources(c)
  PROVE  sourcesOf' = sourcesOf
BY DEF Alone, sourcesOf

LEMMA Seen ==
  ASSUME NEW c \in Calls
  PROVE  statuses[c] = Status(c) /\ sourcesOf[c] = Sources(c) /\ budgets[c] = Budget(c)
BY DEF statuses, sourcesOf, budgets

\* The three kinds of step that the machine's decisions are for the contract.
LEMMA StopsContract ==
  ASSUME NEW c \in Calls, NEW how \in {"ended", "failed", "dropped"}, Alone(c),
         Status(c) = "open", Status(c)' = how, Sources(c)' = Sources(c),
         how = "ended" => attempts[c] > 0, UNCHANGED <<start, attempts>>
  PROVE  Contract!Stop(c, how)
<1>1. statuses' = [statuses EXCEPT ![c] = how] /\ sourcesOf' = sourcesOf /\ budgets' = budgets
  BY StatusSet, SourcesKept, BudgetsFixed DEF Alone
<1>2. statuses[c] = "open"
  BY Seen
<1> QED
  BY <1>1, <1>2 DEF Contract!Stop, statuses, sourcesOf, budgets, Alone

LEMMA InvisibleStep ==
  ASSUME NEW c \in Calls, Alone(c), Status(c)' = Status(c), Sources(c)' = Sources(c),
         UNCHANGED <<start, attempts>>
  PROVE  UNCHANGED contractVars
BY StatusKept, SourcesKept, BudgetsFixed DEF contractVars, Alone

LEMMA SourcesOfSame ==
  ASSUME NEW c, delivered' = delivered
  PROVE  Sources(c)' = Sources(c)
BY DEF Sources

\* A stream that is neither idle nor over is open.
LEMMA OpenWhenLive ==
  ASSUME NEW c, phase[c] \in {"loop", "inflight", "body", "asleep"}
  PROVE  Status(c) = "open"
BY DEF Status

---------------------------------------------------------------------------
\* The machine stops the stream with an error, or lets it go on.
Verdict(c) ==
  \/ phase' = [phase EXCEPT ![c] = "asleep"] /\ result' = result
  \/ \E v \in Results \ {"Ended"} :
       phase' = [phase EXCEPT ![c] = "done"] /\ result' = [result EXCEPT ![c] = v]

LEMMA VerdictContract ==
  ASSUME StreamInv, NEW c \in Calls, phase[c] \in {"loop", "inflight", "body"}, Verdict(c),
         UNCHANGED <<now, req, start, attempts, delivered>>
  PROVE  Contract!Stop(c, "failed") \/ UNCHANGED contractVars
<1>1. phase \in [Calls -> Phases] /\ result \in [Calls -> Results]
  BY DEF StreamInv, Types, RetryTypeOK
<1>2. Alone(c)
  BY <1>1, OthersSame DEF Verdict
<1>3. Sources(c)' = Sources(c) /\ Status(c) = "open"
  BY SourcesOfSame, OpenWhenLive
<1>4. CASE phase' = [phase EXCEPT ![c] = "asleep"]
  <2>1. Status(c)' = "open"
    BY <1>1, <1>4 DEF Status
  <2> QED
    BY <1>2, <1>3, <2>1, InvisibleStep
<1>5. CASE \E v \in Results \ {"Ended"} :
             phase' = [phase EXCEPT ![c] = "done"] /\ result' = [result EXCEPT ![c] = v]
  <2>1. Status(c)' = "failed"
    BY <1>1, <1>5 DEF Status
  <2> QED
    BY <1>2, <1>3, <2>1, StopsContract
<1> QED
  BY <1>4, <1>5 DEF Verdict

LEMMA OnResponseVerdict ==
  ASSUME NEW c \in Calls, NEW r, OnResponse(c, r)
  PROVE  Verdict(c)
<1>1. ASSUME NEW delays, Retry(c, delays) PROVE Verdict(c)
  BY <1>1 DEF Retry, Verdict
<1>2. ASSUME NEW v \in Errors \cup {"Accepted"}, Return(c, v) PROVE Verdict(c)
  BY <1>2 DEF Return, Verdict, Results, Errors
<1>3. TerminalError(r) \in Errors
  BY DEF TerminalError, Errors
<1>4. CASE OnProvisioning(c, r)
  BY <1>1, <1>2, <1>4 DEF OnProvisioning, Fail, Errors
<1>5. CASE OnModelLoading(c, r)
  BY <1>1, <1>2, <1>5 DEF OnModelLoading, Fail, Errors
<1>6. CASE OnLoraLoading(c, r)
  BY <1>1, <1>2, <1>6 DEF OnLoraLoading, Fail, Errors
<1>7. CASE OnResourceExhausted(c, r)
  BY <1>1, <1>2, <1>7 DEF OnResourceExhausted, Fail, Errors
<1>8. CASE OnGatewayTimeout(c, r)
  BY <1>1, <1>8 DEF OnGatewayTimeout
<1> QED
  BY <1>2, <1>3, <1>4, <1>5, <1>6, <1>7, <1>8 DEF OnResponse, Fail, Accept, Errors

LEMMA OnTransportErrorVerdict ==
  ASSUME NEW c \in Calls, NEW kind, NEW transient, OnTransportError(c, kind, transient)
  PROVE  Verdict(c)
BY DEF OnTransportError, Fail, Return, Retry, Verdict, Results, Errors

LEMMA FailVerdict ==
  ASSUME NEW c \in Calls, NEW v \in Errors \cup {"Decode"}, Fail(c, v)
  PROVE  Verdict(c)
BY DEF Fail, Return, Verdict, Results, Errors

LEMMA MachineContract ==
  ASSUME StreamInv, NEW c \in Calls,
         \/ OutOfBudget(c) \/ Refused(c) \/ ConnectionFailed(c) \/ BodyFailed(c)
         \/ MalformedEvent(c) \/ \E code \in ErrorCodes : ErrorEvent(c, code)
  PROVE  Contract!Stop(c, "failed") \/ UNCHANGED contractVars
<1>1. CASE OutOfBudget(c)
  BY <1>1, FailVerdict, VerdictContract DEF OutOfBudget, history, Errors
<1>2. CASE Refused(c)
  BY <1>2, FailVerdict, OnResponseVerdict, VerdictContract DEF Refused, history, Errors
<1>3. CASE ConnectionFailed(c)
  BY <1>3, FailVerdict, OnTransportErrorVerdict, VerdictContract
  DEF ConnectionFailed, history, Errors
<1>4. CASE BodyFailed(c)
  BY <1>4, FailVerdict, VerdictContract DEF BodyFailed, history, Errors
<1>5. CASE MalformedEvent(c)
  BY <1>5, FailVerdict, VerdictContract DEF MalformedEvent, Event
<1>6. CASE \E code \in ErrorCodes : ErrorEvent(c, code)
  BY <1>6, FailVerdict, OnResponseVerdict, VerdictContract DEF ErrorEvent, Event, Errors
<1> QED
  BY <1>1, <1>2, <1>3, <1>4, <1>5, <1>6

---------------------------------------------------------------------------
LEMMA BeginContract ==
  ASSUME StreamInv, NEW c \in Calls, Begin(c)
  PROVE  Contract!Open(c)
<1>1. phase \in [Calls -> Phases] /\ phase[c] = "idle" /\ phase'[c] = "loop"
  BY DEF StreamInv, Types, RetryTypeOK, Begin
<1>2. Alone(c)
  BY <1>1, OthersSame DEF Begin, history
<1>3. Status(c) = "idle" /\ Status(c)' = "open" /\ Sources(c)' = Sources(c)
  BY <1>1, SourcesOfSame DEF Status, Begin, history
<1>4. statuses' = [statuses EXCEPT ![c] = "open"] /\ sourcesOf' = sourcesOf /\ budgets' = budgets
  BY <1>2, <1>3, StatusSet, SourcesKept, BudgetsFixed DEF Alone
<1>5. statuses[c] = "idle"
  BY <1>3, Seen
<1> QED
  BY <1>4, <1>5 DEF Contract!Open, statuses, sourcesOf, budgets, Begin, history

\* A connection follows others only while nothing was delivered, and in time.
LEMMA ConnectContract ==
  ASSUME StreamInv, NEW c \in Calls, Connect(c)
  PROVE  Contract!Ask(c)
<1>1. Types /\ Clean(c) /\ phase[c] = "loop"
  BY DEF StreamInv, OK, Connect
<1>2. /\ phase \in [Calls -> Phases] /\ phase' = [phase EXCEPT ![c] = "inflight"]
      /\ delivered \in [Calls -> Seq(Nat)]
      /\ delivered' = [delivered EXCEPT ![c] = Append(@, 0)]
      /\ UNCHANGED <<now, req, start, result>>
      /\ attempts' = [attempts EXCEPT ![c] = @ + 1]
  BY <1>1 DEF Types, RetryTypeOK, Connect
<1>3. Alone(c)
  BY <1>2, OthersSame
<1>4. Sources(c) = {} /\ Sources(c)' = {}
  <2>1. delivered[c] \in Seq(Nat) /\ delivered'[c] = Append(delivered[c], 0)
    BY <1>2
  <2>2. \A i \in 1..Len(delivered[c]) : delivered[c][i] = 0
    BY <1>1 DEF Clean
  <2>3. \A i \in 1..Len(delivered'[c]) : delivered'[c][i] = 0
    BY <2>1, <2>2
  <2> QED
    BY <2>1, <2>2, <2>3, SMTT(30) DEF Sources
<1>5. Status(c) = "open" /\ Status(c)' = "open"
  BY <1>1, <1>2 DEF Status
<1>6. statuses' = statuses /\ sourcesOf' = sourcesOf /\ budgets' = budgets
  BY <1>2, <1>3, <1>4, <1>5, StatusKept, SourcesKept, BudgetsFixed
<1>7. now < start[c] + Budget(c)
  <2>1. now \in Nat /\ start[c] \in Nat /\ Budget(c) \in Nat
    BY <1>1, RemainingNat DEF Types, RetryTypeOK
  <2> QED
    BY <2>1 DEF Connect, Remaining, Elapsed
<1>8. statuses[c] = "open" /\ sourcesOf[c] = {} /\ budgets[c] = Budget(c)
  BY <1>4, <1>5, Seen
<1> QED
  BY <1>2, <1>6, <1>7, <1>8 DEF Contract!Ask, statuses, sourcesOf, budgets

\* A chunk comes from the latest connection.
LEMMA ChunkSources ==
  ASSUME StreamInv, NEW c \in Calls, phase[c] = "body", Delivered(c)
  PROVE  /\ Sources(c)' = Sources(c) \cup {attempts[c]} /\ attempts[c] > 0
         /\ \A d \in Calls \ {c} : delivered'[d] = delivered[d]
<1> DEFINE a == attempts[c]
           n == delivered[c][attempts[c]] + 1
<1>1. Types /\ delivered \in [Calls -> Seq(Nat)] /\ delivered[c] \in Seq(Nat)
  BY DEF StreamInv, Types
<1>2. a \in 1..Len(delivered[c]) /\ n \in Nat /\ n > 0
  <2>1. a \in 1..Len(delivered[c])
    BY Reading
  <2>2. delivered[c][a] \in Nat
    BY <1>1, <2>1
  <2> QED
    BY <2>1, <2>2
<1>3. delivered' = [delivered EXCEPT ![c][a] = n]
  BY DEF Delivered
<1> HIDE DEF a, n
<1>4. delivered'[c] = [delivered[c] EXCEPT ![a] = n]
  BY <1>1, <1>3
<1>5. DOMAIN delivered'[c] = DOMAIN delivered[c] /\ a \in DOMAIN delivered[c]
  BY <1>1, <1>2, <1>4
<1>6. \A i \in DOMAIN delivered[c] : delivered'[c][i] = IF i = a THEN n ELSE delivered[c][i]
  BY <1>1, <1>4
<1>7. Sources(c)' = Sources(c) \cup {a}
  BY <1>2, <1>5, <1>6 DEF Sources
<1>8. \A d \in Calls \ {c} : delivered'[d] = delivered[d]
  BY <1>1, <1>3
<1>9. a > 0
  BY <1>1, <1>2
<1> QED
  BY <1>7, <1>8, <1>9 DEF a

LEMMA DeliverContract ==
  ASSUME StreamInv, NEW c \in Calls, phase[c] = "body", Delivered(c),
         \/ UNCHANGED <<phase, result>>
         \/ Return(c, "Ended"),
         UNCHANGED <<now, req, start, attempts>>
  PROVE  Contract!Deliver(c)
<1>1. phase \in [Calls -> Phases] /\ result \in [Calls -> Results]
  BY DEF StreamInv, Types, RetryTypeOK
<1>2. /\ Sources(c)' = Sources(c) \cup {attempts[c]} /\ attempts[c] > 0
      /\ \A d \in Calls \ {c} : delivered'[d] = delivered[d]
  BY ChunkSources
<1>3. Alone(c)
  BY <1>1, <1>2, OthersSame DEF Return
<1>4. statuses[c] = "open" /\ sourcesOf[c] = Sources(c)
  BY Seen, OpenWhenLive
<1>5. statuses' \in {statuses, [statuses EXCEPT ![c] = "ended"]}
  <2>1. CASE UNCHANGED <<phase, result>>
    BY <1>3, <2>1, StatusKept DEF Status
  <2>2. CASE Return(c, "Ended")
    <3>1. Status(c)' = "ended"
      BY <1>1, <2>2 DEF Return, Status
    <3> QED
      BY <1>3, <3>1, StatusSet
  <2> QED
    BY <2>1, <2>2
<1>6. sourcesOf' = [sourcesOf EXCEPT ![c] = Sources(c) \cup {attempts[c]}] /\ budgets' = budgets
  BY <1>2, <1>3, SourcesSet, BudgetsFixed
<1>7. sourcesOf' = [sourcesOf EXCEPT ![c] = @ \cup {attempts[c]}]
  BY <1>4, <1>6
<1> QED
  BY <1>2, <1>4, <1>5, <1>6, <1>7 DEF Contract!Deliver, statuses, sourcesOf, budgets

LEMMA EndContract ==
  ASSUME StreamInv, NEW c \in Calls, phase[c] = "body", Return(c, "Ended"),
         UNCHANGED <<now, req, start, attempts, delivered>>
  PROVE  Contract!Stop(c, "ended")
<1>1. phase \in [Calls -> Phases] /\ result \in [Calls -> Results]
  BY DEF StreamInv, Types, RetryTypeOK
<1>2. Alone(c)
  BY <1>1, OthersSame DEF Return
<1>3. Status(c) = "open" /\ Status(c)' = "ended" /\ Sources(c)' = Sources(c)
  BY <1>1, OpenWhenLive, SourcesOfSame DEF Return, Status
<1>4. attempts[c] > 0
  <2>1. attempts[c] \in 1..Len(delivered[c]) /\ delivered[c] \in Seq(Nat)
    BY Reading DEF StreamInv, Types
  <2> QED
    BY <2>1
<1> QED
  BY <1>2, <1>3, <1>4, StopsContract

LEMMA DropContract ==
  ASSUME StreamInv, NEW c \in Calls, DropStream(c)
  PROVE  Contract!Stop(c, "dropped")
<1>1. /\ phase \in [Calls -> Phases] /\ phase[c] \notin {"idle", "done", "dropped"}
      /\ phase' = [phase EXCEPT ![c] = "dropped"]
      /\ UNCHANGED <<now, req, start, result, attempts, delivered>>
  BY DEF StreamInv, Types, RetryTypeOK, DropStream, Live, history
<1>2. Alone(c)
  BY <1>1, OthersSame
<1>3. Status(c) = "open" /\ Status(c)' = "dropped" /\ Sources(c)' = Sources(c)
  BY <1>1, SourcesOfSame DEF Status
<1> QED
  BY <1>1, <1>2, <1>3, StopsContract

LEMMA OpenedContract ==
  ASSUME StreamInv, NEW c \in Calls, Opened(c) \/ Wake(c)
  PROVE  UNCHANGED contractVars
<1>1. /\ phase \in [Calls -> Phases] /\ phase[c] \in {"inflight", "asleep"}
      /\ \E p \in {"body", "loop"} : phase' = [phase EXCEPT ![c] = p]
      /\ UNCHANGED <<now, req, start, result, attempts, delivered>>
  BY DEF StreamInv, Types, RetryTypeOK, Opened, Wake, history
<1>2. Alone(c)
  BY <1>1, OthersSame
<1>3. Status(c) = "open" /\ Status(c)' = "open" /\ Sources(c)' = Sources(c)
  BY <1>1, SourcesOfSame DEF Status
<1> QED
  BY <1>1, <1>2, <1>3, InvisibleStep

LEMMA TrailingContract ==
  ASSUME StreamInv, NEW c \in Calls, TrailingEvent(c)
  PROVE  \/ Contract!Deliver(c) \/ \E how \in {"ended", "failed"} : Contract!Stop(c, how)
         \/ UNCHANGED contractVars
<1>1. CASE Event(c, "chunk") /\ Delivered(c) /\ Return(c, "Ended")
  BY <1>1, DeliverContract DEF Event
<1>2. CASE /\ \E kind \in {"done", "trailing error"} : Event(c, kind)
           /\ Return(c, "Ended") /\ UNCHANGED delivered
  BY <1>2, EndContract DEF Event
<1>3. CASE Event(c, "malformed") /\ Fail(c, "Decode") /\ UNCHANGED delivered
  BY <1>3, FailVerdict, VerdictContract DEF Event
<1> QED
  BY <1>1, <1>2, <1>3 DEF TrailingEvent

\* Time passes only while every stream that is open has some of its own left.
LEMMA TickContract ==
  ASSUME StreamInv, Tick
  PROVE  Contract!Pass
<1>1. /\ now' = now + 1 /\ start' = start /\ attempts' = attempts /\ req' = req
      /\ phase' = phase /\ result' = result /\ delivered' = delivered
  BY DEF Tick, history
<1>2. statuses' = statuses /\ sourcesOf' = sourcesOf /\ budgets' = budgets
  BY <1>1, BudgetsFixed DEF statuses, sourcesOf, Status, Sources
<1>3. ASSUME NEW c \in Calls, statuses[c] = "open" PROVE now < start[c] + budgets[c]
  <2>1. /\ OK(c) /\ Budget(c) \in Nat /\ start[c] \in Nat /\ now \in Nat
        /\ wakeAt[c] \in Nat /\ deadline[c] \in Nat /\ phase[c] \in Phases
    BY RemainingNat DEF StreamInv, Types, RetryTypeOK
  <2>2. phase[c] \notin {"idle", "dropped", "done", "queued", "loop"}
    BY <1>3, <2>1, Seen DEF Status, OK, InTime, Tick
  <2>3. \/ phase[c] = "asleep" /\ now < wakeAt[c]
        \/ phase[c] \in {"inflight", "body"} /\ now < deadline[c]
    BY <2>1, <2>2 DEF Tick, Phases
  <2>4. wakeAt[c] <= start[c] + Budget(c) /\ deadline[c] <= start[c] + Budget(c)
    BY <2>1 DEF OK, InTime
  <2>5. now < start[c] + Budget(c)
    BY <2>1, <2>3, <2>4
  <2> QED
    BY <2>5, Seen
<1> QED
  BY <1>1, <1>2, <1>3 DEF Contract!Pass, statuses, sourcesOf, budgets

LEMMA ContractInit == Init => Contract!Init
<1> SUFFICES ASSUME Init PROVE Contract!Init
  OBVIOUS
<1>1. /\ now = 0 /\ start = [c \in Calls |-> 0] /\ attempts = [c \in Calls |-> 0]
      /\ phase = [c \in Calls |-> "idle"] /\ delivered = [c \in Calls |-> <<>>]
  BY DEF Init
<1>2. statuses = [c \in Calls |-> "idle"] /\ sourcesOf = [c \in Calls |-> {}]
  BY <1>1 DEF statuses, sourcesOf, Status, Sources
<1>3. budgets \in [Calls -> Nat]
  <2>1. StreamInv
    BY StreamInit
  <2>2. \A c \in Calls : Budget(c) \in Nat
    BY <2>1, RemainingNat DEF StreamInv, Types
  <2> QED
    BY <2>2 DEF budgets
<1> QED
  BY <1>1, <1>2, <1>3 DEF Contract!Init, statuses, sourcesOf, budgets

LEMMA ContractNext == StreamInv /\ [Next]_vars => [Contract!Next]_(Contract!vars)
<1> SUFFICES ASSUME StreamInv, [Next]_vars PROVE Contract!Next \/ UNCHANGED contractVars
  BY DEF Contract!vars, contractVars, statuses, sourcesOf, budgets
<1>1. ASSUME NEW c \in Calls,
             \/ Contract!Open(c) \/ Contract!Ask(c) \/ Contract!Deliver(c)
             \/ \E how \in {"ended", "failed", "dropped"} : Contract!Stop(c, how)
      PROVE  Contract!Next
  BY <1>1 DEF Contract!Next
<1>2. ASSUME NEW c \in Calls, Read(c)
      PROVE  Contract!Next \/ UNCHANGED contractVars
  <2>1. CASE ChunkEvent(c)
    BY <1>1, <2>1, DeliverContract DEF ChunkEvent, Event
  <2>2. CASE DoneEvent(c) \/ EndOfBody(c)
    <3>1. phase[c] = "body" /\ Return(c, "Ended") /\ UNCHANGED <<now, req, start, attempts, delivered>>
      BY <2>2 DEF DoneEvent, EndOfBody, Event
    <3> QED
      BY <1>1, <3>1, EndContract
  <2>3. CASE TrailingEvent(c)
    BY <1>1, <2>3, TrailingContract
  <2>4. CASE BodyFailed(c) \/ MalformedEvent(c) \/ \E code \in ErrorCodes : ErrorEvent(c, code)
    BY <1>1, <2>4, MachineContract
  <2> QED
    BY <1>2, <2>1, <2>2, <2>3, <2>4 DEF Read, BodyLost, BodyTimedOut
<1>3. ASSUME NEW c \in Calls, Begin(c) \/ Connect(c) \/ DropStream(c)
      PROVE  Contract!Next
  BY <1>1, <1>3, BeginContract, ConnectContract, DropContract
<1>4. ASSUME NEW c \in Calls, OutOfBudget(c) \/ Refused(c) \/ ConnectionFailed(c)
      PROVE  Contract!Next \/ UNCHANGED contractVars
  BY <1>1, <1>4, MachineContract
<1>5. ASSUME Tick PROVE Contract!Next
  BY <1>5, TickContract DEF Contract!Next
<1>6. ASSUME UNCHANGED vars PROVE UNCHANGED contractVars
  BY <1>6 DEF vars, history, contractVars, statuses, sourcesOf, budgets, Status, Sources, Budget
<1> QED
  BY <1>2, <1>3, <1>4, <1>5, <1>6, OpenedContract DEF Next, Quiescent

\* A stream asks again only while its consumer has nothing and its time lasts, gives
\* chunks of its latest request only, and is over once: sse_stream implements
\* StreamContract, whatever the server sends and whenever it fails.
THEOREM StreamsKeepTheContract == Spec => ImplementsStreamContract
<1>1. Spec => Contract!Init /\ [][Contract!Next]_(Contract!vars)
  BY StreamInvariant, ContractInit, ContractNext, PTL DEF Spec
<1> QED
  BY <1>1 DEF ImplementsStreamContract, Contract!Spec
=============================================================================
