-------------------------- MODULE ClientSendProofs --------------------------
(***************************************************************************)
(* Theorems about ClientSend, for any number of calls, any permits, any    *)
(* requests and answers, any delays and any lag: first the semaphore and   *)
(* the types, then what a caller is promised.                              *)
(***************************************************************************)
EXTENDS ClientSend, RetryStateProofs, FiniteSetTheorems

\* The semaphore's queue holds exactly the calls that wait for a permit, each once.
QueueOK ==
  /\ \A i \in 1..Len(waiters) : phase[waiters[i]] = "queued"
  /\ \A i, j \in 1..Len(waiters) : waiters[i] = waiters[j] => i = j
  /\ \A c \in Calls : phase[c] = "queued" => \E i \in 1..Len(waiters) : waiters[i] = c

---------------------------------------------------------------------------
\* A dropped future leaves a queue in which everyone else keeps their order.
LEMMA WithoutOne ==
  ASSUME NEW S, NEW queue \in Seq(S), NEW k \in 1..Len(queue),
         \A i, j \in 1..Len(queue) : queue[i] = queue[j] => i = j
  PROVE  /\ Without(queue, queue[k]) \in Seq(S)
         /\ Len(Without(queue, queue[k])) = Len(queue) - 1
         /\ \A j \in 1..Len(queue) - 1 :
              Without(queue, queue[k])[j] = queue[IF j < k THEN j ELSE j + 1]
<1> DEFINE before == SubSeq(queue, 1, k - 1)
           after == SubSeq(queue, k + 1, Len(queue))
<1>1. (CHOOSE n \in 1..Len(queue) : queue[n] = queue[k]) = k OBVIOUS
<1>2. Without(queue, queue[k]) = before \o after BY <1>1 DEF Without
<1>3. /\ before \in Seq(S) /\ Len(before) = k - 1
      /\ \A j \in 1..k - 1 : before[j] = queue[j]
  OBVIOUS
<1>4. /\ after \in Seq(S) /\ Len(after) = Len(queue) - k
      /\ \A j \in 1..Len(queue) - k : after[j] = queue[k + j]
  OBVIOUS
<1> HIDE DEF before, after
<1>5. /\ before \o after \in Seq(S) /\ Len(before \o after) = Len(queue) - 1
      /\ \A j \in 1..Len(queue) - 1 :
           (before \o after)[j] = IF j < k THEN before[j] ELSE after[j - (k - 1)]
  BY <1>3, <1>4
<1>6. ASSUME NEW j \in 1..Len(queue) - 1
      PROVE  (before \o after)[j] = queue[IF j < k THEN j ELSE j + 1]
  <2>1. CASE j < k BY <2>1, <1>3, <1>5
  <2>2. CASE ~(j < k)
    <3>1. j - (k - 1) \in 1..Len(queue) - k BY <2>2
    <3>2. after[j - (k - 1)] = queue[j + 1] BY <3>1, <1>4
    <3> QED BY <2>2, <3>2, <1>5
  <2> QED BY <2>1, <2>2
<1> QED BY <1>2, <1>5, <1>6

\* Every answer a call may hold is a response.
LEMMA AnswerTyped ==
  ASSUME TypeOK, NEW c \in Calls
  PROVE  answer[c] \in Response
BY SendAssumption DEF TypeOK, NoAnswer, Response, Codes, Hint

\* Whatever the model lets a server answer is a response RetryState can decide on.
LEMMA ResponsesTyped ==
  ASSUME NEW r \in Responses
  PROVE  r \in Response
BY SendAssumption

\* The end of an attempt keeps the type of everything it records.
LEMMA EndedTyped ==
  ASSUME TypeOK, NEW c \in Calls, NEW how \in Outcomes, NEW ran \in BOOLEAN,
         Ended(c, how, ran)
  PROVE  /\ reached' \in [Calls -> BOOLEAN]
         /\ last' \in [Calls -> Outcomes]
<1>1. reached' \in [Calls -> BOOLEAN] BY DEF Ended, TypeOK
<1>2. last' \in [Calls -> Outcomes] BY DEF Ended, TypeOK
<1> QED BY <1>1, <1>2

\* How an answer is remembered in `last` is one of the outcomes.
LEMMA OutcomeTyped ==
  ASSUME NEW r \in Responses
  PROVE  Outcome(r) \in Outcomes /\ MayHaveRun(r) \in BOOLEAN
<1>1. Outcome(r) \in Outcomes
  <2>1. r.code \in Codes BY ResponsesTyped DEF Response
  <2> QED BY <2>1 DEF Outcome, Outcomes, Codes
<1>2. MayHaveRun(r) \in BOOLEAN BY DEF MayHaveRun
<1> QED BY <1>1, <1>2

---------------------------------------------------------------------------
\* Before the first call the state is typed and nobody is queued.
LEMMA InitIndInv == Init => TypeOK /\ QueueOK
<1> SUFFICES ASSUME Init PROVE TypeOK /\ QueueOK OBVIOUS
<1>1. RetryTypeOK BY SendAssumption DEF Init, RetryTypeOK, Phases, Results
<1>2. TypeOK BY <1>1, SendAssumption DEF Init, TypeOK, Outcomes
<1> QED BY <1>2 DEF Init, QueueOK

\* Every action of the send loops keeps the type of the whole state.
LEMMA StepTypeOK ==
  ASSUME TypeOK, QueueOK, [Next]_vars
  PROVE  TypeOK'
<1> USE DEF TypeOK
<1>0. now \in Nat BY DEF RetryTypeOK
<1>1. ASSUME NEW c \in Calls, Begin(c) PROVE TypeOK'
  BY <1>1 DEF Begin, RetryTypeOK, Phases, counters, history
<1>2. ASSUME NEW c \in Calls, OutOfBudget(c) PROVE TypeOK'
  <2>1. RetryTypeOK' BY <1>2, ReturnTyped DEF OutOfBudget, Fail, Results, Errors
  <2> QED BY <1>2, <2>1 DEF OutOfBudget, history
<1>3. ASSUME NEW c \in Calls, Enqueue(c) PROVE TypeOK'
  <2>1. AttemptTimeout(c) \in Nat
    BY RemainingNat, AtMostNat, ClientTimeoutAssumption DEF AttemptTimeout
  <2>2. RetryTypeOK' BY <1>3 DEF Enqueue, RetryTypeOK, Phases, counters
  <2> QED BY <1>0, <1>3, <2>1, <2>2 DEF Enqueue
<1>4. ASSUME NEW c \in Calls, Send(c) PROVE TypeOK'
  <2>1. RetryTypeOK' BY <1>4 DEF Send, RetryTypeOK, Phases, counters
  <2>2. waiters' \in Seq(Calls) BY <1>4 DEF Send
  <2>3. permits' \in Nat BY <1>4 DEF Send, PermitFree
  <2>4. sentAt' \in [Calls -> Nat] /\ attempts' \in [Calls -> Nat]
    <3>1. sentAt' = [sentAt EXCEPT ![c] = now] BY <1>4 DEF Send
    <3>2. attempts' = [attempts EXCEPT ![c] = @ + 1] BY <1>4 DEF Send
    <3> QED BY <1>0, <3>1, <3>2
  <2>5. UNCHANGED <<req, timeout, answer, reached, last, queuedAt>> BY <1>4 DEF Send
  <2> QED BY <2>1, <2>2, <2>3, <2>4, <2>5
<1>5. ASSUME NEW c \in Calls, NEW r \in Responses, Answered(c, r) PROVE TypeOK'
  <2>1. RetryTypeOK' BY <1>5, ResponsesTyped, OnResponseTyped DEF Answered, Ended
  <2>2. reached' \in [Calls -> BOOLEAN] /\ last' \in [Calls -> Outcomes]
    <3>1. Ended(c, Outcome(r), MayHaveRun(r)) BY <1>5 DEF Answered
    <3>2. Outcome(r) \in Outcomes /\ MayHaveRun(r) \in BOOLEAN BY OutcomeTyped
    <3> HIDE DEF TypeOK
    <3> QED BY <3>1, <3>2, EndedTyped
  <2> QED BY <1>5, <2>1, <2>2 DEF Answered, Ended, Release
<1>6. ASSUME NEW c \in Calls, NEW r \in Responses, StreamOpened(c, r) PROVE TypeOK'
  <2>1. RetryTypeOK' BY <1>6, ReturnTyped DEF StreamOpened, Ended, Results
  <2>2. reached' \in [Calls -> BOOLEAN] /\ last' \in [Calls -> Outcomes]
    BY <1>6 DEF StreamOpened, Ended, Outcomes
  <2> QED BY <1>6, <2>1, <2>2 DEF StreamOpened, Ended, Release
<1>7. ASSUME NEW c \in Calls, NEW r \in Responses, StreamRefused(c, r) PROVE TypeOK'
  <2>1. RetryTypeOK' BY <1>7 DEF StreamRefused, Ended, RetryTypeOK, Phases, counters
  <2>2. reached' \in [Calls -> BOOLEAN] /\ last' \in [Calls -> Outcomes]
    <3>1. Ended(c, Outcome(r), MayHaveRun(r)) BY <1>7 DEF StreamRefused
    <3>2. Outcome(r) \in Outcomes /\ MayHaveRun(r) \in BOOLEAN BY OutcomeTyped
    <3> HIDE DEF TypeOK
    <3> QED BY <3>1, <3>2, EndedTyped
  <2>3. answer' \in [Calls -> Responses \cup {NoAnswer}] BY <1>7 DEF StreamRefused
  <2>4. permits' \in Nat BY <1>7 DEF StreamRefused, Release
  <2>5. UNCHANGED <<req, waiters, timeout, sentAt, attempts, queuedAt>>
    BY <1>7 DEF StreamRefused, Ended
  <2> QED BY <2>1, <2>2, <2>3, <2>4, <2>5
<1>8. ASSUME NEW c \in Calls, RefusalRead(c) PROVE TypeOK'
  <2>1. RetryTypeOK'
    <3>1. CASE answer[c].status >= 400 /\ OnResponse(c, answer[c])
      BY <1>8, <3>1, AnswerTyped, OnResponseTyped DEF RefusalRead
    <3>2. CASE Fail(c, "Request") /\ UNCHANGED counters
      BY <1>8, <3>2, ReturnTyped DEF RefusalRead, Fail, counters, Results, Errors
    <3> QED BY <1>8, <3>1, <3>2 DEF RefusalRead
  <2> QED BY <1>8, <2>1 DEF RefusalRead, history
<1>9. ASSUME NEW c \in Calls, RefusalLost(c) PROVE TypeOK'
  <2>1. RetryTypeOK' BY <1>9, ReturnTyped DEF RefusalLost, Fail, Results, Errors
  <2> QED BY <1>9, <2>1 DEF RefusalLost, history
<1>10. ASSUME NEW c \in Calls, NEW transient \in BOOLEAN, ConnectFailed(c, transient)
       PROVE  TypeOK'
  <2>1. RetryTypeOK' BY <1>10, OnTransportErrorTyped DEF ConnectFailed, Ended
  <2>2. reached' \in [Calls -> BOOLEAN] /\ last' \in [Calls -> Outcomes]
    BY <1>10 DEF ConnectFailed, Ended, Outcomes
  <2> QED BY <1>10, <2>1, <2>2 DEF ConnectFailed, Ended, Release
<1>11. ASSUME NEW c \in Calls, ConnectionLost(c) PROVE TypeOK'
  <2>1. RetryTypeOK' BY <1>11, OnTransportErrorTyped DEF ConnectionLost, Ended
  <2>2. reached' \in [Calls -> BOOLEAN] /\ last' \in [Calls -> Outcomes]
    BY <1>11 DEF ConnectionLost, Ended, Outcomes
  <2> QED BY <1>11, <2>1, <2>2 DEF ConnectionLost, Ended, Release
<1>12. ASSUME NEW c \in Calls, TimedOut(c) PROVE TypeOK'
  <2>1. RetryTypeOK' BY <1>12, OnTransportErrorTyped DEF TimedOut, Ended
  <2>2. reached' \in [Calls -> BOOLEAN] /\ last' \in [Calls -> Outcomes]
    BY <1>12 DEF TimedOut, Ended, Outcomes
  <2> QED BY <1>12, <2>1, <2>2 DEF TimedOut, Ended, Release
<1>13. ASSUME NEW c \in Calls, Wake(c) PROVE TypeOK'
  BY <1>13 DEF Wake, RetryTypeOK, Phases, counters, history
<1>14. ASSUME NEW c \in Calls, DropFuture(c) PROVE TypeOK'
  <2>1. RetryTypeOK' BY <1>14 DEF DropFuture, RetryTypeOK, Phases, counters
  <2>2. permits' \in Nat BY <1>14 DEF DropFuture
  <2>3. waiters' \in Seq(Calls)
    <3>1. CASE phase[c] = "queued"
      <4>1. PICK k \in 1..Len(waiters) : waiters[k] = c BY <3>1 DEF QueueOK
      <4>2. waiters' = Without(waiters, waiters[k]) BY <1>14, <3>1, <4>1 DEF DropFuture
      <4> QED BY <4>2, WithoutOne DEF QueueOK
    <3>2. CASE phase[c] # "queued" BY <1>14, <3>2 DEF DropFuture
    <3> QED BY <3>1, <3>2
  <2> QED BY <1>14, <2>1, <2>2, <2>3 DEF DropFuture, history
<1>15. ASSUME Tick PROVE TypeOK'
  <2>1. now' \in Nat BY <1>0, <1>15 DEF Tick
  <2>2. UNCHANGED <<req, start, retries, oom_retries, lora_retries, phase, wakeAt, result>>
    BY <1>15 DEF Tick, counters
  <2>3. RetryTypeOK' BY <2>1, <2>2 DEF RetryTypeOK
  <2> QED BY <1>15, <2>3 DEF Tick, history
<1>16. ASSUME UNCHANGED vars PROVE TypeOK'
  BY <1>16 DEF vars, RetryTypeOK, counters, history
<1> QED
  BY <1>1, <1>2, <1>3, <1>4, <1>5, <1>6, <1>7, <1>8, <1>9, <1>10, <1>11, <1>12, <1>13,
     <1>14, <1>15, <1>16 DEF Next, Attempt, Quiescent

---------------------------------------------------------------------------
(***************************************************************************)
(* What a step does to the semaphore.  Either a call moves between phases  *)
(* outside the queue, giving back the permit it held, or it joins, leaves  *)
(* at the head, or drops out of the queue.                                 *)
(***************************************************************************)
Elsewhere == Phases \ {"queued", "inflight"}

Moves(c) ==
  /\ \E p \in Elsewhere : phase' = [phase EXCEPT ![c] = p]
  /\ UNCHANGED waiters
  /\ \/ phase[c] \in Elsewhere /\ UNCHANGED permits
     \/ phase[c] = "inflight" /\ permits' = permits + 1

\* A decision ends the call or puts it to sleep, and moves no other call.
LEMMA DecidedPhase ==
  ASSUME NEW c \in Calls, Decided(c)
  PROVE  \E p \in Elsewhere : phase' = [phase EXCEPT ![c] = p]
BY DEF Decided, Return, Retry, Elsewhere, Phases

\* Every step moves a call outside the queue, or is one of the queue's three operations.
LEMMA StepShapes ==
  ASSUME TypeOK, [Next]_vars
  PROVE  \/ \E c \in Calls : Moves(c)
         \/ \E c \in Calls : Enqueue(c) \/ Send(c) \/ (phase[c] = "queued" /\ DropFuture(c))
         \/ UNCHANGED <<phase, permits, waiters>>
<1>0. RetryTypeOK BY DEF TypeOK
<1>1. ASSUME NEW c \in Calls, Begin(c) PROVE Moves(c)
  BY <1>1 DEF Begin, Moves, Elsewhere, Phases
<1>2. ASSUME NEW c \in Calls, OutOfBudget(c) PROVE Moves(c)
  BY <1>2 DEF OutOfBudget, Fail, Return, Moves, Elsewhere, Phases
<1>3. ASSUME NEW c \in Calls, Wake(c) PROVE Moves(c)
  BY <1>3 DEF Wake, Moves, Elsewhere, Phases
<1>4. ASSUME NEW c \in Calls, DropFuture(c), phase[c] # "queued" PROVE Moves(c)
  <2>1. phase' = [phase EXCEPT ![c] = "dropped"] /\ "dropped" \in Elsewhere
    BY <1>4 DEF DropFuture, Elsewhere, Phases
  <2>2. UNCHANGED waiters BY <1>4 DEF DropFuture
  <2>3. \/ phase[c] \in Elsewhere /\ UNCHANGED permits
        \/ phase[c] = "inflight" /\ permits' = permits + 1
    BY <1>4 DEF DropFuture, Elsewhere, Phases
  <2> QED BY <2>1, <2>2, <2>3 DEF Moves
<1>5. ASSUME NEW c \in Calls, Attempt(c) PROVE Moves(c)
  <2>1. ASSUME phase[c] = "inflight", Release, UNCHANGED waiters,
               Decided(c) \/ phase' = [phase EXCEPT ![c] = "body"]
               \/ phase' = [phase EXCEPT ![c] = "done"]
        PROVE  Moves(c)
    <3>1. \E p \in Elsewhere : phase' = [phase EXCEPT ![c] = p]
      BY <2>1, DecidedPhase DEF Elsewhere, Phases
    <3> QED BY <2>1, <3>1 DEF Moves, Release
  <2>2. ASSUME NEW r \in Responses, Answered(c, r) PROVE Moves(c)
    <3>1. Decided(c) BY <1>0, <2>2, ResponsesTyped, OnResponseDecides DEF Answered
    <3> QED BY <2>1, <2>2, <3>1 DEF Answered, Ended
  <2>3. ASSUME NEW r \in Responses, StreamOpened(c, r) PROVE Moves(c)
    BY <2>1, <2>3 DEF StreamOpened, Return, Ended
  <2>4. ASSUME NEW r \in Responses, StreamRefused(c, r) PROVE Moves(c)
    BY <2>1, <2>4 DEF StreamRefused, Ended
  <2>5. ASSUME NEW transient \in BOOLEAN, ConnectFailed(c, transient) PROVE Moves(c)
    <3>1. Decided(c) BY <1>0, <2>5, OnTransportErrorDecides DEF ConnectFailed
    <3> QED BY <2>1, <2>5, <3>1 DEF ConnectFailed, Ended
  <2>6. ASSUME ConnectionLost(c) PROVE Moves(c)
    <3>1. Decided(c) BY <1>0, <2>6, OnTransportErrorDecides DEF ConnectionLost
    <3> QED BY <2>1, <2>6, <3>1 DEF ConnectionLost, Ended
  <2>7. ASSUME TimedOut(c) PROVE Moves(c)
    <3>1. Decided(c) BY <1>0, <2>7, OnTransportErrorDecides DEF TimedOut
    <3> QED BY <2>1, <2>7, <3>1 DEF TimedOut, Ended
  <2>8. ASSUME RefusalRead(c) PROVE Moves(c)
    <3>1. \E p \in Elsewhere : phase' = [phase EXCEPT ![c] = p]
      <4>1. CASE OnResponse(c, answer[c])
        BY <1>0, <4>1, AnswerTyped, OnResponseDecides, DecidedPhase
      <4>2. CASE Fail(c, "Request") BY <4>2 DEF Fail, Return, Elsewhere, Phases
      <4> QED BY <2>8, <4>1, <4>2 DEF RefusalRead
    <3> QED BY <2>8, <3>1 DEF RefusalRead, Moves, Elsewhere, Phases
  <2>9. ASSUME RefusalLost(c) PROVE Moves(c)
    BY <2>9 DEF RefusalLost, Fail, Return, Moves, Elsewhere, Phases
  <2> QED BY <1>5, <2>2, <2>3, <2>4, <2>5, <2>6, <2>7, <2>8, <2>9 DEF Attempt
<1>6. CASE Tick BY <1>6 DEF Tick
<1>7. CASE UNCHANGED vars BY <1>7 DEF vars
<1> QED BY <1>1, <1>2, <1>3, <1>4, <1>5, <1>6, <1>7 DEF Next, Quiescent

---------------------------------------------------------------------------
\* The permits that are out are those of the attempts in flight.
PermitsOK ==
  /\ IsFiniteSet(Holders)
  /\ permits + Cardinality(Holders) = MaxConcurrency

\* The semaphore's queue and the phases keep agreeing on who waits, at every step.
LEMMA StepQueueOK ==
  ASSUME TypeOK, QueueOK, [Next]_vars
  PROVE  QueueOK'
<1>0. phase \in [Calls -> Phases] /\ waiters \in Seq(Calls) BY DEF TypeOK, RetryTypeOK
<1>1. ASSUME NEW c \in Calls, Moves(c) PROVE QueueOK'
  <2>1. PICK p \in Elsewhere : phase' = [phase EXCEPT ![c] = p] BY <1>1 DEF Moves
  <2>2. phase[c] # "queued" /\ p # "queued" BY <1>1 DEF Moves, Elsewhere
  <2>3. \A d \in Calls : phase'[d] = "queued" <=> phase[d] = "queued"
    BY <1>0, <2>1, <2>2
  <2> QED BY <1>0, <1>1, <2>3 DEF Moves, QueueOK
<1>2. ASSUME NEW c \in Calls, Enqueue(c) PROVE QueueOK'
  <2>1. /\ phase[c] = "loop"
        /\ phase' = [phase EXCEPT ![c] = "queued"]
        /\ waiters' = Append(waiters, c)
    BY <1>2 DEF Enqueue
  <2>2. \A i \in 1..Len(waiters) : waiters[i] # c BY <2>1 DEF QueueOK
  <2>3. /\ Len(waiters') = Len(waiters) + 1 /\ waiters'[Len(waiters) + 1] = c
        /\ \A i \in 1..Len(waiters) : waiters'[i] = waiters[i]
    BY <1>0, <2>1
  <2>4. \A i \in 1..Len(waiters') : phase'[waiters'[i]] = "queued"
    BY <1>0, <2>1, <2>3 DEF QueueOK
  <2>5. \A i, j \in 1..Len(waiters') : waiters'[i] = waiters'[j] => i = j
    BY <1>0, <2>2, <2>3 DEF QueueOK
  <2>6. ASSUME NEW d \in Calls, phase'[d] = "queued"
        PROVE  \E i \in 1..Len(waiters') : waiters'[i] = d
    <3>1. CASE d = c BY <1>0, <2>3, <3>1
    <3>2. CASE d # c
      <4>1. PICK i \in 1..Len(waiters) : waiters[i] = d
        BY <1>0, <2>1, <2>6, <3>2 DEF QueueOK
      <4> QED BY <1>0, <2>3, <4>1
    <3> QED BY <3>1, <3>2
  <2> QED BY <2>4, <2>5, <2>6 DEF QueueOK
<1>3. ASSUME NEW c \in Calls, Send(c) PROVE QueueOK'
  <2>1. /\ waiters # <<>> /\ waiters[1] = c
        /\ waiters' = Tail(waiters)
        /\ phase' = [phase EXCEPT ![c] = "inflight"]
    BY <1>0, <1>3 DEF Send
  <2>2. /\ Len(waiters') = Len(waiters) - 1 /\ Len(waiters) \in Nat \ {0}
        /\ \A i \in 1..Len(waiters) - 1 : waiters'[i] = waiters[i + 1]
    BY <1>0, <2>1
  <2>3. \A i \in 1..Len(waiters') : waiters'[i] # c
    BY <2>1, <2>2 DEF QueueOK
  <2>4. \A i \in 1..Len(waiters') : phase'[waiters'[i]] = "queued"
    BY <1>0, <2>1, <2>2, <2>3 DEF QueueOK
  <2>5. \A i, j \in 1..Len(waiters') : waiters'[i] = waiters'[j] => i = j
    BY <2>2 DEF QueueOK
  <2>6. ASSUME NEW d \in Calls, phase'[d] = "queued"
        PROVE  \E i \in 1..Len(waiters') : waiters'[i] = d
    <3>1. d # c BY <1>0, <2>1, <2>6
    <3>2. PICK i \in 1..Len(waiters) : waiters[i] = d
      BY <1>0, <2>1, <2>6, <3>1 DEF QueueOK
    <3>3. i - 1 \in 1..Len(waiters') BY <2>1, <2>2, <3>1, <3>2
    <3>4. waiters'[i - 1] = d BY <2>2, <3>2, <3>3
    <3> QED BY <3>3, <3>4
  <2> QED BY <2>4, <2>5, <2>6 DEF QueueOK
<1>4. ASSUME NEW c \in Calls, DropFuture(c), phase[c] = "queued" PROVE QueueOK'
  <2>1. PICK k \in 1..Len(waiters) : waiters[k] = c BY <1>4 DEF QueueOK
  <2>2. /\ waiters' = Without(waiters, waiters[k])
        /\ phase' = [phase EXCEPT ![c] = "dropped"]
    BY <1>4, <2>1 DEF DropFuture
  <2>3. /\ Len(waiters') = Len(waiters) - 1
        /\ \A j \in 1..Len(waiters) - 1 :
             waiters'[j] = waiters[IF j < k THEN j ELSE j + 1]
    <3>1. waiters \in Seq(Calls) /\ k \in 1..Len(waiters) BY <1>0
    <3>2. \A i, j \in 1..Len(waiters) : waiters[i] = waiters[j] => i = j BY DEF QueueOK
    <3>3. /\ Len(Without(waiters, waiters[k])) = Len(waiters) - 1
          /\ \A j \in 1..Len(waiters) - 1 :
               Without(waiters, waiters[k])[j] = waiters[IF j < k THEN j ELSE j + 1]
      BY <3>1, <3>2, WithoutOne
    <3> QED BY <2>2, <3>3
  <2>4. \A j \in 1..Len(waiters') : waiters'[j] # c
    BY <1>0, <2>1, <2>3 DEF QueueOK
  <2>5. \A j \in 1..Len(waiters') : phase'[waiters'[j]] = "queued"
    BY <1>0, <2>2, <2>3, <2>4, SMTT(30) DEF QueueOK
  <2>6. ASSUME NEW i \in 1..Len(waiters'), NEW j \in 1..Len(waiters'),
               waiters'[i] = waiters'[j]
        PROVE  i = j
    <3> DEFINE at(n) == IF n < k THEN n ELSE n + 1
    <3>1. at(i) \in 1..Len(waiters) /\ at(j) \in 1..Len(waiters) BY <1>0, <2>3
    <3>2. waiters[at(i)] = waiters[at(j)] BY <1>0, <2>3, <2>6
    <3>3. at(i) = at(j)
      <4> HIDE DEF at
      <4> QED BY <3>1, <3>2 DEF QueueOK
    <3> QED BY <1>0, <3>3
  <2>7. ASSUME NEW d \in Calls, phase'[d] = "queued"
        PROVE  \E j \in 1..Len(waiters') : waiters'[j] = d
    <3>1. d # c BY <1>0, <2>2, <2>7
    <3>2. PICK i \in 1..Len(waiters) : waiters[i] = d
      BY <1>0, <2>2, <2>7, <3>1 DEF QueueOK
    <3>3. CASE i < k BY <1>0, <2>3, <3>2, <3>3
    <3>4. CASE i > k
      <4>1. i - 1 \in 1..Len(waiters') BY <1>0, <2>3, <3>4
      <4>2. waiters'[i - 1] = d BY <1>0, <2>3, <3>2, <3>4, <4>1, SMTT(30)
      <4> QED BY <4>1, <4>2
    <3> QED BY <2>1, <3>1, <3>2, <3>3, <3>4
  <2> QED BY <2>5, <2>6, <2>7 DEF QueueOK
<1>5. CASE UNCHANGED <<phase, permits, waiters>> BY <1>5 DEF QueueOK
<1> QED BY <1>1, <1>2, <1>3, <1>4, <1>5, StepShapes

\* The permits, free and held, keep adding up to max_concurrency at every step.
LEMMA StepPermitsOK ==
  ASSUME TypeOK, QueueOK, PermitsOK, [Next]_vars
  PROVE  PermitsOK'
<1>0. phase \in [Calls -> Phases] /\ permits \in Nat /\ waiters \in Seq(Calls)
  BY DEF TypeOK, RetryTypeOK
<1>1. Cardinality(Holders) \in Nat BY FS_CardinalityType DEF PermitsOK
<1>2. ASSUME NEW c \in Calls, NEW p \in Phases, phase[c] # "inflight", p # "inflight",
             phase' = [phase EXCEPT ![c] = p], UNCHANGED permits
      PROVE  PermitsOK'
  <2>1. Holders' = Holders BY <1>0, <1>2 DEF Holders
  <2> QED BY <1>2, <2>1 DEF PermitsOK
<1>3. ASSUME NEW c \in Calls, Moves(c) PROVE PermitsOK'
  <2>1. PICK p \in Elsewhere : phase' = [phase EXCEPT ![c] = p] BY <1>3 DEF Moves
  <2>2. p \in Phases /\ p # "inflight" BY DEF Elsewhere
  <2>3. CASE phase[c] \in Elsewhere /\ UNCHANGED permits
    BY <1>2, <2>1, <2>2, <2>3 DEF Elsewhere
  <2>4. CASE phase[c] = "inflight" /\ permits' = permits + 1
    <3>1. Holders' = Holders \ {c} /\ c \in Holders
      BY <1>0, <2>1, <2>2, <2>4 DEF Holders
    <3>2. IsFiniteSet(Holders') /\ Cardinality(Holders') = Cardinality(Holders) - 1
      BY <3>1, FS_RemoveElement DEF PermitsOK
    <3> QED BY <1>0, <1>1, <2>4, <3>2 DEF PermitsOK
  <2> QED BY <1>3, <2>3, <2>4 DEF Moves
<1>4. ASSUME NEW c \in Calls, Enqueue(c) PROVE PermitsOK'
  BY <1>2, <1>4 DEF Enqueue, Phases
<1>5. ASSUME NEW c \in Calls, Send(c) PROVE PermitsOK'
  <2>1. /\ permits' = permits - 1
        /\ phase' = [phase EXCEPT ![c] = "inflight"]
        /\ waiters # <<>> /\ waiters[1] = c
    BY <1>0, <1>5 DEF Send
  <2>2. phase[c] = "queued" BY <1>0, <2>1 DEF QueueOK
  <2>3. Holders' = Holders \cup {c} /\ c \notin Holders
    BY <1>0, <2>1, <2>2 DEF Holders
  <2>4. IsFiniteSet(Holders') /\ Cardinality(Holders') = Cardinality(Holders) + 1
    BY <2>3, FS_AddElement DEF PermitsOK
  <2> QED BY <1>0, <1>1, <2>1, <2>4 DEF PermitsOK
<1>6. ASSUME NEW c \in Calls, DropFuture(c), phase[c] = "queued" PROVE PermitsOK'
  <2>1. phase' = [phase EXCEPT ![c] = "dropped"] /\ UNCHANGED permits
    BY <1>6 DEF DropFuture
  <2> QED BY <1>2, <1>6, <2>1 DEF Phases
<1>7. CASE UNCHANGED <<phase, permits, waiters>> BY <1>7 DEF PermitsOK, Holders
<1> QED BY <1>3, <1>4, <1>5, <1>6, <1>7, StepShapes

---------------------------------------------------------------------------
\* The semaphore's part of the invariant, and the two theorems it gives.
SemaphoreInv == TypeOK /\ QueueOK /\ PermitsOK

\* The inductive invariant of the semaphore: type, queue and permits together.
LEMMA SemaphoreInvariant == Spec => []SemaphoreInv
<1>1. Init => SemaphoreInv
  <2> SUFFICES ASSUME Init PROVE SemaphoreInv OBVIOUS
  <2>1. Holders = {} BY DEF Init, Holders
  <2>2. PermitsOK
    BY <2>1, FS_EmptySet, SendAssumption DEF Init, PermitsOK
  <2> QED BY <2>2, InitIndInv DEF SemaphoreInv
<1>2. SemaphoreInv /\ [Next]_vars => SemaphoreInv'
  BY StepTypeOK, StepQueueOK, StepPermitsOK DEF SemaphoreInv
<1> QED BY <1>1, <1>2, PTL DEF Spec

\* Every reachable state of the request path is well typed: in particular no permit
\* is ever taken that is not there, and a clock never runs below a start.
THEOREM TypeCorrect == Spec => []TypeOK
<1>1. SemaphoreInv => TypeOK BY DEF SemaphoreInv
<1> QED BY <1>1, SemaphoreInvariant, PTL

\* For any number of calls and permits, no outcome, no drop and no path of the two
\* loops leaks or mints a permit, and the queue holds each waiting call once.
THEOREM PermitsNeverLeak == Spec => []PermitsAccounted
<1>1. ASSUME SemaphoreInv PROVE PermitsAccounted
  <2>0. waiters \in Seq(Calls) BY <1>1 DEF SemaphoreInv, TypeOK
  <2>1. ASSUME NEW c \in Calls
        PROVE  Cardinality({i \in DOMAIN waiters : waiters[i] = c})
                 = IF phase[c] = "queued" THEN 1 ELSE 0
    <3>1. CASE phase[c] = "queued"
      <4>1. PICK k \in 1..Len(waiters) : waiters[k] = c
        BY <1>1, <3>1 DEF SemaphoreInv, QueueOK
      <4>2. {i \in DOMAIN waiters : waiters[i] = c} = {k}
        BY <1>1, <2>0, <4>1 DEF SemaphoreInv, QueueOK
      <4> QED BY <3>1, <4>2, FS_Singleton
    <3>2. CASE phase[c] # "queued"
      <4>1. {i \in DOMAIN waiters : waiters[i] = c} = {}
        BY <1>1, <2>0, <3>2 DEF SemaphoreInv, QueueOK
      <4> QED BY <3>2, <4>1, FS_EmptySet
    <3> QED BY <3>1, <3>2
  <2> QED BY <1>1, <2>1 DEF SemaphoreInv, PermitsOK, PermitsAccounted
<1> QED BY <1>1, SemaphoreInvariant, PTL

---------------------------------------------------------------------------
(***************************************************************************)
(* What the request path guarantees about budgets, counted retries,        *)
(* generations, caps and the errors it ends with, and that it implements   *)
(* RequestContract: for any calls, any requests and answers, any delays    *)
(* and, but for two theorems that say so, any permits and any lag.         *)
(***************************************************************************)

\* The two phases in which an attempt is under way.
Attempting(c) == phase[c] \in {"inflight", "body"}

\* An attempt that stops being in flight without an outcome yet: its refusal's body
\* is still to be read.
ToBody(c) ==
  /\ phase[c] = "inflight"
  /\ phase' = [phase EXCEPT ![c] = "body"]
  /\ UNCHANGED <<retries, wakeAt, result>>

\* What an attempt leaves alone.
attemptFrame == <<now, req, start, timeout, sentAt, attempts, queuedAt>>

\* What ending an attempt changes: the call leaves the wire, decided or with a body to read.
LEMMA AttemptShape ==
  ASSUME TypeOK, NEW c \in Calls, Attempt(c)
  PROVE  Attempting(c) /\ UNCHANGED attemptFrame /\ (Decided(c) \/ ToBody(c))
<1>0. RetryTypeOK BY DEF TypeOK
<1>1. ASSUME NEW v \in Errors \cup {"Stream"}, Return(c, v) PROVE Decided(c)
  BY <1>1 DEF Decided, Results, Errors
<1>2. ASSUME NEW r \in Responses, Answered(c, r)
      PROVE  Attempting(c) /\ UNCHANGED attemptFrame /\ Decided(c)
  BY <1>0, <1>2, ResponsesTyped, OnResponseDecides
     DEF Answered, Ended, Attempting, attemptFrame
<1>3. ASSUME NEW r \in Responses, StreamOpened(c, r)
      PROVE  Attempting(c) /\ UNCHANGED attemptFrame /\ Decided(c)
  BY <1>1, <1>3 DEF StreamOpened, Ended, Attempting, attemptFrame
<1>4. ASSUME NEW r \in Responses, StreamRefused(c, r)
      PROVE  Attempting(c) /\ UNCHANGED attemptFrame /\ ToBody(c)
  BY <1>4 DEF StreamRefused, Ended, Attempting, attemptFrame, ToBody, counters
<1>5. ASSUME NEW transient \in BOOLEAN, ConnectFailed(c, transient)
      PROVE  Attempting(c) /\ UNCHANGED attemptFrame /\ Decided(c)
  BY <1>0, <1>5, OnTransportErrorDecides DEF ConnectFailed, Ended, Attempting, attemptFrame
<1>6. ASSUME ConnectionLost(c)
      PROVE  Attempting(c) /\ UNCHANGED attemptFrame /\ Decided(c)
  BY <1>0, <1>6, OnTransportErrorDecides DEF ConnectionLost, Ended, Attempting, attemptFrame
<1>7. ASSUME TimedOut(c)
      PROVE  Attempting(c) /\ UNCHANGED attemptFrame /\ Decided(c)
  BY <1>0, <1>7, OnTransportErrorDecides DEF TimedOut, Ended, Attempting, attemptFrame
<1>8. ASSUME RefusalRead(c)
      PROVE  Attempting(c) /\ UNCHANGED attemptFrame /\ Decided(c)
  <2>1. CASE OnResponse(c, answer[c]) BY <1>0, <1>8, <2>1, AnswerTyped, OnResponseDecides
          DEF RefusalRead, Attempting, attemptFrame, history
  <2>2. CASE Fail(c, "Request") BY <1>1, <1>8, <2>2
          DEF Fail, RefusalRead, Attempting, attemptFrame, history, Errors
  <2> QED BY <1>8, <2>1, <2>2 DEF RefusalRead
<1>9. ASSUME RefusalLost(c)
      PROVE  Attempting(c) /\ UNCHANGED attemptFrame /\ Decided(c)
  BY <1>1, <1>9 DEF Fail, RefusalLost, Attempting, attemptFrame, history, Errors
<1> QED BY <1>2, <1>3, <1>4, <1>5, <1>6, <1>7, <1>8, <1>9 DEF Attempt

\* The call that gets a permit was waiting for one.
LEMMA SentFromQueue ==
  ASSUME SemaphoreInv, NEW c \in Calls, Send(c)
  PROVE  phase[c] = "queued"
<1>1. waiters \in Seq(Calls) /\ waiters # <<>> /\ Head(waiters) = c
  BY DEF Send, SemaphoreInv, TypeOK
<1>2. 1 \in 1..Len(waiters) /\ waiters[1] = c BY <1>1
<1> QED BY <1>2 DEF SemaphoreInv, QueueOK

---------------------------------------------------------------------------
(***************************************************************************)
(* Budgets.  OverrunIsQueueing says nothing about the timers it depends    *)
(* on, so it is not inductive: a sleep must end inside the budget, a timer *)
(* must not have been passed by more than the lag, and a timeout computed  *)
(* before the queue must have fitted the budget then.                      *)
(***************************************************************************)
BudgetAt(c) ==
  /\ phase[c] = "loop" => now <= start[c] + Budget(c) + Lag
  /\ phase[c] = "asleep" => /\ wakeAt[c] <= start[c] + Budget(c)
                            /\ now <= wakeAt[c] + Lag
  /\ phase[c] = "queued" => /\ queuedAt[c] <= now
                            /\ queuedAt[c] + timeout[c] <= start[c] + Budget(c)
  /\ Attempting(c) => /\ queuedAt[c] <= sentAt[c]
                      /\ queuedAt[c] + timeout[c] <= start[c] + Budget(c)
                      /\ now <= Deadline(c) + Lag

BudgetInv == \A c \in Calls : BudgetAt(c)

\* The numbers the budget's arithmetic is about.
LEMMA NumbersTyped ==
  ASSUME TypeOK, NEW c \in Calls
  PROVE  /\ now \in Nat /\ start[c] \in Nat /\ wakeAt[c] \in Nat /\ timeout[c] \in Nat
         /\ sentAt[c] \in Nat /\ queuedAt[c] \in Nat /\ Budget(c) \in Nat /\ Lag \in Nat
         /\ attempts[c] \in Nat /\ retries[c] \in Nat /\ Remaining(c) \in Nat
BY SendAssumption, RemainingNat DEF TypeOK, RetryTypeOK

\* While something is left of the budget, the clock and what is left add up to its end.
LEMMA RemainingEnds ==
  ASSUME TypeOK, NEW c \in Calls, Remaining(c) > 0
  PROVE  now + Remaining(c) = start[c] + Budget(c)
BY NumbersTyped DEF Remaining, Elapsed

\* No step makes a call sleep past its budget, or run an attempt longer than its overrun allows.
LEMMA StepBudgetInv ==
  ASSUME SemaphoreInv, BudgetInv, [Next]_vars
  PROVE  BudgetInv'
<1>t. TypeOK BY DEF SemaphoreInv
<1> SUFFICES ASSUME NEW c \in Calls PROVE BudgetAt(c)'
  BY DEF BudgetInv
<1>0. BudgetAt(c) BY DEF BudgetInv
<1>n. /\ now \in Nat /\ start[c] \in Nat /\ wakeAt[c] \in Nat /\ timeout[c] \in Nat
      /\ sentAt[c] \in Nat /\ queuedAt[c] \in Nat /\ Budget(c) \in Nat /\ Lag \in Nat
  BY <1>t, NumbersTyped
<1>f. /\ phase \in [Calls -> Phases] /\ wakeAt \in [Calls -> Nat] /\ start \in [Calls -> Nat]
      /\ timeout \in [Calls -> Nat] /\ sentAt \in [Calls -> Nat]
      /\ queuedAt \in [Calls -> Nat]
  BY <1>t DEF TypeOK, RetryTypeOK
\* A step that leaves the clock and everything about c alone.
<1>1. ASSUME UNCHANGED <<now, req, start[c], phase[c], wakeAt[c], timeout[c], sentAt[c],
                         queuedAt[c]>>
      PROVE  BudgetAt(c)'
  BY <1>0, <1>1 DEF BudgetAt, Attempting, Deadline, Budget
\* A step that ends c.
<1>2. ASSUME phase'[c] \in {"done", "dropped"} PROVE BudgetAt(c)'
  BY <1>2 DEF BudgetAt, Attempting
<1>3. ASSUME NEW d \in Calls, Begin(d) PROVE BudgetAt(c)'
  <2>1. CASE d = c
    <3>1. phase'[c] = "loop" /\ start'[c] = now /\ UNCHANGED <<now, req>>
      BY <1>3, <1>f, <2>1 DEF Begin
    <3> QED BY <1>n, <3>1 DEF BudgetAt, Attempting, Budget
  <2>2. CASE d # c BY <1>1, <1>3, <1>f, <2>2 DEF Begin, history
  <2> QED BY <2>1, <2>2
<1>4. ASSUME NEW d \in Calls, OutOfBudget(d) PROVE BudgetAt(c)'
  BY <1>1, <1>2, <1>4, <1>f DEF OutOfBudget, Fail, Return, history
<1>5. ASSUME NEW d \in Calls, Enqueue(d) PROVE BudgetAt(c)'
  <2>1. CASE d = c
    <3>1. /\ phase'[c] = "queued" /\ queuedAt'[c] = now /\ timeout'[c] = AttemptTimeout(c)
          /\ UNCHANGED <<now, req, start>> /\ Remaining(c) > 0
      BY <1>5, <1>f, <2>1 DEF Enqueue
    <3>2. AttemptTimeout(c) \in Nat /\ AttemptTimeout(c) <= Remaining(c)
      BY <1>t, NumbersTyped, AtMostNat, ClientTimeoutAssumption DEF AttemptTimeout
    <3>3. now + AttemptTimeout(c) <= start[c] + Budget(c)
      BY <1>t, <1>n, <3>1, <3>2, RemainingEnds, NumbersTyped
    <3>4. Budget(c)' = Budget(c) BY <3>1 DEF Budget
    <3> QED BY <1>n, <3>1, <3>3, <3>4 DEF BudgetAt, Attempting
  <2>2. CASE d # c BY <1>1, <1>5, <1>f, <2>2 DEF Enqueue
  <2> QED BY <2>1, <2>2
<1>6. ASSUME NEW d \in Calls, Send(d) PROVE BudgetAt(c)'
  <2>1. CASE d = c
    <3>1. /\ phase'[c] = "inflight" /\ sentAt'[c] = now
          /\ UNCHANGED <<now, req, start, timeout, queuedAt>>
      BY <1>6, <1>f, <2>1 DEF Send
    <3>2. Budget(c)' = Budget(c) /\ Deadline(c)' = now + timeout[c]
      BY <3>1 DEF Budget, Deadline
    <3>3. phase[c] = "queued" BY <1>6, <2>1, SentFromQueue
    <3> QED BY <1>0, <1>n, <3>1, <3>2, <3>3 DEF BudgetAt, Attempting
  <2>2. CASE d # c BY <1>1, <1>6, <1>f, <2>2 DEF Send
  <2> QED BY <2>1, <2>2
<1>7. ASSUME NEW d \in Calls, Attempt(d) PROVE BudgetAt(c)'
  <2>0. /\ Attempting(d) /\ UNCHANGED <<now, req, start, timeout, sentAt, queuedAt>>
        /\ Decided(d) \/ ToBody(d)
    BY <1>t, <1>7, AttemptShape DEF attemptFrame
  <2>1. CASE d # c
    BY <1>1, <1>f, <2>0, <2>1 DEF Decided, Return, Retry, ToBody
  <2>2. CASE d = c /\ ToBody(c)
    <3>1. /\ Attempting(c) /\ phase'[c] = "body"
          /\ UNCHANGED <<now, req, start, timeout, sentAt, queuedAt>>
      BY <1>f, <2>0, <2>2 DEF ToBody
    <3>2. Budget(c)' = Budget(c) /\ Deadline(c)' = Deadline(c)
      BY <3>1 DEF Budget, Deadline
    <3> QED BY <1>0, <3>1, <3>2 DEF BudgetAt, Attempting
  <2>3. CASE d = c /\ \E v \in Results \ {"none"} : Return(c, v)
    BY <1>2, <1>f, <2>3 DEF Return
  <2>4. CASE d = c /\ Remaining(c) > 0 /\ \E delays \in SUBSET (0..Remaining(c)) : Retry(c, delays)
    <3>1. PICK t \in 0..Remaining(c) : /\ phase' = [phase EXCEPT ![c] = "asleep"]
                                       /\ wakeAt' = [wakeAt EXCEPT ![c] = now + t]
      BY <2>4 DEF Retry
    <3>2. phase'[c] = "asleep" /\ wakeAt'[c] = now + t BY <1>f, <3>1
    <3>3. Budget(c)' = Budget(c) BY <2>0 DEF Budget
    <3>4. now + t <= start[c] + Budget(c) BY <1>t, <1>n, <2>4, RemainingEnds, NumbersTyped
    <3> QED BY <1>n, <2>0, <3>2, <3>3, <3>4 DEF BudgetAt, Attempting
  <2> QED BY <2>0, <2>1, <2>2, <2>3, <2>4 DEF Decided
<1>8. ASSUME NEW d \in Calls, Wake(d) PROVE BudgetAt(c)'
  <2>1. CASE d = c
    <3>1. phase[c] = "asleep" /\ phase'[c] = "loop" /\ UNCHANGED <<now, req, start>>
      BY <1>8, <1>f, <2>1 DEF Wake
    <3>2. Budget(c)' = Budget(c) BY <3>1 DEF Budget
    <3> QED BY <1>0, <1>n, <3>1, <3>2 DEF BudgetAt, Attempting
  <2>2. CASE d # c BY <1>1, <1>8, <1>f, <2>2 DEF Wake, history
  <2> QED BY <2>1, <2>2
<1>9. ASSUME NEW d \in Calls, DropFuture(d) PROVE BudgetAt(c)'
  <2>1. phase' = [phase EXCEPT ![d] = "dropped"] BY <1>9 DEF DropFuture
  <2>2. UNCHANGED <<now, req, start, wakeAt, timeout, sentAt, queuedAt>>
    BY <1>9 DEF DropFuture, history
  <2>3. CASE d = c BY <1>2, <1>f, <2>1, <2>3
  <2>4. CASE d # c BY <1>1, <1>f, <2>1, <2>2, <2>4
  <2> QED BY <2>3, <2>4
<1>10. ASSUME Tick PROVE BudgetAt(c)'
  <2>1. /\ now' = now + 1 /\ phase[c] # "loop"
        /\ phase[c] = "asleep" => now < wakeAt[c] + Lag
        /\ Attempting(c) => now < Deadline(c) + Lag
    BY <1>10 DEF Tick, Attempting
  <2>2. UNCHANGED <<req, start, phase, wakeAt, timeout, sentAt, queuedAt>>
    BY <1>10 DEF Tick, history
  <2>3. Budget(c)' = Budget(c) /\ Deadline(c)' = Deadline(c)
    BY <2>2 DEF Budget, Deadline
  <2>4. Deadline(c) \in Nat BY <1>n DEF Deadline
  <2> QED BY <1>0, <1>n, <2>1, <2>2, <2>3, <2>4 DEF BudgetAt, Attempting
<1>11. ASSUME UNCHANGED vars PROVE BudgetAt(c)'
  BY <1>1, <1>11 DEF vars, history
<1> QED BY <1>3, <1>4, <1>5, <1>6, <1>7, <1>8, <1>9, <1>10, <1>11 DEF Next, Quiescent

\* For any delays, any mixture of answers and any number of calls: no sleep ends past
\* provision_timeout, and an attempt outlives it at most by the time the call stood in
\* the semaphore's queue (and the runtime's lag).
THEOREM SleepsFitTheBudget == Spec => []OverrunIsQueueing
<1>1. Init => BudgetInv
  BY DEF Init, BudgetInv, BudgetAt, Attempting
<1>2. SemaphoreInv /\ BudgetInv /\ [Next]_vars => BudgetInv'
  BY StepBudgetInv
<1>3. ASSUME SemaphoreInv, BudgetInv PROVE OverrunIsQueueing
  <2> SUFFICES ASSUME NEW c \in Calls
      PROVE  /\ phase[c] \in {"loop", "asleep"} => now <= start[c] + Budget(c) + Lag
             /\ phase[c] \in {"inflight", "body"} =>
                  now <= start[c] + Budget(c) + (sentAt[c] - queuedAt[c]) + Lag
    BY DEF OverrunIsQueueing
  <2>1. BudgetAt(c) BY <1>3 DEF BudgetInv
  <2>2. /\ now \in Nat /\ start[c] \in Nat /\ wakeAt[c] \in Nat /\ timeout[c] \in Nat
        /\ sentAt[c] \in Nat /\ queuedAt[c] \in Nat /\ Budget(c) \in Nat /\ Lag \in Nat
    BY <1>3, NumbersTyped DEF SemaphoreInv
  <2> QED BY <2>1, <2>2 DEF BudgetAt, Attempting, Deadline
<1> QED BY <1>1, <1>2, <1>3, SemaphoreInvariant, PTL DEF Spec

---------------------------------------------------------------------------
(***************************************************************************)
(* Counted retries.  RetriesAreResends has to know that a call that is     *)
(* still running has no result yet.                                        *)
(***************************************************************************)
ResendsAt(c) ==
  /\ phase[c] \in {"idle", "loop", "queued", "asleep"} =>
       attempts[c] = retries[c] /\ result[c] = "none"
  /\ Attempting(c) => attempts[c] = retries[c] + 1 /\ result[c] = "none"
  /\ result[c] \in {"Accepted", "Stream"} => attempts[c] = retries[c] + 1

ResendsInv == \A c \in Calls : ResendsAt(c)

\* Every step keeps requests sent and retries counted in pace.
LEMMA StepResendsInv ==
  ASSUME SemaphoreInv, ResendsInv, [Next]_vars
  PROVE  ResendsInv'
<1> SUFFICES ASSUME NEW c \in Calls PROVE ResendsAt(c)'
  BY DEF ResendsInv
<1>t. TypeOK BY DEF SemaphoreInv
<1>0. ResendsAt(c) BY DEF ResendsInv
<1>n. attempts[c] \in Nat /\ retries[c] \in Nat BY <1>t, NumbersTyped
<1>f. /\ phase \in [Calls -> Phases] /\ attempts \in [Calls -> Nat]
      /\ retries \in [Calls -> Nat] /\ result \in [Calls -> Results]
  BY <1>t DEF TypeOK, RetryTypeOK
\* A step that counts nothing and moves c on this side of the wire.
<1>1. ASSUME UNCHANGED <<attempts[c], retries[c], result[c]>>,
             \/ phase'[c] = phase[c]
             \/ /\ phase[c] \in {"idle", "loop", "queued", "asleep"}
                /\ phase'[c] \in {"idle", "loop", "queued", "asleep"}
             \/ phase'[c] = "dropped"
             \/ phase[c] = "inflight" /\ phase'[c] = "body"
      PROVE  ResendsAt(c)'
  BY <1>0, <1>1 DEF ResendsAt, Attempting
<1>2. ASSUME NEW d \in Calls, Begin(d) PROVE ResendsAt(c)'
  BY <1>1, <1>2, <1>f DEF Begin, counters, history
<1>3. ASSUME NEW d \in Calls, OutOfBudget(d) PROVE ResendsAt(c)'
  <2>1. /\ phase' = [phase EXCEPT ![d] = "done"] /\ result' = [result EXCEPT ![d] = "Provisioning"]
        /\ UNCHANGED <<attempts, retries>>
    BY <1>3 DEF OutOfBudget, Fail, Return, history
  <2> QED BY <1>1, <1>f, <2>1 DEF ResendsAt, Attempting
<1>4. ASSUME NEW d \in Calls, Enqueue(d) PROVE ResendsAt(c)'
  BY <1>1, <1>4, <1>f DEF Enqueue, counters
<1>5. ASSUME NEW d \in Calls, Send(d) PROVE ResendsAt(c)'
  <2>1. /\ phase' = [phase EXCEPT ![d] = "inflight"]
        /\ attempts' = [attempts EXCEPT ![d] = @ + 1]
        /\ UNCHANGED <<retries, result>> /\ phase[d] = "queued"
    BY <1>5, SentFromQueue DEF Send, counters
  <2> QED BY <1>0, <1>1, <1>f, <1>n, <2>1 DEF ResendsAt, Attempting
<1>6. ASSUME NEW d \in Calls, Attempt(d) PROVE ResendsAt(c)'
  <2>0. Attempting(d) /\ UNCHANGED attempts /\ (Decided(d) \/ ToBody(d))
    BY <1>t, <1>6, AttemptShape DEF attemptFrame
  <2>1. CASE ToBody(d) BY <1>1, <1>f, <2>0, <2>1 DEF ToBody
  <2>2. CASE \E v \in Results \ {"none"} : Return(d, v)
    <3>1. PICK v \in Results \ {"none"} :
            /\ phase' = [phase EXCEPT ![d] = "done"]
            /\ result' = [result EXCEPT ![d] = v]
            /\ UNCHANGED retries
      BY <2>2 DEF Return
    <3>2. CASE d = c
      <4>1. phase'[c] = "done" /\ UNCHANGED <<attempts, retries>> BY <1>f, <2>0, <3>1, <3>2
      <4> QED BY <1>0, <2>0, <3>2, <4>1 DEF ResendsAt, Attempting
    <3>3. CASE d # c BY <1>1, <1>f, <2>0, <3>1, <3>3
    <3> QED BY <3>2, <3>3
  <2>3. CASE \E delays : Retry(d, delays)
    <3>1. /\ phase' = [phase EXCEPT ![d] = "asleep"]
          /\ retries' = [retries EXCEPT ![d] = @ + 1]
          /\ UNCHANGED result
      BY <2>3 DEF Retry
    <3>2. CASE d = c
      <4>1. phase'[c] = "asleep" /\ retries'[c] = retries[c] + 1 BY <1>f, <3>1, <3>2
      <4> QED BY <1>0, <2>0, <3>1, <3>2, <4>1 DEF ResendsAt, Attempting
    <3>3. CASE d # c BY <1>1, <1>f, <2>0, <3>1, <3>3
    <3> QED BY <3>2, <3>3
  <2> QED BY <2>0, <2>1, <2>2, <2>3 DEF Decided
<1>7. ASSUME NEW d \in Calls, Wake(d) PROVE ResendsAt(c)'
  BY <1>1, <1>7, <1>f DEF Wake, counters, history
<1>8. ASSUME NEW d \in Calls, DropFuture(d) PROVE ResendsAt(c)'
  <2>1. /\ phase' = [phase EXCEPT ![d] = "dropped"] /\ UNCHANGED <<attempts, retries, result>>
    BY <1>8 DEF DropFuture, counters, history
  <2> QED BY <1>1, <1>f, <2>1
<1>9. ASSUME Tick \/ UNCHANGED vars PROVE ResendsAt(c)'
  <2>1. UNCHANGED <<phase, attempts, retries, result>>
    BY <1>9 DEF Tick, vars, counters, history
  <2> QED BY <1>1, <2>1
<1> QED BY <1>2, <1>3, <1>4, <1>5, <1>6, <1>7, <1>8, <1>9 DEF Next, Quiescent

\* The retries a successful call reports are the requests it sent after the first,
\* whatever made it retry.
THEOREM ReportedRetriesAreExact == Spec => []RetriesAreResends
<1>1. Init => ResendsInv
  BY DEF Init, ResendsInv, ResendsAt, Attempting
<1>2. SemaphoreInv /\ ResendsInv /\ [Next]_vars => ResendsInv'
  BY StepResendsInv
<1>3. ResendsInv => RetriesAreResends
  BY DEF ResendsInv, ResendsAt, Attempting, RetriesAreResends
<1> QED BY <1>1, <1>2, <1>3, SemaphoreInvariant, PTL DEF Spec

---------------------------------------------------------------------------
(***************************************************************************)
(* Generations.  That a reached generation sends nothing more rests on     *)
(* where it can be: over, or reading the body of an answer whose decision  *)
(* cannot be a retry.                                                      *)
(***************************************************************************)
Once(c) == Policy(c) \in {GENERATE, STREAM}

ReplayAt(c) ==
  Once(c) /\ reached[c] =>
    \/ phase[c] \in {"done", "dropped"}
    \/ phase[c] = "body" /\ MayHaveRun(answer[c])

ReplayInv == \A c \in Calls : ReplayAt(c)

\* A generation is not retried after an answer that may come from a worker.
LEMMA AnswerNotReplayed ==
  ASSUME NEW c \in Calls, NEW r, Once(c), MayHaveRun(r), OnResponse(c, r)
  PROVE  phase' = [phase EXCEPT ![c] = "done"]
<1>1. r.status # 503 BY DEF MayHaveRun
<1>2. ~Policy(c).retry_gateway_timeout BY DEF Once, GENERATE, STREAM
<1>3. ~OnGatewayTimeout(c, r) BY <1>2 DEF OnGatewayTimeout, GatewayReplayed
<1>4. /\ ~OnProvisioning(c, r) /\ ~OnModelLoading(c, r)
      /\ ~OnLoraLoading(c, r) /\ ~OnResourceExhausted(c, r)
  BY <1>1 DEF OnProvisioning, OnModelLoading, OnLoraLoading, OnResourceExhausted, Capacity
<1> QED BY <1>3, <1>4 DEF OnResponse, Fail, Accept, Return

\* Nor after a failure on a connection that was up.
LEMMA MidFlightNotReplayed ==
  ASSUME NEW c \in Calls, NEW kind, NEW transient, Once(c), kind # "Connect",
         OnTransportError(c, kind, transient)
  PROVE  phase' = [phase EXCEPT ![c] = "done"]
<1>1. ~Policy(c).retry_midflight_transport BY DEF Once, GENERATE, STREAM
<1> QED BY <1>1 DEF OnTransportError, Fail, Return

\* No step puts a call that may not be replayed back in its loop once a worker may have run it.
LEMMA StepReplayInv ==
  ASSUME SemaphoreInv, ReplayInv, [Next]_vars
  PROVE  ReplayInv'
<1> SUFFICES ASSUME NEW c \in Calls PROVE ReplayAt(c)'
  BY DEF ReplayInv
<1>0. ReplayAt(c) BY DEF ReplayInv
<1>f. /\ phase \in [Calls -> Phases] /\ reached \in [Calls -> BOOLEAN]
      /\ answer \in [Calls -> Responses \cup {NoAnswer}]
  BY DEF SemaphoreInv, TypeOK, RetryTypeOK
<1>1. ASSUME UNCHANGED <<req, reached[c], answer[c], phase[c]>> PROVE ReplayAt(c)'
  BY <1>0, <1>1 DEF ReplayAt, Once, Policy
<1>2. ASSUME phase'[c] \in {"done", "dropped"} PROVE ReplayAt(c)'
  BY <1>2 DEF ReplayAt
<1>3. ASSUME UNCHANGED <<req, reached[c]>>, phase[c] \notin {"body", "done", "dropped"}
      PROVE  ReplayAt(c)'
  BY <1>0, <1>3 DEF ReplayAt, Once, Policy
<1>4. ASSUME NEW d \in Calls, Begin(d) PROVE ReplayAt(c)'
  BY <1>1, <1>3, <1>4, <1>f DEF Begin, history
<1>5. ASSUME NEW d \in Calls, OutOfBudget(d) PROVE ReplayAt(c)'
  BY <1>1, <1>3, <1>5, <1>f DEF OutOfBudget, Fail, Return, history
<1>6. ASSUME NEW d \in Calls, Enqueue(d) PROVE ReplayAt(c)'
  BY <1>1, <1>3, <1>6, <1>f DEF Enqueue
<1>7. ASSUME NEW d \in Calls, Send(d) PROVE ReplayAt(c)'
  BY <1>1, <1>3, <1>7, <1>f, SentFromQueue DEF Send
<1>8. ASSUME NEW d \in Calls, Attempt(d) PROVE ReplayAt(c)'
  <2>0. UNCHANGED req BY <1>8, AttemptShape DEF attemptFrame, SemaphoreInv
  <2>1. ASSUME NEW r \in Responses, Answered(d, r) PROVE ReplayAt(c)'
    <3>1. /\ OnResponse(d, r) /\ UNCHANGED answer /\ phase[d] = "inflight"
          /\ reached' = [reached EXCEPT ![d] = @ \/ MayHaveRun(r)]
      BY <2>1 DEF Answered, Ended
    <3>2. Decided(d)
      BY <3>1, ResponsesTyped, OnResponseDecides DEF SemaphoreInv, TypeOK
    <3>3. CASE d # c
      <4>1. phase'[c] = phase[c] BY <1>f, <3>2, <3>3 DEF Decided, Return, Retry
      <4> QED BY <1>1, <1>f, <2>0, <3>1, <3>3, <4>1
    <3>4. CASE d = c /\ Once(c) /\ MayHaveRun(r)
      BY <1>2, <1>f, <3>1, <3>4, AnswerNotReplayed
    <3>5. CASE d = c /\ Once(c) /\ ~MayHaveRun(r)
      BY <1>3, <1>f, <2>0, <3>1, <3>5
    <3>6. CASE ~Once(c) BY <2>0, <3>6 DEF ReplayAt, Once, Policy
    <3> QED BY <3>3, <3>4, <3>5, <3>6
  <2>2. ASSUME NEW r \in Responses, StreamOpened(d, r) PROVE ReplayAt(c)'
    <3>1. phase' = [phase EXCEPT ![d] = "done"] /\ UNCHANGED answer
      BY <2>2 DEF StreamOpened, Return
    <3>2. reached' = [reached EXCEPT ![d] = @ \/ TRUE] BY <2>2 DEF StreamOpened, Ended
    <3> QED BY <1>1, <1>2, <1>f, <2>0, <3>1, <3>2
  <2>3. ASSUME NEW r \in Responses, StreamRefused(d, r) PROVE ReplayAt(c)'
    <3>1. /\ phase[d] = "inflight" /\ phase' = [phase EXCEPT ![d] = "body"]
          /\ answer' = [answer EXCEPT ![d] = r]
          /\ reached' = [reached EXCEPT ![d] = @ \/ MayHaveRun(r)]
      BY <2>3 DEF StreamRefused, Ended
    <3>2. CASE d = c
      <4>1. phase'[c] = "body" /\ answer'[c] = r BY <1>f, <3>1, <3>2
      <4>2. reached'[c] => reached[c] \/ MayHaveRun(r) BY <1>f, <3>1, <3>2
      <4> QED BY <1>0, <2>0, <3>1, <3>2, <4>1, <4>2 DEF ReplayAt, Once, Policy
    <3>3. CASE d # c BY <1>1, <1>f, <2>0, <3>1, <3>3
    <3> QED BY <3>2, <3>3
  <2>4. ASSUME NEW transient \in BOOLEAN, ConnectFailed(d, transient) PROVE ReplayAt(c)'
    <3>1. /\ phase[d] = "inflight" /\ UNCHANGED answer
          /\ reached' = [reached EXCEPT ![d] = @ \/ FALSE] /\ Decided(d)
      BY <2>4, OnTransportErrorDecides DEF ConnectFailed, Ended, SemaphoreInv, TypeOK
    <3>2. reached'[c] = reached[c] BY <1>f, <3>1
    <3>3. CASE d = c BY <1>3, <2>0, <3>1, <3>2, <3>3
    <3>4. CASE d # c
      <4>1. phase'[c] = phase[c] BY <1>f, <3>1, <3>4 DEF Decided, Return, Retry
      <4> QED BY <1>1, <2>0, <3>1, <3>2, <4>1
    <3> QED BY <3>3, <3>4
  <2>5. ASSUME ConnectionLost(d) \/ TimedOut(d) PROVE ReplayAt(c)'
    <3>1. PICK kind \in {"MidFlight", "Timeout"} : OnTransportError(d, kind, FALSE)
      BY <2>5 DEF ConnectionLost, TimedOut
    <3>2. UNCHANGED answer /\ reached' = [reached EXCEPT ![d] = @ \/ TRUE]
      BY <2>5 DEF ConnectionLost, TimedOut, Ended
    <3>3. CASE d # c
      <4>1. Decided(d)
        BY <3>1, OnTransportErrorDecides DEF SemaphoreInv, TypeOK
      <4>2. phase'[c] = phase[c] BY <1>f, <3>3, <4>1 DEF Decided, Return, Retry
      <4> QED BY <1>1, <1>f, <2>0, <3>2, <3>3, <4>2
    <3>4. CASE d = c /\ Once(c) BY <1>2, <1>f, <3>1, <3>4, MidFlightNotReplayed
    <3>5. CASE ~Once(c) BY <2>0, <3>5 DEF ReplayAt, Once, Policy
    <3> QED BY <3>3, <3>4, <3>5
  <2>6. ASSUME RefusalRead(d) PROVE ReplayAt(c)'
    <3>1. /\ phase[d] = "body" /\ UNCHANGED reached
          /\ answer' = [answer EXCEPT ![d] = NoAnswer]
          /\ OnResponse(d, answer[d]) \/ phase' = [phase EXCEPT ![d] = "done"]
      BY <2>6 DEF RefusalRead, Fail, Return, history
    <3>2. Decided(d) \/ phase' = [phase EXCEPT ![d] = "done"]
      BY <3>1, AnswerTyped, OnResponseDecides DEF SemaphoreInv, TypeOK
    <3>3. CASE d # c
      <4>1. phase'[c] = phase[c] BY <1>f, <3>2, <3>3 DEF Decided, Return, Retry
      <4> QED BY <1>1, <1>f, <2>0, <3>1, <3>3, <4>1
    <3>4. CASE d = c /\ Once(c) /\ reached[c]
      <4>1. MayHaveRun(answer[c]) BY <1>0, <3>1, <3>4 DEF ReplayAt
      <4> QED BY <1>2, <1>f, <3>1, <3>4, <4>1, AnswerNotReplayed
    <3>5. CASE ~(Once(c) /\ reached[c])
      BY <2>0, <3>1, <3>5 DEF ReplayAt, Once, Policy
    <3> QED BY <3>3, <3>4, <3>5
  <2>7. ASSUME RefusalLost(d) PROVE ReplayAt(c)'
    <3>1. /\ phase' = [phase EXCEPT ![d] = "done"] /\ UNCHANGED reached
          /\ answer' = [answer EXCEPT ![d] = NoAnswer]
      BY <2>7 DEF RefusalLost, Fail, Return, history
    <3> QED BY <1>1, <1>2, <1>f, <2>0, <3>1
  <2> QED BY <1>8, <2>1, <2>2, <2>3, <2>4, <2>5, <2>6, <2>7 DEF Attempt
<1>9. ASSUME NEW d \in Calls, Wake(d) PROVE ReplayAt(c)'
  BY <1>1, <1>3, <1>9, <1>f DEF Wake, history
<1>10. ASSUME NEW d \in Calls, DropFuture(d) PROVE ReplayAt(c)'
  <2>1. /\ phase' = [phase EXCEPT ![d] = "dropped"] /\ UNCHANGED <<req, reached>>
        /\ answer' = [answer EXCEPT ![d] = NoAnswer]
    BY <1>10 DEF DropFuture, history
  <2> QED BY <1>1, <1>2, <1>f, <2>1
<1>11. ASSUME Tick \/ UNCHANGED vars PROVE ReplayAt(c)'
  BY <1>1, <1>11 DEF Tick, vars, history
<1> QED BY <1>4, <1>5, <1>6, <1>7, <1>8, <1>9, <1>10, <1>11 DEF Next, Quiescent

\* The invariant behind the non-replay of generations, with the one it rests on.
LEMMA ReplayInvariant == Spec => [](SemaphoreInv /\ ReplayInv)
<1>1. Init => ReplayInv BY DEF Init, ReplayInv, ReplayAt
<1>2. SemaphoreInv /\ ReplayInv /\ [Next]_vars => ReplayInv'
  BY StepReplayInv
<1> QED BY <1>1, <1>2, SemaphoreInvariant, PTL DEF Spec

\* Generation never replays a request that may already have reached a worker, whatever
\* the server answers, wherever the connection breaks and however often it retried
\* before.
THEOREM GenerationNeverReplayed == Spec => NeverReplayedOnceReached
<1>1. ASSUME SemaphoreInv, ReplayInv, [Next]_vars
      PROVE  [\A c \in Calls : Once(c) /\ reached[c] => attempts'[c] = attempts[c]]_vars
  <2> SUFFICES ASSUME Next, NEW c \in Calls, Once(c), reached[c]
               PROVE  attempts'[c] = attempts[c]
    BY <1>1
  <2>f. attempts \in [Calls -> Nat] BY <1>1 DEF SemaphoreInv, TypeOK
  <2>1. ASSUME NEW d \in Calls, Send(d) PROVE attempts'[c] = attempts[c]
    <3>1. phase[d] = "queued" BY <1>1, <2>1, SentFromQueue
    <3>2. d # c BY <1>1, <3>1 DEF ReplayInv, ReplayAt
    <3> QED BY <2>f, <2>1, <3>2 DEF Send
  <2>2. ASSUME NEW d \in Calls, Attempt(d) PROVE attempts'[c] = attempts[c]
    BY <1>1, <2>2, AttemptShape DEF attemptFrame, SemaphoreInv
  <2>3. ASSUME NEW d \in Calls,
               \/ Begin(d) \/ OutOfBudget(d) \/ Enqueue(d) \/ Wake(d) \/ DropFuture(d)
        PROVE  attempts'[c] = attempts[c]
    BY <2>3 DEF Begin, OutOfBudget, Enqueue, Wake, DropFuture, history
  <2>4. CASE Tick \/ Quiescent
    BY <2>4 DEF Tick, Quiescent, vars, history
  <2> QED BY <2>1, <2>2, <2>3, <2>4 DEF Next
<1>2. Spec => [][\A c \in Calls : Once(c) /\ reached[c] => attempts'[c] = attempts[c]]_vars
  BY <1>1, ReplayInvariant, PTL DEF Spec
<1> QED BY <1>2 DEF NeverReplayedOnceReached, Once

---------------------------------------------------------------------------
(***************************************************************************)
(* Refinement of RequestContract.  Each step of the loop is a step of the  *)
(* contract or a stutter; the permits' invariant makes room for Put, the   *)
(* generations' one keeps Put from a reached generation.                   *)
(***************************************************************************)
statuses == [c \in Calls |-> Status(c)]
onces == {c \in Calls : Policy(c) \in {GENERATE, STREAM}}
rans == {c \in Calls : reached[c]}
contractVars == <<onces, statuses, Holders, rans>>

\* How the contract sees a call that moves from one phase to another.
LEMMA StatusMoves ==
  ASSUME TypeOK, NEW c \in Calls, NEW p \in Phases, phase' = [phase EXCEPT ![c] = p]
  PROVE  /\ statuses' = [statuses EXCEPT ![c] =
                IF p = "idle" THEN "idle" ELSE IF p \in {"done", "dropped"} THEN "closed" ELSE "open"]
         /\ Holders' = IF p = "inflight" THEN Holders \cup {c} ELSE Holders \ {c}
         /\ statuses[c] = IF phase[c] = "idle" THEN "idle"
                          ELSE IF phase[c] \in {"done", "dropped"} THEN "closed" ELSE "open"
<1>f. phase \in [Calls -> Phases] BY DEF TypeOK, RetryTypeOK
<1>1. \A d \in Calls : Status(d)' = IF d = c THEN IF p = "idle" THEN "idle"
          ELSE IF p \in {"done", "dropped"} THEN "closed" ELSE "open" ELSE Status(d)
  BY <1>f DEF Status, Live
<1>2. statuses' = [statuses EXCEPT ![c] =
                IF p = "idle" THEN "idle" ELSE IF p \in {"done", "dropped"} THEN "closed" ELSE "open"]
  BY <1>1 DEF statuses
<1>3. Holders' = IF p = "inflight" THEN Holders \cup {c} ELSE Holders \ {c}
  BY <1>f DEF Holders
<1>4. statuses[c] = IF phase[c] = "idle" THEN "idle"
                    ELSE IF phase[c] \in {"done", "dropped"} THEN "closed" ELSE "open"
  BY DEF statuses, Status, Live
<1> QED BY <1>2, <1>3, <1>4

\* A call that is over without having had a request on the wire is closed.
LEMMA CloseStep ==
  ASSUME TypeOK, NEW c \in Calls, NEW p \in {"done", "dropped"},
         phase' = [phase EXCEPT ![c] = p], UNCHANGED <<req, reached>>,
         phase[c] \in {"loop", "queued", "body", "asleep"}
  PROVE  Contract!Close(c)
<1>1. p \in Phases BY DEF Phases
<1>2. statuses' = [statuses EXCEPT ![c] = "closed"] /\ statuses[c] = "open"
  BY <1>1, StatusMoves
<1>3. c \notin Holders /\ Holders' = Holders \ {c} BY <1>1, StatusMoves DEF Holders
<1>4. UNCHANGED <<onces, rans>> BY DEF onces, rans, Policy
<1> QED BY <1>2, <1>3, <1>4 DEF Contract!Close, statuses, onces, rans

\* A request that leaves the wire goes back, whatever becomes of its call.
LEMMA BackStep ==
  ASSUME TypeOK, NEW c \in Calls, NEW p \in Phases \ {"idle", "inflight"},
         phase' = [phase EXCEPT ![c] = p], phase[c] = "inflight", UNCHANGED req,
         \A d \in Calls : d # c => reached'[d] = reached[d],
         reached[c] => reached'[c]
  PROVE  Contract!Back(c)
<1>1. c \in Holders /\ Holders' = Holders \ {c} BY StatusMoves DEF Holders
<1>2. statuses' \in {statuses, [statuses EXCEPT ![c] = "closed"]}
  <2>1. statuses[c] = "open" /\ statuses \in [Calls -> {"idle", "open", "closed"}]
    BY StatusMoves DEF statuses, Status
  <2>2. statuses' = [statuses EXCEPT ![c] = IF p \in {"done", "dropped"} THEN "closed" ELSE "open"]
    BY StatusMoves
  <2> QED BY <2>1, <2>2
<1>3. rans' \in {rans, rans \cup {c}}
  <2>1. CASE reached'[c] BY <2>1 DEF rans
  <2>2. CASE ~reached'[c] BY <2>2 DEF rans
  <2> QED BY <2>1, <2>2
<1>4. UNCHANGED onces BY DEF onces, Policy
<1> QED BY <1>1, <1>2, <1>3, <1>4 DEF Contract!Back, statuses, onces, rans

\* A step that leaves the wire as it is and the call open is invisible to the contract.
LEMMA StutterStep ==
  ASSUME TypeOK, UNCHANGED <<req, reached>>,
         \/ UNCHANGED phase
         \/ \E c \in Calls, p \in {"loop", "queued", "asleep"} :
              /\ phase' = [phase EXCEPT ![c] = p]
              /\ phase[c] \in {"loop", "queued", "asleep", "body"}
  PROVE  UNCHANGED contractVars
<1>1. CASE UNCHANGED phase
  BY <1>1 DEF contractVars, onces, statuses, Holders, rans, Status, Live, Policy
<1>2. ASSUME NEW c \in Calls, NEW p \in {"loop", "queued", "asleep"},
             phase' = [phase EXCEPT ![c] = p], phase[c] \in {"loop", "queued", "asleep", "body"}
      PROVE  UNCHANGED contractVars
  <2>1. p \in Phases BY DEF Phases
  <2>2. statuses' = [statuses EXCEPT ![c] = "open"] /\ statuses[c] = "open"
    BY <1>2, <2>1, StatusMoves
  <2>3. statuses' = statuses BY <2>2 DEF statuses
  <2>4. Holders' = Holders BY <1>2, <2>1, StatusMoves DEF Holders
  <2>5. UNCHANGED <<onces, rans>> BY DEF onces, rans, Policy
  <2> QED BY <2>3, <2>4, <2>5 DEF contractVars
<1> QED BY <1>1, <1>2

\* A decision on a call that was open leaves it open or closes it.
LEMMA DecidedMoves ==
  ASSUME NEW c \in Calls, Decided(c)
  PROVE  \E p \in {"asleep", "done"} : phase' = [phase EXCEPT ![c] = p]
BY DEF Decided, Return, Retry

\* Each outcome of an attempt takes its request off the wire or, when its answer is
\* already in, closes the call or stutters.
LEMMA AttemptRefines ==
  ASSUME SemaphoreInv, NEW c \in Calls, Attempt(c)
  PROVE  Contract!Back(c) \/ Contract!Close(c) \/ UNCHANGED contractVars
<1>t. TypeOK BY DEF SemaphoreInv
<1>0. UNCHANGED req /\ (Decided(c) \/ ToBody(c)) BY <1>t, AttemptShape DEF attemptFrame
<1>1. PICK p \in {"asleep", "done", "body"} : phase' = [phase EXCEPT ![c] = p]
  BY <1>0, DecidedMoves DEF ToBody
<1>2. ASSUME NEW how, NEW ran \in BOOLEAN, phase[c] = "inflight", Ended(c, how, ran)
      PROVE  Contract!Back(c)
  <2>1. reached' = [reached EXCEPT ![c] = @ \/ ran] BY <1>2 DEF Ended
  <2>2. reached \in [Calls -> BOOLEAN] BY <1>t DEF TypeOK
  <2>3. \A d \in Calls : d # c => reached'[d] = reached[d] BY <2>1, <2>2
  <2>4. reached[c] => reached'[c] BY <2>1, <2>2
  <2>5. p \in Phases \ {"idle", "inflight"} BY DEF Phases
  <2> QED BY <1>t, <1>0, <1>1, <1>2, <2>3, <2>4, <2>5, BackStep
<1>3. ASSUME NEW r \in Responses, Answered(c, r) PROVE Contract!Back(c)
  BY <1>2, <1>3, OutcomeTyped DEF Answered
<1>4. ASSUME NEW r \in Responses, StreamOpened(c, r) PROVE Contract!Back(c)
  BY <1>2, <1>4 DEF StreamOpened
<1>5. ASSUME NEW r \in Responses, StreamRefused(c, r) PROVE Contract!Back(c)
  BY <1>2, <1>5, OutcomeTyped DEF StreamRefused
<1>6. ASSUME NEW transient \in BOOLEAN, ConnectFailed(c, transient) PROVE Contract!Back(c)
  BY <1>2, <1>6 DEF ConnectFailed
<1>7. ASSUME ConnectionLost(c) PROVE Contract!Back(c)
  BY <1>2, <1>7 DEF ConnectionLost
<1>8. ASSUME TimedOut(c) PROVE Contract!Back(c)
  BY <1>2, <1>8 DEF TimedOut
<1>9. ASSUME RefusalRead(c) \/ RefusalLost(c)
      PROVE  Contract!Close(c) \/ UNCHANGED contractVars
  <2>1. phase[c] = "body" /\ UNCHANGED <<req, reached>>
    BY <1>9 DEF RefusalRead, RefusalLost, history
  <2>2. phase' = [phase EXCEPT ![c] = "done"] \/ phase' = [phase EXCEPT ![c] = "asleep"]
    <3>1. CASE Decided(c) BY <3>1, DecidedMoves
    <3>2. CASE ToBody(c) BY <2>1, <3>2 DEF ToBody
    <3> QED BY <1>0, <3>1, <3>2
  <2>3. CASE phase' = [phase EXCEPT ![c] = "done"] BY <1>t, <2>1, <2>3, CloseStep
  <2>4. CASE phase' = [phase EXCEPT ![c] = "asleep"] BY <1>t, <2>1, <2>4, StutterStep
  <2> QED BY <2>2, <2>3, <2>4
<1> QED BY <1>3, <1>4, <1>5, <1>6, <1>7, <1>8, <1>9 DEF Attempt

\* Every step of the send loops is a step of the contract, or invisible to it.
LEMMA StepRefines ==
  ASSUME SemaphoreInv, ReplayInv, [Next]_vars
  PROVE  (\E c \in Calls : \/ Contract!Open(c) \/ Contract!Put(c)
                           \/ Contract!Back(c) \/ Contract!Close(c))
         \/ UNCHANGED contractVars
<1>t. TypeOK BY DEF SemaphoreInv
<1>f. phase \in [Calls -> Phases] /\ permits \in Nat BY <1>t DEF TypeOK, RetryTypeOK
<1>1. ASSUME NEW c \in Calls, Begin(c) PROVE Contract!Open(c)
  <2>1. /\ phase[c] = "idle" /\ phase' = [phase EXCEPT ![c] = "loop"]
        /\ UNCHANGED <<req, reached>> /\ "loop" \in Phases
    BY <1>1 DEF Begin, history, Phases
  <2>2. statuses' = [statuses EXCEPT ![c] = "open"] /\ statuses[c] = "idle"
    BY <1>t, <2>1, StatusMoves
  <2>3. Holders' = Holders BY <1>t, <2>1, StatusMoves DEF Holders
  <2>4. UNCHANGED <<onces, rans>> BY <2>1 DEF onces, rans, Policy
  <2> QED BY <2>2, <2>3, <2>4 DEF Contract!Open, statuses, onces, rans
<1>2. ASSUME NEW c \in Calls, OutOfBudget(c) PROVE Contract!Close(c)
  <2>1. /\ phase[c] = "loop" /\ phase' = [phase EXCEPT ![c] = "done"]
        /\ UNCHANGED <<req, reached>>
    BY <1>2 DEF OutOfBudget, Fail, Return, history
  <2> QED BY <1>t, <2>1, CloseStep
<1>3. ASSUME NEW c \in Calls, Enqueue(c) PROVE UNCHANGED contractVars
  BY <1>t, <1>3, StutterStep DEF Enqueue
<1>4. ASSUME NEW c \in Calls, Send(c) PROVE Contract!Put(c)
  <2>1. /\ phase[c] = "queued" /\ phase' = [phase EXCEPT ![c] = "inflight"]
        /\ UNCHANGED <<req, reached>> /\ "inflight" \in Phases /\ permits > 0
    BY <1>4, SentFromQueue DEF Send, Phases, PermitFree
  <2>2. statuses' = [statuses EXCEPT ![c] = "open"] /\ statuses[c] = "open"
    BY <1>t, <2>1, StatusMoves
  <2>3. statuses' = statuses BY <2>2 DEF statuses
  <2>4. c \notin Holders /\ Holders' = Holders \cup {c}
    BY <1>t, <2>1, StatusMoves DEF Holders
  <2>5. Cardinality(Holders) < MaxConcurrency
    <3>1. Cardinality(Holders) \in Nat BY FS_CardinalityType DEF SemaphoreInv, PermitsOK
    <3> QED BY <1>f, <2>1, <3>1, SendAssumption DEF SemaphoreInv, PermitsOK
  <2>6. c \in onces => c \notin rans
    BY <2>1 DEF ReplayInv, ReplayAt, Once, onces, rans
  <2>7. UNCHANGED <<onces, rans>> BY <2>1 DEF onces, rans, Policy
  <2>8. statuses[c] = "open" /\ UNCHANGED <<onces, statuses, rans>> BY <2>2, <2>3, <2>7
  <2>9. Contract!Cardinality(Holders) = Cardinality(Holders)
    BY DEF Contract!Cardinality, Cardinality
  <2> QED BY <2>4, <2>5, <2>6, <2>8, <2>9 DEF Contract!Put, statuses, onces, rans
<1>5. ASSUME NEW c \in Calls, Wake(c) PROVE UNCHANGED contractVars
  BY <1>t, <1>5, StutterStep DEF Wake, history
<1>6. ASSUME NEW c \in Calls, DropFuture(c) PROVE Contract!Back(c) \/ Contract!Close(c)
  <2>1. /\ phase' = [phase EXCEPT ![c] = "dropped"] /\ UNCHANGED <<req, reached>>
        /\ phase[c] \in {"queued", "inflight", "body", "asleep"}
    BY <1>6 DEF DropFuture, history
  <2>2. "dropped" \in Phases \ {"idle", "inflight"} BY DEF Phases
  <2>3. CASE phase[c] = "inflight" BY <1>t, <2>1, <2>2, <2>3, BackStep
  <2>4. CASE phase[c] # "inflight" BY <1>t, <2>1, <2>4, CloseStep
  <2> QED BY <2>3, <2>4
<1>7. CASE Tick
  <2>1. UNCHANGED <<phase, req, reached>> BY <1>7 DEF Tick, history
  <2> QED BY <1>t, <2>1, StutterStep
<1>8. CASE UNCHANGED vars
  <2>1. UNCHANGED <<phase, req, reached>> BY <1>8 DEF vars, history
  <2> QED BY <1>t, <2>1, StutterStep
<1> QED BY <1>1, <1>2, <1>3, <1>4, <1>5, <1>6, <1>7, <1>8, AttemptRefines DEF Next, Quiescent

\* The loops, the queue, the retries and the drops implement the contract: for any
\* number of calls there are never more than MaxConcurrency requests on the wire, none
\* of a closed call, and no second one of a generation that a worker may have run.
THEOREM Refinement == Spec => ImplementsContract
<1>1. Init => Contract!Init
  <2> SUFFICES ASSUME Init PROVE Contract!Init OBVIOUS
  <2>1. Holders = {} /\ rans = {} BY DEF Init, Holders, rans
  <2>2. statuses = [c \in Calls |-> "idle"] BY DEF Init, statuses, Status
  <2>3. onces \subseteq Calls BY DEF onces
  <2> QED BY <2>1, <2>2, <2>3 DEF Contract!Init, statuses, onces, rans
<1>2. SemaphoreInv /\ ReplayInv /\ [Next]_vars => [Contract!Next]_(Contract!vars)
  <2> SUFFICES ASSUME SemaphoreInv, ReplayInv, [Next]_vars
               PROVE  Contract!Next \/ UNCHANGED Contract!vars
    OBVIOUS
  <2> QED BY StepRefines
        DEF Contract!Next, Contract!vars, contractVars, onces, statuses, rans
<1> QED BY <1>1, <1>2, ReplayInvariant, PTL DEF Spec, ImplementsContract, Contract!Spec

---------------------------------------------------------------------------
(***************************************************************************)
(* What bounds the retries of a call, whatever mixture of answers it gets: *)
(* the separate caps on RESOURCE_EXHAUSTED and LORA_LOADING, and           *)
(* wait_for_capacity = false.  Every decision is charged to at most one    *)
(* cap (Charged), and a call that closes has its result and nothing else.  *)
(* Then, from the caps, what ends a call: its budget, and the refusal a    *)
(* caller is told of when the budget is spent.                             *)
(***************************************************************************)
LoadingCodes == {"MODEL_LOADING", "LORA_LOADING", "RESOURCE_EXHAUSTED"}

CapsAt(c) ==
  /\ oom_retries[c] <= req[c].max_oom_retries
  /\ oom_retries[c] + AtMost(lora_retries[c], LORA_LOADING_MAX_RETRIES) <= retries[c] +
       (IF result[c] = "LoraLoading" THEN 1 ELSE 0)
  /\ lora_retries[c] > LORA_LOADING_MAX_RETRIES => phase[c] = "done"
  /\ phase[c] # "done" => result[c] = "none"

FastAt(c) ==
  /\ phase[c] = "asleep" /\ ~Wait(c) => last[c] \in LoadingCodes
  /\ phase[c] = "body" => last[c] = Outcome(answer[c])

CapsInv == \A c \in Calls : CapsAt(c) /\ FastAt(c)

\* What a step of one call leaves alone in call d.
Spared(d) ==
  /\ req' = req
  /\ oom_retries'[d] = oom_retries[d] /\ lora_retries'[d] = lora_retries[d]
  /\ retries'[d] = retries[d] /\ result'[d] = result[d] /\ phase'[d] = phase[d]
  /\ last'[d] = last[d] /\ answer'[d] = answer[d]

\* A step that decides nothing.
Quiet(c) ==
  /\ req' = req
  /\ phase[c] # "done" /\ phase'[c] \in {"loop", "queued", "inflight", "dropped"}
  /\ oom_retries'[c] = oom_retries[c] /\ lora_retries'[c] = lora_retries[c]
  /\ retries'[c] = retries[c] /\ result'[c] = result[c]

LEMMA SparedHolds ==
  ASSUME NEW d \in Calls, CapsAt(d) /\ FastAt(d), Spared(d)
  PROVE  (CapsAt(d) /\ FastAt(d))'
<1>1. CapsAt(d)'
  BY DEF CapsAt, Spared, AtMost
<1>2. FastAt(d)'
  BY DEF FastAt, Spared, Wait, Outcome
<1> QED
  BY <1>1, <1>2

LEMMA QuietHolds ==
  ASSUME NEW d \in Calls, CapsAt(d) /\ FastAt(d), Quiet(d)
  PROVE  (CapsAt(d) /\ FastAt(d))'
<1>1. CapsAt(d)'
  BY DEF CapsAt, Quiet, AtMost
<1>2. FastAt(d)'
  BY DEF FastAt, Quiet
<1> QED
  BY <1>1, <1>2

LEMMA CapsNumbers ==
  ASSUME TypeOK, NEW c \in Calls
  PROVE  /\ oom_retries[c] \in Nat /\ lora_retries[c] \in Nat /\ retries[c] \in Nat
         /\ req[c].max_oom_retries \in Nat /\ LORA_LOADING_MAX_RETRIES \in Nat
BY BackoffAssumption DEF TypeOK, RetryTypeOK, Request

---------------------------------------------------------------------------
\* A decision moves at most one of the separate counters, and then by one; the
\* loading cap is looked at after its counter has moved, the other before.
LEMMA Charged ==
  ASSUME NEW c \in Calls, NEW r \in Response, OnResponse(c, r)
  PROVE  \/ /\ UNCHANGED <<oom_retries, lora_retries>>
            /\ (\E v : Return(c, v)) \/ (\E delays : Retry(c, delays))
         \/ /\ UNCHANGED oom_retries
            /\ lora_retries' = [lora_retries EXCEPT ![c] = @ + 1]
            /\ \/ Return(c, "LoraLoading")
               \/ /\ ~(lora_retries[c] + 1 > LORA_LOADING_MAX_RETRIES)
                  /\ \E delays : Retry(c, delays)
         \/ /\ UNCHANGED lora_retries
            /\ oom_retries' = [oom_retries EXCEPT ![c] = @ + 1]
            /\ ~OomRetriesSpent(c)
            /\ \E delays : Retry(c, delays)
<1>1. CASE OnLoraLoading(c, r)
  BY <1>1 DEF OnLoraLoading, Fail
<1>2. CASE OnResourceExhausted(c, r)
  BY <1>2 DEF OnResourceExhausted, Fail
<1>3. CASE OnProvisioning(c, r) \/ OnModelLoading(c, r) \/ OnGatewayTimeout(c, r)
  BY <1>3 DEF OnProvisioning, OnModelLoading, OnGatewayTimeout, Fail
<1>4. CASE UNCHANGED counters /\ \E v : Return(c, v)
  BY <1>4 DEF counters
<1> QED
  BY <1>1, <1>2, <1>3, <1>4 DEF OnResponse, Fail, Accept

\* Without wait_for_capacity only the answers of a worker that is loading or full
\* are waited out.
LEMMA ImpatientRetry ==
  ASSUME NEW c \in Calls, NEW r \in Response, OnResponse(c, r), ~Wait(c),
         phase'[c] = "asleep", phase \in [Calls -> Phases]
  PROVE  Outcome(r) \in LoadingCodes
<1>1. ASSUME NEW v, Return(c, v) PROVE FALSE
  BY <1>1 DEF Return
<1>2. OnModelLoading(c, r) \/ OnLoraLoading(c, r) \/ OnResourceExhausted(c, r)
  BY <1>1 DEF OnResponse, OnProvisioning, OnGatewayTimeout, GatewayReplayed, Fail, Accept
<1>3. r.status = 503 /\ r.code \in LoadingCodes
  BY <1>2 DEF OnModelLoading, OnLoraLoading, OnResourceExhausted, Capacity, LoadingCodes
<1> QED
  BY <1>3 DEF Outcome

\* A decision keeps the caps.
LEMMA DecisionKeepsCaps ==
  ASSUME TypeOK, NEW c \in Calls, CapsAt(c), phase[c] \in {"inflight", "body"},
         req' = req,
         \/ \E r \in Response : OnResponse(c, r)
         \/ /\ UNCHANGED <<oom_retries, lora_retries>>
            /\ (\E v : Return(c, v)) \/ (\E delays : Retry(c, delays))
  PROVE  CapsAt(c)'
<1> USE CapsNumbers
<1>1. /\ phase \in [Calls -> Phases] /\ result \in [Calls -> Results]
      /\ retries \in [Calls -> Nat] /\ oom_retries \in [Calls -> Nat]
      /\ lora_retries \in [Calls -> Nat]
  BY DEF TypeOK, RetryTypeOK
<1>2. /\ result[c] = "none" /\ ~(lora_retries[c] > LORA_LOADING_MAX_RETRIES)
      /\ oom_retries[c] + lora_retries[c] <= retries[c]
      /\ oom_retries[c] <= req[c].max_oom_retries
  BY DEF CapsAt, AtMost
<1>3. ASSUME NEW v, Return(c, v)
      PROVE  phase'[c] = "done" /\ retries'[c] = retries[c] /\ result'[c] = v
  BY <1>1, <1>3 DEF Return
<1>4. ASSUME NEW delays, Retry(c, delays)
      PROVE  phase'[c] = "asleep" /\ retries'[c] = retries[c] + 1 /\ result'[c] = "none"
  BY <1>1, <1>2, <1>4 DEF Retry
<1>5. CASE /\ UNCHANGED <<oom_retries, lora_retries>>
           /\ (\E v : Return(c, v)) \/ (\E delays : Retry(c, delays))
  BY <1>2, <1>3, <1>4, <1>5 DEF CapsAt, AtMost
<1>6. CASE /\ UNCHANGED oom_retries
           /\ lora_retries' = [lora_retries EXCEPT ![c] = @ + 1]
           /\ \/ Return(c, "LoraLoading")
              \/ /\ ~(lora_retries[c] + 1 > LORA_LOADING_MAX_RETRIES)
                 /\ \E delays : Retry(c, delays)
  <2>1. lora_retries'[c] = lora_retries[c] + 1 /\ oom_retries'[c] = oom_retries[c]
    BY <1>1, <1>6
  <2>2. CASE Return(c, "LoraLoading")
    BY <1>2, <1>3, <2>1, <2>2 DEF CapsAt, AtMost
  <2>3. CASE /\ ~(lora_retries[c] + 1 > LORA_LOADING_MAX_RETRIES)
             /\ \E delays : Retry(c, delays)
    BY <1>2, <1>4, <2>1, <2>3 DEF CapsAt, AtMost
  <2> QED
    BY <1>6, <2>2, <2>3
<1>7. CASE /\ UNCHANGED lora_retries
           /\ oom_retries' = [oom_retries EXCEPT ![c] = @ + 1]
           /\ ~OomRetriesSpent(c)
           /\ \E delays : Retry(c, delays)
  <2>1. /\ oom_retries'[c] = oom_retries[c] + 1 /\ lora_retries'[c] = lora_retries[c]
        /\ oom_retries[c] + 1 <= req[c].max_oom_retries
    BY <1>1, <1>7 DEF OomRetriesSpent
  <2> QED
    BY <1>2, <1>4, <1>7, <2>1 DEF CapsAt, AtMost
<1> QED
  BY <1>5, <1>6, <1>7, Charged

---------------------------------------------------------------------------
\* No step of a call reaches into another call.
LEMMA StepSpares ==
  ASSUME TypeOK, NEW c \in Calls,
         Begin(c) \/ OutOfBudget(c) \/ Enqueue(c) \/ Send(c) \/ Attempt(c) \/ Wake(c) \/ DropFuture(c)
  PROVE  \A d \in Calls \ {c} : Spared(d)
<1>1. /\ phase \in [Calls -> Phases] /\ result \in [Calls -> Results]
      /\ retries \in [Calls -> Nat] /\ oom_retries \in [Calls -> Nat]
      /\ lora_retries \in [Calls -> Nat] /\ last \in [Calls -> Outcomes]
      /\ answer \in [Calls -> Responses \cup {NoAnswer}]
  BY DEF TypeOK, RetryTypeOK
<1>2. ASSUME (\E v : Return(c, v)) \/ (\E delays : Retry(c, delays))
      PROVE  \A d \in Calls \ {c} :
               phase'[d] = phase[d] /\ result'[d] = result[d] /\ retries'[d] = retries[d]
  BY <1>1, <1>2 DEF Return, Retry
<1>3. ASSUME NEW r \in Response, OnResponse(c, r)
      PROVE  \A d \in Calls \ {c} :
               /\ phase'[d] = phase[d] /\ result'[d] = result[d] /\ retries'[d] = retries[d]
               /\ oom_retries'[d] = oom_retries[d] /\ lora_retries'[d] = lora_retries[d]
  <2>1. (\E v : Return(c, v)) \/ (\E delays : Retry(c, delays))
    BY <1>3, Charged
  <2>2. \A d \in Calls \ {c} :
          oom_retries'[d] = oom_retries[d] /\ lora_retries'[d] = lora_retries[d]
    BY <1>1, <1>3, Charged
  <2> QED
    BY <1>2, <2>1, <2>2
<1>4. ASSUME NEW kind, NEW transient, OnTransportError(c, kind, transient)
      PROVE  /\ (\E v : Return(c, v)) \/ (\E delays : Retry(c, delays))
             /\ UNCHANGED <<oom_retries, lora_retries>>
  BY <1>4 DEF OnTransportError, Fail
<1>5. CASE Begin(c) \/ Enqueue(c) \/ Send(c) \/ Wake(c) \/ DropFuture(c)
  BY <1>1, <1>5 DEF Begin, Enqueue, Send, Wake, DropFuture, Spared, counters, history
<1>6. CASE OutOfBudget(c)
  BY <1>2, <1>6 DEF OutOfBudget, Fail, Spared, history
<1>7. CASE Attempt(c)
  <2>1. ASSUME NEW r \in Responses, Answered(c, r) PROVE \A d \in Calls \ {c} : Spared(d)
    <3>1. r \in Response
      BY ResponsesTyped
    <3> QED
      BY <1>1, <1>3, <2>1, <3>1 DEF Answered, Ended, Spared
  <2>2. ASSUME NEW r \in Responses, StreamOpened(c, r) PROVE \A d \in Calls \ {c} : Spared(d)
    BY <1>1, <1>2, <2>2 DEF StreamOpened, Ended, Spared
  <2>3. ASSUME NEW r \in Responses, StreamRefused(c, r) PROVE \A d \in Calls \ {c} : Spared(d)
    BY <1>1, <2>3 DEF StreamRefused, Ended, Spared, counters
  <2>4. CASE RefusalRead(c)
    <3>1. answer[c] \in Response
      BY AnswerTyped
    <3>2. CASE OnResponse(c, answer[c])
      BY <1>1, <1>3, <2>4, <3>1, <3>2 DEF RefusalRead, Spared, history
    <3>3. CASE Fail(c, "Request") /\ UNCHANGED counters
      BY <1>1, <1>2, <2>4, <3>3 DEF Fail, RefusalRead, Spared, history, counters
    <3> QED
      BY <2>4, <3>2, <3>3 DEF RefusalRead
  <2>5. CASE RefusalLost(c)
    BY <1>1, <1>2, <2>5 DEF Fail, RefusalLost, Spared, history
  <2>6. ASSUME NEW transient, ConnectFailed(c, transient) PROVE \A d \in Calls \ {c} : Spared(d)
    BY <1>1, <1>2, <1>4, <2>6 DEF ConnectFailed, Ended, Spared
  <2>7. CASE ConnectionLost(c)
    BY <1>1, <1>2, <1>4, <2>7 DEF ConnectionLost, Ended, Spared
  <2>8. CASE TimedOut(c)
    BY <1>1, <1>2, <1>4, <2>8 DEF TimedOut, Ended, Spared
  <2> QED
    BY <1>7, <2>1, <2>2, <2>3, <2>4, <2>5, <2>6, <2>7, <2>8 DEF Attempt
<1> QED
  BY <1>5, <1>6, <1>7

\* An attempt keeps the caps and the promise to an impatient caller.
LEMMA AttemptKeepsCaps ==
  ASSUME TypeOK, NEW c \in Calls, CapsAt(c), FastAt(c), Attempt(c)
  PROVE  CapsAt(c)' /\ FastAt(c)'
<1>0. /\ phase \in [Calls -> Phases] /\ last \in [Calls -> Outcomes]
      /\ answer \in [Calls -> Responses \cup {NoAnswer}]
      /\ phase[c] \in {"inflight", "body"} /\ req' = req
  BY AttemptShape DEF TypeOK, RetryTypeOK, Attempting, attemptFrame
<1>1. ASSUME NEW v, Return(c, v)
      PROVE  phase'[c] = "done" /\ FastAt(c)'
  BY <1>0, <1>1 DEF Return, FastAt
<1>2. ASSUME NEW r \in Response, OnResponse(c, r), last'[c] = Outcome(r)
      PROVE  CapsAt(c)' /\ FastAt(c)'
  <2>1. CapsAt(c)'
    BY <1>0, <1>2, DecisionKeepsCaps
  <2>2. phase'[c] \in {"done", "asleep"}
    BY <1>0, <1>2, Charged DEF Return, Retry
  <2>3. Wait(c)' <=> Wait(c)
    BY <1>0 DEF Wait
  <2>4. phase'[c] = "asleep" /\ ~Wait(c) => Outcome(r) \in LoadingCodes
    BY <1>0, <1>2, ImpatientRetry
  <2> QED
    BY <1>2, <2>1, <2>2, <2>3, <2>4 DEF FastAt
<1>3. ASSUME NEW v, Return(c, v), UNCHANGED <<oom_retries, lora_retries>>
      PROVE  CapsAt(c)' /\ FastAt(c)'
  BY <1>0, <1>1, <1>3, DecisionKeepsCaps
<1>4. ASSUME NEW kind, NEW transient, OnTransportError(c, kind, transient)
      PROVE  CapsAt(c)' /\ FastAt(c)'
  <2>1. CASE Fail(c, "Connection")
    BY <1>3, <1>4, <2>1 DEF OnTransportError, Fail
  <2>2. CASE Wait(c) /\ Retry(c, TransportDelay(Remaining(c)))
    <3>1. CapsAt(c)'
      BY <1>0, <1>4, <2>2, DecisionKeepsCaps DEF OnTransportError
    <3>2. phase'[c] = "asleep" /\ Wait(c)'
      BY <1>0, <2>2 DEF Retry, Wait
    <3> QED
      BY <3>1, <3>2 DEF FastAt
  <2> QED
    BY <1>4, <2>1, <2>2 DEF OnTransportError
<1>5. ASSUME NEW r \in Responses, Answered(c, r) PROVE CapsAt(c)' /\ FastAt(c)'
  <2>1. r \in Response /\ OnResponse(c, r) /\ last'[c] = Outcome(r)
    BY <1>0, <1>5, ResponsesTyped DEF Answered, Ended
  <2> QED
    BY <1>2, <2>1
<1>6. ASSUME NEW r \in Responses, StreamOpened(c, r) PROVE CapsAt(c)' /\ FastAt(c)'
  BY <1>3, <1>6 DEF StreamOpened
<1>7. ASSUME NEW r \in Responses, StreamRefused(c, r) PROVE CapsAt(c)' /\ FastAt(c)'
  <2>1. /\ phase'[c] = "body" /\ answer'[c] = r /\ last'[c] = Outcome(r)
        /\ UNCHANGED <<retries, oom_retries, lora_retries, result>>
    BY <1>0, <1>7 DEF StreamRefused, Ended, counters
  <2>2. CapsAt(c)'
    BY <1>0, <2>1 DEF CapsAt, AtMost
  <2>3. FastAt(c)'
    BY <2>1 DEF FastAt, Outcome
  <2> QED
    BY <2>2, <2>3
<1>8. CASE RefusalRead(c)
  <2>1. answer[c] \in Response /\ last'[c] = Outcome(answer[c])
    BY <1>8, AnswerTyped DEF RefusalRead, history, FastAt
  <2>2. CASE OnResponse(c, answer[c])
    BY <1>2, <2>1, <2>2
  <2>3. CASE Fail(c, "Request") /\ UNCHANGED counters
    BY <1>3, <2>3 DEF Fail, counters
  <2> QED
    BY <1>8, <2>2, <2>3 DEF RefusalRead
<1>9. CASE RefusalLost(c)
  BY <1>3, <1>9 DEF RefusalLost, Fail
<1> QED
  BY <1>4, <1>5, <1>6, <1>7, <1>8, <1>9 DEF Attempt, ConnectFailed, ConnectionLost, TimedOut

LEMMA StepCapsInv ==
  ASSUME SemaphoreInv, CapsInv, [Next]_vars
  PROVE  CapsInv'
<1>0. TypeOK
  BY DEF SemaphoreInv
<1>f. phase \in [Calls -> Phases]
  BY <1>0 DEF TypeOK, RetryTypeOK
<1>1. ASSUME NEW c \in Calls, \A d \in Calls \ {c} : Spared(d), CapsAt(c)' /\ FastAt(c)'
      PROVE  CapsInv'
  BY <1>1, SparedHolds DEF CapsInv
<1>2. ASSUME NEW c \in Calls, Begin(c) \/ Enqueue(c) \/ Wake(c) \/ DropFuture(c)
      PROVE  CapsInv'
  <2>1. Quiet(c)
    BY <1>f, <1>2 DEF Begin, Enqueue, Wake, DropFuture, Quiet, counters
  <2> QED
    BY <1>0, <1>1, <1>2, <2>1, StepSpares, QuietHolds DEF CapsInv
<1>3. ASSUME NEW c \in Calls, Send(c) PROVE CapsInv'
  <2>1. Quiet(c)
    BY <1>f, <1>3, SentFromQueue DEF Send, Quiet, counters
  <2> QED
    BY <1>0, <1>1, <1>3, <2>1, StepSpares, QuietHolds DEF CapsInv
<1>4. ASSUME NEW c \in Calls, OutOfBudget(c) PROVE CapsInv'
  <2>1. /\ phase[c] = "loop" /\ phase'[c] = "done" /\ result'[c] = "Provisioning"
        /\ UNCHANGED <<req, retries, oom_retries, lora_retries>>
    BY <1>0, <1>4 DEF OutOfBudget, Fail, Return, TypeOK, RetryTypeOK
  <2>2. CapsAt(c)
    BY DEF CapsInv
  <2>3. CapsAt(c)' /\ FastAt(c)'
    BY <2>1, <2>2 DEF CapsAt, FastAt, AtMost
  <2> QED
    BY <1>0, <1>1, <1>4, <2>3, StepSpares
<1>5. ASSUME NEW c \in Calls, Attempt(c) PROVE CapsInv'
  BY <1>0, <1>1, <1>5, StepSpares, AttemptKeepsCaps DEF CapsInv
<1>6. CASE Tick \/ UNCHANGED vars
  <2>1. \A d \in Calls : Spared(d)
    BY <1>6 DEF Tick, vars, counters, history, Spared
  <2> QED
    BY <2>1, SparedHolds DEF CapsInv
<1> QED
  BY <1>2, <1>3, <1>4, <1>5, <1>6 DEF Next, Quiescent

LEMMA CapsInvariant == Spec => []CapsInv
<1>1. Init => CapsInv
  <2>1. SUFFICES ASSUME Init, NEW c \in Calls PROVE CapsAt(c) /\ FastAt(c)
    BY DEF CapsInv
  <2>2. TypeOK
    BY <2>1, InitIndInv
  <2>3. req[c].max_oom_retries \in Nat /\ LORA_LOADING_MAX_RETRIES \in Nat
    BY <2>2, CapsNumbers
  <2>4. /\ oom_retries[c] = 0 /\ lora_retries[c] = 0 /\ retries[c] = 0
        /\ result[c] = "none" /\ phase[c] = "idle"
    BY <2>1 DEF Init
  <2> QED
    BY <2>3, <2>4 DEF CapsAt, FastAt, AtMost
<1>2. SemaphoreInv /\ CapsInv /\ [Next]_vars => CapsInv'
  BY StepCapsInv
<1> QED
  BY <1>1, <1>2, SemaphoreInvariant, PTL DEF Spec

\* max_oom_retries and LORA_LOADING_MAX_RETRIES hold over any mixture of answers,
\* and what they count is among the counted retries.
THEOREM CapsHold == Spec => []RetryCaps
<1>1. CapsInv => RetryCaps
  BY DEF CapsInv, CapsAt, RetryCaps
<1> QED
  BY <1>1, CapsInvariant, PTL

\* A call with wait_for_capacity = false never sleeps after a PROVISIONING, a 504
\* or a transport failure.
THEOREM ImpatientFailsFast == Spec => []FailFast
<1>1. CapsInv => FailFast
  BY DEF CapsInv, FastAt, FailFast, LoadingCodes
<1> QED
  BY <1>1, CapsInvariant, PTL
---------------------------------------------------------------------------
(***************************************************************************)
(* The sleeps after RESOURCE_EXHAUSTED.  The schedule itself is in         *)
(* RetryStateProofs (ScheduleDoubles); here it is the floor of what a call *)
(* sleeps, because a larger base only lengthens it.                        *)
(***************************************************************************)
LEMMA DoublingSteps ==
  ASSUME NEW replays \in Nat
  PROVE  /\ Doubling(replays)[0] = AtMost(RESOURCE_EXHAUSTED_DELAY, RESOURCE_EXHAUSTED_MAX_DELAY)
         /\ \A n \in 1..replays :
              Doubling(replays)[n]
                = AtMost(2 * Doubling(replays)[n - 1], RESOURCE_EXHAUSTED_MAX_DELAY)
<1> DEFINE max == RESOURCE_EXHAUSTED_MAX_DELAY
           b == AtMost(RESOURCE_EXHAUSTED_DELAY, max)
           g == [x \in Nat |-> AtMost(2 * x, max)]
           Of(f) == f = [n \in 0..replays |->
                           AtMost(IF n = 0 THEN RESOURCE_EXHAUSTED_DELAY ELSE 2 * f[n - 1],
                                  RESOURCE_EXHAUSTED_MAX_DELAY)]
           d == CHOOSE f : Of(f)
<1>1. b \in Nat /\ g \in [Nat -> Nat]
  BY BackoffAssumption DEF AtMost
<1>2. PICK f : Iterates(f, g, b, replays)
  <2> HIDE DEF g, b
  <2> QED
    BY <1>1, IteratesExist
<1>3. Of(f)
  <2>1. /\ f \in [0..replays -> Nat] /\ f[0] = b
        /\ \A n \in 1..replays : f[n] = g[f[n - 1]]
    <3> HIDE DEF g, b
    <3> QED
      BY <1>2 DEF Iterates
  <2>2. \A n \in 1..replays : f[n] = AtMost(2 * f[n - 1], max)
    <3>1. \A n \in 1..replays : f[n - 1] \in Nat
      BY <2>1
    <3> QED
      BY <2>1, <3>1
  <2>3. \A n \in 0..replays : n # 0 => n \in 1..replays
    OBVIOUS
  <2> HIDE DEF g
  <2> QED
    BY <2>1, <2>2, <2>3
<1>4. Of(d)
  <2> HIDE DEF Of
  <2> QED
    BY <1>3
<1>5. Doubling(replays) = d
  BY DEF Doubling
<1> HIDE DEF d
<1>6. /\ d[0] = AtMost(RESOURCE_EXHAUSTED_DELAY, RESOURCE_EXHAUSTED_MAX_DELAY)
      /\ \A n \in 1..replays : d[n] = AtMost(2 * d[n - 1], RESOURCE_EXHAUSTED_MAX_DELAY)
  <2>1. 0 \in 0..replays /\ \A n \in 1..replays : n \in 0..replays /\ n # 0
    OBVIOUS
  <2>2. \A n \in 0..replays :
          d[n] = AtMost(IF n = 0 THEN RESOURCE_EXHAUSTED_DELAY ELSE 2 * d[n - 1],
                        RESOURCE_EXHAUSTED_MAX_DELAY)
    BY <1>4
  <2> QED
    BY <2>1, <2>2
<1> QED
  BY <1>5, <1>6

\* No hint makes the schedule fall below the doubling base.
LEMMA DoublingIsFloor ==
  ASSUME NEW hint \in Hint, NEW replays \in Nat
  PROVE  \A n \in 0..replays : /\ Doubling(replays)[n] \in Nat
                               /\ Doubling(replays)[n] <= OomScaled(hint, n)
<1> DEFINE d == Doubling(replays)
           S == {n \in 0..replays : d[n] \in Nat /\ d[n] <= OomScaled(hint, n)}
<1>0. RESOURCE_EXHAUSTED_DELAY \in Nat /\ RESOURCE_EXHAUSTED_MAX_DELAY \in Nat
  BY BackoffAssumption
<1>1. 0 \in S
  <2>1. OomBase(hint) \in Nat /\ OomBase(hint) >= RESOURCE_EXHAUSTED_DELAY
    BY OomBaseNat
  <2> QED
    BY <1>0, <2>1, DoublingSteps, ScheduleDoubles DEF AtMost
<1>2. ASSUME NEW k \in 0..replays - 1, k \in S PROVE k + 1 \in S
  <2>1. k \in Nat /\ k + 1 \in 1..replays /\ (k + 1) - 1 = k
    OBVIOUS
  <2>2. d[k + 1] = AtMost(2 * d[k], RESOURCE_EXHAUSTED_MAX_DELAY)
    BY <2>1, DoublingSteps
  <2>3. OomScaled(hint, k + 1) = AtMost(2 * OomScaled(hint, k), RESOURCE_EXHAUSTED_MAX_DELAY)
    BY <2>1, ScheduleDoubles
  <2>4. OomScaled(hint, k) \in Nat
    BY <1>0, <2>1, ScaledIsCapped, AtMostNat
  <2>5. d[k] \in Nat /\ d[k] <= OomScaled(hint, k)
    BY <1>2
  <2> HIDE DEF d
  <2>6. d[k + 1] \in Nat /\ d[k + 1] <= OomScaled(hint, k + 1)
    BY <1>0, <2>2, <2>3, <2>4, <2>5 DEF AtMost
  <2> QED
    BY <2>1, <2>6
<1> HIDE DEF S
<1>3. 0..replays \subseteq S
  BY <1>1, <1>2, Reaches
<1> QED
  BY <1>3 DEF S

\* A call's sleep keeps to the schedule.
OomSlept(c) ==
  /\ wakeAt'[c] - now <= RESOURCE_EXHAUSTED_MAX_DELAY
  /\ oom_retries[c] > 0 =>
       4 * (wakeAt'[c] - now) >= 3 * Doubling(req[c].max_oom_retries)[oom_retries[c]]

LEMMA DecisionBacksOff ==
  ASSUME TypeOK, NEW c \in Calls, NEW r \in Response, OnResponse(c, r),
         oom_retries'[c] # oom_retries[c]
  PROVE  OomSlept(c)
<1>0. /\ now \in Nat /\ wakeAt \in [Calls -> Nat] /\ r.hint \in Hint
      /\ oom_retries[c] \in Nat /\ req[c].max_oom_retries \in Nat
  BY CapsNumbers DEF TypeOK, RetryTypeOK, Response
<1>1. OnResourceExhausted(c, r)
  BY DEF OnResponse, OnProvisioning, OnModelLoading, OnLoraLoading, OnGatewayTimeout, counters
<1>2. PICK d \in OomBackoff(r.hint, oom_retries[c]) :
        wakeAt' = [wakeAt EXCEPT ![c] = now + d]
  BY <1>1 DEF OnResourceExhausted, Retry
<1>3. oom_retries[c] < req[c].max_oom_retries
  BY <1>0, <1>1 DEF OnResourceExhausted, OomRetriesSpent
<1>4. /\ d \in Nat /\ d <= RESOURCE_EXHAUSTED_MAX_DELAY
      /\ oom_retries[c] > 0 => 4 * d >= 3 * OomScaled(r.hint, oom_retries[c])
  BY <1>0, OomBackoffNat, OomBackoffBounds
<1>5. wakeAt'[c] - now = d
  BY <1>0, <1>2, <1>4
<1> DEFINE floor == Doubling(req[c].max_oom_retries)[oom_retries[c]]
           scaled == OomScaled(r.hint, oom_retries[c])
<1>6. floor \in Nat /\ floor <= scaled
  <2>1. oom_retries[c] \in 0..req[c].max_oom_retries
    BY <1>0, <1>3
  <2> QED
    BY <1>0, <2>1, DoublingIsFloor
<1>7. scaled \in Nat
  <2> DEFINE product == OomBase(r.hint) * Factor(oom_retries[c])
  <2>1. product \in Nat /\ scaled = AtMost(product, RESOURCE_EXHAUSTED_MAX_DELAY)
    BY <1>0, ScaledIsCapped
  <2> HIDE DEF product, scaled
  <2> QED
    BY <2>1, AtMostNat, BackoffAssumption
<1> HIDE DEF floor, scaled
<1>8. oom_retries[c] > 0 => 4 * d >= 3 * floor
  BY <1>4, <1>6, <1>7 DEF scaled
<1> QED
  BY <1>4, <1>5, <1>8 DEF OomSlept, floor

\* However many replays a caller allows, whatever the hints and however narrow the
\* shift, no sleep after a second RESOURCE_EXHAUSTED collapses, and none exceeds the
\* ceiling.
THEOREM SleepsKeepDoubling == Spec => OomBacksOff
<1>1. ASSUME SemaphoreInv, [Next]_vars
      PROVE  [\A c \in Calls : oom_retries'[c] # oom_retries[c] => OomSlept(c)]_vars
  <2> SUFFICES ASSUME Next, NEW c \in Calls, oom_retries'[c] # oom_retries[c]
               PROVE  OomSlept(c)
    BY <1>1
  <2>0. TypeOK
    BY <1>1 DEF SemaphoreInv
  <2>1. ASSUME NEW d \in Calls, Attempt(d) PROVE OomSlept(c)
    <3>1. d = c
      BY <2>0, <2>1, StepSpares DEF Spared
    <3>2. CASE \E r \in Response : OnResponse(c, r)
      BY <2>0, <3>2, DecisionBacksOff
    <3>3. CASE UNCHANGED oom_retries
      BY <3>3
    <3> QED
      BY <2>0, <2>1, <3>1, <3>2, <3>3, ResponsesTyped, AnswerTyped
      DEF Attempt, Answered, StreamOpened, StreamRefused, RefusalRead, RefusalLost,
          ConnectFailed, ConnectionLost, TimedOut, OnTransportError, counters
  <2>2. ASSUME NEW d \in Calls,
               \/ Begin(d) \/ OutOfBudget(d) \/ Enqueue(d) \/ Send(d) \/ Wake(d) \/ DropFuture(d)
        PROVE  OomSlept(c)
    BY <2>2 DEF Begin, OutOfBudget, Enqueue, Send, Wake, DropFuture, counters
  <2>3. CASE Tick \/ Quiescent
    BY <2>3 DEF Tick, Quiescent, vars, counters
  <2> QED
    BY <2>1, <2>2, <2>3 DEF Next
<1>2. Spec => [][\A c \in Calls : oom_retries'[c] # oom_retries[c] => OomSlept(c)]_vars
  BY <1>1, SemaphoreInvariant, PTL DEF Spec
<1> QED
  BY <1>2 DEF OomBacksOff, OomSlept

---------------------------------------------------------------------------
(***************************************************************************)
(* Nobody queues when there are as many permits as calls, and a client     *)
(* without max_concurrency has no semaphore at all.  Time then never       *)
(* passes over a waiting call, so the timeout computed before the queue is *)
(* still right after it.                                                   *)
(***************************************************************************)
PermitForEach == IsFiniteSet(Calls) /\ Cardinality(Calls) <= MaxConcurrency

PromptAt(c) ==
  /\ phase[c] = "queued" => queuedAt[c] = now
  /\ Attempting(c) => sentAt[c] = queuedAt[c]

PromptInv == \A c \in Calls : PromptAt(c)

\* A call that waits leaves a permit to the others, so one is free.
LEMMA WaiterHasPermit ==
  ASSUME PermitForEach, SemaphoreInv, NEW c \in Calls, phase[c] = "queued"
  PROVE  waiters # <<>> /\ PermitFree
<1>1. PICK i \in 1..Len(waiters) : waiters[i] = c
  BY DEF SemaphoreInv, QueueOK
<1>2. waiters # <<>>
  BY <1>1 DEF SemaphoreInv, TypeOK
<1>3. /\ IsFiniteSet(Calls \ {c}) /\ Cardinality(Calls \ {c}) = Cardinality(Calls) - 1
      /\ Cardinality(Calls) \in Nat
  BY FS_RemoveElement, FS_CardinalityType DEF PermitForEach
<1>4. Holders \subseteq Calls \ {c}
  BY DEF Holders
<1>5. Cardinality(Holders) <= Cardinality(Calls) - 1 /\ Cardinality(Holders) \in Nat
  BY <1>3, <1>4, FS_Subset, FS_CardinalityType
<1>6. /\ permits \in Nat /\ MaxConcurrency \in Nat
      /\ permits + Cardinality(Holders) = MaxConcurrency
  BY SendAssumption DEF SemaphoreInv, PermitsOK, TypeOK
<1>7. permits > 0
  BY <1>3, <1>5, <1>6 DEF PermitForEach
<1> QED
  BY <1>2, <1>7 DEF PermitFree

LEMMA StepPromptInv ==
  ASSUME PermitForEach, SemaphoreInv, PromptInv, [Next]_vars
  PROVE  PromptInv'
<1> SUFFICES ASSUME NEW c \in Calls PROVE PromptAt(c)'
  BY DEF PromptInv
<1>0. PromptAt(c)
  BY DEF PromptInv
<1>t. TypeOK
  BY DEF SemaphoreInv
<1>f. /\ phase \in [Calls -> Phases] /\ sentAt \in [Calls -> Nat]
      /\ queuedAt \in [Calls -> Nat]
  BY <1>t DEF TypeOK, RetryTypeOK
<1>1. ASSUME UNCHANGED <<now, sentAt[c], queuedAt[c]>>,
             \/ phase'[c] = phase[c]
             \/ phase'[c] \notin {"queued", "inflight", "body"}
             \/ Attempting(c) /\ phase'[c] = "body"
      PROVE  PromptAt(c)'
  BY <1>0, <1>1 DEF PromptAt, Attempting
<1>2. ASSUME NEW d \in Calls, Begin(d) \/ Wake(d) \/ DropFuture(d) PROVE PromptAt(c)'
  BY <1>1, <1>2, <1>f DEF Begin, Wake, DropFuture, history
<1>3. ASSUME NEW d \in Calls, OutOfBudget(d) PROVE PromptAt(c)'
  BY <1>1, <1>3, <1>f DEF OutOfBudget, Fail, Return, history
<1>4. ASSUME NEW d \in Calls, Enqueue(d) PROVE PromptAt(c)'
  <2>1. CASE d = c
    BY <1>4, <1>f, <2>1 DEF Enqueue, PromptAt, Attempting
  <2>2. CASE d # c
    BY <1>1, <1>4, <1>f, <2>2 DEF Enqueue
  <2> QED
    BY <2>1, <2>2
<1>5. ASSUME NEW d \in Calls, Send(d) PROVE PromptAt(c)'
  <2>1. CASE d = c
    <3>1. phase[c] = "queued"
      BY <1>5, <2>1, SentFromQueue
    <3>2. phase'[c] = "inflight" /\ sentAt'[c] = now /\ queuedAt'[c] = queuedAt[c]
      BY <1>5, <1>f, <2>1 DEF Send
    <3> QED
      BY <1>0, <3>1, <3>2 DEF PromptAt, Attempting
  <2>2. CASE d # c
    BY <1>1, <1>5, <1>f, <2>2 DEF Send
  <2> QED
    BY <2>1, <2>2
<1>6. ASSUME NEW d \in Calls, Attempt(d) PROVE PromptAt(c)'
  <2>1. /\ Attempting(d) /\ UNCHANGED <<now, sentAt, queuedAt>>
        /\ Decided(d) \/ ToBody(d)
    BY <1>t, <1>6, AttemptShape DEF attemptFrame
  <2>2. PICK p \in {"asleep", "done", "body"} : phase' = [phase EXCEPT ![d] = p]
    BY <2>1, DecidedMoves DEF ToBody
  <2> QED
    BY <1>1, <1>f, <2>1, <2>2
<1>7. CASE Tick
  <2>1. phase[c] # "queued"
    BY <1>7, WaiterHasPermit DEF Tick
  <2>2. UNCHANGED <<phase, sentAt, queuedAt>>
    BY <1>7 DEF Tick, history
  <2> QED
    BY <1>0, <2>1, <2>2 DEF PromptAt, Attempting
<1>8. CASE UNCHANGED vars
  BY <1>1, <1>8 DEF vars, history
<1> QED
  BY <1>2, <1>3, <1>4, <1>5, <1>6, <1>7, <1>8 DEF Next, Quiescent

\* The inductive invariant of the budgets, as a fact of every behaviour.
LEMMA BudgetInvariant == Spec => [](SemaphoreInv /\ BudgetInv)
<1>1. Init => BudgetInv
  BY DEF Init, BudgetInv, BudgetAt, Attempting
<1>2. SemaphoreInv /\ BudgetInv /\ [Next]_vars => BudgetInv'
  BY StepBudgetInv
<1> QED
  BY <1>1, <1>2, SemaphoreInvariant, PTL DEF Spec

\* "Total wall-clock budget for the call, retries included": with a permit for every
\* call, no call is still running after its provision_timeout and the runtime's lag,
\* whatever the delays, the hints and the answers.
THEOREM NoCallOutlivesItsBudget ==
  ASSUME PermitForEach
  PROVE  Spec => []BudgetBound
<1>1. Init => PromptInv
  BY DEF Init, PromptInv, PromptAt, Attempting
<1>2. SemaphoreInv /\ PromptInv /\ [Next]_vars => PromptInv'
  BY StepPromptInv
<1>3. ASSUME SemaphoreInv, BudgetInv, PromptInv PROVE BudgetBound
  <2> SUFFICES ASSUME NEW c \in Calls, Live(c) PROVE now <= start[c] + Budget(c) + Lag
    BY DEF BudgetBound
  <2>1. BudgetAt(c) /\ PromptAt(c)
    BY <1>3 DEF BudgetInv, PromptInv
  <2>2. /\ now \in Nat /\ start[c] \in Nat /\ wakeAt[c] \in Nat /\ timeout[c] \in Nat
        /\ sentAt[c] \in Nat /\ queuedAt[c] \in Nat /\ Budget(c) \in Nat /\ Lag \in Nat
    BY <1>3, NumbersTyped DEF SemaphoreInv
  <2>3. phase[c] \in {"loop", "queued", "inflight", "body", "asleep"}
    BY <1>3 DEF SemaphoreInv, TypeOK, RetryTypeOK, Phases, Live
  <2> QED
    BY <2>1, <2>2, <2>3 DEF BudgetAt, PromptAt, Attempting, Deadline
<1> QED
  BY <1>1, <1>2, <1>3, BudgetInvariant, PTL DEF Spec

---------------------------------------------------------------------------
(***************************************************************************)
(* A replay after RESOURCE_EXHAUSTED leaves some budget to send it, so     *)
(* that what the call reports in the end is the exhaustion, or what came   *)
(* after it.  A timer that fires late can still eat what was left.         *)
(***************************************************************************)
Exhausted(c) == last[c] = "RESOURCE_EXHAUSTED"

ExhaustedAt(c) ==
  /\ phase[c] = "idle" => ~Exhausted(c)
  /\ phase[c] = "asleep" /\ Exhausted(c) => wakeAt[c] < start[c] + Budget(c)
  /\ phase[c] = "loop" /\ Exhausted(c) => now < start[c] + Budget(c) + Lag
  /\ result[c] = "Provisioning" /\ Exhausted(c) => Lag > 0

ExhaustionInv == \A c \in Calls : ExhaustedAt(c)

\* What the decision on an exhausted worker's answer leaves behind.
LEMMA ExhaustedDecision ==
  ASSUME TypeOK, NEW c \in Calls, NEW r \in Response, OnResponse(c, r),
         Outcome(r) = "RESOURCE_EXHAUSTED"
  PROVE  \/ \E v \in Errors \ {"Provisioning"} : Return(c, v)
         \/ /\ Remaining(c) > 0
            /\ \E delays \in SUBSET {d \in Nat : d < Remaining(c)} : Retry(c, delays)
<1>1. r.code = "RESOURCE_EXHAUSTED" /\ r.status = 503
  BY DEF Outcome
<1>2. CASE OnResourceExhausted(c, r)
  <2>1. CASE Fail(c, "ResourceExhausted")
    BY <2>1 DEF Fail, Errors
  <2>2. CASE /\ Remaining(c) # 0
             /\ Retry(c, {d \in OomBackoff(r.hint, oom_retries[c]) : OomSleepFits(c, d)})
    <3> DEFINE delays == {d \in OomBackoff(r.hint, oom_retries[c]) : OomSleepFits(c, d)}
    <3>1. r.hint \in Hint /\ oom_retries[c] \in Nat /\ Remaining(c) \in Nat
      BY NumbersTyped DEF TypeOK, RetryTypeOK, Response
    <3>2. delays \in SUBSET {d \in Nat : d < Remaining(c)}
      BY <3>1, OomBackoffNat DEF OomSleepFits
    <3>3. Remaining(c) > 0 /\ Retry(c, delays)
      BY <2>2, <3>1
    <3> HIDE DEF delays
    <3> QED
      BY <3>2, <3>3
  <2> QED
    BY <1>2, <2>1, <2>2 DEF OnResourceExhausted
<1>3. CASE \E v \in Errors \ {"Provisioning"} : Return(c, v)
  BY <1>3
<1>4. ~OnProvisioning(c, r) /\ ~OnModelLoading(c, r) /\ ~OnLoraLoading(c, r)
  BY <1>1 DEF OnProvisioning, OnModelLoading, OnLoraLoading, Capacity
<1>5. ~OnGatewayTimeout(c, r) /\ ~(r.status < 400)
  BY <1>1 DEF OnGatewayTimeout
<1>6. ASSUME NEW e \in Errors \ {"Provisioning"}, Fail(c, e)
      PROVE  \E v \in Errors \ {"Provisioning"} : Return(c, v)
  BY <1>6 DEF Fail
<1>7. TerminalError(r) \in Errors \ {"Provisioning"}
  BY DEF TerminalError, Errors
<1>8. {"ModelLoadFailed", "EstimateUnroutable"} \subseteq Errors \ {"Provisioning"}
  BY DEF Errors
<1> QED
  BY <1>2, <1>4, <1>5, <1>6, <1>7, <1>8 DEF OnResponse

\* An answer of any other kind ends the call with the budget error only as PROVISIONING.
LEMMA ExhaustedStep ==
  ASSUME TypeOK, NEW c \in Calls, ExhaustedAt(c), CapsAt(c), FastAt(c), Attempt(c)
  PROVE  ExhaustedAt(c)'
<1>0. /\ Attempting(c) /\ UNCHANGED <<now, req, start>>
      /\ Decided(c) \/ ToBody(c)
  BY AttemptShape DEF attemptFrame
<1>f. /\ phase \in [Calls -> Phases] /\ wakeAt \in [Calls -> Nat]
      /\ result \in [Calls -> Results] /\ last \in [Calls -> Outcomes]
      /\ answer \in [Calls -> Responses \cup {NoAnswer}]
  BY DEF TypeOK, RetryTypeOK
<1>b. Budget(c)' = Budget(c) /\ start'[c] = start[c] /\ result[c] = "none"
  BY <1>0 DEF Budget, CapsAt, Attempting
\* The attempt was not answered with RESOURCE_EXHAUSTED.
<1>1. ASSUME ~Exhausted(c)' PROVE ExhaustedAt(c)'
  <2>1. phase'[c] \in {"asleep", "done", "body"}
    BY <1>0, <1>f DEF Decided, Return, Retry, ToBody
  <2> QED
    BY <1>1, <2>1 DEF ExhaustedAt
<1>2. ASSUME NEW r \in Response, OnResponse(c, r), last'[c] = Outcome(r)
      PROVE  ExhaustedAt(c)'
  <2>1. CASE Outcome(r) # "RESOURCE_EXHAUSTED"
    BY <1>1, <1>2, <2>1 DEF Exhausted
  <2>2. ASSUME NEW v \in Errors \ {"Provisioning"}, Return(c, v) PROVE ExhaustedAt(c)'
    <3>1. phase'[c] = "done" /\ result'[c] # "Provisioning"
      BY <1>f, <2>2 DEF Return
    <3> QED
      BY <3>1 DEF ExhaustedAt
  <2>3. ASSUME Remaining(c) > 0, NEW delays \in SUBSET {d \in Nat : d < Remaining(c)},
               Retry(c, delays)
        PROVE  ExhaustedAt(c)'
    <3>1. PICK d \in delays : /\ phase'[c] = "asleep" /\ wakeAt'[c] = now + d
                              /\ result'[c] = "none"
      BY <1>f, <1>b, <2>3 DEF Retry
    <3>2. now + d < start[c] + Budget(c)
      BY <2>3, RemainingEnds, NumbersTyped
    <3> QED
      BY <1>b, <3>1, <3>2 DEF ExhaustedAt
  <2>4. CASE Outcome(r) = "RESOURCE_EXHAUSTED"
    BY <1>2, <2>2, <2>3, <2>4, ExhaustedDecision
  <2> QED
    BY <2>1, <2>4
<1>3. ASSUME NEW r \in Responses, Answered(c, r) PROVE ExhaustedAt(c)'
  <2>1. r \in Response /\ OnResponse(c, r) /\ last'[c] = Outcome(r)
    BY <1>f, <1>3, ResponsesTyped DEF Answered, Ended
  <2> QED
    BY <1>2, <2>1
<1>4. ASSUME NEW r \in Responses, StreamOpened(c, r) PROVE ExhaustedAt(c)'
  BY <1>1, <1>4, <1>f DEF StreamOpened, Ended, Exhausted
<1>5. ASSUME NEW r \in Responses, StreamRefused(c, r) PROVE ExhaustedAt(c)'
  <2>1. phase'[c] = "body" /\ result'[c] = "none"
    BY <1>5, <1>f, <1>b DEF StreamRefused
  <2> QED
    BY <2>1 DEF ExhaustedAt
<1>6. ASSUME RefusalRead(c) PROVE ExhaustedAt(c)'
  <2>1. answer[c] \in Response /\ last'[c] = Outcome(answer[c])
    BY <1>6, AnswerTyped DEF RefusalRead, history, FastAt
  <2>2. CASE Fail(c, "Request")
    <3>1. phase'[c] = "done" /\ result'[c] = "Request"
      BY <1>f, <2>2 DEF Fail, Return
    <3> QED
      BY <3>1 DEF ExhaustedAt
  <2> QED
    BY <1>2, <1>6, <2>1, <2>2 DEF RefusalRead
<1>7. ASSUME RefusalLost(c) PROVE ExhaustedAt(c)'
  <2>1. phase'[c] = "done" /\ result'[c] = "Connection"
    BY <1>f, <1>7 DEF RefusalLost, Fail, Return
  <2> QED
    BY <2>1 DEF ExhaustedAt
<1>8. ASSUME ConnectionLost(c) \/ TimedOut(c) \/ \E transient \in BOOLEAN : ConnectFailed(c, transient)
      PROVE  ExhaustedAt(c)'
  BY <1>1, <1>8, <1>f DEF ConnectionLost, TimedOut, ConnectFailed, Ended, Exhausted
<1> QED
  BY <1>3, <1>4, <1>5, <1>6, <1>7, <1>8 DEF Attempt

LEMMA StepExhaustionInv ==
  ASSUME SemaphoreInv, BudgetInv, CapsInv, ExhaustionInv, [Next]_vars
  PROVE  ExhaustionInv'
<1> SUFFICES ASSUME NEW c \in Calls PROVE ExhaustedAt(c)'
  BY DEF ExhaustionInv
<1>0. ExhaustedAt(c) /\ CapsAt(c) /\ FastAt(c) /\ BudgetAt(c)
  BY DEF ExhaustionInv, CapsInv, BudgetInv
<1>t. TypeOK
  BY DEF SemaphoreInv
<1>f. /\ phase \in [Calls -> Phases] /\ wakeAt \in [Calls -> Nat] /\ start \in [Calls -> Nat]
      /\ result \in [Calls -> Results]
  BY <1>t DEF TypeOK, RetryTypeOK
<1>n. /\ now \in Nat /\ start[c] \in Nat /\ wakeAt[c] \in Nat /\ Budget(c) \in Nat
      /\ Lag \in Nat
  BY <1>t, NumbersTyped
\* A step that leaves c's sleep, budget and last answer alone.
<1>1. ASSUME UNCHANGED <<req, start[c], wakeAt[c], result[c], last[c]>>,
             \/ phase'[c] = phase[c] /\ (phase[c] = "loop" => now' = now)
             \/ phase'[c] \in {"queued", "inflight", "dropped"}
      PROVE  ExhaustedAt(c)'
  BY <1>0, <1>1 DEF ExhaustedAt, Exhausted, Budget
<1>2. ASSUME NEW d \in Calls, Begin(d) PROVE ExhaustedAt(c)'
  <2>1. CASE d = c
    BY <1>0, <1>2, <1>f, <2>1 DEF Begin, ExhaustedAt, Exhausted, CapsAt, history
  <2>2. CASE d # c
    BY <1>1, <1>2, <1>f, <2>2 DEF Begin, history
  <2> QED
    BY <2>1, <2>2
<1>3. ASSUME NEW d \in Calls, OutOfBudget(d) PROVE ExhaustedAt(c)'
  <2>1. CASE d = c
    <3>1. phase[c] = "loop" /\ phase'[c] = "done" /\ last'[c] = last[c]
      BY <1>3, <1>f, <2>1 DEF OutOfBudget, Fail, Return, history
    <3>2. now >= start[c] + Budget(c)
      BY <1>3, <1>n, <2>1 DEF OutOfBudget, Remaining, Elapsed
    <3> QED
      BY <1>0, <1>n, <3>1, <3>2 DEF ExhaustedAt, Exhausted
  <2>2. CASE d # c
    BY <1>1, <1>3, <1>f, <2>2 DEF OutOfBudget, Fail, Return, history
  <2> QED
    BY <2>1, <2>2
<1>4. ASSUME NEW d \in Calls, Enqueue(d) \/ Send(d) \/ DropFuture(d) PROVE ExhaustedAt(c)'
  BY <1>1, <1>4, <1>f DEF Enqueue, Send, DropFuture, history
<1>5. ASSUME NEW d \in Calls, Attempt(d) PROVE ExhaustedAt(c)'
  <2>1. CASE d = c
    BY <1>0, <1>t, <1>5, <2>1, ExhaustedStep
  <2>2. CASE d # c
    <3>1. Spared(c)
      BY <1>t, <1>5, <2>2, StepSpares
    <3>2. UNCHANGED <<now, start>> /\ wakeAt'[c] = wakeAt[c]
      BY <1>t, <1>5, <1>f, <2>2, AttemptShape DEF attemptFrame, Decided, Return, Retry, ToBody
    <3> QED
      BY <1>1, <3>1, <3>2 DEF Spared
  <2> QED
    BY <2>1, <2>2
<1>6. ASSUME NEW d \in Calls, Wake(d) PROVE ExhaustedAt(c)'
  <2>1. CASE d = c
    <3>1. /\ phase[c] = "asleep" /\ phase'[c] = "loop"
          /\ UNCHANGED <<now, req, start, wakeAt, result, last>>
      BY <1>6, <1>f, <2>1 DEF Wake, history
    <3> QED
      BY <1>0, <1>n, <3>1 DEF ExhaustedAt, Exhausted, BudgetAt, CapsAt, Budget
  <2>2. CASE d # c
    BY <1>1, <1>6, <1>f, <2>2 DEF Wake, history
  <2> QED
    BY <2>1, <2>2
<1>7. CASE Tick
  BY <1>1, <1>7 DEF Tick, history
<1>8. CASE UNCHANGED vars
  BY <1>1, <1>8 DEF vars, history
<1> QED
  BY <1>2, <1>3, <1>4, <1>5, <1>6, <1>7, <1>8 DEF Next, Quiescent

LEMMA ExhaustionInvariant == Spec => []ExhaustionInv
<1>1. Init => ExhaustionInv
  BY DEF Init, ExhaustionInv, ExhaustedAt, Exhausted
<1>2. SemaphoreInv /\ BudgetInv /\ CapsInv /\ ExhaustionInv /\ [Next]_vars => ExhaustionInv'
  BY StepExhaustionInv
<1> QED
  BY <1>1, <1>2, BudgetInvariant, CapsInvariant, PTL DEF Spec

\* "Sleeping the whole remaining budget would surface a timeout instead of the root
\* cause": with timers on time, a call whose latest answer was RESOURCE_EXHAUSTED never
\* ends with the budget error, whatever it met before and however long calls queue.
THEOREM ExhaustionIsReported ==
  ASSUME Lag = 0
  PROVE  Spec => []ExhaustionNotMasked
<1>1. ExhaustionInv => ExhaustionNotMasked
  BY DEF ExhaustionInv, ExhaustedAt, Exhausted, ExhaustionNotMasked
<1> QED
  BY <1>1, ExhaustionInvariant, PTL
=============================================================================
