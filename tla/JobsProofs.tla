----------------------------- MODULE JobsProofs -----------------------------
(***************************************************************************)
(* The waits, proved for every timeout, poll interval, client timeout and  *)
(* timer lag, for Polling's specification and for Jobs', where jobs have   *)
(* chunks and a caller may download them; and a download that ends well is *)
(* exact, for any number of chunks, whatever expires or is run again while *)
(* it lasts.                                                               *)
(*                                                                         *)
(* The waits' promises are about the moment a wait ends, so the invariant  *)
(* follows the clock through a look: the deadline bounds the moment a look *)
(* starts, a look's start and the time its requests queue bound their end  *)
(* (Clock), an answer is as old as its request's permit at most            *)
(* (Answered), and a wait that has ended keeps what it ended with          *)
(* (Outcome).                                                              *)
(***************************************************************************)
EXTENDS Jobs, FiniteSetTheorems, TLAPS

---------------------------------------------------------------------------
(***************************************************************************)
(* The waits of module Polling                                             *)
(***************************************************************************)
NoAnswer == [kind |-> "none"]

Shape ==
  /\ TypeOK
  /\ loop = "job" <=> world.kind = "job"
  /\ Requesting /\ answer.kind # "none" => answer.kind = world.kind
  /\ loop = "warm" => phase \in {"warm", "warming", "asked", "probed", "over"}
  /\ phase \in {"warm", "warming"} => loop = "warm"
  /\ phase = "probed" => loop # "job"

\* A request of a look that could be made by a moment, but for what the look queued
\* before it, and whose timeout is MetadataBudget.
RequestClock(made) ==
  /\ sentAt <= now
  /\ due = sentAt + MetadataBudget
  /\ IF held THEN sentAt <= made + queued ELSE now <= made + queued

\* The warm-up's attempts share one budget.
WarmUpClock ==
  /\ sentAt <= now
  /\ sentAt <= due
  /\ IF held THEN due <= timeout + queued ELSE due = timeout /\ now <= sentAt + queued

\* A look starts by the deadline, a sleep ends by the deadline, but for the timers'
\* lag; a request is made when the one before it has ended, and ends with its timeout,
\* each but for the lag and for what the look has queued.
Clock ==
  /\ phase = "warm" => now = 0
  /\ phase = "look" => now <= timeout + Lag
  /\ phase = "warming" => WarmUpClock
  /\ phase = "asked" => RequestClock(timeout + Lag)
  /\ phase = "probed" => RequestClock(timeout + Lag + OneRequest)
  /\ InFlight => now <= due + Lag
  /\ phase = "asleep" => now <= wakeAt + Lag
  /\ phase = "over" => WaitBound

\* The history variables say of the world what their names say.
Seen ==
  /\ readyAt <= now
  /\ unreadyAt <= now
  /\ Ready(world) => readyAt = now
  /\ ~Ready(world) => unreadyAt = now

\* An answer was true at a moment since its request was sent, and there is none before
\* that.
Answered ==
  /\ Queueing => answer = NoAnswer
  /\ InFlight /\ answer.kind # "none" =>
       /\ Ready(answer) => readyAt >= sentAt
       /\ ~Ready(answer) => unreadyAt >= sentAt

Outcome ==
  /\ phase # "over" => result = "none"
  /\ loop = "warm" /\ phase \in {"asked", "probed"} =>
       readyAt # Never \/ world.kind = "worker"
  /\ loop = "warm" => result # "timeout"
  /\ NoReadyMissed
  /\ ReadyIsFresh

IInv == Shape /\ Clock /\ Seen /\ Answered /\ Outcome

---------------------------------------------------------------------------
LEMMA BudgetType ==
  MetadataBudget \in Nat /\ OneRequest \in Nat /\ OneRequest = MetadataBudget + Lag
  BY PollingAssumption DEF MetadataBudget, OneRequest

LEMMA ReadyType == \A w : Ready(w) \in BOOLEAN
  BY DEF Ready, IsSettled, IsTerminal

LEMMA MovesType ==
  \A w \in World : \A v \in Moves(w) : v \in World /\ v.kind = w.kind
  BY DEF World, Moves, JobStatus, Health

LEMMA WorldKinds ==
  \A w \in World : w.kind \in {"job", "gateway", "worker"}
  BY DEF World, JobStatus, Health

LEMMA InitHolds == Init => IInv
<1>1. SUFFICES ASSUME Init PROVE IInv
  OBVIOUS
<1>2. world \in World /\ (loop = "job" <=> world.kind = "job")
  BY <1>1 DEF Init, World, JobStatus, Health
<1>3. TypeOK
  <2>1. readyAt \in Nat \cup {Never} /\ unreadyAt \in Nat \cup {Never}
    BY <1>1 DEF Init
  <2>2. timeout \in Nat /\ poll_interval \in Nat /\ wakeAt \in 0..timeout
    BY <1>1, PollingAssumption DEF Init
  <2>3. phase \in Phases
    BY <1>1 DEF Init, Phases
  <2>4. answer \in World \cup {[kind |-> "none"]}
    BY <1>1 DEF Init
  <2> QED
    BY <1>1, <1>2, <2>1, <2>2, <2>3, <2>4 DEF Init, TypeOK
<1>4. Shape
  BY <1>1, <1>2, <1>3 DEF Init, Shape, Requesting
<1>5. Clock
  BY <1>1, PollingAssumption DEF Init, Clock, InFlight, Requesting
<1>6. Seen
  BY <1>1, ReadyType DEF Init, Seen, Never
<1>7. Answered /\ Outcome
  BY <1>1 DEF Init, Answered, Outcome, InFlight, Queueing, Requesting, NoReadyMissed, ReadyIsFresh
<1> QED
  BY <1>4, <1>5, <1>6, <1>7 DEF IInv

(***************************************************************************)
(* The three things a step does: it sends a request, it goes to sleep, or  *)
(* it ends the wait.                                                       *)
(***************************************************************************)

\* When a request of a look ends, the wait is within its bound.
LEMMA LookBound ==
  ASSUME IInv, Requesting
  PROVE  /\ phase \in {"asked", "probed"} /\ held => now <= sentAt + OneRequest
         /\ phase = "warming" => now <= timeout + Lag + queued
         /\ phase = "asked" => now <= timeout + Lag + OneRequest + queued
         /\ WaitBound
<1>1. /\ timeout \in Nat /\ now \in Nat /\ sentAt \in Nat /\ due \in Nat /\ Lag \in Nat
      /\ queued \in Nat /\ held \in BOOLEAN
  BY PollingAssumption DEF IInv, Shape, TypeOK
<1>2. phase \in {"asked", "probed", "warming"} /\ (held => now <= due + Lag)
  BY DEF IInv, Clock, InFlight, Requesting
<1>3. CASE phase = "warming"
  <2>1. loop # "job" /\ WarmUpClock
    BY <1>3 DEF IInv, Shape, Clock
  <2>2. now <= timeout + Lag + queued
    BY <1>1, <1>2, <2>1 DEF WarmUpClock
  <2> QED
    BY <1>1, <1>3, <2>1, <2>2, BudgetType DEF WaitBound
<1>4. CASE phase = "asked"
  <2>1. RequestClock(timeout + Lag)
    BY <1>4 DEF IInv, Clock
  <2>2. (held => now <= sentAt + OneRequest) /\ now <= timeout + Lag + OneRequest + queued
    BY <1>1, <1>2, <2>1, BudgetType DEF RequestClock
  <2> QED
    BY <1>1, <1>4, <2>2, BudgetType DEF WaitBound
<1>5. CASE phase = "probed"
  <2>1. RequestClock(timeout + Lag + OneRequest) /\ loop # "job"
    BY <1>5 DEF IInv, Clock, Shape
  <2>2. (held => now <= sentAt + OneRequest) /\ now <= timeout + Lag + 2 * OneRequest + queued
    BY <1>1, <1>2, <2>1, BudgetType DEF RequestClock
  <2> QED
    BY <1>1, <1>5, <2>1, <2>2, BudgetType DEF WaitBound
<1> QED
  BY <1>2, <1>3, <1>4, <1>5

LEMMA AskHolds ==
  ASSUME IInv, phase # "over", swallowed' \in BOOLEAN,
         NEW at \in {"asked", "probed", "warming"}, NEW b, Ask(at, b),
         at = "warming" => loop = "warm" /\ now <= timeout /\ b = timeout - now,
         at = "asked" => b = MetadataBudget /\ now <= timeout + Lag + queued,
         at = "probed" =>
           b = MetadataBudget /\ now <= timeout + Lag + OneRequest + queued /\ loop # "job",
         loop = "warm" /\ at # "warming" => readyAt # Never \/ world.kind = "worker"
  PROVE  IInv'
<1>1. TypeOK /\ result = "none" /\ timeout \in Nat /\ now \in Nat /\ queued \in Nat
      /\ Lag \in Nat
  BY PollingAssumption DEF IInv, Shape, TypeOK, Outcome
<1>2. b \in Nat
  BY <1>1, BudgetType
<1>3. /\ phase' = at /\ sentAt' = now /\ due' = now + b /\ held' = FALSE /\ answer' = NoAnswer
      /\ UNCHANGED <<now, caller, wakeAt, result, world, readyAt, unreadyAt, queued>>
  BY DEF Ask, NoAnswer
<1>4. TypeOK'
  <2>1. sentAt' \in Nat /\ due' \in Nat
    BY <1>1, <1>2, <1>3
  <2>2. held' \in BOOLEAN /\ phase' \in Phases
    BY <1>3 DEF Phases
  <2>3. answer' \in World \cup {[kind |-> "none"]}
    BY <1>3 DEF NoAnswer
  <2>4. wakeAt' \in 0..timeout' /\ world' \in World /\ swallowed' \in BOOLEAN /\ queued' \in Nat
    BY <1>1, <1>3 DEF TypeOK, caller
  <2> QED
    BY <1>1, <1>3, <2>1, <2>2, <2>3, <2>4 DEF TypeOK, caller
<1>5. Shape'
  BY <1>3, <1>4 DEF IInv, Shape, caller, NoAnswer, Requesting
<1>6. Clock'
  <2>1. CASE at = "warming"
    BY <1>1, <1>2, <1>3, <2>1 DEF Clock, WarmUpClock, caller, InFlight
  <2>2. CASE at = "asked"
    BY <1>1, <1>2, <1>3, <2>2 DEF Clock, RequestClock, caller, InFlight, MetadataBudget
  <2>3. CASE at = "probed"
    <3>1. now <= timeout + Lag + OneRequest + queued /\ b = MetadataBudget
      BY <2>3
    <3>2. RequestClock(timeout + Lag + OneRequest)'
      BY <1>1, <1>2, <1>3, <3>1, BudgetType
      DEF RequestClock, caller, MetadataBudget, OneRequest
    <3> QED
      BY <1>3, <2>3, <3>2 DEF Clock, InFlight
  <2> QED
    BY <2>1, <2>2, <2>3
<1>7. Seen'
  BY <1>3 DEF IInv, Seen, Ready, IsSettled, IsTerminal
<1>8. Answered'
  BY <1>3 DEF Answered, InFlight, Queueing, NoAnswer
<1>9. Outcome'
  BY <1>1, <1>3 DEF IInv, Outcome, caller, NoReadyMissed, ReadyIsFresh
<1> QED
  BY <1>5, <1>6, <1>7, <1>8, <1>9 DEF IInv

\* The timer of a request that got its permit starts then, and no earlier.
LEMMA PermittedHolds == IInv /\ Permitted => IInv'
<1> SUFFICES ASSUME IInv, Permitted PROVE IInv'
  OBVIOUS
<1>1. /\ Requesting /\ ~held /\ held' = TRUE /\ sentAt' = now /\ due' = now + (due - sentAt)
      /\ UNCHANGED <<now, caller, phase, answer, wakeAt, result, world, history>>
      /\ answer = NoAnswer
  BY DEF Permitted, Queueing, IInv, Answered
<1>2. /\ TypeOK /\ now \in Nat /\ sentAt \in Nat /\ due \in Nat /\ Lag \in Nat
      /\ timeout \in Nat /\ queued \in Nat
  BY PollingAssumption DEF IInv, Shape, TypeOK
<1>3. phase \in {"asked", "probed", "warming"}
  BY <1>1 DEF Requesting
<1>4. sentAt <= now /\ sentAt <= due
  <2>1. CASE phase = "warming"
    BY <2>1 DEF IInv, Clock, WarmUpClock
  <2>2. CASE phase \in {"asked", "probed"}
    BY <1>2, <2>2, BudgetType DEF IInv, Clock, RequestClock
  <2> QED
    BY <1>3, <2>1, <2>2
<1>5. due' \in Nat /\ now <= due'
  BY <1>1, <1>2, <1>4
<1>6. TypeOK'
  BY <1>1, <1>2, <1>5 DEF TypeOK, caller, history
<1>7. Shape'
  BY <1>1, <1>6 DEF IInv, Shape, caller, Requesting, NoAnswer
<1>8. Clock'
  <2>1. (InFlight => now <= due + Lag)'
    BY <1>1, <1>2, <1>5 DEF InFlight
  <2>2. CASE phase = "warming"
    <3>1. due = timeout /\ now <= sentAt + queued
      BY <1>1, <2>2 DEF IInv, Clock, WarmUpClock
    <3>2. due' <= timeout + queued
      BY <1>1, <1>2, <3>1
    <3>3. WarmUpClock'
      BY <1>1, <1>2, <1>5, <3>2 DEF WarmUpClock, caller, history
    <3> QED
      BY <1>1, <2>1, <2>2, <3>3 DEF Clock
  <2>3. CASE phase = "asked"
    <3>1. due = sentAt + MetadataBudget /\ now <= timeout + Lag + queued
      BY <1>1, <2>3 DEF IInv, Clock, RequestClock
    <3>2. RequestClock(timeout + Lag)'
      BY <1>1, <1>2, <3>1, BudgetType DEF RequestClock, caller, history, MetadataBudget
    <3> QED
      BY <1>1, <2>1, <2>3, <3>2 DEF Clock
  <2>4. CASE phase = "probed"
    <3>1. due = sentAt + MetadataBudget /\ now <= timeout + Lag + OneRequest + queued
      BY <1>1, <2>4 DEF IInv, Clock, RequestClock
    <3>2. RequestClock(timeout + Lag + OneRequest)'
      BY <1>1, <1>2, <3>1, BudgetType
      DEF RequestClock, caller, history, MetadataBudget, OneRequest
    <3> QED
      BY <1>1, <2>1, <2>4, <3>2 DEF Clock
  <2> QED
    BY <1>3, <2>2, <2>3, <2>4
<1>9. Seen'
  BY <1>1 DEF IInv, Seen, history, Ready, IsSettled, IsTerminal
<1>10. Answered'
  BY <1>1 DEF Answered, Queueing, NoAnswer
<1>11. Outcome'
  BY <1>1 DEF IInv, Outcome, caller, history, NoReadyMissed, ReadyIsFresh, OneRequest,
     MetadataBudget
<1> QED
  BY <1>7, <1>8, <1>9, <1>10, <1>11 DEF IInv

LEMMA EndHolds ==
  ASSUME IInv, phase # "over", swallowed' \in BOOLEAN, WaitBound,
         NEW r \in {"ready", "timeout", "failed"}, End(r),
         r = "timeout" =>
           /\ loop # "warm"
           /\ ~swallowed' => unreadyAt # Never /\ unreadyAt + OneRequest >= timeout,
         r = "ready" =>
           /\ readyAt # Never
           /\ loop # "warm" => readyAt + OneRequest >= now
  PROVE  IInv'
<1>1. TypeOK'
  BY DEF IInv, Shape, TypeOK, End, caller, request, Phases
<1>2. Shape'
  BY <1>1 DEF IInv, Shape, End, caller, request, Requesting
<1>3. Clock'
  BY DEF Clock, End, caller, InFlight, Requesting, WaitBound, OneRequest, MetadataBudget
<1>4. Seen'
  BY DEF IInv, Seen, End, Ready, IsSettled, IsTerminal
<1>5. Answered'
  BY DEF Answered, End, InFlight, Queueing, Requesting
<1>6. Outcome'
  BY DEF Outcome, End, caller, NoReadyMissed, ReadyIsFresh, OneRequest, MetadataBudget
<1> QED
  BY <1>2, <1>3, <1>4, <1>5, <1>6 DEF IInv

\* Only a look gives up or goes to sleep; a sleep ends by the deadline.
LEMMA NotYetHolds ==
  ASSUME IInv, InFlight, loop # "warm", phase # "warming", swallowed' \in BOOLEAN,
         ~swallowed' => unreadyAt >= sentAt,
         NotYet
  PROVE  IInv'
<1>1. phase \in {"asked", "probed"} /\ phase # "over" /\ TypeOK /\ Requesting /\ held
  BY DEF InFlight, Requesting, IInv, Shape
<1>2. now <= sentAt + OneRequest /\ WaitBound
  BY <1>1, LookBound
<1>3. now \in Nat /\ timeout \in Nat /\ poll_interval \in Nat /\ sentAt \in Nat
      /\ unreadyAt \in Nat \cup {Never}
  BY <1>1 DEF TypeOK
<1>4. CASE GivesUp
  <2>1. End("timeout") /\ now >= timeout
    BY <1>4 DEF NotYet, GivesUp, Elapsed
  <2>2. ~swallowed' => unreadyAt # Never /\ unreadyAt + OneRequest >= timeout
    BY <1>2, <1>3, <2>1, BudgetType DEF Never
  <2> QED
    BY <1>1, <1>2, <2>1, <2>2, EndHolds
<1>5. CASE ~GivesUp
  <2>1. /\ now < timeout
        /\ phase' = "asleep"
        /\ wakeAt' = now + Nap
        /\ UNCHANGED <<now, caller, request, result, world, readyAt, unreadyAt, queued>>
    BY <1>3, <1>5 DEF NotYet, GivesUp, Elapsed
  <2>2. wakeAt' \in now..timeout
    BY <1>3, <2>1 DEF Nap, Min2, Elapsed
  <2>3. TypeOK'
    BY <1>1, <1>3, <2>1, <2>2 DEF TypeOK, caller, request, Phases
  <2>4. Shape'
    BY <2>1, <2>3 DEF IInv, Shape, caller, request, Requesting
  <2>5. Clock'
    BY <1>3, <2>1, <2>2, PollingAssumption DEF Clock, InFlight, Requesting
  <2>6. Seen'
    BY <2>1 DEF IInv, Seen, Ready, IsSettled, IsTerminal
  <2>7. Answered'
    BY <2>1 DEF Answered, InFlight, Queueing, Requesting
  <2>8. Outcome'
    BY <1>1, <2>1 DEF IInv, Outcome, caller, NoReadyMissed, ReadyIsFresh
  <2> QED
    BY <2>4, <2>5, <2>6, <2>7, <2>8 DEF IInv
<1> QED
  BY <1>4, <1>5

---------------------------------------------------------------------------
\* What an answer that has come back says.
LEMMA ServedFacts ==
  ASSUME IInv, Served
  PROVE  /\ InFlight /\ Requesting /\ held /\ phase # "over" /\ TypeOK
         /\ answer \in World /\ answer.kind = world.kind
         /\ loop = "job" => answer.kind = "job"
         /\ Ready(answer) => readyAt >= sentAt /\ readyAt # Never
         /\ ~Ready(answer) => unreadyAt >= sentAt
<1>1. /\ InFlight /\ Requesting /\ held /\ phase # "over" /\ TypeOK /\ answer.kind # "none"
  BY DEF Served, InFlight, Requesting, IInv, Shape
<1>2. answer \in World
  BY <1>1 DEF TypeOK
<1>3. sentAt \in Nat /\ readyAt \in Nat \cup {Never}
  BY <1>1 DEF TypeOK
<1>4. Ready(answer) => readyAt >= sentAt
  BY <1>1 DEF IInv, Answered
<1>5. ~Ready(answer) => unreadyAt >= sentAt
  BY <1>1 DEF IInv, Answered
<1>6. answer.kind = world.kind /\ (loop = "job" => answer.kind = "job")
  BY <1>1 DEF IInv, Shape
<1> QED
  BY <1>1, <1>2, <1>3, <1>4, <1>5, <1>6 DEF Never

LEMMA FailedFacts ==
  ASSUME IInv, Failed
  PROVE  InFlight /\ phase # "over" /\ WaitBound
  BY LookBound DEF Failed, InFlight, Requesting

\* A step of the wait preserves the invariant.
LEMMA StepHolds == IInv /\ Step => IInv'
<1> SUFFICES ASSUME IInv, Step PROVE IInv'
  OBVIOUS
<1>0. TypeOK
  BY DEF IInv, Shape
<1>1. CASE Look
  <2>1. phase = "look" /\ loop # "warm" /\ now <= timeout + Lag
    BY <1>1 DEF Look, IInv, Shape, Clock
  <2>2. now <= timeout + Lag + queued /\ FALSE \in BOOLEAN
    BY <1>0, <2>1, PollingAssumption DEF TypeOK
  <2> QED
    BY <1>1, <2>1, <2>2, AskHolds DEF Look
<1>2. CASE WarmUp
  <2>1. phase = "warm" /\ loop = "warm" /\ now = 0
    BY <1>2 DEF WarmUp, IInv, Shape, Clock
  <2>2. WaitBound
    BY <1>0, <2>1, BudgetType, PollingAssumption DEF WaitBound, TypeOK
  <2>3. CASE timeout > 0
    <3>1. now <= timeout /\ timeout = timeout - now
      BY <1>0, <2>1, <2>3 DEF TypeOK
    <3> QED
      BY <1>2, <2>1, <2>3, <3>1, AskHolds DEF WarmUp
  <2>4. CASE ~(timeout > 0)
    BY <1>2, <2>1, <2>2, <2>4, EndHolds DEF WarmUp
  <2> QED
    BY <2>3, <2>4
<1>3. CASE ProbeWorker
  <2>1. Served /\ phase = "asked" /\ answer.kind = "worker"
    BY <1>3 DEF ProbeWorker
  <2>2. loop # "job" /\ now <= timeout + Lag + OneRequest + queued
    BY <2>1, ServedFacts, LookBound
  <2>3. loop = "warm" => readyAt # Never \/ world.kind = "worker"
    BY <2>1 DEF IInv, Outcome
  <2>4. swallowed' \in BOOLEAN /\ Ask("probed", MetadataBudget)
    BY <1>0, <1>3 DEF ProbeWorker, TypeOK
  <2> QED
    BY <2>1, <2>2, <2>3, <2>4, AskHolds
<1>4. CASE JobAnswered
  <2>1. Served /\ loop = "job" /\ swallowed' \in BOOLEAN
    BY <1>0, <1>4 DEF JobAnswered, TypeOK
  <2>2. phase # "warming" /\ now <= sentAt + OneRequest /\ WaitBound
    BY <2>1, ServedFacts, LookBound DEF IInv, Shape, Requesting
  <2>3. CASE Found
    <3>1. readyAt # Never /\ readyAt + OneRequest >= now
      BY <1>0, <2>1, <2>2, <2>3, ServedFacts, BudgetType DEF Found, TypeOK, Never
    <3> QED
      BY <1>4, <2>1, <2>2, <2>3, <3>1, ServedFacts, EndHolds DEF JobAnswered
  <2>4. CASE ~Found
    <3>1. NotYet /\ unreadyAt >= sentAt
      BY <1>4, <2>1, <2>4, ServedFacts DEF JobAnswered, Found
    <3> QED
      BY <2>1, <2>2, <3>1, ServedFacts, NotYetHolds
  <2> QED
    BY <2>3, <2>4
<1>5. CASE CapacityAnswered
  <2>1. Served /\ loop = "capacity" /\ swallowed' = (answer.kind = "worker")
    BY <1>5 DEF CapacityAnswered
  <2>2. phase # "warming" /\ now <= sentAt + OneRequest /\ WaitBound /\ swallowed' \in BOOLEAN
    BY <2>1, ServedFacts, LookBound DEF IInv, Shape, Requesting
  <2>3. CASE Found
    <3>1. readyAt # Never /\ readyAt + OneRequest >= now
      BY <1>0, <2>1, <2>2, <2>3, ServedFacts, BudgetType DEF Found, TypeOK, Never
    <3> QED
      BY <1>5, <2>1, <2>2, <2>3, <3>1, ServedFacts, EndHolds DEF CapacityAnswered
  <2>4. CASE ~Found
    <3>1. NotYet /\ unreadyAt >= sentAt
      BY <1>5, <2>1, <2>4, ServedFacts DEF CapacityAnswered, Found
    <3> QED
      BY <2>1, <2>2, <3>1, ServedFacts, NotYetHolds
  <2> QED
    BY <2>3, <2>4
<1>6. CASE WarmAnswered
  <2>1. /\ Served /\ loop = "warm" /\ phase # "warming" /\ swallowed' \in BOOLEAN
        /\ End(IF answer.kind = "gateway" THEN "ready" ELSE "failed")
    BY <1>0, <1>6 DEF WarmAnswered, TypeOK
  <2>2. answer.kind = "gateway" => readyAt # Never
    BY <2>1, ServedFacts DEF Requesting, IInv, Outcome
  <2>3. WaitBound
    BY <2>1, ServedFacts, LookBound
  <2>4. phase # "over"
    BY <2>1, ServedFacts
  <2>5. CASE answer.kind = "gateway"
    BY <2>1, <2>2, <2>3, <2>4, <2>5, EndHolds
  <2>6. CASE answer.kind # "gateway"
    BY <2>1, <2>2, <2>3, <2>4, <2>6, EndHolds
  <2> QED
    BY <2>5, <2>6
<1>7. CASE WarmedUp
  <2>1. /\ Served /\ phase = "warming" /\ Ask("asked", MetadataBudget) /\ swallowed' \in BOOLEAN
        /\ answer.kind = "worker" \/ answer.matching > 0
    BY <1>0, <1>7 DEF WarmedUp, TypeOK
  <2>2. now <= timeout + Lag + queued /\ loop = "warm"
    BY <2>1, ServedFacts, LookBound DEF IInv, Shape
  <2>3. readyAt # Never \/ world.kind = "worker"
    <3>1. answer.kind = world.kind /\ answer.kind \in {"gateway", "worker"}
      BY <2>1, <2>2, ServedFacts, WorldKinds DEF IInv, Shape
    <3>2. answer.kind = "gateway" => Ready(answer)
      BY <2>1, <3>1 DEF Ready
    <3> QED
      BY <2>1, <3>1, <3>2, ServedFacts
  <2>4. phase # "over"
    BY <2>1
  <2> QED
    BY <2>1, <2>2, <2>3, <2>4, AskHolds
<1>8. CASE JobFailed
  <2>1. End("failed") /\ swallowed' \in BOOLEAN /\ Failed
    BY <1>0, <1>8 DEF JobFailed, TypeOK
  <2> QED
    BY <2>1, FailedFacts, EndHolds
<1>9. CASE CapacityFailed
  <2>1. NotYet /\ swallowed' = TRUE /\ Failed /\ loop = "capacity"
    BY <1>9 DEF CapacityFailed, Swallow
  <2>2. phase # "warming"
    BY <2>1 DEF IInv, Shape
  <2> QED
    BY <2>1, <2>2, FailedFacts, NotYetHolds
<1>10. CASE WarmFailed
  <2>1. End("failed") /\ swallowed' \in BOOLEAN /\ Failed
    BY <1>0, <1>10 DEF WarmFailed, TypeOK
  <2> QED
    BY <2>1, FailedFacts, EndHolds
<1>11. CASE Wake
  <2>1. /\ phase = "asleep" /\ phase' = "look" /\ queued' = 0
        /\ UNCHANGED <<now, caller, request, wakeAt, result, world, readyAt, unreadyAt, swallowed>>
    BY <1>11 DEF Wake
  <2>2. now <= timeout + Lag
    BY <1>0, <2>1, PollingAssumption DEF TypeOK, IInv, Clock
  <2>3. TypeOK'
    BY <1>0, <2>1 DEF TypeOK, caller, request, Phases
  <2>4. Shape'
    BY <2>1, <2>3 DEF IInv, Shape, caller, request, Requesting
  <2>5. Clock'
    BY <2>1, <2>2 DEF Clock, caller, InFlight, Requesting
  <2>6. Seen'
    BY <2>1 DEF IInv, Seen, Ready, IsSettled, IsTerminal
  <2>7. Answered'
    BY <2>1 DEF Answered, InFlight, Queueing, Requesting
  <2>8. Outcome'
    BY <2>1 DEF IInv, Outcome, caller, NoReadyMissed, ReadyIsFresh
  <2> QED
    BY <2>4, <2>5, <2>6, <2>7, <2>8 DEF IInv
<1>12. CASE Permitted
  BY <1>12, PermittedHolds
<1>13. CASE WarmAgain
  <2>1. /\ Failed /\ phase = "warming" /\ now < timeout /\ Ask("warming", timeout - now)
        /\ swallowed' \in BOOLEAN /\ loop = "warm"
    BY <1>0, <1>13 DEF WarmAgain, TypeOK, IInv, Shape
  <2>2. now <= timeout /\ phase # "over"
    BY <1>0, <2>1 DEF TypeOK
  <2> QED
    BY <2>1, <2>2, AskHolds
<1> QED
  BY <1>1, <1>2, <1>3, <1>4, <1>5, <1>6, <1>7, <1>8, <1>9, <1>10, <1>11, <1>12, <1>13
  DEF Step

LEMMA ServeHolds == IInv /\ Serve => IInv'
<1> SUFFICES ASSUME IInv, Serve PROVE IInv'
  OBVIOUS
<1>1. /\ TypeOK /\ answer' = world /\ InFlight /\ held
      /\ UNCHANGED <<now, caller, phase, sentAt, due, held, wakeAt, result, world, history>>
  BY DEF Serve, IInv, Shape, InFlight
<1>2. TypeOK'
  BY <1>1 DEF TypeOK, caller, history
<1>3. Shape'
  BY <1>1, <1>2 DEF IInv, Shape, caller, Requesting
<1>4. Clock'
  BY <1>1 DEF IInv, Clock, RequestClock, WarmUpClock, caller, history, InFlight, Requesting,
     WaitBound, OneRequest, MetadataBudget
<1>5. Seen'
  BY <1>1 DEF IInv, Seen, history, Ready, IsSettled, IsTerminal
<1>6. Answered'
  <2>1. sentAt <= now
    BY <1>1 DEF IInv, Clock, InFlight, Requesting, RequestClock, WarmUpClock
  <2>2. (Ready(world) => readyAt = now) /\ (~Ready(world) => unreadyAt = now)
    BY DEF IInv, Seen
  <2>3. Ready(world) => readyAt >= sentAt
    BY <1>1, <2>1, <2>2 DEF TypeOK
  <2>4. ~Ready(world) => unreadyAt >= sentAt
    BY <1>1, <2>1, <2>2 DEF TypeOK
  <2>5. Ready(answer)' <=> Ready(world)
    BY <1>1 DEF Ready, IsSettled, IsTerminal
  <2> QED
    BY <1>1, <2>3, <2>4, <2>5 DEF Answered, Queueing, history
<1>7. Outcome'
  BY <1>1 DEF IInv, Outcome, caller, history, NoReadyMissed, ReadyIsFresh, OneRequest,
     MetadataBudget
<1> QED
  BY <1>3, <1>4, <1>5, <1>6, <1>7 DEF IInv

LEMMA LaterIsFresher ==
  \A moment, later, lapse, end \in Nat :
    moment + lapse >= end /\ later >= moment => later + lapse >= end
  OBVIOUS

\* History moves forward only, so that what an answer or a verdict rests on
\* stays true.
LEMMA HistoryHolds ==
  ASSUME IInv, TypeOK', UNCHANGED <<caller, phase, request, wakeAt, result, swallowed>>,
         world'.kind = world.kind, now' = now \/ phase # "over",
         readyAt' >= readyAt, unreadyAt' >= unreadyAt
  PROVE  Answered' /\ Outcome'
<1>1. TypeOK /\ OneRequest' = OneRequest /\ OneRequest \in Nat
  BY BudgetType DEF IInv, Shape, OneRequest, MetadataBudget
<1>2. /\ sentAt \in Nat /\ now \in Nat /\ now' \in Nat /\ timeout \in Nat
      /\ readyAt \in Nat \cup {Never} /\ unreadyAt \in Nat \cup {Never}
      /\ readyAt' \in Nat \cup {Never} /\ unreadyAt' \in Nat \cup {Never}
  BY <1>1 DEF TypeOK
<1>3. Answered'
  <2>1. Ready(answer)' <=> Ready(answer)
    BY DEF request, Ready, IsSettled, IsTerminal
  <2>2. SUFFICES ASSUME InFlight, answer.kind # "none"
                 PROVE  (Ready(answer) => readyAt' >= sentAt)
                        /\ (~Ready(answer) => unreadyAt' >= sentAt)
    BY <2>1 DEF IInv, Answered, InFlight, Queueing, Requesting, request
  <2>3. (Ready(answer) => readyAt >= sentAt) /\ (~Ready(answer) => unreadyAt >= sentAt)
    BY <2>2 DEF IInv, Answered
  <2> QED
    BY <1>2, <2>3 DEF Never
<1>4. NoReadyMissed'
  <2>1. SUFFICES ASSUME result = "timeout" /\ ~swallowed
                 PROVE  unreadyAt' # Never /\ unreadyAt' + OneRequest >= timeout
    BY <1>1 DEF NoReadyMissed, caller
  <2>2. unreadyAt # Never /\ unreadyAt + OneRequest >= timeout
    BY <2>1 DEF IInv, Outcome, NoReadyMissed
  <2>3. unreadyAt \in Nat /\ unreadyAt' \in Nat
    BY <1>2, <2>2 DEF Never
  <2>4. unreadyAt' # Never
    BY <2>3 DEF Never
  <2>5. unreadyAt' + OneRequest >= timeout
    BY <1>1, <1>2, <2>2, <2>3, LaterIsFresher
  <2> QED
    BY <2>4, <2>5
<1>5. ReadyIsFresh'
  <2>1. SUFFICES ASSUME result = "ready"
                 PROVE  readyAt' # Never
                        /\ (loop # "warm" => readyAt' + OneRequest >= now')
    BY <1>1 DEF ReadyIsFresh, caller
  <2>2. readyAt # Never /\ (loop # "warm" => readyAt + OneRequest >= now)
    BY <2>1 DEF IInv, Outcome, ReadyIsFresh
  <2>3. now' = now
    BY <2>1 DEF IInv, Outcome
  <2>4. readyAt \in Nat /\ readyAt' \in Nat
    BY <1>2, <2>2 DEF Never
  <2>5. readyAt' # Never
    BY <2>4 DEF Never
  <2>6. loop # "warm" => readyAt' + OneRequest >= now'
    BY <1>1, <1>2, <2>2, <2>3, <2>4, LaterIsFresher
  <2> QED
    BY <2>5, <2>6
<1>6. loop = "warm" /\ phase \in {"asked", "probed"} =>
        readyAt' # Never \/ world'.kind = "worker"
  BY <1>2 DEF IInv, Outcome, Never
<1> QED
  BY <1>3, <1>4, <1>5, <1>6 DEF IInv, Outcome, caller

LEMMA WorldHolds == IInv /\ WorldMoves => IInv'
<1> SUFFICES ASSUME IInv, WorldMoves PROVE IInv'
  OBVIOUS
<1>1. /\ TypeOK /\ world' \in Moves(world)
      /\ readyAt' = IF Ready(world') THEN now ELSE readyAt
      /\ unreadyAt' = IF Ready(world') THEN unreadyAt ELSE now
      /\ UNCHANGED <<now, caller, phase, request, wakeAt, result, swallowed, queued>>
  BY DEF WorldMoves, IInv, Shape
<1>2. world \in World /\ now \in Nat /\ readyAt \in Nat \cup {Never}
      /\ unreadyAt \in Nat \cup {Never} /\ readyAt <= now /\ unreadyAt <= now
  BY <1>1 DEF TypeOK, IInv, Seen
<1>3. world' \in World /\ world'.kind = world.kind
  BY <1>1, <1>2, MovesType
<1>4. readyAt' \in Nat \cup {Never} /\ unreadyAt' \in Nat \cup {Never}
      /\ readyAt' >= readyAt /\ unreadyAt' >= unreadyAt
  BY <1>1, <1>2 DEF Never
<1>5. TypeOK'
  BY <1>1, <1>3, <1>4 DEF TypeOK, caller, request
<1>6. Shape'
  BY <1>1, <1>3, <1>5 DEF IInv, Shape, caller, request, Requesting
<1>7. Clock'
  BY <1>1 DEF IInv, Clock, RequestClock, WarmUpClock, caller, request, InFlight, Requesting,
     WaitBound, OneRequest, MetadataBudget
<1>8. Seen'
  <2>1. Ready(world)' <=> Ready(world')
    BY DEF Ready, IsSettled, IsTerminal
  <2> QED
    BY <1>1, <1>2, <2>1 DEF Seen
<1>9. Answered' /\ Outcome'
  BY <1>1, <1>3, <1>4, <1>5, HistoryHolds
<1> QED
  BY <1>6, <1>7, <1>8, <1>9 DEF IInv

LEMMA TickHolds == IInv /\ Tick => IInv'
<1> SUFFICES ASSUME IInv, Tick PROVE IInv'
  OBVIOUS
<1>1. /\ TypeOK /\ now' = now + 1
      /\ \/ Queueing
         \/ InFlight /\ now < due + Lag
         \/ phase = "asleep" /\ now < wakeAt + Lag
      /\ queued' = IF Queueing THEN queued + 1 ELSE queued
      /\ readyAt' = IF Ready(world) THEN now' ELSE readyAt
      /\ unreadyAt' = IF Ready(world) THEN unreadyAt ELSE now'
      /\ UNCHANGED <<caller, phase, request, wakeAt, result, world, swallowed>>
  BY DEF Tick, IInv, Shape
<1>2. /\ now \in Nat /\ sentAt \in Nat /\ due \in Nat /\ wakeAt \in Nat /\ Lag \in Nat
      /\ timeout \in Nat /\ queued \in Nat
      /\ readyAt \in Nat \cup {Never} /\ unreadyAt \in Nat \cup {Never}
      /\ readyAt <= now /\ unreadyAt <= now
  BY <1>1, PollingAssumption DEF TypeOK, IInv, Seen
<1>3. /\ now' \in Nat /\ readyAt' \in Nat \cup {Never} /\ unreadyAt' \in Nat \cup {Never}
      /\ readyAt' >= readyAt /\ unreadyAt' >= unreadyAt
  BY <1>1, <1>2 DEF Never
<1>4. TypeOK'
  BY <1>1, <1>3 DEF TypeOK, caller, request
<1>5. Shape'
  BY <1>1, <1>4 DEF IInv, Shape, caller, request, Requesting
<1>6. phase \in {"asked", "probed", "warming", "asleep"}
  BY <1>1 DEF InFlight, Queueing, Requesting
<1>7. Clock'
  <2>1. (InFlight => now <= due + Lag)'
    BY <1>1, <1>2, <1>6 DEF InFlight, Queueing, Requesting, request
  <2>2. CASE phase = "asleep"
    <3>1. ~Queueing /\ ~InFlight
      BY <2>2 DEF InFlight, Queueing, Requesting
    <3> QED
      BY <1>1, <1>2, <2>1, <2>2, <3>1 DEF Clock, caller, request
  <2>3. CASE phase = "warming"
    <3>1. WarmUpClock
      BY <2>3 DEF IInv, Clock
    <3>2. queued' = IF held THEN queued ELSE queued + 1
      BY <1>1, <2>3 DEF Queueing, Requesting
    <3>3. WarmUpClock'
      BY <1>1, <1>2, <3>1, <3>2 DEF WarmUpClock, caller, request
    <3> QED
      BY <1>1, <2>1, <2>3, <3>3 DEF Clock
  <2>4. CASE phase \in {"asked", "probed"}
    <3>1. queued' = IF held THEN queued ELSE queued + 1
      BY <1>1, <2>4 DEF Queueing, Requesting
    <3>2. ASSUME NEW made \in Nat, RequestClock(made)
          PROVE  /\ sentAt' <= now'
                 /\ due' = sentAt' + MetadataBudget
                 /\ IF held' THEN sentAt' <= made + queued' ELSE now' <= made + queued'
      BY <1>1, <1>2, <3>1, <3>2 DEF RequestClock, request
    <3>3. timeout + Lag \in Nat /\ timeout + Lag + OneRequest \in Nat
      BY <1>2, BudgetType
    <3>4. phase = "asked" => RequestClock(timeout + Lag)'
      BY <1>1, <3>2, <3>3 DEF IInv, Clock, RequestClock, caller, MetadataBudget
    <3>5. phase = "probed" => RequestClock(timeout + Lag + OneRequest)'
      BY <1>1, <3>2, <3>3 DEF IInv, Clock, RequestClock, caller, MetadataBudget, OneRequest
    <3> QED
      BY <1>1, <2>1, <2>4, <3>4, <3>5 DEF Clock
  <2> QED
    BY <1>6, <2>2, <2>3, <2>4
<1>8. Seen'
  <2>1. Ready(world)' <=> Ready(world)
    BY <1>1 DEF Ready, IsSettled, IsTerminal
  <2> QED
    BY <1>1, <1>2, <2>1 DEF Seen
<1>9. Answered' /\ Outcome'
  BY <1>1, <1>3, <1>4, <1>6, HistoryHolds
<1> QED
  BY <1>5, <1>7, <1>8, <1>9 DEF IInv

LEMMA StutterHolds == IInv /\ UNCHANGED vars => IInv'
  BY DEF IInv, Shape, TypeOK, Clock, RequestClock, WarmUpClock, Seen, Answered, Outcome,
     InFlight, Queueing, Requesting, WaitBound, NoReadyMissed, ReadyIsFresh, OneRequest, MetadataBudget, Ready, IsSettled, IsTerminal,
     vars, caller, request, history

LEMMA NextHolds == IInv /\ [Next]_vars => IInv'
  BY StepHolds, ServeHolds, WorldHolds, TickHolds, StutterHolds DEF Next

LEMMA InvariantHolds ==
  IInv => TypeOK /\ WaitBound /\ NoReadyMissed /\ ReadyIsFresh
<1> SUFFICES ASSUME IInv PROVE WaitBound
  BY DEF IInv, Shape, Outcome
<1>1. /\ now \in Nat /\ timeout \in Nat /\ wakeAt \in 0..timeout /\ Lag \in Nat /\ phase \in Phases
      /\ queued \in Nat
  BY PollingAssumption DEF IInv, Shape, TypeOK
<1>2. CASE phase \in {"warm", "look", "asleep"}
  BY <1>1, <1>2, BudgetType DEF IInv, Clock, WaitBound
<1>3. CASE Requesting
  BY <1>3, LookBound
<1>4. CASE phase = "over"
  BY <1>4 DEF IInv, Clock
<1> QED
  BY <1>1, <1>2, <1>3, <1>4 DEF Phases, Requesting

\* The invariant holds of the waits alone; module JobsProofs has it, and what
\* follows from it, where jobs and downloads are there too.
THEOREM Invariance == Spec => []IInv
  BY InitHolds, NextHolds, PTL DEF Spec

---------------------------------------------------------------------------
(***************************************************************************)
(* The waits implement BoundedWait.  A step that ends the wait is an End   *)
(* of the abstract one, a move of the world is a Change, a tick a Pass,    *)
(* and every other step, requests and sleeps, is invisible to it.          *)
(***************************************************************************)
LEMMA BoundedInit == Init => BW!Init
<1> SUFFICES ASSUME Init PROVE BW!Init
  OBVIOUS
<1>1. timeout \in Nat /\ now = 0 /\ result = "none" /\ Ready(world) \in BOOLEAN
  BY ReadyType, PollingAssumption DEF Init
<1>2. (readyAt # Never) = Ready(world)
  BY ReadyType DEF Init, Never
<1> QED
  BY <1>1, <1>2 DEF BW!Init

\* What the abstract wait sees unchanged, it sees unchanged.
LEMMA Invisible ==
  UNCHANGED <<now, timeout, world, readyAt, result>> => UNCHANGED BW!vars
  BY DEF BW!vars, Ready, IsSettled, IsTerminal

LEMMA EndIsEnd ==
  ASSUME NEW r \in {"ready", "timeout", "failed"}, End(r), result = "none",
         r = "ready" => readyAt # Never,
         r = "timeout" => now >= timeout
  PROVE  BW!Next
<1>1. BW!End(r)
  BY DEF BW!End, End, caller, Ready, IsSettled, IsTerminal
<1> QED
  BY <1>1 DEF BW!Next

LEMMA NotYetIsBounded ==
  ASSUME NotYet, result = "none"
  PROVE  BW!Next \/ UNCHANGED BW!vars
<1>1. CASE GivesUp
  BY <1>1, EndIsEnd DEF NotYet, GivesUp, Elapsed
<1>2. CASE ~GivesUp
  BY <1>2, Invisible DEF NotYet, caller
<1> QED
  BY <1>1, <1>2

LEMMA StepIsBounded == IInv /\ Step => BW!Next \/ UNCHANGED BW!vars
<1> SUFFICES ASSUME IInv, Step PROVE BW!Next \/ UNCHANGED BW!vars
  OBVIOUS
<1>1. phase # "over" => result = "none"
  BY DEF IInv, Outcome
<1>2. Served => /\ Requesting /\ phase # "over" /\ answer.kind = world.kind
                /\ Ready(answer) => readyAt # Never
  BY ServedFacts
<1>3. Failed => phase # "over"
  BY FailedFacts
<1>4. CASE Look
  BY <1>4, Invisible DEF Look, Ask, caller
<1>5. CASE WarmUp
  BY <1>1, <1>5, Invisible, EndIsEnd DEF WarmUp, Ask, caller
<1>6. CASE ProbeWorker
  BY <1>6, Invisible DEF ProbeWorker, Ask, caller
<1>7. CASE JobAnswered
  BY <1>1, <1>2, <1>7, EndIsEnd, NotYetIsBounded DEF JobAnswered, Found
<1>8. CASE CapacityAnswered
  BY <1>1, <1>2, <1>8, EndIsEnd, NotYetIsBounded DEF CapacityAnswered, Found
<1>9. CASE WarmAnswered
  <2>1. /\ loop = "warm" /\ phase \in {"asked", "probed"} /\ Served
        /\ End(IF answer.kind = "gateway" THEN "ready" ELSE "failed")
    BY <1>2, <1>9 DEF WarmAnswered, Requesting
  <2>2. (answer.kind = "gateway" => readyAt # Never) /\ result = "none"
    BY <1>1, <1>2, <2>1 DEF IInv, Outcome
  <2>3. CASE answer.kind = "gateway"
    BY <2>1, <2>2, <2>3, EndIsEnd
  <2>4. CASE answer.kind # "gateway"
    BY <2>1, <2>2, <2>4, EndIsEnd
  <2> QED
    BY <2>3, <2>4
<1>10. CASE WarmedUp
  BY <1>10, Invisible DEF WarmedUp, Ask, caller
<1>11. CASE JobFailed
  BY <1>1, <1>3, <1>11, EndIsEnd DEF JobFailed
<1>12. CASE CapacityFailed
  BY <1>1, <1>3, <1>12, NotYetIsBounded DEF CapacityFailed, Swallow
<1>13. CASE WarmFailed
  BY <1>1, <1>3, <1>13, EndIsEnd DEF WarmFailed
<1>14. CASE Wake
  BY <1>14, Invisible DEF Wake, caller, history
<1>15. CASE Permitted
  BY <1>15, Invisible DEF Permitted, caller, history
<1>16. CASE WarmAgain
  BY <1>16, Invisible DEF WarmAgain, Ask, caller
<1> QED
  BY <1>4, <1>5, <1>6, <1>7, <1>8, <1>9, <1>10, <1>11, <1>12, <1>13, <1>14, <1>15, <1>16
  DEF Step

LEMMA WorldIsChange == IInv /\ WorldMoves => BW!Next
<1> SUFFICES ASSUME IInv, WorldMoves PROVE BW!Change
  BY DEF BW!Next
<1>1. now \in Nat
  BY DEF IInv, Shape, TypeOK
<1>2. Ready(world)' = Ready(world') /\ Ready(world') \in BOOLEAN
  BY ReadyType DEF Ready, IsSettled, IsTerminal
<1>3. (readyAt' # Never) = ((readyAt # Never) \/ Ready(world)')
  BY <1>1, <1>2 DEF WorldMoves, Never
<1> QED
  BY <1>2, <1>3 DEF BW!Change, WorldMoves, caller, Never

LEMMA TickIsPass == IInv /\ Tick => BW!Next
<1> SUFFICES ASSUME IInv, Tick PROVE BW!Pass
  BY DEF BW!Next
<1>1. now \in Nat /\ (Ready(world) => readyAt = now)
  BY DEF IInv, Shape, TypeOK, Seen
<1>2. Ready(world)' = Ready(world)
  BY DEF Tick, Ready, IsSettled, IsTerminal
<1>3. (readyAt' # Never) = (readyAt # Never)
  BY <1>1 DEF Tick, Never
<1> QED
  BY <1>2, <1>3 DEF BW!Pass, Tick, caller, Never

LEMMA NextIsBounded == IInv /\ [Next]_vars => [BW!Next]_BW!vars
<1>1. IInv /\ Serve => UNCHANGED BW!vars
  BY Invisible DEF Serve, caller, history
<1>2. UNCHANGED vars => UNCHANGED BW!vars
  BY Invisible DEF vars, caller, history
<1> QED
  BY StepIsBounded, WorldIsChange, TickIsPass, <1>1, <1>2 DEF Next

\* Jobs::wait and both forms of wait_for_capacity are bounded waits: they say
\* ready only of what was ready while they waited, and time out only when their
\* time has passed.
THEOREM WaitsAreBounded == Spec => IsBoundedWait
<1>1. Spec => BW!Init /\ [][BW!Next]_BW!vars
  BY Invariance, BoundedInit, NextIsBounded, PTL DEF Spec
<1> QED
  BY <1>1 DEF IsBoundedWait, BW!Spec

---------------------------------------------------------------------------
(***************************************************************************)
(* The waits among Jobs' steps                                             *)
(***************************************************************************)
\* A step of Jobs is a step of Polling, but for a caller who asks for the
\* results instead of waiting, and whose wait is over before it begins.
LEMMA JobsStep ==
  JobsNext => Next \/ UNCHANGED vars \/ CallResults
BY DEF JobsNext, Wait, Server, Results, Quiescent, Next, JobMoves, ChunkFinished, ChunkExpired,
   GotStatus, GetFailed, Fails, Skip, ChunkRead, ChunkGarbled, ChunkGone, ChunkLost, ResultsDone,
   jobVars, vars

LEMMA CallHolds == IInv /\ CallResults => IInv'
<1> SUFFICES ASSUME IInv, CallResults PROVE IInv'
  OBVIOUS
<1>1. /\ TypeOK /\ phase = "look" /\ phase' = "over" /\ loop = "job" /\ now = 0
      /\ UNCHANGED <<now, caller, request, wakeAt, result, world, history>>
  BY DEF CallResults, IInv, Shape
<1>2. result = "none"
  BY <1>1 DEF IInv, Outcome
<1>3. TypeOK'
  BY <1>1 DEF TypeOK, caller, request, history, Phases
<1>4. Shape'
  BY <1>1, <1>3 DEF IInv, Shape, caller, request, Requesting
<1>5. WaitBound
  BY InvariantHolds
<1>6. Clock'
  BY <1>1, <1>5 DEF Clock, InFlight, Requesting, WaitBound, OneRequest, MetadataBudget, caller,
     history
<1>7. Seen'
  BY <1>1 DEF IInv, Seen, history, Ready, IsSettled, IsTerminal
<1>8. Answered' /\ Outcome'
  BY <1>1, <1>2 DEF IInv, Answered, InFlight, Queueing, Requesting, Outcome, NoReadyMissed, ReadyIsFresh, caller
<1> QED
  BY <1>4, <1>6, <1>7, <1>8 DEF IInv

LEMMA JobsInvariance == JobsSpec => []IInv
<1>1. JobsInit => IInv
  BY InitHolds DEF JobsInit
<1>2. IInv /\ [JobsNext]_jobVars => IInv'
  BY JobsStep, NextHolds, CallHolds DEF jobVars
<1> QED
  BY <1>1, <1>2, PTL DEF JobsSpec

\* Jobs::wait outlives its deadline by one request at most, wait_for_capacity by two,
\* and by what those queued for permits, whatever jobs, workers and other callers do.
THEOREM JobsWaitBound == JobsSpec => []WaitBound
  BY JobsInvariance, InvariantHolds, PTL

\* No wait times out on something that was ready all along.
THEOREM JobsNoReadyMissed == JobsSpec => []NoReadyMissed
  BY JobsInvariance, InvariantHolds, PTL

\* A wait that reports success reports what was true one request ago at most.
THEOREM JobsReadyIsFresh == JobsSpec => []ReadyIsFresh
  BY JobsInvariance, InvariantHolds, PTL

\* The waits are well typed among downloads.
THEOREM JobsTypeCorrect == JobsSpec => []TypeOK
  BY JobsInvariance, InvariantHolds, PTL

\* The waits of module Jobs implement BoundedWait as well.
THEOREM JobsWaitsAreBounded == JobsSpec => IsBoundedWait
<1>1. CallResults => UNCHANGED BW!vars
  BY Invisible DEF CallResults, caller, history
<1>2. JobsInit => BW!Init
  BY BoundedInit DEF JobsInit
<1>3. IInv /\ [JobsNext]_jobVars => [BW!Next]_BW!vars
  BY JobsStep, NextIsBounded, <1>1 DEF jobVars
<1>4. JobsSpec => BW!Init /\ [][BW!Next]_BW!vars
  BY JobsInvariance, <1>2, <1>3, PTL DEF JobsSpec
<1> QED
  BY <1>4 DEF IsBoundedWait, BW!Spec

---------------------------------------------------------------------------
(***************************************************************************)
(* The download.  While results reads, what it has is exact up to the      *)
(* chunk it is at (SoFar), and a chunk its status could have is the same   *)
(* on the server, or gone (StillThere): a repair runs only failed chunks   *)
(* again.                                                                  *)
(***************************************************************************)
Row(i) == chunks[i].payload = "rows"

SoFar ==
  /\ \A i, j \in DOMAIN items : i < j => items[i] < items[j]
  /\ \A i \in DOMAIN items : items[i] < next
  /\ Range(items) = {i \in Retrievable : i < next /\ Row(i)}
  /\ retrieved = Cardinality({i \in Retrievable : i < next})

Survives(before, after) ==
  before.state = "succeeded" =>
    after.state = "succeeded" /\ after.payload \in {before.payload, "gone"}

StillThere ==
  \A i \in Retrievable : i \in DOMAIN output /\ Survives(chunks[i], output[i])

DownloadType ==
  /\ output \in Seq(JobChunk)
  /\ chunks \in Seq(JobChunk)
  /\ next \in Nat \ {0}
  /\ items \in Seq(Nat)
  /\ retrieved \in Nat

Download ==
  /\ DownloadType
  /\ stage \in {"idle", "getting"} => next = 1 /\ items = <<>> /\ retrieved = 0
  /\ stage = "reading" => SoFar /\ StillThere
  /\ stage = "done" => SoFar /\ next > Len(chunks)

LEMMA FinishedType == Finished \subseteq JobChunk /\ Pending \in JobChunk
  BY DEF Finished, Pending, JobChunk

LEMMA OutputsType == Outputs \subseteq Seq(JobChunk)
<1> SUFFICES ASSUME NEW n \in 0..MaxChunks,
                    NEW f \in [1..n -> IF world.state = "succeeded" THEN Finished
                                       ELSE Finished \cup {Pending}]
             PROVE  f \in Seq(JobChunk)
  BY DEF Outputs
<1>1. f \in [1..n -> JobChunk] /\ n \in Nat
  BY FinishedType
<1> QED
  BY <1>1

\* What the server may do to the chunks while a caller reads.
LEMMA ServerHolds ==
  ASSUME Download, UNCHANGED download,
         output' \in Seq(JobChunk), DOMAIN output' = DOMAIN output,
         \A i \in DOMAIN output : Survives(output[i], output'[i])
  PROVE  Download'
<1>1. DownloadType'
  BY DEF Download, DownloadType, download
<1>2. SoFar' <=> SoFar
  BY DEF SoFar, Row, Retrievable, download
<1>3. StillThere => StillThere'
  BY DEF StillThere, Retrievable, Survives, download
<1> QED
  BY <1>1, <1>2, <1>3 DEF Download, download

LEMMA FinishedHolds == Download /\ ChunkFinished => Download'
<1> SUFFICES ASSUME Download, ChunkFinished PROVE Download'
  OBVIOUS
<1>1. PICK i \in DOMAIN output, c \in Finished :
        output[i] = Pending /\ output' = [output EXCEPT ![i] = c]
  BY DEF ChunkFinished
<1>2. output \in Seq(JobChunk) /\ c \in JobChunk
  BY FinishedType DEF Download, DownloadType
<1>3. output' \in Seq(JobChunk) /\ DOMAIN output' = DOMAIN output
  BY <1>1, <1>2
<1>4. \A j \in DOMAIN output : Survives(output[j], output'[j])
  BY <1>1 DEF Survives, Pending
<1> QED
  BY <1>3, <1>4, ServerHolds DEF ChunkFinished

LEMMA ExpiredHolds == Download /\ ChunkExpired => Download'
<1> SUFFICES ASSUME Download, ChunkExpired PROVE Download'
  OBVIOUS
<1>1. PICK i \in DOMAIN output : output' = [output EXCEPT ![i].payload = "gone"]
  BY DEF ChunkExpired
<1>2. output \in Seq(JobChunk) /\ output[i] \in JobChunk
  BY DEF Download, DownloadType
<1>3. [output[i] EXCEPT !.payload = "gone"] \in JobChunk
  BY <1>2 DEF JobChunk
<1>4. output' \in Seq(JobChunk) /\ DOMAIN output' = DOMAIN output
  BY <1>1, <1>2, <1>3
<1>5. \A j \in DOMAIN output : Survives(output[j], output'[j])
  <2>1. SUFFICES ASSUME NEW j \in DOMAIN output PROVE Survives(output[j], output'[j])
    OBVIOUS
  <2>2. CASE j = i
    BY <1>1, <1>2, <2>2 DEF Survives, JobChunk
  <2>3. CASE j # i
    BY <1>1, <2>3 DEF Survives
  <2> QED
    BY <2>2, <2>3
<1> QED
  BY <1>4, <1>5, ServerHolds DEF ChunkExpired

LEMMA MovesHold == Download /\ JobMoves => Download'
<1> SUFFICES ASSUME Download, JobMoves PROVE Download'
  OBVIOUS
<1>1. output \in Seq(JobChunk)
  BY DEF Download, DownloadType
<1>2. CASE output' = [i \in DOMAIN output |-> Repaired(output[i])]
  <2>1. \A i \in DOMAIN output : Repaired(output[i]) \in JobChunk
    BY <1>1, FinishedType DEF Repaired
  <2>2. output' \in Seq(JobChunk) /\ DOMAIN output' = DOMAIN output
    BY <1>1, <1>2, <2>1
  <2>3. \A i \in DOMAIN output : Survives(output[i], output'[i])
    BY <1>2 DEF Survives, Repaired
  <2> QED
    BY <2>2, <2>3, ServerHolds DEF JobMoves
<1>3. CASE output' = output
  BY <1>1, <1>3, ServerHolds DEF JobMoves, Survives
<1> QED
  BY <1>2, <1>3 DEF JobMoves

LEMMA RetrievableType == Download => Retrievable \subseteq 1..Len(chunks)
  BY DEF Download, DownloadType, Retrievable

LEMMA CallResultsHolds == Download /\ CallResults => Download'
<1> SUFFICES ASSUME Download, CallResults PROVE Download'
  OBVIOUS
<1>1. DownloadType'
  BY OutputsType DEF CallResults, Download, DownloadType
<1> QED
  BY <1>1 DEF CallResults, Download

LEMMA GotStatusHolds == Download /\ GotStatus => Download'
<1> SUFFICES ASSUME Download, GotStatus PROVE Download'
  OBVIOUS
<1>1. DownloadType' /\ next' = 1 /\ items' = <<>> /\ retrieved' = 0 /\ stage' = "reading"
  <2>1. next = 1 /\ items = <<>> /\ retrieved = 0 /\ output \in Seq(JobChunk)
    BY DEF GotStatus, Download, DownloadType
  <2>2. /\ chunks' = output \/ chunks' = <<>>
        /\ UNCHANGED <<output, next, items, retrieved>> /\ stage' = "reading"
    BY DEF GotStatus
  <2>3. chunks' \in Seq(JobChunk)
    <3>1. <<>> \in Seq(JobChunk)
      OBVIOUS
    <3>2. CASE chunks' = <<>>
      BY <3>1, <3>2
    <3>3. CASE chunks' = output
      BY <2>1, <3>3
    <3> QED
      BY <2>2, <3>2, <3>3
  <2>4. items' \in Seq(Nat)
    BY <2>1, <2>2
  <2> QED
    BY <2>1, <2>2, <2>3, <2>4 DEF DownloadType
<1>2. Retrievable' \subseteq 1..Len(chunks')
  BY <1>1 DEF DownloadType, Retrievable
<1>3. {i \in Retrievable' : i < 1} = {}
  <2>1. Len(chunks') \in Nat
    BY <1>1 DEF DownloadType
  <2>2. \A i \in Retrievable' : ~(i < 1)
    BY <1>2, <2>1
  <2> QED
    BY <2>2
<1>4. SoFar'
  BY <1>1, <1>3, FS_EmptySet DEF SoFar, Range
<1>5. StillThere'
  BY DEF GotStatus, StillThere, Retrievable, Survives
<1> QED
  BY <1>1, <1>4, <1>5 DEF Download

\* A chunk that is passed over adds nothing, and is none that could be had.
LEMMA SkipHolds == Download /\ Skip => Download'
<1> SUFFICES ASSUME Download, Skip PROVE Download'
  OBVIOUS
<1>1. /\ next \in Nat /\ next' = next + 1 /\ SoFar /\ StillThere /\ stage = "reading"
      /\ next <= Len(chunks) /\ next \notin Retrievable
      /\ UNCHANGED <<output, stage, chunks, items, retrieved>>
  BY DEF Skip, Skipped, Reading, Download, DownloadType, Retrievable, chunk_is_retrievable
<1>2. DownloadType'
  BY <1>1 DEF Download, DownloadType
<1>3. Retrievable' = Retrievable /\ Retrievable \subseteq Nat
  BY <1>1, RetrievableType DEF Retrievable, Download, DownloadType
<1>4. \A i \in Retrievable : i < next + 1 <=> i < next
  BY <1>1, <1>3
<1>5. {i \in Retrievable : i < next'} = {i \in Retrievable : i < next}
  BY <1>1, <1>4
<1>6. {i \in Retrievable : i < next' /\ Row(i)} = {i \in Retrievable : i < next /\ Row(i)}
  BY <1>1, <1>4
<1>7. \A i \in DOMAIN items : items[i] < next'
  BY <1>1 DEF SoFar, Download, DownloadType
<1>8. SoFar'
  BY <1>1, <1>3, <1>5, <1>6, <1>7 DEF SoFar, Row
<1>9. StillThere'
  BY <1>1 DEF StillThere, Retrievable
<1> QED
  BY <1>1, <1>2, <1>8, <1>9 DEF Download

\* A chunk that is read counts once, and its rows, if it has rows, come last.
LEMMA ChunkReadHolds == Download /\ ChunkRead => Download'
<1> SUFFICES ASSUME Download, ChunkRead PROVE Download'
  OBVIOUS
<1>1. /\ next \in Nat /\ next' = next + 1 /\ SoFar /\ StillThere /\ stage = "reading"
      /\ next \in Retrievable /\ retrieved \in Nat /\ items \in Seq(Nat)
      /\ retrieved' = retrieved + 1
      /\ UNCHANGED <<output, stage, chunks>>
  BY RetrievableType DEF ChunkRead, Fetchable, Reading, Download, DownloadType, Retrievable,
     chunk_is_retrievable
<1>2. output[next].payload \in {"rows", "other"}
  BY DEF ChunkRead, Payload
<1>3. Row(next) <=> output[next].payload = "rows"
  BY <1>1, <1>2 DEF StillThere, Survives, Row, Retrievable
<1>4. items' = IF Row(next) THEN Append(items, next) ELSE items
  BY <1>3 DEF ChunkRead, Payload
<1>5. DownloadType'
  BY <1>1, <1>4 DEF Download, DownloadType
<1>6. Retrievable' = Retrievable /\ Retrievable \subseteq 1..Len(chunks) /\ Len(chunks) \in Nat
  BY <1>1, RetrievableType DEF Retrievable, Download, DownloadType
<1>7. \A i \in Retrievable : i < next + 1 <=> i < next \/ i = next
  BY <1>1, <1>6
<1>8. retrieved' = Cardinality({i \in Retrievable : i < next'})
  <2> DEFINE S == {i \in Retrievable : i < next}
  <2>1. {i \in Retrievable : i < next'} = S \cup {next}
    BY <1>1, <1>7
  <2>2. S \in SUBSET (1..Len(chunks)) /\ next \notin S
    <3>1. S \subseteq Retrievable
      OBVIOUS
    <3>2. ~(next < next)
      BY <1>1
    <3> QED
      BY <1>6, <3>1, <3>2
  <2>3. IsFiniteSet(1..Len(chunks))
    BY <1>6, FS_Interval
  <2>4. IsFiniteSet(S)
    BY <2>2, <2>3, FS_Subset
  <2>5. retrieved = Cardinality(S)
    BY <1>1 DEF SoFar
  <2> HIDE DEF S
  <2>6. Cardinality(S \cup {next}) = Cardinality(S) + 1
    BY <2>2, <2>4, FS_AddElement
  <2> QED
    BY <1>1, <2>1, <2>5, <2>6
<1>9. CASE Row(next)
  <2>1. items' = Append(items, next) /\ \A i \in DOMAIN items : items[i] < next
    BY <1>1, <1>4, <1>9 DEF SoFar
  <2>2. DOMAIN items' = DOMAIN items \cup {Len(items) + 1} /\ Len(items) \in Nat
        /\ DOMAIN items = 1..Len(items) /\ items'[Len(items) + 1] = next
    BY <1>1, <2>1
  <2>3. \A i \in DOMAIN items : items'[i] = items[i] /\ items[i] \in Nat
    BY <1>1, <2>1
  <2>4. \A i, j \in DOMAIN items' : i < j => items'[i] < items'[j]
    <3>1. SUFFICES ASSUME NEW i \in DOMAIN items', NEW j \in DOMAIN items', i < j
                   PROVE  items'[i] < items'[j]
      OBVIOUS
    <3>2. i \in DOMAIN items
      BY <2>2, <3>1
    <3>3. CASE j \in DOMAIN items
      BY <1>1, <2>3, <3>1, <3>2, <3>3 DEF SoFar
    <3>4. CASE j = Len(items) + 1
      BY <2>1, <2>2, <2>3, <3>2, <3>4
    <3> QED
      BY <2>2, <3>3, <3>4
  <2>5. \A i \in DOMAIN items' : items'[i] < next'
    BY <1>1, <2>1, <2>2, <2>3
  <2>6. Range(items') = Range(items) \cup {next}
    BY <2>2, <2>3 DEF Range
  <2>7. Range(items) = {i \in Retrievable : i < next /\ Row(i)}
    BY <1>1 DEF SoFar
  <2>8. Range(items') = {i \in Retrievable : i < next' /\ Row(i)}
    BY <1>1, <1>7, <1>9, <2>6, <2>7
  <2>9. SoFar'
    BY <1>1, <1>6, <1>8, <2>4, <2>5, <2>8 DEF SoFar, Row
  <2> QED
    BY <1>1, <1>5, <2>9 DEF Download, StillThere, Retrievable
<1>10. CASE ~Row(next)
  <2>1. items' = items
    BY <1>4, <1>10
  <2>2. {i \in Retrievable : i < next' /\ Row(i)} = {i \in Retrievable : i < next /\ Row(i)}
    BY <1>1, <1>7, <1>10
  <2>3. \A i \in DOMAIN items : items[i] < next'
    BY <1>1 DEF SoFar
  <2>4. SoFar'
    BY <1>1, <1>6, <1>8, <2>1, <2>2, <2>3 DEF SoFar, Row
  <2> QED
    BY <1>1, <1>5, <2>4 DEF Download, StillThere, Retrievable
<1> QED
  BY <1>9, <1>10

LEMMA DownloadHolds == Download /\ [JobsNext]_jobVars => Download'
<1> SUFFICES ASSUME Download, [JobsNext]_jobVars PROVE Download'
  OBVIOUS
<1>1. CASE Server
  BY <1>1, MovesHold, FinishedHolds, ExpiredHolds DEF Server
<1>2. CASE Results
  <2>1. ASSUME NEW why, Fails(why) PROVE Download'
    BY <2>1 DEF Fails, Download, DownloadType
  <2>2. CASE ResultsDone
    BY <2>2 DEF ResultsDone, Download, DownloadType, SoFar, Row, Retrievable
  <2> QED
    BY <1>2, <2>1, <2>2, CallResultsHolds, GotStatusHolds, SkipHolds, ChunkReadHolds
    DEF Results, GetFailed, ChunkGarbled, ChunkGone, ChunkLost
<1>3. CASE UNCHANGED <<output, download>>
  BY <1>3 DEF Download, DownloadType, download, SoFar, StillThere, Row, Retrievable, Survives
<1> QED
  BY <1>1, <1>2, <1>3 DEF JobsNext, Wait, Quiescent, jobVars

LEMMA DownloadIsExact == Download => ResultsExact
<1> SUFFICES ASSUME Download, stage = "done" PROVE ResultsExact
  BY DEF ResultsExact
<1>1. SoFar /\ next > Len(chunks) /\ next \in Nat /\ Len(chunks) \in Nat
  BY DEF Download, DownloadType
<1>2. \A i \in Retrievable : i < next
  BY <1>1, RetrievableType
<1>3. {i \in Retrievable : i < next} = Retrievable
  BY <1>2
<1>4. {i \in Retrievable : i < next /\ Row(i)} = {i \in Retrievable : chunks[i].payload = "rows"}
  BY <1>2 DEF Row
<1> QED
  BY <1>1, <1>3, <1>4 DEF SoFar, ResultsExact

\* A download that ends well has the rows of every chunk its status said could
\* be had, in order, once each, and counts those chunks; expiry and repair make
\* it fail, never fall short.
THEOREM DownloadsAreExact == JobsSpec => []ResultsExact
<1>1. JobsInit => Download
  BY DEF JobsInit, Download, DownloadType
<1> QED
  BY <1>1, DownloadHolds, DownloadIsExact, PTL DEF JobsSpec

=============================================================================
