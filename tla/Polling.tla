------------------------------ MODULE Polling ------------------------------
(***************************************************************************)
(* The waits a caller can ask for: Jobs::wait (src/client/jobs.rs) and     *)
(* wait_for_capacity, with and without a model (src/client/meta.rs).       *)
(* Each looks at something that changes under it, once per poll interval.  *)
(* A look is one or two metadata requests; module ClientSend has the       *)
(* inside of a request, here it is its timeout, the wait for a permit that *)
(* follows (Client::send), the moment the server reads its state, and its  *)
(* end: an answer or a failure, at the latest when its timeout, counted    *)
(* from the permit, is over.  The wait starts at time 0.                   *)
(***************************************************************************)
EXTENDS Integers

CONSTANTS
  ClientTimeout,   \* ClientBuilder::timeout
  Timeouts,        \* how long the callers are ready to wait
  PollIntervals,
  Lag,             \* how late a timer may fire
  MaxQueue         \* the longest the requests of one look queue, a bound of the model

ASSUME PollingAssumption ==
  /\ ClientTimeout \in Nat
  /\ Timeouts \subseteq Nat
  /\ PollIntervals \subseteq Nat
  /\ Lag \in Nat
  /\ MaxQueue \in Nat

VARIABLES
  now,
  loop,            \* "job", "capacity", or "warm" (wait_for_capacity with a model)
  timeout,
  poll_interval,
  phase,           \* the await the wait is at
  sentAt,          \* when the current request's timeout was computed; once it has its
                   \* permit, when it was sent
  due,             \* when its timeout is over, counted from sentAt
  held,            \* it has its permit
  answer,          \* what the server read, once it has served the request
  wakeAt,
  result,
  world,           \* what the server knows
  \* History, for the properties.
  readyAt,         \* the last moment the world was ready, or Never
  unreadyAt,       \* the last moment it was not
  swallowed,       \* the latest look failed and the failure was dropped
  queued           \* how long the requests of the latest look, a warm-up's included,
                   \* waited for permits

Never == -1

caller == <<loop, timeout, poll_interval>>
request == <<sentAt, due, held, answer>>
history == <<readyAt, unreadyAt, swallowed, queued>>
vars == <<now, caller, phase, request, wakeAt, result, world, history>>

---------------------------------------------------------------------------
(***************************************************************************)
(* What is looked at.  A job that has stopped may be started again by      *)
(* another task (execute after a plan, repair after a failure); workers    *)
(* come and go.                                                            *)
(***************************************************************************)
JobState == {"queued", "running", "succeeded", "failed", "suspended", "cancelled"}

IsTerminal(state) == state \in {"succeeded", "failed", "suspended", "cancelled"}

JobStatus == [kind : {"job"}, state : JobState \cup {"none"}, planned : BOOLEAN]

IsSettled(status) == IsTerminal(status.state) \/ status.planned

\* worker_count of the view narrowed to the wanted GPU; a worker answers
\* /health with 404 and has no cluster to report.
Health == [kind : {"gateway", "worker"}, matching : 0..1]

World == JobStatus \cup Health

\* The moment get or get_capacity looks for.
Ready(w) == IF w.kind = "job" THEN IsSettled(w) ELSE w.kind = "gateway" /\ w.matching > 0

Moves(w) ==
  IF w.kind = "job"
  THEN {v \in JobStatus :
          \/ w.state \in {"none", "queued"} /\ ~w.planned /\ v.state \in {"queued", "running"}
          \/ w.state = "running" /\ IsTerminal(v.state) /\ ~v.planned
          \/ w.planned /\ v.state \in {"running", "cancelled"} /\ ~v.planned
          \/ w.state = "failed" /\ v.state = "running" /\ ~v.planned}
  ELSE {v \in Health : v.kind = w.kind}

WorldMoves ==
  /\ world' \in Moves(world)
  /\ readyAt' = IF Ready(world') THEN now ELSE readyAt
  /\ unreadyAt' = IF Ready(world') THEN unreadyAt ELSE now
  /\ UNCHANGED <<now, caller, phase, request, wakeAt, result, swallowed, queued>>

---------------------------------------------------------------------------
\* metadata_options: a metadata call's budget.
MetadataBudget == IF ClientTimeout > 1 THEN ClientTimeout ELSE 1

Elapsed == now

Init ==
  /\ now = 0
  /\ loop \in {"job", "capacity", "warm"}
  /\ timeout \in Timeouts
  /\ poll_interval \in PollIntervals
  /\ phase = IF loop = "warm" THEN "warm" ELSE "look"
  /\ sentAt = 0
  /\ due = 0
  /\ held = FALSE
  /\ answer = [kind |-> "none"]
  /\ wakeAt = 0
  /\ result = "none"
  /\ world \in IF loop = "job" THEN {w \in JobStatus : ~IsSettled(w)} ELSE Health
  /\ readyAt = IF Ready(world) THEN 0 ELSE Never
  /\ unreadyAt = IF Ready(world) THEN Never ELSE 0
  /\ swallowed = FALSE
  /\ queued = 0

\* A request begins: its timeout is b, from now; at stands for the await it is at.
Ask(at, b) ==
  /\ phase' = at
  /\ sentAt' = now
  /\ due' = now + b
  /\ held' = FALSE
  /\ answer' = [kind |-> "none"]
  /\ UNCHANGED <<now, caller, wakeAt, result, world, readyAt, unreadyAt, queued>>

Requesting == phase \in {"asked", "probed", "warming"}
Queueing == Requesting /\ ~held
InFlight == Requesting /\ held

\* The request gets its permit and is sent; its timer starts only now.
Permitted ==
  /\ Queueing
  /\ held' = TRUE
  /\ sentAt' = now
  /\ due' = now + (due - sentAt)
  /\ UNCHANGED <<now, caller, phase, answer, wakeAt, result, world, history>>

End(r) ==
  /\ phase' = "over"
  /\ result' = r
  /\ UNCHANGED <<now, caller, request, wakeAt, world, readyAt, unreadyAt, queued>>

(***************************************************************************)
(* A look.  Jobs::get is one request; get_capacity asks /health and, when  *)
(* that answers 404, the worker's /healthz.                                *)
(***************************************************************************)
Look ==
  /\ phase = "look"
  /\ Ask("asked", MetadataBudget)
  /\ swallowed' = FALSE

\* The warm-up of wait_for_capacity with a model: one encode whose budget is
\* the caller's; without any it fails before it is sent.
WarmUp ==
  /\ phase = "warm"
  /\ IF timeout > 0 THEN Ask("warming", timeout) ELSE End("failed")
  /\ swallowed' = FALSE

\* The server reads its state: the answer is as old as this step.
Serve ==
  /\ InFlight
  /\ answer.kind = "none"
  /\ now > sentAt
  /\ answer' = world
  /\ UNCHANGED <<now, caller, phase, sentAt, due, held, wakeAt, result, world, history>>

Served == InFlight /\ answer.kind # "none" /\ now <= due + Lag

\* health() on a 404: the worker's own probe, a second request.
ProbeWorker ==
  /\ Served /\ phase = "asked" /\ answer.kind = "worker"
  /\ Ask("probed", MetadataBudget)
  /\ UNCHANGED swallowed

Min2(a, b) == IF a < b THEN a ELSE b

\* Slip: give up as soon as another whole interval would not fit.
GivesUp_early == Elapsed + poll_interval >= timeout

GivesUp == Elapsed >= timeout

\* Slip: sleep a whole interval, whatever is left.
Nap_whole == poll_interval

Nap == Min2(poll_interval, timeout - Elapsed)

\* After a look that did not find what it looks for.
NotYet ==
  IF GivesUp
  THEN End("timeout")
  ELSE /\ phase' = "asleep"
       /\ wakeAt' = now + Nap
       /\ UNCHANGED <<now, caller, request, result, world, readyAt, unreadyAt, queued>>

\* Slip: any cluster will do, whatever workers the filter leaves.
Found_unfiltered == answer.kind = "gateway" \/ Ready(answer)

\* What the answer says of the thing waited for; get_capacity turns a
\* worker's answer into the error not_gateway.
Found == Ready(answer)

JobAnswered ==
  /\ Served /\ loop = "job"
  /\ UNCHANGED swallowed
  /\ IF Found THEN End("ready") ELSE NotYet

CapacityAnswered ==
  /\ Served /\ loop = "capacity"
  /\ phase = "asked" => answer.kind = "gateway"
  /\ swallowed' = (answer.kind = "worker")
  /\ IF Found THEN End("ready") ELSE NotYet

\* With a model, the look after the warm-up is reported whatever it shows.
WarmAnswered ==
  /\ Served /\ loop = "warm" /\ phase # "warming"
  /\ phase = "asked" => answer.kind = "gateway"
  /\ UNCHANGED swallowed
  /\ End(IF answer.kind = "gateway" THEN "ready" ELSE "failed")

\* The encode was answered, by a worker of the cluster or by a server that is itself
\* one; the look follows at once.
WarmedUp ==
  /\ Served /\ phase = "warming"
  /\ answer.kind = "worker" \/ answer.matching > 0
  /\ Ask("asked", MetadataBudget)
  /\ UNCHANGED swallowed

\* Slip: nothing ends a request that gets no answer.
Failed_untimed == InFlight /\ now > sentAt /\ now < due

\* A request fails: refused, lost, an error answer, a body that cannot be
\* read, or its budget is over.
Failed == InFlight /\ now > sentAt /\ now <= due + Lag

\* wait passes the error on.
JobFailed ==
  /\ Failed /\ loop = "job"
  /\ UNCHANGED swallowed
  /\ End("failed")

\* Slip: a look that failed is repeated without a look at the clock.
Swallow_unchecked ==
  /\ phase' = "asleep"
  /\ wakeAt' = now + Min2(poll_interval, 1)
  /\ UNCHANGED <<now, caller, request, result, world, readyAt, unreadyAt, queued>>

\* wait_for_capacity drops it; "only the deadline ends the wait".
Swallow == NotYet

CapacityFailed ==
  /\ Failed /\ loop = "capacity"
  /\ swallowed' = TRUE
  /\ Swallow

WarmFailed ==
  /\ Failed /\ loop = "warm"
  /\ UNCHANGED swallowed
  /\ End("failed")

\* The encode is tried again with what is left of its budget; the pause before that
\* counts with the attempt that failed.
WarmAgain ==
  /\ Failed /\ phase = "warming" /\ now < timeout
  /\ Ask("warming", timeout - now)
  /\ UNCHANGED swallowed

Wake ==
  /\ phase = "asleep"
  /\ now >= wakeAt
  /\ phase' = "look"
  /\ queued' = 0
  /\ UNCHANGED <<now, caller, request, wakeAt, result, world, readyAt, unreadyAt, swallowed>>

---------------------------------------------------------------------------
\* Time does not pass over a request that must end or a timer that must fire,
\* except by Lag; and it is spent in awaits only.
Tick ==
  /\ \/ Queueing /\ queued < MaxQueue
     \/ InFlight /\ now < due + Lag
     \/ phase = "asleep" /\ now < wakeAt + Lag
  /\ now' = now + 1
  /\ readyAt' = IF Ready(world) THEN now' ELSE readyAt
  /\ unreadyAt' = IF Ready(world) THEN unreadyAt ELSE now'
  /\ queued' = IF Queueing THEN queued + 1 ELSE queued
  /\ UNCHANGED <<caller, phase, request, wakeAt, result, world, swallowed>>

Step ==
  \/ Look \/ WarmUp \/ Permitted \/ ProbeWorker
  \/ JobAnswered \/ CapacityAnswered \/ WarmAnswered \/ WarmedUp
  \/ JobFailed \/ CapacityFailed \/ WarmFailed \/ WarmAgain
  \/ Wake

Next == Step \/ Serve \/ WorldMoves \/ Tick

\* The runtime polls what is ready and time passes; the semaphore hands permits
\* out in turn, and every request that holds one ends with its timeout; the server
\* owes nothing, a request that gets no answer ends with its timeout.
Fairness ==
  /\ WF_vars(Look) /\ WF_vars(WarmUp) /\ WF_vars(Wake) /\ WF_vars(Tick)
  /\ WF_vars(Permitted)
  /\ WF_vars(now >= due /\ (JobFailed \/ CapacityFailed \/ WarmFailed))

Spec == Init /\ [][Next]_vars
FairSpec == Spec /\ Fairness

---------------------------------------------------------------------------
Phases == {"warm", "warming", "look", "asked", "probed", "asleep", "over"}

\* Every variable has its type.
TypeOK ==
  /\ now \in Nat
  /\ loop \in {"job", "capacity", "warm"}
  /\ timeout \in Nat
  /\ poll_interval \in Nat
  /\ phase \in Phases
  /\ sentAt \in Nat
  /\ due \in Nat
  /\ held \in BOOLEAN
  /\ answer \in World \cup {[kind |-> "none"]}
  /\ wakeAt \in 0..timeout
  /\ result \in {"none", "ready", "timeout", "failed"}
  /\ world \in World
  /\ readyAt \in Nat \cup {Never}
  /\ unreadyAt \in Nat \cup {Never}
  /\ swallowed \in BOOLEAN
  /\ queued \in Nat

\* One request and the timers that end it.
OneRequest == MetadataBudget + Lag

\* A wait outlives its deadline by one look at most: one request for a job, two
\* for a capacity (jobs.rs:341, meta.rs:150), each counted from its permit, and the
\* time they queued for the permits, which no timeout limits (mod.rs:262).  The last
\* sleep ends at the deadline and not an interval later.
WaitBound ==
  now <= timeout + Lag + queued
           + (IF loop = "job" THEN OneRequest ELSE 2 * OneRequest)

\* A wait that gave up did not overlook what it waited for: the thing was not
\* ready at some moment no earlier than one request before the deadline, or the
\* last look failed (jobs.rs:349, meta.rs:160).
NoReadyMissed ==
  result = "timeout" /\ ~swallowed =>
    unreadyAt # Never /\ unreadyAt + OneRequest >= timeout

\* The job's status has one request of staleness at most when wait reports that
\* the job has settled; a capacity's has as much.  A warmed model's look is
\* reported as it is, but a worker was there during the wait (meta.rs:142).
ReadyIsFresh ==
  result = "ready" =>
    /\ readyAt # Never
    /\ loop # "warm" => readyAt + OneRequest >= now

\* Both loops are bounded waits.
BW == INSTANCE BoundedWait
        WITH clock <- now, patience <- timeout, ready <- Ready(world),
             wasReady <- (readyAt # Never), outcome <- result
IsBoundedWait == BW!Spec

\* Every wait ends, whatever the server does (meta.rs:151: errors are dropped,
\* but not the deadline).
WaitEnds == <>(phase = "over")
=============================================================================
