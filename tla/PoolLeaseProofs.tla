--------------------------- MODULE PoolLeaseProofs ---------------------------
(***************************************************************************)
(* Theorems about PoolLease, for any pools, tasks and renewers and any     *)
(* number of renewal attempts.                                             *)
(***************************************************************************)
EXTENDS PoolLease, TLAPS

\* A call that its caller still awaits holds a clone of the client, and only such a
\* call receives an answer.
CallsHold ==
  \A t \in Tasks : /\ call[t].awaited => alive
                   /\ call[t].at \in Answers => call[t].awaited

\* RegistryExact needs CallsHold: a create that finishes after the client's drop would
\* start a renewer that nothing aborts.
LeaseInv == TypeOK /\ CallsHold /\ RegistryExact

\* A request under way, or its answer, is about a pool.
LEMMA CallTyped ==
  ASSUME TypeOK, NEW t \in Tasks, call[t].at \in {"sent"} \cup Answers \/ call[t].kind \in Kinds
  PROVE  /\ call[t] \in [kind : Kinds, pool : Pools, at : {"sent"} \cup Answers, awaited : BOOLEAN]
         /\ call[t].pool \in Pools
BY DEF TypeOK, Call, Idle, Answers, Kinds

\* A task with no operation in progress has nothing awaited and no answer.
LEMMA IdleTyped == Idle \in Call /\ ~Idle.awaited /\ Idle.at \notin Answers
BY DEF Idle, Call, Answers

---------------------------------------------------------------------------
\* A new client has an empty registry and no renewer.
LEMMA InitLeaseInv == Init => LeaseInv
<1> SUFFICES ASSUME Init PROVE LeaseInv OBVIOUS
<1>1. TypeOK BY LeaseAssumption, IdleTyped DEF Init, TypeOK
<1>2. CallsHold BY IdleTyped DEF Init, CallsHold
<1>3. RegistryExact BY DEF Init, RegistryExact, Running
<1> QED BY <1>1, <1>2, <1>3 DEF LeaseInv

\* Stopping a lease takes one renewer out of the registry and of the running ones.
LEMMA StopLeaseKeeps ==
  ASSUME LeaseInv, NEW p \in Pools, StopLease(p), UNCHANGED <<alive, pool>>
  PROVE  /\ leases' \in [Pools -> Renewers \cup {NoRenewer}]
         /\ stage' \in [Renewers -> {"unborn", "interval", "request", "backoff", "aborted"}]
         /\ RegistryExact'
<1>f. /\ leases \in [Pools -> Renewers \cup {NoRenewer}]
      /\ stage \in [Renewers -> {"unborn", "interval", "request", "backoff", "aborted"}]
      /\ pool \in [Renewers -> Pools]
  BY DEF LeaseInv, TypeOK
<1>1. leases' = [leases EXCEPT ![p] = NoRenewer] BY DEF StopLease
<1>2. stage' = [r \in Renewers |-> IF r = leases[p] THEN "aborted" ELSE stage[r]]
  BY DEF StopLease
<1>3. ASSUME NEW r \in Renewers, Running(r)' PROVE leases'[pool'[r]] = r
  <2>1. r # leases[p] /\ Running(r) BY <1>2, <1>3 DEF Running
  <2>2. leases[pool[r]] = r BY <2>1 DEF LeaseInv, RegistryExact
  <2>3. pool[r] # p BY <2>1, <2>2
  <2> QED BY <1>f, <1>1, <2>2, <2>3
<1>4. ASSUME NEW q \in Pools, leases'[q] # NoRenewer
      PROVE  alive' /\ Running(leases[q])' /\ (pool[leases[q]] = q)'
  <2>1. q # p /\ leases'[q] = leases[q] BY <1>f, <1>1, <1>4
  <2>2. alive /\ Running(leases[q]) /\ pool[leases[q]] = q /\ leases[q] \in Renewers
    BY <1>f, <1>4, <2>1 DEF LeaseInv, RegistryExact
  <2>3. leases[q] # leases[p]
    <3>1. CASE leases[p] = NoRenewer BY <2>2, <3>1, LeaseAssumption
    <3>2. CASE leases[p] # NoRenewer BY <2>1, <2>2, <3>2 DEF LeaseInv, RegistryExact
    <3> QED BY <3>1, <3>2
  <2> QED BY <1>2, <2>1, <2>2, <2>3 DEF Running
<1> QED BY <1>f, <1>1, <1>2, <1>3, <1>4 DEF RegistryExact

\* Starting one adds one renewer to both, and none when the pool has one.
LEMMA StartLeaseKeeps ==
  ASSUME LeaseInv, NEW p \in Pools, StartLease(p), alive, UNCHANGED alive
  PROVE  /\ leases' \in [Pools -> Renewers \cup {NoRenewer}]
         /\ stage' \in [Renewers -> {"unborn", "interval", "request", "backoff", "aborted"}]
         /\ pool' \in [Renewers -> Pools]
         /\ attempt' \in [Renewers -> 0..LEASE_RENEWAL_MAX_RETRIES - 1]
         /\ RegistryExact'
<1>f. /\ leases \in [Pools -> Renewers \cup {NoRenewer}]
      /\ stage \in [Renewers -> {"unborn", "interval", "request", "backoff", "aborted"}]
      /\ pool \in [Renewers -> Pools]
      /\ attempt \in [Renewers -> 0..LEASE_RENEWAL_MAX_RETRIES - 1]
  BY DEF LeaseInv, TypeOK
<1>1. CASE UNCHANGED <<leases, stage, pool, attempt>>
  BY <1>1, <1>f DEF LeaseInv, RegistryExact, Running
<1>2. CASE Unleased(p) /\ \E r \in Renewers :
             /\ stage[r] = "unborn"
             /\ stage' = [stage EXCEPT ![r] = "interval"]
             /\ pool' = [pool EXCEPT ![r] = p]
             /\ attempt' = [attempt EXCEPT ![r] = 0]
             /\ leases' = [leases EXCEPT ![p] = r]
  <2>1. PICK r \in Renewers :
          /\ stage[r] = "unborn"
          /\ stage' = [stage EXCEPT ![r] = "interval"]
          /\ pool' = [pool EXCEPT ![r] = p]
          /\ attempt' = [attempt EXCEPT ![r] = 0]
          /\ leases' = [leases EXCEPT ![p] = r]
    BY <1>2
  <2>2. leases[p] = NoRenewer BY <1>2 DEF Unleased
  <2>3. ASSUME NEW s \in Renewers, Running(s)' PROVE leases'[pool'[s]] = s
    <3>1. CASE s = r BY <1>f, <2>1, <3>1
    <3>2. CASE s # r
      <4>1. Running(s) BY <1>f, <2>1, <2>3, <3>2 DEF Running
      <4>2. leases[pool[s]] = s BY <4>1 DEF LeaseInv, RegistryExact
      <4>3. pool[s] # p BY <2>2, <4>2, LeaseAssumption
      <4> QED BY <1>f, <2>1, <3>2, <4>2, <4>3
    <3> QED BY <3>1, <3>2
  <2>4. ASSUME NEW q \in Pools, leases'[q] # NoRenewer
        PROVE  alive' /\ Running(leases[q])' /\ (pool[leases[q]] = q)'
    <3>1. CASE q = p BY <1>f, <2>1, <3>1 DEF Running
    <3>2. CASE q # p
      <4>1. leases'[q] = leases[q] BY <1>f, <2>1, <3>2
      <4>2. Running(leases[q]) /\ pool[leases[q]] = q /\ leases[q] \in Renewers
        BY <1>f, <2>4, <4>1 DEF LeaseInv, RegistryExact
      <4>3. leases[q] # r BY <2>1, <4>2 DEF Running
      <4> QED BY <1>f, <2>1, <4>1, <4>2, <4>3 DEF Running
    <3> QED BY <3>1, <3>2
  <2>5. 0 \in 0..LEASE_RENEWAL_MAX_RETRIES - 1 BY LeaseAssumption
  <2>6. /\ leases' \in [Pools -> Renewers \cup {NoRenewer}]
        /\ stage' \in [Renewers -> {"unborn", "interval", "request", "backoff", "aborted"}]
        /\ pool' \in [Renewers -> Pools]
        /\ attempt' \in [Renewers -> 0..LEASE_RENEWAL_MAX_RETRIES - 1]
    BY <1>f, <2>1, <2>5
  <2> QED BY <2>3, <2>4, <2>6 DEF RegistryExact
<1> QED BY <1>1, <1>2 DEF StartLease

\* The registry does not depend on which stage a running renewer is at.
LEMMA RenewerStepKeeps ==
  ASSUME LeaseInv, NEW r \in Renewers,
         NEW from \in {"interval", "request", "backoff"},
         NEW to \in {"interval", "request", "backoff"}, Step(r, from, to),
         attempt' \in [Renewers -> 0..LEASE_RENEWAL_MAX_RETRIES - 1]
  PROVE  LeaseInv'
<1>1. /\ stage[r] = from /\ stage' = [stage EXCEPT ![r] = to]
      /\ UNCHANGED <<alive, leases, pool, call, exists, settled, effect, clash>>
  BY DEF Step
<1>2. TypeOK' BY <1>1 DEF LeaseInv, TypeOK
<1>3. \A s \in Renewers : Running(s)' <=> Running(s)
  BY <1>1 DEF LeaseInv, TypeOK, Running
<1>4. CallsHold' BY <1>1 DEF LeaseInv, CallsHold
<1>5. \A p \in Pools : leases[p] # NoRenewer => leases[p] \in Renewers
  BY DEF LeaseInv, TypeOK
<1>6. RegistryExact' BY <1>1, <1>3, <1>5 DEF LeaseInv, RegistryExact
<1> QED BY <1>2, <1>4, <1>6 DEF LeaseInv

\* A step that only changes what is in progress, and leaves the registry alone.
LEMMA CallStepKeeps ==
  ASSUME LeaseInv, NEW t \in Tasks, NEW c \in Call,
         call' = [call EXCEPT ![t] = c],
         c.awaited => alive,
         c.at \in Answers => c.awaited,
         UNCHANGED <<alive, leases, stage, pool, attempt>>,
         exists' \subseteq Pools,
         settled' \in [Pools -> {"none", "created", "deleted"}],
         effect' \in [Pools -> {"none", "created", "deleted"}],
         clash' \in [Pools -> BOOLEAN]
  PROVE  LeaseInv'
<1>1. TypeOK' BY DEF LeaseInv, TypeOK
<1>2. CallsHold' BY DEF LeaseInv, CallsHold, TypeOK
<1>3. RegistryExact' BY DEF LeaseInv, RegistryExact, Running
<1> QED BY <1>1, <1>2, <1>3 DEF LeaseInv

\* Starting an operation keeps the type of what the tasks have in progress.
LEMMA StartTyped ==
  ASSUME LeaseInv, NEW t \in Tasks, NEW kind \in Kinds, NEW p \in Pools, Start(t, kind, p)
  PROVE  /\ alive /\ UNCHANGED <<alive, pool, exists, settled, effect>>
         /\ clash' \in [Pools -> BOOLEAN]
         /\ \E c \in Call : /\ call' = [call EXCEPT ![t] = c]
                            /\ c.at \notin Answers
<1>1. clash' \in [Pools -> BOOLEAN] BY DEF Start, LeaseInv, TypeOK
<1>2. [kind |-> kind, pool |-> p, at |-> "sent", awaited |-> TRUE] \in Call BY DEF Call
<1> QED BY <1>1, <1>2 DEF Start, Answers

\* Every step of the callers, the renewers and the server keeps the registry exact.
LEMMA StepLeaseInv ==
  ASSUME LeaseInv, [Next]_vars
  PROVE  LeaseInv'
<1>f. /\ leases \in [Pools -> Renewers \cup {NoRenewer}]
      /\ attempt \in [Renewers -> 0..LEASE_RENEWAL_MAX_RETRIES - 1]
      /\ call \in [Tasks -> Call] /\ exists \subseteq Pools
      /\ settled \in [Pools -> {"none", "created", "deleted"}]
      /\ effect \in [Pools -> {"none", "created", "deleted"}]
      /\ clash \in [Pools -> BOOLEAN]
  BY DEF LeaseInv, TypeOK
<1>1. ASSUME NEW t \in Tasks, NEW p \in Pools, StartCreate(t, p) PROVE LeaseInv'
  <2>1. Start(t, "create", p) /\ UNCHANGED <<leases, stage, attempt>> /\ "create" \in Kinds
    BY <1>1 DEF StartCreate, Kinds
  <2>2. PICK c \in Call : call' = [call EXCEPT ![t] = c] /\ c.at \notin Answers
    BY <2>1, StartTyped
  <2> QED BY <1>f, <2>1, <2>2, StartTyped, CallStepKeeps
<1>2. ASSUME NEW t \in Tasks, NEW p \in Pools, StartDelete(t, p) PROVE LeaseInv'
  <2>1. Start(t, "delete", p) /\ StopLease(p) /\ UNCHANGED attempt /\ "delete" \in Kinds
    BY <1>2 DEF StartDelete, Kinds
  <2>2. /\ alive /\ UNCHANGED <<alive, pool, exists, settled, effect>> /\ clash' \in [Pools -> BOOLEAN]
    BY <2>1, StartTyped
  <2>3. PICK c \in Call : call' = [call EXCEPT ![t] = c] /\ c.at \notin Answers
    BY <2>1, StartTyped
  <2>4. /\ leases' \in [Pools -> Renewers \cup {NoRenewer}]
        /\ stage' \in [Renewers -> {"unborn", "interval", "request", "backoff", "aborted"}]
        /\ RegistryExact'
    BY <2>1, <2>2, StopLeaseKeeps
  <2>5. TypeOK' BY <2>1, <2>2, <2>3, <2>4 DEF LeaseInv, TypeOK
  <2>6. CallsHold' BY <1>f, <2>2, <2>3 DEF LeaseInv, CallsHold
  <2> QED BY <2>4, <2>5, <2>6 DEF LeaseInv
<1>3. ASSUME NEW t \in Tasks, Serve(t) PROVE LeaseInv'
  <2>0. call[t].at = "sent" BY <1>3 DEF Serve
  <2>1. /\ call[t] \in [kind : Kinds, pool : Pools, at : {"sent"} \cup Answers, awaited : BOOLEAN]
        /\ call[t].pool \in Pools
    BY <2>0, CallTyped DEF LeaseInv
  <2>2. \A a \in Answers : [call[t] EXCEPT !.at = a] \in Call BY <2>1 DEF Call
  <2>3. PICK c \in Call : /\ call' = [call EXCEPT ![t] = c]
                          /\ c = Idle \/ (call[t].awaited /\ c.awaited)
    <3>1. PICK a \in Answers :
            call' = [call EXCEPT ![t] = IF call[t].awaited THEN [call[t] EXCEPT !.at = a] ELSE Idle]
      BY <1>3 DEF Serve, Answers
    <3>2. CASE call[t].awaited
      <4>1. [call[t] EXCEPT !.at = a] \in Call /\ [call[t] EXCEPT !.at = a].awaited
        BY <2>1, <2>2, <3>2
      <4> QED BY <3>1, <3>2, <4>1
    <3>3. CASE ~call[t].awaited
      <4>1. call' = [call EXCEPT ![t] = Idle] BY <3>1, <3>3
      <4> QED BY <4>1, IdleTyped
    <3> QED BY <3>2, <3>3
  <2>4. /\ UNCHANGED <<alive, leases, stage, pool, attempt, settled, clash>>
        /\ exists' \subseteq Pools
        /\ effect' \in [Pools -> {"none", "created", "deleted"}]
    BY <1>f, <1>3, <2>1 DEF Serve
  <2>5. c.awaited => alive BY <2>3, IdleTyped DEF LeaseInv, CallsHold
  <2>6. c.at \in Answers => c.awaited BY <2>3, IdleTyped
  <2>7. settled' \in [Pools -> {"none", "created", "deleted"}] /\ clash' \in [Pools -> BOOLEAN]
    BY <1>f, <2>4
  <2>8. call' = [call EXCEPT ![t] = c] BY <2>3
  <2> QED BY <2>4, <2>5, <2>6, <2>7, <2>8, CallStepKeeps
<1>4. ASSUME NEW t \in Tasks, FinishCreate(t) PROVE LeaseInv'
  <2>1. /\ call[t].kind = "create" /\ call' = [call EXCEPT ![t] = Idle]
        /\ UNCHANGED <<alive, exists, effect, clash>>
    BY <1>4 DEF FinishCreate, Returned
  <2>2. call[t].pool \in Pools BY <2>1, CallTyped DEF LeaseInv, Kinds
  <2>3. CASE call[t].at = "ok" /\ StartLease(call[t].pool)
             /\ settled' = [settled EXCEPT ![call[t].pool] = "created"]
    <3>1. alive BY <2>3 DEF LeaseInv, CallsHold, Answers
    <3>2. /\ leases' \in [Pools -> Renewers \cup {NoRenewer}]
          /\ stage' \in [Renewers -> {"unborn", "interval", "request", "backoff", "aborted"}]
          /\ pool' \in [Renewers -> Pools]
          /\ attempt' \in [Renewers -> 0..LEASE_RENEWAL_MAX_RETRIES - 1]
          /\ RegistryExact'
      BY <2>1, <2>2, <2>3, <3>1, StartLeaseKeeps
    <3>3. TypeOK' BY <2>1, <2>2, <2>3, <3>2, IdleTyped DEF LeaseInv, TypeOK
    <3>4. CallsHold' BY <1>f, <2>1, IdleTyped DEF LeaseInv, CallsHold
    <3> QED BY <3>2, <3>3, <3>4 DEF LeaseInv
  <2>4. CASE UNCHANGED <<leases, stage, pool, attempt, settled>>
    BY <1>f, <2>1, <2>4, IdleTyped, CallStepKeeps
  <2> QED BY <1>4, <2>3, <2>4 DEF FinishCreate
<1>5. ASSUME NEW t \in Tasks, FinishDelete(t) PROVE LeaseInv'
  <2>1. /\ call[t].kind = "delete" /\ call' = [call EXCEPT ![t] = Idle]
        /\ UNCHANGED <<alive, exists, effect, clash, leases, stage, pool, attempt>>
    BY <1>5 DEF FinishDelete, Returned
  <2>2. settled' \in [Pools -> {"none", "created", "deleted"}]
    <3>1. CASE settled' = [settled EXCEPT ![call[t].pool] = "deleted"] BY <1>f, <3>1
    <3>2. CASE UNCHANGED settled BY <1>f, <3>2
    <3> QED BY <1>5, <3>1, <3>2 DEF FinishDelete
  <2> QED BY <1>f, <2>1, <2>2, IdleTyped, CallStepKeeps
<1>6. ASSUME NEW t \in Tasks, DropCall(t) PROVE LeaseInv'
  <2>0. /\ call[t].awaited /\ UNCHANGED <<alive, leases, stage, pool, attempt, exists, settled, effect, clash>>
        /\ call' = [call EXCEPT ![t] =
              IF call[t].at = "sent" THEN [call[t] EXCEPT !.awaited = FALSE] ELSE Idle]
    BY <1>6 DEF DropCall
  <2>1. CASE call[t].at = "sent"
    <3>1. call[t] \in [kind : Kinds, pool : Pools, at : {"sent"} \cup Answers, awaited : BOOLEAN]
      BY <2>1, CallTyped DEF LeaseInv
    <3> DEFINE c == [call[t] EXCEPT !.awaited = FALSE]
    <3>2. c \in Call /\ ~c.awaited /\ c.at = "sent" BY <2>1, <3>1 DEF Call
    <3>3. call' = [call EXCEPT ![t] = c] BY <2>0, <2>1
    <3> HIDE DEF c
    <3> QED BY <1>f, <2>0, <3>2, <3>3, CallStepKeeps DEF Answers
  <2>2. CASE call[t].at # "sent"
    BY <1>f, <2>0, <2>2, IdleTyped, CallStepKeeps
  <2> QED BY <2>1, <2>2
<1>7. ASSUME NEW r \in Renewers, IntervalElapsed(r) PROVE LeaseInv'
  <2>1. attempt' \in [Renewers -> 0..LEASE_RENEWAL_MAX_RETRIES - 1]
    BY <1>f, <1>7, LeaseAssumption DEF IntervalElapsed
  <2> QED BY <1>7, <2>1, RenewerStepKeeps DEF IntervalElapsed
<1>8. ASSUME NEW r \in Renewers, Renewed(r) PROVE LeaseInv'
  BY <1>f, <1>8, RenewerStepKeeps DEF Renewed
<1>9. ASSUME NEW r \in Renewers, RenewalFailed(r) PROVE LeaseInv'
  BY <1>f, <1>9, RenewerStepKeeps DEF RenewalFailed
<1>10. ASSUME NEW r \in Renewers, BackoffElapsed(r) PROVE LeaseInv'
  <2>1. CASE MoreAttempts(r) /\ Step(r, "backoff", "request") /\ attempt' = [attempt EXCEPT ![r] = @ + 1]
    <3>1. attempt[r] + 1 \in 0..LEASE_RENEWAL_MAX_RETRIES - 1
      BY <1>f, <2>1, LeaseAssumption DEF MoreAttempts
    <3>2. attempt' \in [Renewers -> 0..LEASE_RENEWAL_MAX_RETRIES - 1] BY <1>f, <2>1, <3>1
    <3> QED BY <2>1, <3>2, RenewerStepKeeps
  <2>2. CASE Step(r, "backoff", "interval") /\ UNCHANGED attempt
    BY <1>f, <2>2, RenewerStepKeeps
  <2> QED BY <1>10, <2>1, <2>2 DEF BackoffElapsed
<1>11. ASSUME DropClient PROVE LeaseInv'
  <2>1. /\ alive' = FALSE /\ \A t \in Tasks : ~call[t].awaited
        /\ stage' = [r \in Renewers |->
              IF \E p \in Pools : leases[p] = r THEN "aborted" ELSE stage[r]]
        /\ leases' = [p \in Pools |-> NoRenewer]
        /\ UNCHANGED <<pool, attempt, call, exists, settled, effect, clash>>
    BY <1>11 DEF DropClient
  <2>2. TypeOK' BY <2>1 DEF LeaseInv, TypeOK
  <2>3. CallsHold' BY <2>1 DEF LeaseInv, CallsHold
  <2>4. \A r \in Renewers : ~Running(r)'
    BY <2>1 DEF LeaseInv, RegistryExact, TypeOK, Running
  <2>5. RegistryExact' BY <2>1, <2>4 DEF RegistryExact
  <2> QED BY <2>2, <2>3, <2>5 DEF LeaseInv
<1>12. ASSUME NEW p \in Pools, Vanishes(p) \/ MadeByAnother(p) PROVE LeaseInv'
  <2>1. /\ exists' \subseteq Pools
        /\ UNCHANGED <<alive, leases, stage, pool, attempt, call, settled, effect, clash>>
    BY <1>f, <1>12 DEF Vanishes, MadeByAnother, Elsewhere
  <2> QED BY <2>1 DEF LeaseInv, TypeOK, CallsHold, RegistryExact, Running
<1>13. CASE UNCHANGED vars
  BY <1>13 DEF vars, LeaseInv, TypeOK, CallsHold, RegistryExact, Running
<1> QED BY <1>1, <1>2, <1>3, <1>4, <1>5, <1>6, <1>7, <1>8, <1>9, <1>10, <1>11, <1>12,
           <1>13 DEF Next, Gone

\* The inductive invariant of the lease registry.
LEMMA LeaseInvariant == Spec => []LeaseInv
BY InitLeaseInv, StepLeaseInv, PTL DEF Spec

\* However creates, deletes, dropped calls, renewals and the client's drop interleave,
\* every running renewer is the one the registry has for its pool: there are never two
\* for a pool, never one that delete cannot stop, and none once the client is gone.
THEOREM RegistryIsExact == Spec => []RegistryExact
<1>1. LeaseInv => RegistryExact BY DEF LeaseInv
<1> QED BY <1>1, LeaseInvariant, PTL

\* The lease state is well typed; a round never has more than
\* LEASE_RENEWAL_MAX_RETRIES attempts.
THEOREM LeaseTypeCorrect == Spec => []TypeOK
<1>1. LeaseInv => TypeOK BY DEF LeaseInv
<1> QED BY <1>1, LeaseInvariant, PTL
---------------------------------------------------------------------------
(***************************************************************************)
(* Orphans.  NoOrphanWithoutOverlap needs to know what is on its way: a    *)
(* delete has stopped the lease when it starts, and a create that was      *)
(* answered well goes on to start one for a pool this client's calls have  *)
(* left there.  Pools that expire, and other clients, change nothing.      *)
(***************************************************************************)
Doing(t, kind, p) == call[t].kind = kind /\ call[t].pool = p

Untangled(p) ==
  /\ \A t, u \in Tasks : ~(Doing(t, "create", p) /\ Doing(u, "delete", p))
  /\ \A t \in Tasks : Doing(t, "delete", p) => leases[p] = NoRenewer
  /\ \A t \in Tasks : Doing(t, "create", p) /\ call[t].at = "ok" => effect[p] = "created"
  /\ leases[p] # NoRenewer => effect[p] = "created"

OrphanInv == \A p \in Pools : ~clash[p] => Untangled(p)

LEMMA IdleDoesNothing == Idle.kind \notin Kinds /\ Idle.at = "idle"
BY DEF Idle, Kinds

LEMMA InitOrphanInv == Init => OrphanInv
BY IdleDoesNothing DEF Init, OrphanInv, Untangled, Doing, Kinds

\* A task's call is over, dropped or answered: it is none, or has the kind and the
\* pool it had, and is not answered well where it was not.
LEMMA LessIsDone ==
  ASSUME LeaseInv, OrphanInv, NEW t \in Tasks, NEW c, call' = [call EXCEPT ![t] = c],
         c = Idle \/ (c.kind = call[t].kind /\ c.pool = call[t].pool
                        /\ (c.at = "ok" => call[t].at = "ok")),
         UNCHANGED <<leases, effect, clash>>
  PROVE  OrphanInv'
<1> SUFFICES ASSUME NEW p \in Pools, ~clash[p] PROVE Untangled(p)'
  BY DEF OrphanInv
<1>1. call \in [Tasks -> Call] /\ Untangled(p)
  BY DEF LeaseInv, TypeOK, OrphanInv
<1>2. \A u \in Tasks, kind \in Kinds :
        Doing(u, kind, p)' => Doing(u, kind, p) /\ (call'[u].at = "ok" => call[u].at = "ok")
  BY <1>1, IdleDoesNothing DEF Doing
<1> QED
  BY <1>1, <1>2 DEF Untangled, Kinds

\* A call starts.
LEMMA StartUntangled ==
  ASSUME LeaseInv, OrphanInv, NEW t \in Tasks, NEW kind \in Kinds, NEW p \in Pools,
         Start(t, kind, p),
         NEW q \in Pools, ~clash'[q], leases'[q] # NoRenewer => leases'[q] = leases[q],
         kind = "delete" /\ q = p => leases'[q] = NoRenewer
  PROVE  Untangled(q)'
<1> DEFINE c == [kind |-> kind, pool |-> p, at |-> "sent", awaited |-> TRUE]
<1>1. /\ call \in [Tasks -> Call] /\ clash \in [Pools -> BOOLEAN]
      /\ call' = [call EXCEPT ![t] = c]
      /\ clash' = [clash EXCEPT ![p] = @ \/ \E u \in Tasks : call[u].pool = p /\ call[u].kind # kind]
      /\ effect' = effect
  BY DEF LeaseInv, TypeOK, Start
<1>2. ~clash[q] /\ (q = p => \A u \in Tasks : call[u].pool = p => call[u].kind = kind)
  BY <1>1
<1>3. Untangled(q)
  BY <1>2 DEF OrphanInv
<1>4. \A u \in Tasks : u # t => call'[u] = call[u]
  BY <1>1
<1>5. call'[t].kind = kind /\ call'[t].pool = p /\ call'[t].at = "sent"
  BY <1>1
<1>6. \A u \in Tasks : q = p /\ call'[u].pool = q => call'[u].kind = kind
  BY <1>2, <1>4, <1>5
<1>7. \A u \in Tasks : q # p /\ call'[u].pool = q => call'[u] = call[u]
  BY <1>4, <1>5
<1>8. CASE q = p
  <2>1. \A u, v \in Tasks : ~(Doing(u, "create", q) /\ Doing(v, "delete", q))'
    BY <1>6, <1>8 DEF Doing
  <2>2. \A u \in Tasks : Doing(u, "delete", q)' => leases'[q] = NoRenewer
    BY <1>6, <1>8 DEF Doing
  <2>3. \A u \in Tasks : Doing(u, "create", q)' /\ call'[u].at = "ok" => effect[q] = "created"
    BY <1>3, <1>4, <1>5 DEF Doing, Untangled
  <2> QED BY <1>1, <1>3, <2>1, <2>2, <2>3 DEF Untangled
<1>9. CASE q # p
  BY <1>1, <1>3, <1>7, <1>9 DEF Untangled, Doing
<1> QED BY <1>8, <1>9

\* The server takes a request: a create makes its pool, and a delete removes one that
\* nobody is creating.
LEMMA ServeUntangled ==
  ASSUME LeaseInv, OrphanInv, NEW t \in Tasks, Serve(t)
  PROVE  OrphanInv'
<1> DEFINE p == call[t].pool
           answered(a) == IF call[t].awaited THEN [call[t] EXCEPT !.at = a] ELSE Idle
<1>0. call \in [Tasks -> Call] /\ call[t].at = "sent" /\ UNCHANGED <<leases, clash>>
  BY DEF LeaseInv, TypeOK, Serve
<1>1. call[t] \in [kind : Kinds, pool : Pools, at : {"sent"} \cup Answers, awaited : BOOLEAN]
  BY <1>0, CallTyped DEF LeaseInv
<1>2. PICK a \in Answers :
        /\ call' = [call EXCEPT ![t] = answered(a)]
        /\ \/ call[t].kind = "create" /\ effect' = [effect EXCEPT ![p] = "created"]
           \/ call[t].kind = "delete" /\ effect' = [effect EXCEPT ![p] = "deleted"]
           \/ a = "failed" /\ effect' = effect
  BY DEF Serve, Answers
<1>3. answered(a) = Idle
        \/ (answered(a).kind = call[t].kind /\ answered(a).pool = p /\ answered(a).at = a)
  BY <1>1
<1> SUFFICES ASSUME NEW q \in Pools, ~clash[q] PROVE Untangled(q)'
  BY <1>0 DEF OrphanInv
<1>4. Untangled(q)
  BY DEF OrphanInv
<1>5. \A u \in Tasks, kind \in Kinds : Doing(u, kind, q)' => Doing(u, kind, q)
  BY <1>0, <1>2, <1>3, IdleDoesNothing DEF Doing
<1>6. \A u \in Tasks : u # t => call'[u] = call[u]
  BY <1>0, <1>2
<1>7. \A u, v \in Tasks : ~(Doing(u, "create", q) /\ Doing(v, "delete", q))'
  BY <1>4, <1>5 DEF Untangled, Kinds
<1>8. \A u \in Tasks : Doing(u, "delete", q)' => leases'[q] = NoRenewer
  BY <1>0, <1>4, <1>5 DEF Untangled, Kinds
<1>9. CASE call[t].kind = "create" /\ effect' = [effect EXCEPT ![p] = "created"]
  <2>1. \A u \in Tasks : Doing(u, "create", q)' /\ call'[u].at = "ok" => effect'[q] = "created"
    <3> SUFFICES ASSUME NEW u \in Tasks, Doing(u, "create", q)', call'[u].at = "ok"
                 PROVE  effect'[q] = "created"
      OBVIOUS
    <3>1. Doing(u, "create", q) BY <1>5 DEF Kinds
    <3>2. CASE u = t
      <4>1. q = p /\ p \in DOMAIN effect BY <1>1, <3>1, <3>2 DEF Doing, LeaseInv, TypeOK
      <4> QED BY <1>9, <4>1
    <3>3. CASE u # t BY <1>4, <1>6, <1>9, <3>1, <3>3 DEF Untangled
    <3> QED BY <3>2, <3>3
  <2> QED BY <1>0, <1>4, <1>7, <1>8, <1>9, <2>1 DEF Untangled
<1>10. CASE call[t].kind = "delete" /\ effect' = [effect EXCEPT ![p] = "deleted"]
  <2>1. q = p => leases[q] = NoRenewer /\ \A u \in Tasks : ~Doing(u, "create", q)
    BY <1>4, <1>10 DEF Untangled, Doing
  <2>2. \A u \in Tasks : Doing(u, "create", q)' /\ call'[u].at = "ok" => effect'[q] = "created"
    <3> SUFFICES ASSUME NEW u \in Tasks, Doing(u, "create", q)', call'[u].at = "ok"
                 PROVE  effect'[q] = "created"
      OBVIOUS
    <3>1. Doing(u, "create", q) BY <1>5 DEF Kinds
    <3>2. u # t BY <1>10, <3>1 DEF Doing
    <3>3. effect[q] = "created" BY <1>4, <1>6, <3>1, <3>2 DEF Untangled
    <3> QED BY <1>10, <2>1, <3>1, <3>3
  <2> QED BY <1>0, <1>4, <1>7, <1>8, <1>10, <2>1, <2>2 DEF Untangled
<1>11. CASE a = "failed" /\ effect' = effect
  <2>1. \A u \in Tasks : Doing(u, "create", q)' /\ call'[u].at = "ok" => effect'[q] = "created"
    <3> SUFFICES ASSUME NEW u \in Tasks, Doing(u, "create", q)', call'[u].at = "ok"
                 PROVE  effect'[q] = "created"
      OBVIOUS
    <3>1. Doing(u, "create", q) BY <1>5 DEF Kinds
    <3>2. u # t BY <1>0, <1>2, <1>3, <1>11, IdleDoesNothing
    <3> QED BY <1>4, <1>6, <1>11, <3>1, <3>2 DEF Untangled
  <2> QED BY <1>0, <1>4, <1>7, <1>8, <1>11, <2>1 DEF Untangled
<1> QED BY <1>2, <1>9, <1>10, <1>11

\* A create that was answered well starts a lease, and its pool is there.
LEMMA FinishUntangled ==
  ASSUME LeaseInv, OrphanInv, NEW t \in Tasks, FinishCreate(t)
  PROVE  OrphanInv'
<1>1. /\ call[t].kind = "create" /\ call' = [call EXCEPT ![t] = Idle]
      /\ UNCHANGED <<alive, effect, clash>>
  BY DEF FinishCreate, Returned
<1>2. call[t].pool \in Pools
  BY <1>1, CallTyped DEF LeaseInv, Kinds
<1>3. CASE UNCHANGED leases
  BY <1>1, <1>3, LessIsDone
<1>4. CASE call[t].at = "ok" /\ \E r \in Renewers : leases' = [leases EXCEPT ![call[t].pool] = r]
  <2>1. PICK r \in Renewers : leases' = [leases EXCEPT ![call[t].pool] = r] BY <1>4
  <2> SUFFICES ASSUME NEW q \in Pools, ~clash[q] PROVE Untangled(q)'
    BY <1>1 DEF OrphanInv
  <2>2. call \in [Tasks -> Call] /\ leases \in [Pools -> Renewers \cup {NoRenewer}] /\ Untangled(q)
    BY DEF LeaseInv, TypeOK, OrphanInv
  <2>3. \A u \in Tasks, kind \in Kinds : Doing(u, kind, q)' => Doing(u, kind, q) /\ call'[u] = call[u]
    BY <1>1, <2>2, IdleDoesNothing DEF Doing
  <2>4. CASE q = call[t].pool
    <3>1. \A u \in Tasks : ~Doing(u, "delete", q) BY <1>1, <2>2, <2>4 DEF Untangled, Doing
    <3>2. effect[q] = "created" BY <1>1, <1>4, <2>2, <2>4 DEF Untangled, Doing
    <3> QED BY <1>1, <2>3, <3>1, <3>2 DEF Untangled, Kinds
  <2>5. CASE q # call[t].pool
    <3>1. leases'[q] = leases[q] BY <2>1, <2>2, <2>5
    <3> QED BY <1>1, <2>2, <2>3, <3>1 DEF Untangled, Kinds
  <2> QED BY <2>4, <2>5
<1> QED BY <1>3, <1>4 DEF FinishCreate, StartLease

LEMMA StepOrphanInv ==
  ASSUME LeaseInv, OrphanInv, [Next]_vars
  PROVE  OrphanInv'
<1>f. /\ leases \in [Pools -> Renewers \cup {NoRenewer}] /\ call \in [Tasks -> Call]
      /\ clash \in [Pools -> BOOLEAN]
  BY DEF LeaseInv, TypeOK
<1>1. ASSUME NEW t \in Tasks, NEW p \in Pools, StartCreate(t, p) PROVE OrphanInv'
  <2>1. Start(t, "create", p) /\ UNCHANGED leases BY <1>1 DEF StartCreate
  <2>2. \A q \in Pools : ~clash'[q] => Untangled(q)' BY <2>1, StartUntangled DEF Kinds
  <2> QED BY <2>2 DEF OrphanInv
<1>2. ASSUME NEW t \in Tasks, NEW p \in Pools, StartDelete(t, p) PROVE OrphanInv'
  <2>1. Start(t, "delete", p) /\ leases' = [leases EXCEPT ![p] = NoRenewer]
    BY <1>2 DEF StartDelete, StopLease
  <2>2. \A q \in Pools : /\ leases'[q] # NoRenewer => leases'[q] = leases[q]
                         /\ q = p => leases'[q] = NoRenewer
    BY <1>f, <2>1
  <2>3. \A q \in Pools : ~clash'[q] => Untangled(q)' BY <2>1, <2>2, StartUntangled DEF Kinds
  <2> QED BY <2>3 DEF OrphanInv
<1>3. ASSUME NEW t \in Tasks, FinishDelete(t) PROVE OrphanInv'
  BY <1>3, LessIsDone DEF FinishDelete, Returned
<1>4. ASSUME NEW t \in Tasks, DropCall(t) PROVE OrphanInv'
  <2>1. CASE call[t].at = "sent"
    <3>1. call[t] \in [kind : Kinds, pool : Pools, at : {"sent"} \cup Answers, awaited : BOOLEAN]
      BY <2>1, CallTyped DEF LeaseInv
    <3> DEFINE c == [call[t] EXCEPT !.awaited = FALSE]
    <3>2. c.kind = call[t].kind /\ c.pool = call[t].pool /\ c.at = "sent" BY <2>1, <3>1
    <3>3. call' = [call EXCEPT ![t] = c] /\ UNCHANGED <<leases, effect, clash>>
      BY <1>4, <2>1 DEF DropCall
    <3> HIDE DEF c
    <3> QED BY <3>2, <3>3, LessIsDone
  <2>2. CASE call[t].at # "sent"
    BY <1>4, <2>2, LessIsDone DEF DropCall
  <2> QED BY <2>1, <2>2
<1>5. ASSUME UNCHANGED <<leases, effect, clash, call>> PROVE OrphanInv'
  BY <1>5 DEF OrphanInv, Untangled, Doing
<1>6. ASSUME NEW r \in Renewers,
             IntervalElapsed(r) \/ Renewed(r) \/ RenewalFailed(r) \/ BackoffElapsed(r)
      PROVE  OrphanInv'
  BY <1>5, <1>6 DEF IntervalElapsed, Renewed, RenewalFailed, BackoffElapsed, Step
<1>7. ASSUME DropClient PROVE OrphanInv'
  BY <1>7 DEF DropClient, OrphanInv, Untangled, Doing
<1>8. ASSUME NEW p \in Pools, Vanishes(p) \/ MadeByAnother(p) PROVE OrphanInv'
  BY <1>5, <1>8 DEF Vanishes, MadeByAnother, Elsewhere
<1>9. CASE UNCHANGED vars
  BY <1>5, <1>9 DEF vars
<1> QED
  BY <1>1, <1>2, <1>3, <1>4, <1>6, <1>7, <1>8, <1>9, ServeUntangled, FinishUntangled DEF Next, Gone

\* This client's own calls never leave a renewer behind: unless a create and a delete of
\* the pool were in progress together, a pool with a renewer is one that the latest call
\* carried out at the server created, whatever answers are lost, whatever calls are
\* dropped, whichever pools expire and whatever other clients do.
THEOREM NoOrphans == Spec => []NoOrphanWithoutOverlap
<1>1. Init => LeaseInv /\ OrphanInv
  BY InitLeaseInv, InitOrphanInv
<1>2. (LeaseInv /\ OrphanInv) /\ [Next]_vars => (LeaseInv /\ OrphanInv)'
  BY StepLeaseInv, StepOrphanInv
<1>3. LeaseInv /\ OrphanInv => NoOrphanWithoutOverlap
  BY DEF OrphanInv, Untangled, NoOrphanWithoutOverlap
<1> QED BY <1>1, <1>2, <1>3, PTL DEF Spec
=============================================================================
