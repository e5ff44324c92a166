------------------------------ MODULE PoolLease ------------------------------
(***************************************************************************)
(* Pools and their background leases (src/client/pools.rs, and the lease   *)
(* registry of Inner in src/client/mod.rs).  Tasks on clones of one client *)
(* create and delete pools at the same time; every created pool gets a     *)
(* renewer task, found through the registry `leases`; the last clone's     *)
(* drop aborts them all.  The server handles each request once or not at   *)
(* all, and the answer may be lost either way.  A pool is not this         *)
(* client's alone: its lease may expire at the server, and other clients   *)
(* delete and create pools of the same names.                              *)
(***************************************************************************)
EXTENDS Naturals, FiniteSets

CONSTANTS
  Pools,                      \* pool names
  Tasks,                      \* the caller's tasks
  Renewers,                   \* renewer tasks the run may spawn, a bound of the model
  NoRenewer,                  \* no entry in the registry
  LEASE_RENEWAL_MAX_RETRIES   \* attempts of one round

ASSUME LeaseAssumption ==
  /\ NoRenewer \notin Renewers
  /\ LEASE_RENEWAL_MAX_RETRIES \in Nat \ {0}

VARIABLES
  alive,       \* some clone of the client exists
  leases,      \* Inner::leases, the registry behind its mutex
  stage,       \* per renewer: where LeaseRenewer::run is
  pool,        \* per renewer: the pool it renews
  attempt,     \* per renewer: renew_round's loop variable
  call,        \* per task: the operation it has in progress
  exists,      \* server: the pools there are
  \* History, for the properties.
  settled,     \* per pool: the latest operation that returned success
  effect,      \* per pool: the latest operation of this client that the server carried out
  clash        \* per pool: a create and a delete were in progress together

vars == <<alive, leases, stage, pool, attempt, call, exists, settled, effect, clash>>

Kinds == {"create", "delete"}
Answers == {"ok", "notfound", "failed"}
Idle == [kind |-> "none", pool |-> "none", at |-> "idle", awaited |-> FALSE]

\* at: the request is under way ("sent"), or its answer is ("ok", "notfound",
\* "failed").  A call that is not awaited was dropped by its caller, its request
\* being already on the wire.
Call == {Idle} \cup [kind : Kinds, pool : Pools, at : {"sent"} \cup Answers, awaited : BOOLEAN]

Running(r) == stage[r] \in {"interval", "request", "backoff"}
Busy(p) == \E t \in Tasks : call[t] # Idle /\ call[t].pool = p

---------------------------------------------------------------------------
Init ==
  /\ alive = TRUE
  /\ leases = [p \in Pools |-> NoRenewer]
  /\ stage = [r \in Renewers |-> "unborn"]
  /\ pool \in [Renewers -> Pools]
  /\ attempt = [r \in Renewers |-> 0]
  /\ call = [t \in Tasks |-> Idle]
  /\ exists = {}
  /\ settled = [p \in Pools |-> "none"]
  /\ effect = [p \in Pools |-> "none"]
  /\ clash = [p \in Pools |-> FALSE]

\* A call starts: it clashes with an opposite one in progress on the same pool.
Start(t, kind, p) ==
  /\ alive
  /\ call[t] = Idle
  /\ call' = [call EXCEPT ![t] = [kind |-> kind, pool |-> p, at |-> "sent", awaited |-> TRUE]]
  /\ clash' = [clash EXCEPT ![p] =
       @ \/ \E u \in Tasks : call[u].pool = p /\ call[u].kind # kind]
  /\ UNCHANGED <<alive, pool, exists, settled, effect>>

StartCreate(t, p) ==
  /\ Start(t, "create", p)
  /\ UNCHANGED <<leases, stage, attempt>>

\* Slip: a deleted pool keeps its renewer.
StopLease_forgotten(p) == UNCHANGED <<leases, stage>>

\* stop_lease: under the mutex, the entry goes and its task is aborted.
StopLease(p) ==
  /\ leases' = [leases EXCEPT ![p] = NoRenewer]
  /\ stage' = [r \in Renewers |-> IF r = leases[p] THEN "aborted" ELSE stage[r]]

\* The lease is stopped before the DELETE is sent.
StartDelete(t, p) ==
  /\ Start(t, "delete", p)
  /\ StopLease(p)
  /\ UNCHANGED attempt

\* The server handles the request: it may refuse it, and its answer may be lost after
\* it took effect.
Serve(t) ==
  LET p == call[t].pool
      answered(a) == IF call[t].awaited THEN [call[t] EXCEPT !.at = a] ELSE Idle
  IN /\ call[t].at = "sent"
     /\ \/ /\ call[t].kind = "create"
           /\ exists' = exists \cup {p}
           /\ effect' = [effect EXCEPT ![p] = "created"]
           /\ \E a \in {"ok", "failed"} : call' = [call EXCEPT ![t] = answered(a)]
        \/ /\ call[t].kind = "delete"
           /\ exists' = exists \ {p}
           /\ effect' = [effect EXCEPT ![p] = "deleted"]
           /\ \E a \in {IF p \in exists THEN "ok" ELSE "notfound", "failed"} :
                call' = [call EXCEPT ![t] = answered(a)]
        \/ /\ call' = [call EXCEPT ![t] = answered("failed")]
           /\ UNCHANGED <<exists, effect>>
     /\ UNCHANGED <<alive, leases, stage, pool, attempt, settled, clash>>

\* Slip: the registry is not looked at before a renewer is spawned.
Unleased_always(p) == TRUE

Unleased(p) == leases[p] = NoRenewer

\* start_lease: unless this client already renews the pool.
StartLease(p) ==
  \/ /\ ~Unleased(p)
     /\ UNCHANGED <<leases, stage, pool, attempt>>
  \/ /\ Unleased(p)
     /\ \E r \in Renewers :
          /\ stage[r] = "unborn"
          /\ stage' = [stage EXCEPT ![r] = "interval"]
          /\ pool' = [pool EXCEPT ![r] = p]
          /\ attempt' = [attempt EXCEPT ![r] = 0]
          /\ leases' = [leases EXCEPT ![p] = r]

Returned(t) == call' = [call EXCEPT ![t] = Idle] /\ UNCHANGED <<alive, exists, effect, clash>>

FinishCreate(t) ==
  LET p == call[t].pool
  IN /\ call[t].kind = "create"
     /\ \/ /\ call[t].at = "ok"
           /\ StartLease(p)
           /\ settled' = [settled EXCEPT ![p] = "created"]
        \/ /\ call[t].at = "failed"
           /\ UNCHANGED <<leases, stage, pool, attempt, settled>>
     /\ Returned(t)

\* "notfound" is Ok(false).
FinishDelete(t) ==
  /\ call[t].kind = "delete"
  /\ \/ /\ call[t].at \in {"ok", "notfound"}
        /\ settled' = [settled EXCEPT ![call[t].pool] = "deleted"]
     \/ call[t].at = "failed" /\ UNCHANGED settled
  /\ Returned(t)
  /\ UNCHANGED <<leases, stage, pool, attempt>>

\* The caller drops the future; a request under way goes on without it.
DropCall(t) ==
  /\ call[t].awaited
  /\ call' = [call EXCEPT ![t] =
       IF call[t].at = "sent" THEN [@ EXCEPT !.awaited = FALSE] ELSE Idle]
  /\ UNCHANGED <<alive, leases, stage, pool, attempt, exists, settled, effect, clash>>

---------------------------------------------------------------------------
(***************************************************************************)
(* What happens to a pool at the server without this client: its lease     *)
(* expires, a renewer's failed rounds or no round having come in time, or  *)
(* another client deletes it; another client creates it.  Nobody tells     *)
(* this client.                                                            *)
(***************************************************************************)
Elsewhere == UNCHANGED <<alive, leases, stage, pool, attempt, call, settled, effect, clash>>

Vanishes(p) ==
  /\ p \in exists
  /\ exists' = exists \ {p}
  /\ Elsewhere

MadeByAnother(p) ==
  /\ p \notin exists
  /\ exists' = exists \cup {p}
  /\ Elsewhere

---------------------------------------------------------------------------
(***************************************************************************)
(* LeaseRenewer::run.                                                      *)
(***************************************************************************)
Step(r, from, to) ==
  /\ stage[r] = from
  /\ stage' = [stage EXCEPT ![r] = to]
  /\ UNCHANGED <<alive, leases, pool, call, exists, settled, effect, clash>>

IntervalElapsed(r) ==
  /\ Step(r, "interval", "request")
  /\ attempt' = [attempt EXCEPT ![r] = 0]

Renewed(r) ==
  /\ Step(r, "request", "interval")
  /\ pool[r] \in exists
  /\ UNCHANGED attempt

\* Rejected, or the request failed.
RenewalFailed(r) ==
  /\ Step(r, "request", "backoff")
  /\ UNCHANGED attempt

\* Slip: one attempt too many.
MoreAttempts_late(r) == attempt[r] < LEASE_RENEWAL_MAX_RETRIES

MoreAttempts(r) == attempt[r] + 1 < LEASE_RENEWAL_MAX_RETRIES

BackoffElapsed(r) ==
  \/ /\ MoreAttempts(r)
     /\ Step(r, "backoff", "request")
     /\ attempt' = [attempt EXCEPT ![r] = @ + 1]
  \/ /\ ~MoreAttempts(r)
     /\ Step(r, "backoff", "interval")
     /\ UNCHANGED attempt

\* Drop for Inner: only when no call holds a clone.
DropClient ==
  /\ alive
  /\ \A t \in Tasks : ~call[t].awaited
  /\ alive' = FALSE
  /\ stage' = [r \in Renewers |->
       IF \E p \in Pools : leases[p] = r THEN "aborted" ELSE stage[r]]
  /\ leases' = [p \in Pools |-> NoRenewer]
  /\ UNCHANGED <<pool, attempt, call, exists, settled, effect, clash>>

Gone ==
  /\ ~alive /\ \A t \in Tasks : call[t] = Idle
  /\ UNCHANGED vars

Next ==
  \/ \E t \in Tasks :
       \/ \E p \in Pools : StartCreate(t, p) \/ StartDelete(t, p)
       \/ Serve(t) \/ FinishCreate(t) \/ FinishDelete(t) \/ DropCall(t)
  \/ \E r \in Renewers :
       IntervalElapsed(r) \/ Renewed(r) \/ RenewalFailed(r) \/ BackoffElapsed(r)
  \/ \E p \in Pools : Vanishes(p) \/ MadeByAnother(p)
  \/ DropClient
  \/ Gone

\* Timers fire; nothing is owed by the server, the network or the caller.
Fairness ==
  \A r \in Renewers : WF_vars(IntervalElapsed(r)) /\ WF_vars(BackoffElapsed(r))

Spec == Init /\ [][Next]_vars /\ Fairness

---------------------------------------------------------------------------
TypeOK ==
  /\ alive \in BOOLEAN
  /\ leases \in [Pools -> Renewers \cup {NoRenewer}]
  /\ stage \in [Renewers -> {"unborn", "interval", "request", "backoff", "aborted"}]
  /\ pool \in [Renewers -> Pools]
  /\ attempt \in [Renewers -> 0..LEASE_RENEWAL_MAX_RETRIES - 1]
  /\ call \in [Tasks -> Call]
  /\ exists \subseteq Pools
  /\ settled \in [Pools -> {"none", "created", "deleted"}]
  /\ effect \in [Pools -> {"none", "created", "deleted"}]
  /\ clash \in [Pools -> BOOLEAN]

\* Every running renewer is the registry's entry for its pool and every entry is a
\* running renewer: creates and deletes racing on clones of the client never leave
\* two renewers on a pool, nor one that delete and drop can no longer abort; after
\* the client's drop none runs.
RegistryExact ==
  /\ \A r \in Renewers : Running(r) => leases[pool[r]] = r
  /\ \A p \in Pools : leases[p] # NoRenewer =>
       alive /\ Running(leases[p]) /\ pool[leases[p]] = p

\* As long as a pool's creates and deletes do not overlap, this client's own calls
\* leave no renewer behind: a pool with a renewer is one whose latest call that the
\* server carried out was a create, never one this client deleted, even after lost
\* answers and dropped calls.  A pool that vanished on its own keeps its renewer, which
\* never stops by itself (pools.rs:229), until this client deletes the name.
NoOrphanWithoutOverlap ==
  \A p \in Pools : ~clash[p] /\ leases[p] # NoRenewer => effect[p] = "created"

\* "The returned pool's lease is renewed in the background until the client is
\* dropped": a pool whose create was the latest call to succeed, and that the server
\* still has, has a renewer.
CreatedPoolIsRenewed ==
  \A p \in Pools :
    alive /\ ~Busy(p) /\ settled[p] = "created" /\ p \in exists => leases[p] # NoRenewer
=============================================================================
