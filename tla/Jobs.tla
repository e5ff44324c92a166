-------------------------------- MODULE Jobs --------------------------------
(***************************************************************************)
(* A batch job on the server, a wait for it, and the download of its       *)
(* results (src/client/jobs.rs).  Jobs::results reads the status once and  *)
(* then fetches chunk after chunk; meanwhile the job goes on, payloads     *)
(* expire, and another task may run the job again.  The waits are module   *)
(* Polling's; as results looks at the job itself, whether the caller has   *)
(* waited before makes no difference to it, and the model's caller asks    *)
(* for one or the other.                                                   *)
(***************************************************************************)
EXTENDS Polling, Sequences, FiniteSets, Functions

CONSTANT MaxChunks   \* bounds the chunks of a job in the model only

VARIABLES
  output,       \* the chunks the server has, in order
  stage,        \* where results is: "idle", "getting", "reading", "done", "failed"
  chunks,       \* results' local: the chunks of the status it read
  next,         \* the chunk the loop is at
  items,        \* results' local: the chunk of each row decoded so far
  retrieved,    \* results' local
  cause         \* why results failed

download == <<stage, chunks, next, items, retrieved, cause>>
jobVars == <<vars, output, download>>

---------------------------------------------------------------------------
(***************************************************************************)
(* Chunks.  A reference may be absent, empty, or the URL of a payload; the *)
(* payload is rows, a value that is not an array, bytes that are not       *)
(* msgpack, or gone once it has expired.                                   *)
(***************************************************************************)
JobChunk == [state : {"pending", "succeeded", "failed"},
             ref : {"none", "empty", "url"},
             payload : {"none", "rows", "other", "garbled", "gone"}]

Pending == [state |-> "pending", ref |-> "none", payload |-> "none"]

Finished ==
  {c \in JobChunk :
     \/ c.state = "succeeded" /\ c.ref = "url" /\ c.payload \in {"rows", "other", "garbled"}
     \/ c.state # "pending" /\ c.ref # "url" /\ c.payload = "none"}

\* What the server may hold for the job: no chunk of a job that succeeded is
\* pending.
Outputs ==
  UNION {[1..n -> IF world.state = "succeeded" THEN Finished ELSE Finished \cup {Pending}] :
           n \in 0..MaxChunks}

JobsInit ==
  /\ Init
  /\ output = <<>>
  /\ stage = "idle"
  /\ chunks = <<>>
  /\ next = 1
  /\ items = <<>>
  /\ retrieved = 0
  /\ cause = "none"

\* A running job finishes a chunk.
ChunkFinished ==
  /\ world.kind = "job" /\ world.state = "running"
  /\ \E i \in DOMAIN output, c \in Finished :
       /\ output[i] = Pending
       /\ output' = [output EXCEPT ![i] = c]
  /\ UNCHANGED <<vars, download>>

\* The store drops a payload whose time is over.
ChunkExpired ==
  /\ \E i \in DOMAIN output :
       /\ output[i].payload \in {"rows", "other", "garbled"}
       /\ output' = [output EXCEPT ![i].payload = "gone"]
  /\ UNCHANGED <<vars, download>>

\* What a repair runs again: the chunks that failed.
Repaired(c) == IF c.state = "failed" THEN Pending ELSE c

\* The job moves.  It succeeds when nothing of it is pending; a repair runs
\* the failed chunks again.
JobMoves ==
  /\ WorldMoves
  /\ world'.kind = "job" /\ world'.state = "succeeded" =>
       \A i \in DOMAIN output : output[i].state # "pending"
  /\ output' = IF world.kind = "job" /\ world.state = "failed"
               THEN [i \in DOMAIN output |-> Repaired(output[i])]
               ELSE output
  /\ UNCHANGED download

---------------------------------------------------------------------------
\* The caller asks for the results; from here on the chunks matter.
CallResults ==
  /\ stage = "idle" /\ loop = "job" /\ phase = "look" /\ now = 0
  /\ stage' = "getting"
  /\ phase' = "over"
  /\ output' \in Outputs
  /\ UNCHANGED <<now, caller, request, wakeAt, result, world, history>>
  /\ UNCHANGED <<chunks, next, items, retrieved, cause>>

Fails(why) ==
  /\ stage' = "failed"
  /\ cause' = why
  /\ UNCHANGED <<vars, output, chunks, next, items, retrieved>>

\* Jobs::get, and JobStatus::chunks, which has no chunks where the output is
\* absent or does not parse.
GotStatus ==
  /\ stage = "getting"
  /\ stage' = "reading"
  /\ chunks' \in {output, <<>>}
  /\ UNCHANGED <<vars, output, next, items, retrieved, cause>>

GetFailed == stage = "getting" /\ Fails("request")

\* Slip: a chunk without a reference is as good as one with.
chunk_is_retrievable_refless(chunk) == chunk.state = "succeeded"

chunk_is_retrievable(chunk) == chunk.state = "succeeded" /\ chunk.ref = "url"

Reading == stage = "reading" /\ next <= Len(chunks)

\* Slip: count what was passed over.
Skipped_counted == retrieved + 1

Skipped == retrieved

Skip ==
  /\ Reading
  /\ ~chunk_is_retrievable(chunks[next])
  /\ next' = next + 1
  /\ retrieved' = Skipped
  /\ UNCHANGED <<vars, output, stage, chunks, items, cause>>

\* The payload the store has now, under the reference the status had then.
Payload == output[next].payload

Fetchable == Reading /\ chunk_is_retrievable(chunks[next])

\* read_ref and decode_chunk: a value that is not an array has no rows.
ChunkRead ==
  /\ Fetchable
  /\ Payload \in {"rows", "other"}
  /\ items' = IF Payload = "rows" THEN Append(items, next) ELSE items
  /\ retrieved' = retrieved + 1
  /\ next' = next + 1
  /\ UNCHANGED <<vars, output, stage, chunks, cause>>

ChunkGarbled == Fetchable /\ Payload = "garbled" /\ Fails("decode")

\* The store answers 403 or 404 for what has expired.
ChunkGone == Fetchable /\ Payload \in {"gone", "none"} /\ Fails("bad_ref")

\* The transfer fails; it is not tried again.
ChunkLost == Fetchable /\ Fails("connection")

ResultsDone ==
  /\ stage = "reading" /\ next > Len(chunks)
  /\ stage' = "done"
  /\ UNCHANGED <<vars, output, chunks, next, items, retrieved, cause>>

Results ==
  \/ CallResults \/ GotStatus \/ GetFailed
  \/ Skip \/ ChunkRead \/ ChunkGarbled \/ ChunkGone \/ ChunkLost \/ ResultsDone

Wait == (Step \/ Serve \/ Tick) /\ UNCHANGED <<output, download>>

Quiet == phase = "over" /\ stage \in {"idle", "done", "failed"}

\* The server goes on for as long as somebody looks.
Server == ~Quiet /\ (JobMoves \/ ChunkFinished \/ ChunkExpired)

\* Only then may the system stop.
Quiescent == Quiet /\ UNCHANGED jobVars

JobsNext == Wait \/ Server \/ Results \/ Quiescent

\* Every request of results gets its permit and has a timeout, and the runtime polls it.
JobsFairness ==
  /\ Fairness
  /\ WF_jobVars(GotStatus \/ GetFailed)
  /\ WF_jobVars(Skip \/ ChunkRead \/ ChunkGarbled \/ ChunkGone \/ ResultsDone)

JobsSpec == JobsInit /\ [][JobsNext]_jobVars /\ JobsFairness

---------------------------------------------------------------------------
Retrievable == {i \in DOMAIN chunks : chunks[i].state = "succeeded" /\ chunks[i].ref = "url"}

\* What results returns is exactly the rows of the chunks its status said could
\* be had, in their order and once each, and retrieved counts those chunks:
\* never a part of them reported as all (jobs.rs:366-384).
ResultsExact ==
  stage = "done" =>
    /\ \A i, j \in DOMAIN items : i < j => items[i] < items[j]
    /\ Range(items) = {i \in Retrievable : chunks[i].payload = "rows"}
    /\ retrieved = Cardinality(Retrievable)

\* "Chunks that failed, or whose payload has expired, are reported in `chunks`
\* but contribute no items" (jobs.rs:361): an expired payload must not fail the
\* whole call.
ExpiredIsSkipped == cause # "bad_ref"
=============================================================================
