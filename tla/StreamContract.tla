--------------------------- MODULE StreamContract ---------------------------
(***************************************************************************)
(* What a client promises about one generation read as a stream, without   *)
(* connections, events, sleeps or error codes: a stream may ask again only *)
(* while its consumer has nothing, and only within the time it was given;  *)
(* what the consumer gets comes from the latest request; and a stream is   *)
(* over once, when its time is up at the latest.                           *)
(***************************************************************************)
EXTENDS Naturals

CONSTANT Streams

VARIABLES
  now,      \* the time
  budget,   \* per stream: the time it is given, over all its requests
  status,   \* "idle", "open", or how it is over: "ended", "failed", "dropped"
  since,    \* when it was opened
  sent,     \* how many requests it sent
  sources   \* the requests its consumer has chunks of, by number

vars == <<now, budget, status, since, sent, sources>>

Init ==
  /\ now \in Nat
  /\ budget \in [Streams -> Nat]
  /\ status = [s \in Streams |-> "idle"]
  /\ since = [s \in Streams |-> 0]
  /\ sent = [s \in Streams |-> 0]
  /\ sources = [s \in Streams |-> {}]

Open(s) ==
  /\ status[s] = "idle"
  /\ status' = [status EXCEPT ![s] = "open"]
  /\ since' = [since EXCEPT ![s] = now]
  /\ UNCHANGED <<now, budget, sent, sources>>

Ask(s) ==
  /\ status[s] = "open" /\ sources[s] = {}
  /\ now < since[s] + budget[s]
  /\ sent' = [sent EXCEPT ![s] = @ + 1]
  /\ UNCHANGED <<now, budget, status, since, sources>>

\* A chunk, which may be the last thing a body has.
Deliver(s) ==
  /\ status[s] = "open" /\ sent[s] > 0
  /\ sources' = [sources EXCEPT ![s] = @ \cup {sent[s]}]
  /\ status' \in {status, [status EXCEPT ![s] = "ended"]}
  /\ UNCHANGED <<now, budget, since, sent>>

\* A stream that sent nothing does not end well.
Stop(s, how) ==
  /\ status[s] = "open"
  /\ how = "ended" => sent[s] > 0
  /\ status' = [status EXCEPT ![s] = how]
  /\ UNCHANGED <<now, budget, since, sent, sources>>

Pass ==
  /\ \A s \in Streams : status[s] = "open" => now < since[s] + budget[s]
  /\ now' = now + 1
  /\ UNCHANGED <<budget, status, since, sent, sources>>

Next ==
  \/ \E s \in Streams :
       \/ Open(s) \/ Ask(s) \/ Deliver(s)
       \/ \E how \in {"ended", "failed", "dropped"} : Stop(s, how)
  \/ Pass

Spec == Init /\ [][Next]_vars
=============================================================================
