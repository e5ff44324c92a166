-------------------------- MODULE RequestContract --------------------------
(***************************************************************************)
(* What a client promises about the calls made on it, without budgets,     *)
(* sleeps, error codes or queues: a call is opened once and closed once,   *)
(* only an open call has a request on the wire, at most Limit requests are *)
(* on the wire, and a call that must not be repeated sends nothing more    *)
(* once a worker may have run it.  A stream's body is read after the call  *)
(* has returned and is not on the wire in this sense.                      *)
(***************************************************************************)
EXTENDS Naturals, FiniteSets

CONSTANTS Calls, Limit

VARIABLES
  once,     \* the calls whose request must not be run twice
  status,   \* "idle", "open" or "closed"
  wire,     \* the calls with a request sent and not yet answered
  ran       \* the calls a worker may have run

vars == <<once, status, wire, ran>>

TypeOK ==
  /\ once \subseteq Calls
  /\ status \in [Calls -> {"idle", "open", "closed"}]
  /\ wire \subseteq Calls
  /\ ran \subseteq Calls

Init ==
  /\ once \subseteq Calls
  /\ status = [c \in Calls |-> "idle"]
  /\ wire = {}
  /\ ran = {}

Open(c) ==
  /\ status[c] = "idle"
  /\ status' = [status EXCEPT ![c] = "open"]
  /\ UNCHANGED <<once, wire, ran>>

Put(c) ==
  /\ status[c] = "open"
  /\ c \notin wire
  /\ Cardinality(wire) < Limit
  /\ c \in once => c \notin ran
  /\ wire' = wire \cup {c}
  /\ UNCHANGED <<once, status, ran>>

\* The request is answered, lost or dropped; the call may go on or be over.
Back(c) ==
  /\ c \in wire
  /\ wire' = wire \ {c}
  /\ ran' \in {ran, ran \cup {c}}
  /\ status' \in {status, [status EXCEPT ![c] = "closed"]}
  /\ UNCHANGED once

Close(c) ==
  /\ status[c] = "open"
  /\ c \notin wire
  /\ status' = [status EXCEPT ![c] = "closed"]
  /\ UNCHANGED <<once, wire, ran>>

Next == \E c \in Calls : Open(c) \/ Put(c) \/ Back(c) \/ Close(c)

Spec == Init /\ [][Next]_vars
=============================================================================
