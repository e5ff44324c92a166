---------------------------- MODULE BoundedWait ----------------------------
(***************************************************************************)
(* What a bounded wait promises, without requests, sleeps or poll          *)
(* intervals: it looks at something that others change, says "ready" only  *)
(* if the thing was ready at some moment of the wait, gives up only when   *)
(* its time has passed, and may fail at any moment before it has ended.    *)
(***************************************************************************)
EXTENDS Naturals

VARIABLES
  clock,      \* time since the wait began
  patience,   \* how long the caller is ready to wait
  ready,      \* whether the thing is ready now
  wasReady,   \* whether it has been ready at some moment of the wait
  outcome     \* "none" while the wait lasts

vars == <<clock, patience, ready, wasReady, outcome>>

Init ==
  /\ clock = 0
  /\ patience \in Nat
  /\ ready \in BOOLEAN
  /\ wasReady = ready
  /\ outcome = "none"

Pass ==
  /\ clock' = clock + 1
  /\ UNCHANGED <<patience, ready, wasReady, outcome>>

\* The thing changes, whatever the wait does.
Change ==
  /\ ready' \in BOOLEAN
  /\ wasReady' = (wasReady \/ ready')
  /\ UNCHANGED <<clock, patience, outcome>>

End(o) ==
  /\ outcome = "none"
  /\ o = "ready" => wasReady
  /\ o = "timeout" => clock >= patience
  /\ outcome' = o
  /\ UNCHANGED <<clock, patience, ready, wasReady>>

Next == Pass \/ Change \/ \E o \in {"ready", "timeout", "failed"} : End(o)

Spec == Init /\ [][Next]_vars
=============================================================================
