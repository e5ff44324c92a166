------------------------------- MODULE Fields -------------------------------
(***************************************************************************)
(* Objects whose fields may be absent, and results that may be errors: the *)
(* vocabulary of the request and answer models.  An object is a function   *)
(* from the names of its fields to their values.                           *)
(***************************************************************************)
EXTENDS Integers, Sequences, FiniteSets

CONSTANT None      \* Option::None, a missing field, JSON's null

Empty == [f \in {} |-> None]

IsObject(o) == o = [f \in DOMAIN o |-> o[f]]

IsList(s) == IsObject(s) /\ Len(s) \in Nat /\ DOMAIN s = 1..Len(s)

\* The fields of an object that have a value: Option::is_none fields skipped.
Given(o) == [f \in {g \in DOMAIN o : o[g] # None} |-> o[f]]

\* The entries of a, and those of b for the fields a lacks.
Over(a, b) ==
  [f \in DOMAIN a \cup DOMAIN b |-> IF f \in DOMAIN a THEN a[f] ELSE b[f]]

a ++ b == Over(a, b)

Without(o, fields) == [f \in DOMAIN o \ fields |-> o[f]]

Only(o, fields) == [f \in DOMAIN o \cap fields |-> o[f]]

Get(o, f) == IF f \in DOMAIN o THEN o[f] ELSE None

Or(a, b) == IF a = None THEN b ELSE a

Ok(v) == [ok |-> TRUE, value |-> v]
Err(e) == [ok |-> FALSE, error |-> e]

\* collect::<Result<Vec<_>>>: the values, or the first error.
All(results) ==
  LET bad == {i \in DOMAIN results : ~results[i].ok}
  IN IF bad = {} THEN Ok([i \in DOMAIN results |-> results[i].value])
     ELSE results[CHOOSE i \in bad : \A j \in bad : i <= j]
=============================================================================
