----------------------------- MODULE LineDecoder -----------------------------
(***************************************************************************)
(* Line framing over a byte stream (src/wire/sse.rs, LineDecoder): bytes   *)
(* come in chunks cut anywhere, lines go out.  A byte is "n" (newline),    *)
(* "r" (carriage return) or another symbol of Alphabet.                    *)
(***************************************************************************)
EXTENDS Integers, FiniteSets, SequencesExt

CONSTANTS
  Alphabet,    \* the bytes, "n" and "r" among them
  MaxBytes     \* bound on the bytes of one body

ASSUME DecoderAssumption == {"n", "r"} \subseteq Alphabet /\ MaxBytes \in Nat

VARIABLES
  received,    \* every byte the connection delivered so far
  buffer,      \* LineDecoder::buffer
  lines,       \* the lines handed to the caller so far
  closed       \* the connection is closed and finish() was called

vars == <<received, buffer, lines, closed>>

BytesUpTo(n) == SeqOf(Alphabet, n)

Trim(line) ==
  IF line # <<>> /\ Last(line) = "r" THEN Front(line) ELSE line

\* One turn of push's loop: what stands before the first newline goes out as a
\* line, what stands after it stays.
Cut(drained) ==
  LET bytes == drained.rest
      index == CHOOSE i \in 1..Len(bytes) : bytes[i] = "n" /\ \A j \in 1..i - 1 : bytes[j] # "n"
  IN IF \A i \in 1..Len(bytes) : bytes[i] # "n" THEN drained
     ELSE [lines |-> Append(drained.lines, Trim(SubSeq(bytes, 1, index - 1))),
           rest |-> SubSeq(bytes, index + 1, Len(bytes))]

\* Slip: only the first line of a chunk is drained.
Drain_once(bytes) == Cut([lines |-> <<>>, rest |-> bytes])

\* The loop of push, turn by turn: it is over before it runs out of bytes.
Turns(bytes) ==
  LET turn[k \in 0..Len(bytes)] ==
        IF k = 0 THEN [lines |-> <<>>, rest |-> bytes] ELSE Cut(turn[k - 1])
  IN turn

Drain(bytes) == Turns(bytes)[Len(bytes)]

Init == received = <<>> /\ buffer = <<>> /\ lines = <<>> /\ closed = FALSE

Push(chunk) ==
  LET drained == Drain(buffer \o chunk)
  IN /\ ~closed
     /\ received' = received \o chunk
     /\ buffer' = drained.rest
     /\ lines' = lines \o drained.lines
     /\ UNCHANGED closed

\* A body that ended without a newline still has a last line.
Finish ==
  /\ ~closed
  /\ closed' = TRUE
  /\ lines' = IF buffer = <<>> THEN lines ELSE Append(lines, Trim(buffer))
  /\ buffer' = <<>>
  /\ UNCHANGED received

Next ==
  \/ \E chunk \in BytesUpTo(MaxBytes - Len(received)) : Push(chunk)
  \/ Finish

Spec == Init /\ [][Next]_vars

---------------------------------------------------------------------------
Newlines(s) == {i \in DOMAIN s : s[i] = "n"}

\* The line that a newline at i ends, by position instead of by loop: what lies
\* between it and the newline before it.
LineAt(s, i) ==
  LET before == {j \in Newlines(s) : j < i}
      first == IF before = {} THEN 1 ELSE 1 + CHOOSE j \in before : \A k \in before : k <= j
  IN Trim(SubSeq(s, first, i - 1))

\* The lines of the bytes of s up to the bound: the k-th newline ends the k-th.
FramedTo(ls, s, bound) ==
  LET ends == {i \in Newlines(s) : i <= bound}
  IN /\ Len(ls) = Cardinality(ends)
     /\ \A i \in ends : ls[Cardinality({j \in ends : j <= i})] = LineAt(s, i)

Framed(ls, s) == FramedTo(ls, s, Len(s))

\* How a body is cut into chunks makes no difference (push, finish): a "\r\n" or a
\* line cut between two chunks comes out as in one piece, nothing is lost, repeated
\* or reordered, and what has no newline yet waits in the buffer.
FramingIgnoresChunks ==
  IF ~closed
  THEN /\ Framed(lines, received)
       /\ Newlines(buffer) = {} /\ IsSuffix(buffer, received)
       /\ Len(buffer) < Len(received) => received[Len(received) - Len(buffer)] = "n"
  ELSE IF received = <<>> \/ Last(received) = "n" THEN Framed(lines, received)
  ELSE /\ lines # <<>> /\ Framed(Front(lines), received)
       /\ Last(lines) = LineAt(received, Len(received) + 1)
=============================================================================
