------------------------- MODULE LineDecoderProofs -------------------------
(***************************************************************************)
(* Framing is the same however a body is cut: for any alphabet, any body   *)
(* and any chunks.  The loop of push is followed turn by turn with the     *)
(* place in the whole body that it has come to: what is before that place  *)
(* is framed, what is after it is the rest (Reached).                      *)
(***************************************************************************)
EXTENDS LineDecoder, FiniteSetTheorems, WellFoundedInduction, TLAPS

---------------------------------------------------------------------------
(***************************************************************************)
(* Induction over the turns of one drain                                   *)
(***************************************************************************)
LEMMA LeastExists ==
  ASSUME NEW S \in SUBSET Nat, S # {}
  PROVE  \E x \in S : \A y \in S : x <= y
<1> DEFINE Below == {p \in Nat \X Nat : p[1] < p[2]}
<1>1. IsWellFoundedOn(Below, Nat)
  BY NatLessThanWellFounded DEF OpToRel
<1> HIDE DEF Below
<1>2. \E x \in S : \A y \in S : <<y, x>> \notin Below
  BY <1>1, WFMin
<1>3. \A x, y \in S : <<y, x>> \notin Below => x <= y
  BY DEF Below
<1> QED
  BY <1>2, <1>3

\* A set of numbers that has 0 and the successor of each of its numbers below n
\* has all numbers up to n.
LEMMA Reaches ==
  ASSUME NEW n \in Nat, NEW S, 0 \in S, \A k \in 0..n - 1 : k \in S => k + 1 \in S
  PROVE  0..n \subseteq S
<1> DEFINE missing == {k \in 0..n : k \notin S}
<1>1. missing \in SUBSET Nat
  OBVIOUS
<1>2. ASSUME missing # {} PROVE FALSE
  <2> HIDE DEF missing
  <2>1. PICK x \in missing : \A y \in missing : x <= y
    BY <1>1, <1>2, LeastExists
  <2>2. x \in 0..n /\ x \notin S
    BY <2>1 DEF missing
  <2>3. x - 1 \in 0..n - 1 /\ x - 1 \notin missing
    BY <2>1, <2>2
  <2>4. x - 1 \in S
    BY <2>3 DEF missing
  <2> QED
    BY <2>2, <2>3, <2>4
<1> QED
  BY <1>2

\* The turns are there, each the cut of the one before.
LEMMA TurnsAreCuts ==
  ASSUME NEW bytes, Len(bytes) \in Nat
  PROVE  /\ Turns(bytes)[0] = [lines |-> <<>>, rest |-> bytes]
         /\ \A k \in 0..Len(bytes) - 1 : Turns(bytes)[k + 1] = Cut(Turns(bytes)[k])
<1> DEFINE begin == [lines |-> <<>>, rest |-> bytes]
           n == Len(bytes)
           IsTurns(g, m) == g = [k \in 0..m |-> IF k = 0 THEN begin ELSE Cut(g[k - 1])]
           S == {m \in Nat : \E g : IsTurns(g, m)}
<1>1. 0 \in S
  <2> DEFINE g == [k \in 0..0 |-> begin]
  <2>1. IsTurns(g, 0)
    OBVIOUS
  <2> QED
    BY <2>1
<1>2. ASSUME NEW m \in 0..n - 1, m \in S PROVE m + 1 \in S
  <2>1. PICK g : IsTurns(g, m)
    BY <1>2
  <2> DEFINE h == [k \in 0..m + 1 |-> IF k = m + 1 THEN Cut(g[m]) ELSE g[k]]
  <2>2. ASSUME NEW k \in 0..m + 1 PROVE h[k] = IF k = 0 THEN begin ELSE Cut(h[k - 1])
    <3> HIDE DEF begin
    <3>1. CASE k = m + 1
      BY <3>1
    <3>2. CASE k \in 0..m
      <4>1. h[k] = g[k] /\ g[k] = IF k = 0 THEN begin ELSE Cut(g[k - 1])
        BY <2>1, <3>2
      <4>2. k # 0 => h[k - 1] = g[k - 1]
        BY <3>2
      <4> QED
        BY <4>1, <4>2
    <3> QED
      BY <3>1, <3>2
  <2>3. h = [k \in 0..m + 1 |-> IF k = 0 THEN begin ELSE Cut(h[k - 1])]
    <3> HIDE DEF begin
    <3>1. h = [k \in 0..m + 1 |-> h[k]]
      OBVIOUS
    <3> HIDE DEF h
    <3> QED
      BY <2>2, <3>1
  <2>4. IsTurns(h, m + 1)
    BY <2>3
  <2> HIDE DEF h
  <2> QED
    BY <2>4
<1>3. n \in S
  <2>1. n \in Nat /\ \A m \in 0..n - 1 : m \in S => m + 1 \in S
    BY <1>2
  <2> HIDE DEF S, n
  <2>2. 0..n \subseteq S
    BY <1>1, <2>1, Reaches
  <2> QED
    BY <2>1, <2>2
<1>4. IsTurns(Turns(bytes), n)
  BY <1>3 DEF Turns
<1> HIDE DEF begin
<1>5. Turns(bytes)[0] = begin /\ \A k \in 1..n : Turns(bytes)[k] = Cut(Turns(bytes)[k - 1])
  BY <1>4
<1> QED
  BY <1>5 DEF begin

---------------------------------------------------------------------------
(***************************************************************************)
(* Lines by position                                                       *)
(***************************************************************************)
Bytes == Seq(Alphabet)

\* A place in s that a line begins after: its start or a newline.
Boundary(s, b) == b \in 0..Len(s) /\ (b > 0 => s[b] = "n")

LEMMA GreatestExists ==
  ASSUME NEW n \in Nat, NEW S \in SUBSET (0..n), S # {}
  PROVE  \E x \in S : \A y \in S : y <= x
<1> DEFINE T == {k \in 0..n : n - k \in S}
<1>1. T \in SUBSET Nat
  OBVIOUS
<1>e. T # {}
  <2>1. PICK y \in S : TRUE
    OBVIOUS
  <2>2. n - y \in T
    BY <2>1
  <2> HIDE DEF T
  <2> QED
    BY <2>2
<1> HIDE DEF T
<1>2. PICK k \in T : \A l \in T : k <= l
  BY <1>1, <1>e, LeastExists
<1>3. n - k \in S /\ k \in 0..n
  BY <1>2 DEF T
<1>4. ASSUME NEW y \in S PROVE y <= n - k
  <2>1. n - y \in T
    BY DEF T
  <2> QED
    BY <1>2, <1>3, <2>1
<1> QED
  BY <1>3, <1>4

LEMMA TrimTyped == ASSUME NEW s \in Bytes PROVE Trim(s) \in Bytes
BY DEF Trim, Front, Last, Bytes

\* What stands between a boundary and a newline is that newline's line.
LEMMA LineFrom ==
  ASSUME NEW s \in Bytes, NEW b, Boundary(s, b), NEW c \in b + 1..Len(s) + 1,
         \A i \in b + 1..c - 1 : s[i] # "n"
  PROVE  LineAt(s, c) = Trim(SubSeq(s, b + 1, c - 1))
<1> DEFINE before == {j \in Newlines(s) : j < c}
<1>1. before \subseteq 1..b
  BY DEF Newlines, Boundary, Bytes
<1>2. CASE b = 0
  BY <1>1, <1>2 DEF LineAt
<1>3. CASE b > 0
  <2>1. b \in before
    BY <1>3 DEF Boundary, Newlines, Bytes
  <2> HIDE DEF before
  <2>2. \A j \in before : j <= b
    BY <1>1
  <2>3. (CHOOSE j \in before : \A k \in before : k <= j) = b
    <3>1. \A j \in before : (\A k \in before : k <= j) => j = b
      BY <1>1, <2>1, <2>2 DEF Boundary
    <3> QED
      BY <2>1, <2>2, <3>1
  <2>4. LineAt(s, c) =
          Trim(SubSeq(s, IF before = {} THEN 1
                         ELSE 1 + CHOOSE j \in before : \A k \in before : k <= j, c - 1))
    BY DEF LineAt, before
  <2>5. 1 + b = b + 1
    BY DEF Boundary, Bytes
  <2> QED
    BY <2>1, <2>3, <2>4, <2>5
<1> QED
  BY <1>2, <1>3 DEF Boundary

\* The newlines up to a place are finitely many.
LEMMA EndsFinite ==
  ASSUME NEW s \in Bytes, NEW b \in Int
  PROVE  /\ {i \in Newlines(s) : i <= b} \subseteq 1..Len(s)
         /\ IsFiniteSet({i \in Newlines(s) : i <= b})
<1>1. {i \in Newlines(s) : i <= b} \subseteq 1..Len(s)
  BY DEF Newlines, Bytes
<1>2. IsFiniteSet(1..Len(s))
  BY FS_Interval DEF Bytes
<1> QED
  BY <1>1, <1>2, FS_Subset

\* The next newline ends the next line.
LEMMA NextLine ==
  ASSUME NEW s \in Bytes, NEW b, Boundary(s, b), NEW c \in b + 1..Len(s), s[c] = "n",
         \A i \in b + 1..c - 1 : s[i] # "n",
         NEW ls \in Seq(Bytes), FramedTo(ls, s, b)
  PROVE  FramedTo(Append(ls, Trim(SubSeq(s, b + 1, c - 1))), s, c)
<1> DEFINE ends == {i \in Newlines(s) : i <= b}
           next == {i \in Newlines(s) : i <= c}
           line == Trim(SubSeq(s, b + 1, c - 1))
           longer == Append(ls, line)
<1>1. ends \subseteq 1..b /\ IsFiniteSet(ends) /\ b \in Nat
  BY EndsFinite DEF Boundary, Bytes, Newlines
<1>2. next = ends \cup {c} /\ c \notin ends
  BY DEF Newlines, Boundary, Bytes
<1>3. Len(ls) = Cardinality(ends)
      /\ \A i \in ends : ls[Cardinality({j \in ends : j <= i})] = LineAt(s, i)
  BY DEF FramedTo
<1>4. line = LineAt(s, c)
  BY LineFrom
<1> HIDE DEF ends, next, line
<1>5. Cardinality(next) = Len(ls) + 1
  BY <1>1, <1>2, <1>3, FS_AddElement
<1>6. /\ Len(longer) = Len(ls) + 1 /\ longer[Len(ls) + 1] = line
      /\ \A k \in 1..Len(ls) : longer[k] = ls[k]
  OBVIOUS
<1>7. ASSUME NEW i \in ends
      PROVE  longer[Cardinality({j \in next : j <= i})] = LineAt(s, i)
  <2> DEFINE upto == {j \in ends : j <= i}
  <2>1. {j \in next : j <= i} = upto
    BY <1>1, <1>2
  <2>2. upto \in SUBSET ends /\ i \in upto
    BY <1>1
  <2> HIDE DEF upto
  <2>3. IsFiniteSet(upto) /\ Cardinality(upto) <= Cardinality(ends)
    BY <1>1, <2>2, FS_Subset
  <2>4. Cardinality(upto) \in Nat /\ Cardinality(upto) # 0
    BY <2>2, <2>3, FS_CardinalityType, FS_EmptySet
  <2>5. Cardinality(upto) \in 1..Len(ls)
    BY <1>3, <2>3, <2>4
  <2>6. ls[Cardinality(upto)] = LineAt(s, i)
    BY <1>3 DEF upto
  <2> QED
    BY <1>6, <2>1, <2>5, <2>6
<1>8. longer[Cardinality({j \in next : j <= c})] = LineAt(s, c)
  <2>1. {j \in next : j <= c} = next
    BY DEF next
  <2> QED
    BY <1>4, <1>5, <1>6, <2>1
<1> QED
  BY <1>2, <1>5, <1>6, <1>7, <1>8 DEF FramedTo, next, line

\* What was framed of a body stays so when more of it comes.
LEMMA MoreBytes ==
  ASSUME NEW s \in Bytes, NEW t \in Bytes, Len(s) <= Len(t), \A i \in 1..Len(s) : t[i] = s[i],
         NEW b, Boundary(s, b), \A i \in b + 1..Len(s) : s[i] # "n",
         NEW ls, Framed(ls, s)
  PROVE  FramedTo(ls, t, b)
<1> DEFINE ends == {i \in Newlines(s) : i <= Len(s)}
           mine == {i \in Newlines(t) : i <= b}
<1>0. Len(s) \in Nat /\ Len(t) \in Nat /\ DOMAIN s = 1..Len(s) /\ DOMAIN t = 1..Len(t)
      /\ b \in 0..Len(s)
  BY DEF Bytes, Boundary
<1>1. mine = ends
  <2>1. ASSUME NEW i \in Nat PROVE i \in mine <=> i \in ends
    BY <1>0 DEF Newlines
  <2>2. mine \subseteq Nat /\ ends \subseteq Nat
    BY <1>0 DEF Newlines
  <2> QED
    BY <2>1, <2>2
<1>2. ASSUME NEW i \in ends PROVE LineAt(t, i) = LineAt(s, i)
  <2>1. i \in 1..Len(s) /\ i <= b /\ s[i] = "n"
    BY <1>0, <1>1 DEF Newlines
  <2> DEFINE before == {j \in 0..i - 1 : j > 0 => s[j] = "n"}
  <2>2. PICK a \in before : \A j \in before : j <= a
    <3>1. before \in SUBSET (0..i - 1) /\ 0 \in before /\ i - 1 \in Nat
      BY <2>1
    <3> HIDE DEF before
    <3> QED
      BY <3>1, GreatestExists
  <2>3. a \in 0..i - 1 /\ (a > 0 => s[a] = "n")
    BY <2>2
  <2>4. \A j \in a + 1..i - 1 : s[j] # "n"
    <3> SUFFICES ASSUME NEW j \in a + 1..i - 1, s[j] = "n" PROVE FALSE
      OBVIOUS
    <3>1. j \in before
      BY <2>3
    <3> HIDE DEF before
    <3> QED
      BY <2>2, <2>3, <3>1
  <2> HIDE DEF before
  <2>5. LineAt(s, i) = Trim(SubSeq(s, a + 1, i - 1))
    <3>1. Boundary(s, a) /\ i \in a + 1..Len(s) + 1
      BY <1>0, <2>1, <2>3 DEF Boundary
    <3> QED
      BY <2>4, <3>1, LineFrom
  <2>6. LineAt(t, i) = Trim(SubSeq(t, a + 1, i - 1))
    <3>1. Boundary(t, a) /\ i \in a + 1..Len(t) + 1
      BY <1>0, <2>1, <2>3 DEF Boundary
    <3>2. \A j \in a + 1..i - 1 : t[j] # "n"
      BY <1>0, <2>1, <2>3, <2>4
    <3> QED
      BY <3>1, <3>2, LineFrom
  <2>7. SubSeq(t, a + 1, i - 1) = SubSeq(s, a + 1, i - 1)
    <3>1. \A k \in 1..i - 1 - a : t[a + k] = s[a + k]
      BY <1>0, <2>1, <2>3
    <3> QED
      BY <1>0, <2>1, <2>3, <3>1
  <2> QED
    BY <2>5, <2>6, <2>7
<1> HIDE DEF mine, ends
<1>3. Len(ls) = Cardinality(ends)
      /\ \A i \in ends : ls[Cardinality({j \in ends : j <= i})] = LineAt(s, i)
  BY DEF Framed, FramedTo, ends
<1>4. Len(ls) = Cardinality(mine)
      /\ \A i \in mine : ls[Cardinality({j \in mine : j <= i})] = LineAt(t, i)
  BY <1>1, <1>2, <1>3
<1> QED
  BY <1>4 DEF FramedTo, mine

---------------------------------------------------------------------------
(***************************************************************************)
(* One push                                                                *)
(***************************************************************************)
\* The turns of a drain have come to a place in the body: what was handed out frames
\* what is before it, what is left is what is after it.
Reached(ls, drained, s, b) ==
  /\ Boundary(s, b)
  /\ drained.lines \in Seq(Bytes)
  /\ drained.rest = SubSeq(s, b + 1, Len(s))
  /\ FramedTo(ls \o drained.lines, s, b)

LEMMA RestOf ==
  ASSUME NEW s \in Bytes, NEW b \in 0..Len(s)
  PROVE  LET rest == SubSeq(s, b + 1, Len(s))
         IN  /\ rest \in Bytes /\ Len(rest) = Len(s) - b
             /\ \A i \in 1..Len(rest) : rest[i] = s[b + i]
BY DEF Bytes

\* A turn goes on to the next newline, or there is none.
LEMMA CutReaches ==
  ASSUME NEW s \in Bytes, NEW ls \in Seq(Bytes), NEW drained, NEW b, Reached(ls, drained, s, b)
  PROVE  \/ Newlines(drained.rest) = {} /\ Cut(drained) = drained
         \/ \E c \in b + 1..Len(s) : Reached(ls, Cut(drained), s, c)
<1> DEFINE bytes == drained.rest
           n == Len(bytes)
           index == CHOOSE i \in 1..n : bytes[i] = "n" /\ \A j \in 1..i - 1 : bytes[j] # "n"
<1>1. /\ b \in 0..Len(s) /\ Len(s) \in Nat
      /\ bytes \in Bytes /\ n = Len(s) - b /\ n \in Nat /\ DOMAIN bytes = 1..n
      /\ \A i \in 1..n : bytes[i] = s[b + i]
  <2>1. b \in 0..Len(s) /\ Len(s) \in Nat /\ bytes = SubSeq(s, b + 1, Len(s))
    BY DEF Reached, Boundary, Bytes
  <2> HIDE DEF bytes
  <2> QED
    BY <2>1, RestOf DEF Bytes
<1>2. CASE \A i \in 1..n : bytes[i] # "n"
  BY <1>1, <1>2 DEF Cut, Newlines
<1>3. CASE ~(\A i \in 1..n : bytes[i] # "n")
  <2>1. index \in 1..n /\ bytes[index] = "n" /\ \A j \in 1..index - 1 : bytes[j] # "n"
    <3> DEFINE there == {i \in 1..n : bytes[i] = "n"}
    <3>1. there \in SUBSET Nat /\ there # {}
      BY <1>3
    <3> HIDE DEF there
    <3>2. PICK i \in there : \A j \in there : i <= j
      BY <3>1, LeastExists
    <3>3. i \in 1..n /\ bytes[i] = "n" /\ \A j \in 1..i - 1 : bytes[j] # "n"
      <4>1. i \in 1..n /\ bytes[i] = "n"
        BY <3>2 DEF there
      <4>2. ASSUME NEW j \in 1..i - 1, bytes[j] = "n" PROVE FALSE
        <5>1. j \in there
          BY <1>1, <4>1, <4>2 DEF there
        <5> QED
          BY <3>2, <4>1, <5>1
      <4> QED
        BY <4>1, <4>2
    <3> HIDE DEF bytes, n
    <3> QED
      BY <3>3
  <2> DEFINE line == Trim(SubSeq(bytes, 1, index - 1))
             c == b + index
  <2>2. Cut(drained) = [lines |-> Append(drained.lines, line),
                        rest |-> SubSeq(bytes, index + 1, n)]
    BY <1>3 DEF Cut
  <2> HIDE DEF index, bytes, n
  <2>3. c \in b + 1..Len(s) /\ s[c] = "n" /\ \A i \in b + 1..c - 1 : s[i] # "n"
    <3>1. c \in b + 1..Len(s) /\ s[c] = "n"
      BY <1>1, <2>1
    <3>2. ASSUME NEW i \in b + 1..c - 1 PROVE s[i] # "n"
      <4>1. i - b \in 1..index - 1 /\ i - b \in 1..n /\ b + (i - b) = i
        BY <1>1, <2>1
      <4> QED
        BY <1>1, <2>1, <4>1
    <3> QED
      BY <3>1, <3>2
  <2>4. SubSeq(bytes, 1, index - 1) = SubSeq(s, b + 1, c - 1)
    <3>1. \A i \in 1..index - 1 : bytes[i] = s[b + i]
      BY <1>1, <2>1
    <3> QED
      BY <1>1, <2>1, <3>1 DEF Bytes
  <2>5. SubSeq(bytes, index + 1, n) = SubSeq(s, c + 1, Len(s))
    <3>1. \A i \in 1..n - index : bytes[index + i] = s[c + i]
      BY <1>1, <2>1
    <3> QED
      BY <1>1, <2>1, <3>1 DEF Bytes
  <2>6. line \in Bytes
    <3>1. SubSeq(bytes, 1, index - 1) \in Bytes
      BY <1>1, <2>1 DEF Bytes
    <3> QED
      BY <3>1, TrimTyped
  <2> HIDE DEF c
  <2>7. line = Trim(SubSeq(s, b + 1, c - 1))
    BY <2>4
  <2> HIDE DEF line
  <2>8. drained.lines \in Seq(Bytes) /\ FramedTo(ls \o drained.lines, s, b) /\ Boundary(s, b)
    BY DEF Reached
  <2>9. FramedTo(Append(ls \o drained.lines, line), s, c)
    <3>1. ls \o drained.lines \in Seq(Bytes)
      BY <2>8
    <3> QED
      BY <2>3, <2>7, <2>8, <3>1, NextLine
  <2>10. ls \o Append(drained.lines, line) = Append(ls \o drained.lines, line)
         /\ Append(drained.lines, line) \in Seq(Bytes)
    BY <2>6, <2>8
  <2>11. Boundary(s, c)
    BY <1>1, <2>3 DEF Boundary
  <2>12. Cut(drained).lines = Append(drained.lines, line)
         /\ Cut(drained).rest = SubSeq(s, c + 1, Len(s))
    <3>1. Cut(drained) = [lines |-> Append(drained.lines, line), rest |-> SubSeq(s, c + 1, Len(s))]
      BY <2>2, <2>5, Zenon
    <3>2. \A x, y : [lines |-> x, rest |-> y].lines = x /\ [lines |-> x, rest |-> y].rest = y
      OBVIOUS
    <3> QED
      BY <3>1, <3>2, Zenon
  <2>13. Reached(ls, Cut(drained), s, c)
    BY <2>9, <2>10, <2>11, <2>12 DEF Reached
  <2> QED
    BY <2>3, <2>13
<1> QED
  BY <1>2, <1>3

\* The loop comes to a place after which there is no newline.
LEMMA DrainReaches ==
  ASSUME NEW s \in Bytes, NEW ls \in Seq(Bytes), NEW bytes \in Bytes, NEW b,
         Reached(ls, [lines |-> <<>>, rest |-> bytes], s, b)
  PROVE  \E c \in b..Len(s) :
           Reached(ls, Drain(bytes), s, c) /\ Newlines(Drain(bytes).rest) = {}
<1> DEFINE n == Len(bytes)
           turn == Turns(bytes)
           Comes(k) == \E c \in b..Len(s) :
                         /\ Reached(ls, turn[k], s, c)
                         /\ Newlines(turn[k].rest) = {} \/ c >= b + k
           S == {k \in Nat : Comes(k)}
<1>1. /\ b \in 0..Len(s) /\ Len(s) \in Nat /\ n \in Nat
      /\ bytes = SubSeq(s, b + 1, Len(s)) /\ n = Len(s) - b
  <2>1. b \in 0..Len(s) /\ Len(s) \in Nat /\ bytes = SubSeq(s, b + 1, Len(s))
    BY DEF Reached, Boundary, Bytes
  <2> QED
    BY <2>1, RestOf
<1>2. turn[0] = [lines |-> <<>>, rest |-> bytes]
      /\ \A k \in 0..n - 1 : turn[k + 1] = Cut(turn[k])
  BY <1>1, TurnsAreCuts
<1> HIDE DEF turn, n
<1>3. Comes(0)
  BY <1>1, <1>2
<1>4. ASSUME NEW k \in 0..n - 1, Comes(k) PROVE Comes(k + 1)
  <2>1. PICK c \in b..Len(s) :
          Reached(ls, turn[k], s, c) /\ (Newlines(turn[k].rest) = {} \/ c >= b + k)
    BY <1>4
  <2>2. turn[k + 1] = Cut(turn[k])
    BY <1>2
  <2>3. CASE Newlines(turn[k].rest) = {} /\ Cut(turn[k]) = turn[k]
    BY <2>1, <2>2, <2>3
  <2>4. ASSUME NEW d \in c + 1..Len(s), Reached(ls, Cut(turn[k]), s, d), c >= b + k
        PROVE  Comes(k + 1)
    <3>1. d \in b..Len(s) /\ d >= b + (k + 1)
      BY <1>1, <2>1, <2>4
    <3> QED
      BY <2>2, <2>4, <3>1
  <2>5. Newlines(turn[k].rest) = {} => Cut(turn[k]) = turn[k]
    <3>1. turn[k].rest \in Bytes
      BY <1>1, <2>1, RestOf DEF Reached, Boundary
    <3> QED
      BY <3>1 DEF Cut, Newlines, Bytes
  <2> QED
    BY <2>1, <2>3, <2>4, <2>5, CutReaches
<1>5. n \in S
  <2> HIDE DEF Comes
  <2>1. 0 \in S /\ \A k \in 0..n - 1 : k \in S => k + 1 \in S
    <3>1. 0 \in S
      BY <1>3
    <3>2. ASSUME NEW k \in 0..n - 1, k \in S PROVE k + 1 \in S
      <4>1. Comes(k + 1) /\ k + 1 \in Nat
        BY <1>1, <1>4, <3>2
      <4> QED
        BY <4>1
    <3> QED
      BY <3>1, <3>2
  <2> HIDE DEF S
  <2>2. 0..n \subseteq S
    BY <1>1, <2>1, Reaches
  <2> QED
    BY <1>1, <2>2
<1>6. PICK c \in b..Len(s) :
        Reached(ls, turn[n], s, c) /\ (Newlines(turn[n].rest) = {} \/ c >= b + n)
  BY <1>5
<1>7. Newlines(turn[n].rest) = {}
  <2>1. CASE c >= b + n
    <3>1. turn[n].rest = SubSeq(s, c + 1, Len(s)) /\ c = Len(s)
      BY <1>1, <1>6, <2>1 DEF Reached
    <3>2. DOMAIN turn[n].rest = {}
      BY <1>1, <3>1
    <3> QED
      BY <3>2 DEF Newlines
  <2> QED
    BY <1>6, <2>1
<1> QED
  BY <1>6, <1>7 DEF Drain, turn, n

---------------------------------------------------------------------------
(***************************************************************************)
(* Any chunks                                                              *)
(***************************************************************************)
\* While the connection lasts, everything up to a boundary is framed, and the buffer
\* is what is after it.
Framing ==
  /\ received \in Bytes /\ lines \in Seq(Bytes) /\ buffer \in Bytes
  /\ closed \in BOOLEAN
  /\ ~closed =>
       /\ Framed(lines, received)
       /\ Newlines(buffer) = {}
       /\ \E b : Boundary(received, b) /\ buffer = SubSeq(received, b + 1, Len(received))
  /\ closed => FramingIgnoresChunks

LEMMA InitFraming == Init => Framing
<1> SUFFICES ASSUME Init PROVE Framing
  OBVIOUS
<1>1. received = <<>> /\ lines = <<>> /\ buffer = <<>> /\ closed = FALSE
  BY DEF Init
<1>2. <<>> \in Bytes /\ <<>> \in Seq(Bytes) /\ Newlines(<<>>) = {}
  BY DEF Bytes, Newlines
<1>3. Framed(<<>>, <<>>)
  BY <1>2, FS_EmptySet DEF Framed, FramedTo
<1>4. Boundary(<<>>, 0) /\ <<>> = SubSeq(<<>>, 0 + 1, Len(<<>>))
  BY DEF Boundary
<1> QED
  BY <1>1, <1>2, <1>3, <1>4 DEF Framing

LEMMA PushFraming ==
  ASSUME Framing, NEW chunk \in Bytes, Push(chunk)
  PROVE  Framing'
<1> DEFINE t == received \o chunk
           bytes == buffer \o chunk
           drained == Drain(bytes)
<1>1. /\ ~closed /\ received' = t /\ buffer' = drained.rest /\ lines' = lines \o drained.lines
      /\ closed' = closed
  BY DEF Push
<1>2. /\ received \in Bytes /\ lines \in Seq(Bytes) /\ buffer \in Bytes
      /\ Framed(lines, received) /\ Newlines(buffer) = {}
  BY <1>1 DEF Framing
<1>3. PICK b : Boundary(received, b) /\ buffer = SubSeq(received, b + 1, Len(received))
  BY <1>1 DEF Framing
<1>4. /\ b \in 0..Len(received) /\ Len(received) \in Nat /\ Len(chunk) \in Nat
      /\ (b > 0 => received[b] = "n")
      /\ Len(buffer) = Len(received) - b
      /\ \A i \in 1..Len(buffer) : buffer[i] = received[b + i]
  BY <1>2, <1>3, RestOf DEF Boundary, Bytes
<1>5. /\ t \in Bytes /\ Len(t) = Len(received) + Len(chunk)
      /\ \A i \in 1..Len(received) : t[i] = received[i]
      /\ \A i \in 1..Len(chunk) : t[Len(received) + i] = chunk[i]
  BY <1>2 DEF Bytes
<1>6. /\ bytes \in Bytes /\ Len(bytes) = Len(buffer) + Len(chunk)
      /\ \A i \in 1..Len(buffer) : bytes[i] = buffer[i]
      /\ \A i \in 1..Len(chunk) : bytes[Len(buffer) + i] = chunk[i]
  BY <1>2 DEF Bytes
<1> HIDE DEF t, bytes, drained
<1>7. bytes = SubSeq(t, b + 1, Len(t))
  <2> DEFINE rest == SubSeq(t, b + 1, Len(t))
  <2>1. b \in 0..Len(t)
    BY <1>4, <1>5
  <2>2. rest \in Bytes /\ Len(rest) = Len(t) - b /\ \A i \in 1..Len(rest) : rest[i] = t[b + i]
    BY <1>5, <2>1, RestOf
  <2> HIDE DEF rest
  <2>3. Len(rest) = Len(bytes)
    BY <1>4, <1>5, <1>6, <2>2
  <2>4. ASSUME NEW i \in 1..Len(bytes) PROVE bytes[i] = rest[i]
    <3>1. CASE i \in 1..Len(buffer)
      BY <1>4, <1>5, <1>6, <2>2, <2>3, <3>1
    <3>2. CASE i \notin 1..Len(buffer)
      <4>1. i - Len(buffer) \in 1..Len(chunk)
        BY <1>4, <1>6, <3>2
      <4>2. bytes[i] = chunk[i - Len(buffer)]
        BY <1>4, <1>6, <4>1
      <4>3. t[b + i] = chunk[i - Len(buffer)]
        <5>1. b + i = Len(received) + (i - Len(buffer))
          BY <1>4, <1>6
        <5> QED
          BY <1>5, <4>1, <5>1
      <4> QED
        BY <2>2, <2>3, <4>2, <4>3
    <3> QED
      BY <3>1, <3>2
  <2>5. bytes = rest
    BY <1>6, <2>2, <2>3, <2>4 DEF Bytes
  <2> QED
    BY <2>5 DEF rest
<1>8. \A i \in b + 1..Len(received) : received[i] # "n"
  <2> SUFFICES ASSUME NEW i \in b + 1..Len(received), received[i] = "n" PROVE FALSE
    OBVIOUS
  <2>1. i - b \in 1..Len(buffer) /\ buffer[i - b] = "n"
    BY <1>4
  <2> QED
    BY <1>2, <2>1 DEF Newlines, Bytes
<1>9. FramedTo(lines, t, b)
  <2>1. Len(received) <= Len(t)
    BY <1>4, <1>5
  <2> QED
    BY <1>2, <1>3, <1>5, <1>8, <2>1, MoreBytes
<1>10. Boundary(t, b)
  BY <1>4, <1>5 DEF Boundary
<1>11. Reached(lines, [lines |-> <<>>, rest |-> bytes], t, b)
  <2>1. lines \o <<>> = lines /\ <<>> \in Seq(Bytes)
    BY <1>2
  <2> QED
    BY <1>7, <1>9, <1>10, <2>1 DEF Reached
<1>12. PICK c \in b..Len(t) : Reached(lines, drained, t, c) /\ Newlines(drained.rest) = {}
  BY <1>2, <1>5, <1>6, <1>11, DrainReaches DEF drained
<1>13. /\ Boundary(t, c) /\ drained.lines \in Seq(Bytes) /\ drained.rest = SubSeq(t, c + 1, Len(t))
       /\ FramedTo(lines \o drained.lines, t, c)
  BY <1>12 DEF Reached
<1>14. drained.rest \in Bytes /\ Len(drained.rest) = Len(t) - c
       /\ \A i \in 1..Len(drained.rest) : drained.rest[i] = t[c + i]
  <2> DEFINE rest == SubSeq(t, c + 1, Len(t))
  <2>1. c \in 0..Len(t)
    BY <1>13 DEF Boundary
  <2>2. rest \in Bytes /\ Len(rest) = Len(t) - c /\ \A i \in 1..Len(rest) : rest[i] = t[c + i]
    BY <1>5, <2>1, RestOf
  <2>3. drained.rest = rest
    BY <1>13
  <2> HIDE DEF rest
  <2> QED
    BY <2>2, <2>3
<1>15. {i \in Newlines(t) : i <= c} = {i \in Newlines(t) : i <= Len(t)}
  <2> SUFFICES ASSUME NEW i \in Newlines(t), i <= Len(t) PROVE i <= c
    BY <1>5, <1>13 DEF Boundary, Newlines, Bytes
  <2>1. i \in 1..Len(t) /\ t[i] = "n" /\ c \in 0..Len(t) /\ Len(t) \in Nat
    BY <1>5, <1>13 DEF Boundary, Newlines, Bytes
  <2>2. ASSUME i > c PROVE FALSE
    <3>1. i - c \in 1..Len(drained.rest) /\ drained.rest[i - c] = "n"
      BY <1>14, <2>1, <2>2
    <3> QED
      BY <1>12, <1>14, <3>1 DEF Newlines, Bytes
  <2> QED
    BY <2>1, <2>2
<1>16. Framed(lines \o drained.lines, t)
  BY <1>13, <1>15 DEF Framed, FramedTo
<1>17. lines \o drained.lines \in Seq(Bytes)
  BY <1>2, <1>13
<1> QED
  BY <1>1, <1>5, <1>12, <1>13, <1>14, <1>16, <1>17 DEF Framing
\* What the end of the body leaves in the buffer is its last line.
LEMMA FinishFraming ==
  ASSUME Framing, Finish
  PROVE  Framing'
<1>1. /\ ~closed /\ closed' = TRUE /\ received' = received /\ buffer' = <<>>
      /\ lines' = IF buffer = <<>> THEN lines ELSE Append(lines, Trim(buffer))
  BY DEF Finish
<1>2. /\ received \in Bytes /\ lines \in Seq(Bytes) /\ buffer \in Bytes
      /\ Framed(lines, received) /\ Newlines(buffer) = {}
  BY <1>1 DEF Framing
<1>3. PICK b : Boundary(received, b) /\ buffer = SubSeq(received, b + 1, Len(received))
  BY <1>1 DEF Framing
<1>4. b \in 0..Len(received) /\ Len(received) \in Nat /\ (b > 0 => received[b] = "n")
  BY <1>2, <1>3 DEF Boundary, Bytes
<1>5. /\ Len(buffer) = Len(received) - b
      /\ \A i \in 1..Len(buffer) : buffer[i] = received[b + i]
  BY <1>2, <1>3, <1>4, RestOf
<1>6. lines' \in Seq(Bytes) /\ <<>> \in Bytes
  <2>1. Trim(buffer) \in Bytes
    BY <1>2, TrimTyped
  <2> QED
    BY <1>1, <1>2, <2>1 DEF Bytes
<1>7. FramingIgnoresChunks'
  <2>1. CASE buffer = <<>>
    <3>1. b = Len(received)
      BY <1>4, <1>5, <2>1
    <3>2. received = <<>> \/ Last(received) = "n"
      BY <1>2, <1>4, <3>1 DEF Last, Bytes
    <3>3. lines' = lines
      BY <1>1, <2>1
    <3> QED
      BY <1>1, <1>2, <3>2, <3>3 DEF FramingIgnoresChunks
  <2>2. CASE buffer # <<>>
    <3>1. b < Len(received) /\ Len(received) > 0
      BY <1>2, <1>4, <1>5, <2>2 DEF Bytes
    <3>2. \A i \in b + 1..Len(received) : received[i] # "n"
      <4> SUFFICES ASSUME NEW i \in b + 1..Len(received), received[i] = "n" PROVE FALSE
        OBVIOUS
      <4>1. i - b \in 1..Len(buffer) /\ buffer[i - b] = "n"
        BY <1>4, <1>5
      <4> QED
        BY <1>2, <4>1 DEF Newlines, Bytes
    <3>3. received # <<>> /\ Last(received) # "n"
      BY <1>2, <1>4, <3>1, <3>2 DEF Last, Bytes
    <3>4. LineAt(received, Len(received) + 1) = Trim(buffer)
      <4> DEFINE i == Len(received) + 1
      <4>1. i \in b + 1..Len(received) + 1 /\ \A j \in b + 1..i - 1 : received[j] # "n"
        BY <1>4, <3>2
      <4>2. i - 1 = Len(received)
        BY <1>4
      <4> HIDE DEF i
      <4>3. LineAt(received, i) = Trim(SubSeq(received, b + 1, i - 1))
        BY <1>2, <1>3, <4>1, LineFrom
      <4> QED
        BY <1>3, <4>2, <4>3 DEF i
    <3>5. lines' = Append(lines, Trim(buffer))
      BY <1>1, <2>2
    <3>6. Front(lines') = lines /\ Last(lines') = Trim(buffer) /\ lines' # <<>>
      <4>1. Trim(buffer) \in Bytes
        BY <1>2, TrimTyped
      <4> QED
        BY <1>2, <3>5, <4>1 DEF Front, Last
    <3> QED
      BY <1>1, <1>2, <3>3, <3>4, <3>6 DEF FramingIgnoresChunks
  <2> QED
    BY <2>1, <2>2
<1> QED
  BY <1>1, <1>2, <1>6, <1>7 DEF Framing

---------------------------------------------------------------------------
(***************************************************************************)
(* The theorem                                                             *)
(***************************************************************************)
LEMMA StepFraming == Framing /\ [Next]_vars => Framing'
<1> SUFFICES ASSUME Framing, [Next]_vars PROVE Framing'
  OBVIOUS
<1>1. CASE \E chunk \in BytesUpTo(MaxBytes - Len(received)) : Push(chunk)
  <2>1. PICK chunk \in BytesUpTo(MaxBytes - Len(received)) : Push(chunk)
    BY <1>1
  <2>2. chunk \in Bytes
    BY <2>1 DEF BytesUpTo, SeqOf, Bytes
  <2> QED
    BY <2>1, <2>2, PushFraming
<1>2. CASE Finish
  BY <1>2, FinishFraming
<1>3. CASE UNCHANGED vars
  BY <1>3 DEF vars, Framing, FramingIgnoresChunks
<1> QED
  BY <1>1, <1>2, <1>3 DEF Next

LEMMA FramingShows == Framing => FramingIgnoresChunks
<1> SUFFICES ASSUME Framing, ~closed PROVE FramingIgnoresChunks
  BY DEF Framing
<1>1. /\ received \in Bytes /\ buffer \in Bytes
      /\ Framed(lines, received) /\ Newlines(buffer) = {}
  BY DEF Framing
<1>2. PICK b : Boundary(received, b) /\ buffer = SubSeq(received, b + 1, Len(received))
  BY DEF Framing
<1>3. b \in 0..Len(received) /\ Len(received) \in Nat /\ (b > 0 => received[b] = "n")
  BY <1>1, <1>2 DEF Boundary, Bytes
<1>4. /\ Len(buffer) = Len(received) - b
      /\ \A i \in 1..Len(buffer) : buffer[i] = received[b + i]
  BY <1>1, <1>2, <1>3, RestOf
<1>5. Len(buffer) < Len(received) => received[Len(received) - Len(buffer)] = "n"
  BY <1>3, <1>4
<1>6. IsSuffix(buffer, received)
  <2>1. /\ Reverse(buffer) \in Bytes /\ Len(Reverse(buffer)) = Len(buffer)
        /\ \A i \in 1..Len(buffer) : Reverse(buffer)[i] = buffer[Len(buffer) - i + 1]
    BY <1>1 DEF Reverse, Bytes
  <2>2. /\ Reverse(received) \in Bytes /\ Len(Reverse(received)) = Len(received)
        /\ \A i \in 1..Len(received) : Reverse(received)[i] = received[Len(received) - i + 1]
    BY <1>1 DEF Reverse, Bytes
  <2>3. \A i \in 1..Len(buffer) : Reverse(buffer)[i] = Reverse(received)[i]
    <3> SUFFICES ASSUME NEW i \in 1..Len(buffer) PROVE Reverse(buffer)[i] = Reverse(received)[i]
      OBVIOUS
    <3>1. /\ Len(buffer) - i + 1 \in 1..Len(buffer) /\ i \in 1..Len(received)
          /\ b + (Len(buffer) - i + 1) = Len(received) - i + 1
      BY <1>3, <1>4
    <3> QED
      BY <1>4, <2>1, <2>2, <3>1
  <2> QED
    BY <1>3, <1>4, <2>1, <2>2, <2>3 DEF IsSuffix, IsPrefix
<1> QED
  BY <1>1, <1>5, <1>6 DEF FramingIgnoresChunks

\* The lines a body gives are those of its bytes, by position, at every moment and
\* whatever chunks it came in (push, finish).
THEOREM ChunksMakeNoDifference == Spec => []FramingIgnoresChunks
<1>1. Init => Framing
  BY InitFraming
<1>2. Framing /\ [Next]_vars => Framing'
  BY StepFraming
<1>3. Framing => FramingIgnoresChunks
  BY FramingShows
<1> QED
  BY <1>1, <1>2, <1>3, PTL DEF Spec
=============================================================================
