-------------------------- MODULE NumpyArrayProofs --------------------------
(***************************************************************************)
(* What module NumpyArray says of tensors and scores, proved for buffers,  *)
(* shapes, rows and documents of every length.  Induction over lengths is  *)
(* by the least element of a set of numbers.                               *)
(***************************************************************************)
EXTENDS NumpyArray, WellFoundedInduction, TLAPS

(***************************************************************************)
(* Induction, recursion and division                                       *)
(***************************************************************************)
LEMMA LeastExists ==
  ASSUME NEW S \in SUBSET Nat, S # {}
  PROVE  \E x \in S : \A y \in S : x <= y
<1> DEFINE Below == {p \in Nat \X Nat : p[1] < p[2]}
<1>1. IsWellFoundedOn(Below, Nat)
  BY NatLessThanWellFounded DEF OpToRel
<1> HIDE DEF Below
<1>2. \E x \in S : \A y \in S : <<y, x>> \notin Below
  BY <1>1, WFMin
<1>3. \A x, y \in S : <<y, x>> \notin Below => x <= y
  BY DEF Below
<1> QED
  BY <1>2, <1>3

\* All is every value, or the error of one of the results.
LEMMA AllResults ==
  ASSUME NEW results, DOMAIN results \in SUBSET Nat
  PROVE  \/ /\ \A i \in DOMAIN results : results[i].ok
            /\ All(results) = Ok([i \in DOMAIN results |-> results[i].value])
         \/ \E i \in DOMAIN results : ~results[i].ok /\ All(results) = results[i]
<1> DEFINE bad == {i \in DOMAIN results : ~results[i].ok}
<1>1. CASE bad = {}
  BY <1>1 DEF All
<1>2. CASE bad # {}
  <2>1. \E i \in bad : \A j \in bad : i <= j
    <3>1. bad \in SUBSET Nat
      OBVIOUS
    <3> HIDE DEF bad
    <3> QED
      BY <1>2, <3>1, LeastExists
  <2>2. (CHOOSE i \in bad : \A j \in bad : i <= j) \in bad
    BY <2>1
  <2> QED
    BY <1>2, <2>2 DEF All
<1> QED
  BY <1>1, <1>2

\* A set of numbers that has 0 and the successor of each of its numbers below n
\* has all numbers up to n.
LEMMA Reaches ==
  ASSUME NEW n \in Nat, NEW S, 0 \in S, \A k \in 0..n - 1 : k \in S => k + 1 \in S
  PROVE  0..n \subseteq S
<1> DEFINE missing == {k \in 0..n : k \notin S}
<1>1. missing \in SUBSET Nat
  OBVIOUS
<1>2. ASSUME missing # {} PROVE FALSE
  <2> HIDE DEF missing
  <2>1. PICK x \in missing : \A y \in missing : x <= y
    BY <1>1, <1>2, LeastExists
  <2>2. x \in 0..n /\ x \notin S
    BY <2>1 DEF missing
  <2>3. x - 1 \in 0..n - 1 /\ x - 1 \notin missing
    BY <2>1, <2>2
  <2>4. x - 1 \in S
    BY <2>3 DEF missing
  <2> QED
    BY <2>2, <2>3, <2>4
<1> QED
  BY <1>2

\* A recursion over 0..n that stays in a set has a table.
Steps(T, n) == [T \X (1..n) -> T]

IsTable(f, T, n, b, g) ==
  f \in [0..n -> T] /\ f[0] = b /\ \A i \in 1..n : f[i] = g[<<f[i - 1], i>>]

LEMMA TableExists ==
  ASSUME NEW n \in Nat, NEW T, NEW b \in T, NEW g \in Steps(T, n)
  PROVE  \E f : IsTable(f, T, n, b, g)
<1> USE DEF Steps, IsTable
<1> DEFINE Table(f, m) == IsTable(f, T, m, b, g)
           S == {m \in Nat : \E f : Table(f, m)}
<1>1. 0 \in S
  <2>1. Table([i \in 0..0 |-> b], 0)
    OBVIOUS
  <2> QED
    BY <2>1
<1>2. ASSUME NEW m \in 0..n - 1, m \in S PROVE m + 1 \in S
  <2>1. PICK f : Table(f, m)
    BY <1>2
  <2>2. f[m] \in T /\ m + 1 \in 1..n
    BY <2>1
  <2>3. g[<<f[m], m + 1>>] \in T
    BY <2>2
  <2> DEFINE h == [i \in 0..m + 1 |-> IF i = m + 1 THEN g[<<f[m], m + 1>>] ELSE f[i]]
  <2>4. h \in [0..m + 1 -> T] /\ h[0] = b
    BY <2>1, <2>3
  <2>5. ASSUME NEW i \in 1..m + 1 PROVE h[i] = g[<<h[i - 1], i>>]
    <3>1. i - 1 \in 0..m /\ h[i - 1] = f[i - 1]
      OBVIOUS
    <3>2. CASE i = m + 1
      <4>1. h[i] = g[<<f[m], m + 1>>] /\ h[i - 1] = f[m]
        BY <3>1, <3>2
      <4> HIDE DEF h
      <4> QED
        BY <3>2, <4>1
    <3>3. CASE i \in 1..m
      <4>1. h[i] = f[i]
        BY <3>3
      <4> QED
        BY <2>1, <3>1, <3>3, <4>1
    <3> QED
      BY <3>2, <3>3
  <2> HIDE DEF h
  <2> QED
    BY <2>4, <2>5
<1>3. n \in S
  <2>1. \A m \in 0..n - 1 : m \in S => m + 1 \in S
    BY <1>2
  <2> HIDE DEF S
  <2>2. 0..n \subseteq S
    BY <1>1, <2>1, Reaches
  <2> QED
    BY <2>2
<1> QED
  BY <1>3

\* What a recursion over 0..n stays in.
LEMMA TableTyped ==
  ASSUME NEW n \in Nat, NEW T, NEW f, f[0] \in T, \A i \in 1..n : f[i - 1] \in T => f[i] \in T
  PROVE  \A i \in 0..n : f[i] \in T
<1> DEFINE S == {i \in 0..n : f[i] \in T}
<1>1. 0 \in S
  OBVIOUS
<1>2. ASSUME NEW k \in 0..n - 1, k \in S PROVE k + 1 \in S
  <2>1. k + 1 \in 1..n /\ (k + 1) - 1 = k
    OBVIOUS
  <2> QED
    BY <1>2, <2>1
<1> HIDE DEF S
<1>3. 0..n \subseteq S
  BY <1>1, <1>2, Reaches
<1> QED
  BY <1>3 DEF S

LEMMA ProductOrder ==
  ASSUME NEW a \in Int, NEW b \in Int, NEW q \in Nat, a <= b
  PROVE  a * q <= b * q
OBVIOUS

\* A quotient and a rest that is small enough are the only ones.
LEMMA Divides ==
  ASSUME NEW q \in Int, NEW p \in Nat \ {0}, NEW r \in 0..p - 1
  PROVE  (q * p + r) \div p = q /\ (q * p + r) % p = r
<1> DEFINE n == q * p + r
           d == n \div p
           e == n % p
<1>1. n \in Int /\ q * p \in Int
  OBVIOUS
<1> HIDE DEF n
<1>2. d \in Int /\ e \in 0..p - 1 /\ n = d * p + e
  BY <1>1
<1> HIDE DEF d, e
<1>3. d * p \in Int /\ (d + 1) * p = d * p + p /\ (q + 1) * p = q * p + p
  BY <1>2
<1>4. n = q * p + r
  BY DEF n
<1>5. ASSUME d < q PROVE FALSE
  <2>1. (d + 1) * p <= q * p
    BY <1>2, <1>5, ProductOrder
  <2> QED
    BY <1>1, <1>2, <1>3, <1>4, <2>1
<1>6. ASSUME q < d PROVE FALSE
  <2>1. (q + 1) * p <= d * p
    BY <1>2, <1>6, ProductOrder
  <2> QED
    BY <1>1, <1>2, <1>3, <1>4, <2>1
<1>7. d = q
  BY <1>2, <1>5, <1>6
<1>8. e = r
  BY <1>1, <1>2, <1>4, <1>7
<1> QED
  BY <1>7, <1>8 DEF n, d, e

---------------------------------------------------------------------------
(***************************************************************************)
(* Bytes and numbers                                                       *)
(***************************************************************************)
LEMMA ByteIs == Byte \in Nat \ {0, 1} /\ Bytes = 0..Byte - 1
BY ByteAssumption DEF Bytes

\* The ranges of the integers, each Byte times the one before.
LEMMA Ranges ==
  /\ Bits \in [0..8 -> Nat \ {0}] /\ Bits[0] = 1
  /\ \A i \in 1..8 : Bits[i] = Bits[i - 1] * Byte
<1> DEFINE T == Nat \ {0}
           g == [p \in T \X (1..8) |-> p[1] * Byte]
<1>1. \A x \in T : x * Byte \in T
  BY ByteIs
<1>2. g \in Steps(T, 8)
  BY <1>1 DEF Steps
<1>3. PICK f : IsTable(f, T, 8, 1, g)
  <2>1. 1 \in T /\ 8 \in Nat
    OBVIOUS
  <2> HIDE DEF g, T
  <2> QED
    BY <1>2, <2>1, TableExists
<1>4. f = [i \in 0..8 |-> IF i = 0 THEN 1 ELSE f[i - 1] * Byte]
  <2>1. \A i \in 1..8 : f[i] = f[i - 1] * Byte
    BY <1>3 DEF IsTable
  <2> QED
    BY <1>3, <2>1 DEF IsTable
<1>5. Bits = [i \in 0..8 |-> IF i = 0 THEN 1 ELSE Bits[i - 1] * Byte]
  <2> HIDE DEF T
  <2> QED
    BY <1>4 DEF Bits
<1>6. Bits[0] = 1 /\ \A i \in 1..8 : Bits[i] = Bits[i - 1] * Byte
  BY <1>5
<1>7. \A i \in 0..8 : Bits[i] \in T
  <2>1. Bits[0] \in T /\ \A i \in 1..8 : Bits[i - 1] \in T => Bits[i] \in T
    BY <1>1, <1>6
  <2> HIDE DEF T
  <2> QED
    BY <2>1, TableTyped
<1>8. Bits \in [0..8 -> T]
  <2> HIDE DEF T
  <2>1. Bits = [i \in 0..8 |-> Bits[i]]
    BY <1>5
  <2> QED
    BY <1>7, <2>1
<1> QED
  BY <1>6, <1>8

\* The number of the first bytes of a buffer.
LEMMA LeadingNumbers ==
  ASSUME NEW s \in Seq(Bytes)
  PROVE  /\ Leading(s)[0] = 0 /\ \A i \in 0..Len(s) : Leading(s)[i] \in Nat
         /\ \A i \in 1..Len(s) : Leading(s)[i] = Leading(s)[i - 1] * Byte + s[i]
<1> DEFINE w == Len(s)
           g == [p \in Nat \X (1..w) |-> p[1] * Byte + s[p[2]]]
<1>1. w \in Nat /\ \A i \in 1..w : s[i] \in Nat
  BY ByteIs
<1>2. \A x \in Nat, i \in 1..w : x * Byte + s[i] \in Nat
  BY <1>1, ByteIs
<1>3. g \in Steps(Nat, w)
  BY <1>2 DEF Steps
<1>4. PICK f : IsTable(f, Nat, w, 0, g)
  <2> HIDE DEF g, w
  <2> QED
    BY <1>1, <1>3, TableExists
<1>5. f = [i \in 0..w |-> IF i = 0 THEN 0 ELSE f[i - 1] * Byte + s[i]]
  <2>1. \A i \in 1..w : f[i - 1] \in Nat /\ f[i] = g[<<f[i - 1], i>>]
    <3>1. f \in [0..w -> Nat] /\ \A i \in 1..w : f[i] = g[<<f[i - 1], i>>]
      <4> HIDE DEF g, w
      <4> QED
        BY <1>4 DEF IsTable
    <3>2. \A i \in 1..w : i - 1 \in 0..w
      BY <1>1
    <3> HIDE DEF g, w
    <3> QED
      BY <3>1, <3>2
  <2>2. \A i \in 1..w : f[i] = f[i - 1] * Byte + s[i]
    BY <2>1
  <2> HIDE DEF w
  <2> QED
    BY <1>4, <2>2 DEF IsTable
<1>6. Leading(s) = [i \in 0..w |-> IF i = 0 THEN 0 ELSE Leading(s)[i - 1] * Byte + s[i]]
  BY <1>5 DEF Leading
<1>7. /\ Leading(s)[0] = 0
      /\ \A i \in 1..w : Leading(s)[i] = Leading(s)[i - 1] * Byte + s[i]
  BY <1>1, <1>6
<1>8. \A i \in 0..w : Leading(s)[i] \in Nat
  <2>1. Leading(s)[0] \in Nat /\ \A i \in 1..w : Leading(s)[i - 1] \in Nat => Leading(s)[i] \in Nat
    BY <1>2, <1>7, SMTT(30)
  <2> HIDE DEF w
  <2> QED
    BY <1>1, <2>1, TableTyped
<1> QED
  BY <1>7, <1>8

\* One more byte of a number: what the division by a longer one leaves.
LEMMA OneByteMore ==
  ASSUME NEW v \in Int, NEW d \in Bytes, NEW p \in Nat \ {0}, NEW r \in 0..p - 1
  PROVE  /\ (v * Byte + d) * p + r = v * (p * Byte) + (d * p + r)
         /\ d * p + r \in 0..p * Byte - 1
<1>1. Byte \in Nat /\ d \in 0..Byte - 1 /\ d \in Int /\ r \in Int /\ p \in Int
  BY ByteIs
<1>2. (v * Byte + d) * p = v * (p * Byte) + d * p
  BY <1>1
<1>3. d * p \in Nat /\ p * Byte \in Nat /\ v * (p * Byte) \in Int
  BY <1>1
<1>4. d * p <= (Byte - 1) * p
  BY <1>1, ProductOrder
<1>5. (Byte - 1) * p = p * Byte - p
  BY <1>1
<1> QED
  BY <1>1, <1>2, <1>3, <1>4, <1>5

\* Divided by the numbers of k bytes, a number, or its two's complement, is that of
\* the bytes before the last k of them, and the byte before those is what is left.
LEMMA Quotients ==
  ASSUME NEW s \in Seq(Bytes), Len(s) \in 1..8, NEW c \in {0, 1}, NEW n,
         n = Leading(s)[Len(s)] - c * Bits[Len(s)]
  PROVE  \A k \in 1..Len(s) : (n \div Bits[k - 1]) % Byte = s[Len(s) - k + 1]
<1> DEFINE w == Len(s)
           v(i) == Leading(s)[i] - c * Bits[i]
           S == {k \in 0..w : \E r \in 0..Bits[k] - 1 : n = v(w - k) * Bits[k] + r}
<1>1. /\ w \in 1..8 /\ c \in Int
      /\ \A i \in 0..w : Leading(s)[i] \in Int /\ Bits[i] \in Nat \ {0}
      /\ \A i \in 1..w : /\ s[i] \in Bytes /\ s[i] \in Int
                         /\ Bits[i] = Bits[i - 1] * Byte
                         /\ Leading(s)[i] = Leading(s)[i - 1] * Byte + s[i]
  <2>1. w \in 1..8 /\ c \in Int /\ \A i \in 1..w : s[i] \in Bytes /\ s[i] \in Int
    BY ByteIs
  <2>2. /\ \A i \in 0..w : Leading(s)[i] \in Nat
        /\ \A i \in 1..w : Leading(s)[i] = Leading(s)[i - 1] * Byte + s[i]
    BY LeadingNumbers
  <2> HIDE DEF w
  <2>3. /\ \A i \in 0..w : Bits[i] \in Nat \ {0}
        /\ \A i \in 1..w : Bits[i] = Bits[i - 1] * Byte
    <3>1. 0..w \subseteq 0..8 /\ 1..w \subseteq 1..8
      BY <2>1
    <3> QED
      BY <3>1, Ranges
  <2> QED
    BY <2>1, <2>2, <2>3
<1> HIDE DEF w
<1>2. \A i \in 0..w : v(i) \in Int
  BY <1>1
<1>3. ASSUME NEW i \in 1..w PROVE v(i) = v(i - 1) * Byte + s[i]
  <2>1. i - 1 \in 0..w /\ i \in 0..w
    BY <1>1
  <2> DEFINE a == Leading(s)[i - 1]
             b == Bits[i - 1]
  <2>2. a \in Int /\ b \in Int /\ Byte \in Int /\ s[i] \in Int
    BY <1>1, <2>1, ByteIs
  <2>3. v(i) = a * Byte + s[i] - c * (b * Byte) /\ v(i - 1) = a - c * b
    <3>1. Leading(s)[i] = a * Byte + s[i] /\ Bits[i] = b * Byte
      BY <1>1
    <3> HIDE DEF a, b
    <3>2. v(i) = a * Byte + s[i] - c * (b * Byte)
      BY <1>1, <2>2, <3>1
    <3> QED
      BY <3>2 DEF a, b
  <2> HIDE DEF a, b, v
  <2>4. (a - c * b) * Byte = a * Byte - c * (b * Byte)
    BY <1>1, <2>2
  <2> QED
    BY <1>1, <2>2, <2>3, <2>4
<1> HIDE DEF v
<1>4. 0 \in S
  <2>1. n = v(w) /\ Bits[0] = 1
    BY Ranges DEF v, w
  <2>2. v(w) \in Int
    BY <1>1, <1>2
  <2>3. w - 0 = w /\ n = v(w) * 1 + 0
    BY <1>1, <2>1, <2>2
  <2> QED
    BY <1>1, <2>1, <2>3
<1>5. ASSUME NEW k \in 0..w - 1, k \in S PROVE k + 1 \in S
  <2>1. PICK r \in 0..Bits[k] - 1 : n = v(w - k) * Bits[k] + r
    BY <1>5
  <2>2. w - k \in 1..w /\ k \in 0..w /\ k + 1 \in 1..w /\ (w - k) - 1 = w - (k + 1)
    BY <1>1
  <2>3. v(w - k) = v(w - (k + 1)) * Byte + s[w - k] /\ Bits[k + 1] = Bits[k] * Byte
    BY <1>1, <1>3, <2>2
  <2>4. v(w - (k + 1)) \in Int /\ s[w - k] \in Bytes /\ Bits[k] \in Nat \ {0}
    BY <1>1, <1>2, <2>2
  <2> DEFINE rest == s[w - k] * Bits[k] + r
  <2>5. n = v(w - (k + 1)) * Bits[k + 1] + rest /\ rest \in 0..Bits[k + 1] - 1
    BY <2>1, <2>3, <2>4, OneByteMore
  <2> HIDE DEF rest
  <2> QED
    BY <2>2, <2>5
<1>6. 0..w \subseteq S
  <2> HIDE DEF S
  <2>1. w \in Nat /\ \A k \in 0..w - 1 : k \in S => k + 1 \in S
    BY <1>1, <1>5
  <2> QED
    BY <1>4, <2>1, Reaches
<1>7. ASSUME NEW k \in 1..w PROVE (n \div Bits[k - 1]) % Byte = s[w - k + 1]
  <2>1. k - 1 \in 0..w /\ w - (k - 1) \in 1..w /\ w - (k - 1) - 1 \in 0..w /\ w - (k - 1) = w - k + 1
    BY <1>1
  <2>2. PICK r \in 0..Bits[k - 1] - 1 : n = v(w - (k - 1)) * Bits[k - 1] + r
    BY <1>6, <2>1
  <2>3. n \div Bits[k - 1] = v(w - (k - 1))
    <3>1. v(w - (k - 1)) \in Int /\ Bits[k - 1] \in Nat \ {0}
      BY <1>1, <1>2, <2>1
    <3> QED
      BY <2>2, <3>1, Divides
  <2> DEFINE u == v(w - (k - 1) - 1)
             d == s[w - (k - 1)]
  <2>4. v(w - (k - 1)) = u * Byte + d /\ u \in Int /\ d \in 0..Byte - 1 /\ Byte \in Nat \ {0}
    BY <1>1, <1>2, <1>3, <2>1, ByteIs
  <2> HIDE DEF u, d
  <2>5. (u * Byte + d) % Byte = d
    BY <2>4, Divides
  <2> QED
    BY <2>1, <2>3, <2>4, <2>5 DEF d
<1> QED
  BY <1>7 DEF w

\* Written back, a number that was read, or its two's complement, gives its bytes.
LEMMA BytesRoundTrip ==
  ASSUME NEW bytes \in Seq(Bytes), Len(bytes) \in 1..8, NEW big \in BOOLEAN, NEW c \in {0, 1}
  PROVE  BytesOf(Magnitude(bytes, big) - c * Bits[Len(bytes)], Len(bytes), big) = bytes
<1> DEFINE w == Len(bytes)
           s == IF big THEN bytes ELSE Reverse(bytes)
           n == Magnitude(bytes, big) - c * Bits[w]
           little == [k \in 1..w |-> (n \div Bits[k - 1]) % Byte]
<1>1. s \in Seq(Bytes) /\ Len(s) = w /\ \A i \in 1..w : s[i] = IF big THEN bytes[i] ELSE bytes[w - i + 1]
  BY DEF Reverse
<1>2. n = Leading(s)[w] - c * Bits[w]
  BY DEF Magnitude
<1> HIDE DEF s, n
<1>3. \A k \in 1..w : little[k] = s[w - k + 1]
  <2>1. \A k \in 1..Len(s) : (n \div Bits[k - 1]) % Byte = s[Len(s) - k + 1]
    BY <1>1, <1>2, Quotients
  <2> QED
    BY <1>1, <2>1
<1>4. DOMAIN little = 1..w /\ Len(little) = w /\ w \in 1..8
  OBVIOUS
<1> HIDE DEF little
<1>5. CASE big
  <2>1. BytesOf(n, w, big) = [i \in 1..w |-> little[w - i + 1]]
    BY <1>4, <1>5 DEF BytesOf, Reverse, little
  <2>2. \A i \in 1..w : little[w - i + 1] = bytes[i]
    BY <1>1, <1>3, <1>5
  <2>3. bytes = [i \in 1..w |-> bytes[i]]
    OBVIOUS
  <2> QED
    BY <2>1, <2>2, <2>3 DEF n
<1>6. CASE ~big
  <2>1. BytesOf(n, w, big) = [i \in 1..w |-> little[i]]
    BY <1>6 DEF BytesOf, little
  <2>2. \A i \in 1..w : little[i] = bytes[i]
    <3> TAKE i \in 1..w
    <3>1. w - i + 1 \in 1..w /\ w - (w - i + 1) + 1 = i
      OBVIOUS
    <3>2. little[i] = s[w - i + 1] /\ s[w - i + 1] = bytes[w - (w - i + 1) + 1]
      BY <1>1, <1>3, <1>6, <3>1
    <3> QED
      BY <3>1, <3>2
  <2>3. bytes = [i \in 1..w |-> bytes[i]]
    OBVIOUS
  <2> QED
    BY <2>1, <2>2, <2>3 DEF n
<1> QED
  BY <1>5, <1>6

---------------------------------------------------------------------------
(***************************************************************************)
(* Pieces put together                                                     *)
(***************************************************************************)
\* FlattenSeq, piece after piece.
LEMMA Flattens ==
  ASSUME NEW T, NEW seqs \in Seq(Seq(T))
  PROVE  \E f : /\ f \in [0..Len(seqs) -> Seq(T)] /\ f[0] = <<>>
                /\ \A i \in 1..Len(seqs) : f[i] = f[i - 1] \o seqs[i]
                /\ FlattenSeq(seqs) = f[Len(seqs)]
<1> DEFINE n == Len(seqs)
           g == [p \in Seq(T) \X (1..n) |-> p[1] \o seqs[p[2]]]
<1>1. n \in Nat /\ <<>> \in Seq(T) /\ \A i \in 1..n : seqs[i] \in Seq(T)
  OBVIOUS
<1>2. g \in Steps(Seq(T), n)
  <2>1. \A x \in Seq(T), i \in 1..n : x \o seqs[i] \in Seq(T)
    BY <1>1
  <2> QED
    BY <2>1 DEF Steps
<1>3. PICK f : IsTable(f, Seq(T), n, <<>>, g)
  <2> HIDE DEF g, n
  <2> QED
    BY <1>1, <1>2, TableExists
<1>4. /\ f \in [0..n -> Seq(T)] /\ f[0] = <<>>
      /\ \A i \in 1..n : f[i - 1] \in Seq(T) /\ f[i] = f[i - 1] \o seqs[i]
  <2>1. /\ f \in [0..n -> Seq(T)] /\ f[0] = <<>>
        /\ \A i \in 1..n : f[i - 1] \in Seq(T) /\ f[i] = g[<<f[i - 1], i>>]
    <3> HIDE DEF g, n
    <3> QED
      BY <1>1, <1>3 DEF IsTable
  <2> QED
    BY <2>1
<1>5. FlattenSeq(seqs) = f[n]
  <2>1. CASE n = 0
    <3>1. seqs = <<>>
      BY <2>1
    <3> QED
      BY <1>4, <2>1, <3>1 DEF FlattenSeq
  <2>2. CASE n # 0
    <3> DEFINE Flatten(h) == h = [i \in 1..n |-> IF i = 1 THEN seqs[i] ELSE h[i - 1] \o seqs[i]]
               e == [i \in 1..n |-> f[i]]
               h == CHOOSE h : Flatten(h)
    <3>1. Flatten(e)
      <4>1. ASSUME NEW i \in 1..n PROVE f[i] = IF i = 1 THEN seqs[i] ELSE e[i - 1] \o seqs[i]
        <5>1. f[i] = f[i - 1] \o seqs[i]
          BY <1>4
        <5>2. CASE i = 1
          <6>1. f[i] = <<>> \o seqs[i] /\ seqs[i] \in Seq(T)
            BY <1>1, <1>4, <5>1, <5>2
          <6> QED
            BY <5>2, <6>1
        <5>3. CASE i # 1
          <6>1. i - 1 \in 1..n /\ e[i - 1] = f[i - 1]
            BY <1>1, <5>3
          <6> QED
            BY <5>1, <5>3, <6>1
        <5> QED
          BY <5>2, <5>3
      <4>2. e = [i \in 1..n |-> e[i]] /\ \A i \in 1..n : e[i] = f[i]
        OBVIOUS
      <4> HIDE DEF e, n
      <4> QED
        BY <4>1, <4>2
    <3>2. Flatten(h)
      <4> HIDE DEF e, n
      <4> QED
        BY <3>1
    <3>3. FlattenSeq(seqs) = h[n]
      BY <2>2 DEF FlattenSeq
    <3> HIDE DEF h
    <3> DEFINE S == {k \in 0..n : k > 0 => h[k] = f[k]}
    <3>4. 0 \in S
      BY <1>1
    <3>5. ASSUME NEW k \in 0..n - 1, k \in S PROVE k + 1 \in S
      <4>1. k + 1 \in 1..n /\ (k + 1) - 1 = k
        BY <1>1
      <4>2. h[k + 1] = IF k + 1 = 1 THEN seqs[k + 1] ELSE h[(k + 1) - 1] \o seqs[k + 1]
        <5> HIDE DEF n
        <5> QED
          BY <3>2, <4>1
      <4>3. f[k + 1] = f[k] \o seqs[k + 1]
        BY <1>4, <4>1
      <4>4. CASE k = 0
        <5>1. f[k + 1] = <<>> \o seqs[k + 1] /\ seqs[k + 1] \in Seq(T)
          BY <1>1, <1>4, <4>1, <4>3, <4>4
        <5> QED
          BY <4>1, <4>2, <4>4, <5>1
      <4>5. CASE k # 0
        <5>1. h[k] = f[k]
          BY <3>5, <4>5
        <5>2. k + 1 # 1
          BY <4>5
        <5>3. h[k + 1] = h[(k + 1) - 1] \o seqs[k + 1]
          BY <4>2, <5>2
        <5>4. h[k + 1] = f[k + 1]
          BY <4>1, <4>3, <5>1, <5>3
        <5> QED
          BY <4>1, <5>4
      <4> QED
        BY <4>4, <4>5
    <3> HIDE DEF S
    <3>6. 0..n \subseteq S
      <4> HIDE DEF n
      <4> QED
        BY <1>1, <3>4, <3>5, Reaches
    <3>7. h[n] = f[n]
      BY <1>1, <2>2, <3>6, SMTT(30) DEF S
    <3> QED
      BY <3>3, <3>7
  <2> QED
    BY <2>1, <2>2
<1> QED
  BY <1>4, <1>5

LEMMA Joined ==
  ASSUME NEW T, NEW s \in Seq(T), NEW a \in 0..Len(s), NEW b \in a..Len(s)
  PROVE  SubSeq(s, 1, a) \o SubSeq(s, a + 1, b) = SubSeq(s, 1, b)
OBVIOUS

\* A sequence that is cut into pieces is those pieces put together.
LEMMA CutsFlatten ==
  ASSUME NEW T, NEW s \in Seq(T), NEW seqs, IsList(seqs), NEW c,
         c[0] = 0, c[Len(seqs)] = Len(s), \A i \in 0..Len(seqs) : c[i] \in 0..Len(s),
         \A i \in 1..Len(seqs) : c[i - 1] <= c[i] /\ seqs[i] = SubSeq(s, c[i - 1] + 1, c[i])
  PROVE  FlattenSeq(seqs) = s
<1> DEFINE n == Len(seqs)
<1>1. n \in Nat /\ DOMAIN seqs = 1..n /\ seqs = [i \in 1..n |-> seqs[i]] /\ Len(s) \in Nat
  BY DEF IsList, IsObject
<1>2. ASSUME NEW i \in 1..n
      PROVE  /\ i - 1 \in 0..n /\ c[i - 1] \in 0..Len(s) /\ c[i] \in c[i - 1]..Len(s)
             /\ seqs[i] = SubSeq(s, c[i - 1] + 1, c[i]) /\ seqs[i] \in Seq(T)
  <2>1. i - 1 \in 0..n /\ i \in 0..n
    BY <1>1
  <2>2. c[i - 1] \in 0..Len(s) /\ c[i] \in c[i - 1]..Len(s)
        /\ seqs[i] = SubSeq(s, c[i - 1] + 1, c[i])
    BY <2>1
  <2> QED
    BY <2>1, <2>2, SMTT(30)
<1>3. seqs \in Seq(Seq(T))
  <2>1. \A i \in 1..n : seqs[i] \in Seq(T)
    BY <1>2
  <2>2. seqs \in [1..n -> Seq(T)]
    <3> HIDE DEF n
    <3> QED
      BY <1>1, <2>1
  <2> HIDE DEF n
  <2> QED
    BY <1>1, <2>2
<1>4. PICK f : /\ f \in [0..n -> Seq(T)] /\ f[0] = <<>>
               /\ \A i \in 1..n : f[i] = f[i - 1] \o seqs[i]
               /\ FlattenSeq(seqs) = f[n]
  BY <1>3, Flattens
<1> DEFINE S == {i \in 0..n : f[i] = SubSeq(s, 1, c[i])}
<1>5. 0 \in S
  BY <1>1, <1>4
<1>6. ASSUME NEW k \in 0..n - 1, k \in S PROVE k + 1 \in S
  <2>1. k + 1 \in 1..n /\ (k + 1) - 1 = k
    BY <1>1
  <2>2. f[k + 1] = f[k] \o seqs[k + 1] /\ f[k] = SubSeq(s, 1, c[k])
    BY <1>4, <1>6, <2>1
  <2>3. c[k] \in 0..Len(s) /\ c[k + 1] \in c[k]..Len(s)
        /\ seqs[k + 1] = SubSeq(s, c[k] + 1, c[k + 1])
    BY <1>2, <2>1
  <2>4. f[k + 1] = SubSeq(s, 1, c[k + 1])
    BY <2>2, <2>3, Joined
  <2> QED
    BY <2>1, <2>4
<1>7. n \in S
  <2> HIDE DEF S, n
  <2>1. 0..n \subseteq S
    BY <1>1, <1>5, <1>6, Reaches
  <2> QED
    BY <1>1, <2>1
<1>8. f[n] = SubSeq(s, 1, Len(s))
  BY <1>7
<1> QED
  BY <1>4, <1>8

\* Rows of one width put together are as long as they are.
LEMMA RowsFlatten ==
  ASSUME NEW T, NEW seqs \in Seq(Seq(T)), NEW width \in Nat,
         \A i \in 1..Len(seqs) : Len(seqs[i]) = width
  PROVE  Len(FlattenSeq(seqs)) = Len(seqs) * width
<1> DEFINE n == Len(seqs)
<1>1. PICK f : /\ f \in [0..n -> Seq(T)] /\ f[0] = <<>>
               /\ \A i \in 1..n : f[i] = f[i - 1] \o seqs[i]
               /\ FlattenSeq(seqs) = f[n]
  BY Flattens
<1> DEFINE S == {i \in 0..n : Len(f[i]) = i * width}
<1>2. n \in Nat /\ 0 \in S
  BY <1>1
<1>3. ASSUME NEW k \in 0..n - 1, k \in S PROVE k + 1 \in S
  <2>1. k + 1 \in 1..n /\ (k + 1) - 1 = k /\ f[k] \in Seq(T) /\ seqs[k + 1] \in Seq(T)
    BY <1>1, <1>2, SMTT(30)
  <2>2. f[k + 1] = f[k] \o seqs[k + 1] /\ Len(f[k]) = k * width /\ Len(seqs[k + 1]) = width
    BY <1>1, <1>3, <2>1
  <2>3. Len(f[k + 1]) = k * width + width
    <3> DEFINE a == f[k]
               b == seqs[k + 1]
    <3>1. Len(a \o b) = Len(a) + Len(b)
      <4>1. a \in Seq(T) /\ b \in Seq(T)
        BY <2>1
      <4> HIDE DEF a, b
      <4> QED
        BY <4>1
    <3> QED
      BY <2>2, <3>1
  <2>4. (k + 1) * width = k * width + width
    BY <2>1
  <2> QED
    BY <2>1, <2>3, <2>4
<1>4. n \in S
  <2> HIDE DEF S, n
  <2>1. 0..n \subseteq S
    BY <1>2, <1>3, Reaches
  <2> QED
    BY <1>2, <2>1
<1> QED
  BY <1>1, <1>4

\* Chunks of n, the last of which may be shorter.
LEMMA ChunksFlatten ==
  ASSUME NEW T, NEW s \in Seq(T), NEW n \in Nat \ {0}
  PROVE  FlattenSeq(Chunks(s, n)) = s
<1> DEFINE l == Len(s)
           m == (l + n - 1) \div n
           e == (l + n - 1) % n
           c == [i \in 0..m |-> IF i * n > l THEN l ELSE i * n]
           seqs == Chunks(s, n)
<1>1. l \in Nat /\ l + n - 1 \in Nat
  OBVIOUS
<1>2. m \in Nat /\ e \in 0..n - 1 /\ l + n - 1 = m * n + e
  <2> HIDE DEF l
  <2> QED
    BY <1>1
<1>3. seqs = [i \in 1..m |-> SubSeq(s, (i - 1) * n + 1, IF i * n > l THEN l ELSE i * n)]
  BY DEF Chunks
<1> HIDE DEF m, e, seqs
<1>4. IsList(seqs) /\ Len(seqs) = m
  <2>1. DOMAIN seqs = 1..m /\ Len(seqs) = m
    BY <1>2, <1>3
  <2>2. seqs = [i \in DOMAIN seqs |-> seqs[i]]
    BY <1>3
  <2> QED
    BY <1>2, <2>1, <2>2 DEF IsList, IsObject
<1> HIDE DEF l
<1>5. m * n >= l /\ (m - 1) * n < l
  <2>1. (m - 1) * n = m * n - n /\ m * n \in Int
    BY <1>2
  <2> QED
    BY <1>1, <1>2, <2>1
<1>6. c[0] = 0 /\ c[m] = l
  <2>1. 0 * n = 0
    OBVIOUS
  <2>2. m * n > l \/ m * n = l
    BY <1>1, <1>2, <1>5
  <2> QED
    BY <1>1, <1>2, <2>1, <2>2
<1>7. ASSUME NEW i \in 0..m PROVE c[i] \in 0..l
  <2>1. i * n \in Nat
    BY <1>2
  <2> QED
    BY <1>1, <2>1
<1>8. ASSUME NEW i \in 1..m PROVE c[i - 1] <= c[i] /\ seqs[i] = SubSeq(s, c[i - 1] + 1, c[i])
  <2>1. i - 1 \in 0..m /\ i \in 0..m /\ (i - 1) * n \in Int /\ i * n = (i - 1) * n + n
    BY <1>2
  <2>2. (i - 1) * n <= (m - 1) * n
    BY <1>2, ProductOrder
  <2>3. (i - 1) * n < l
    <3>1. (m - 1) * n \in Int
      BY <1>2
    <3> QED
      BY <1>1, <1>5, <2>1, <2>2, <3>1
  <2>4. c[i - 1] = (i - 1) * n /\ c[i] = IF i * n > l THEN l ELSE i * n
    BY <1>1, <2>1, <2>3
  <2>5. c[i - 1] <= c[i]
    <3>1. i * n \in Int
      BY <1>2
    <3> QED
      BY <1>1, <2>1, <2>3, <2>4, <3>1
  <2> HIDE DEF c
  <2> QED
    BY <1>3, <2>4, <2>5
<1> HIDE DEF c
<1>9. c[Len(seqs)] = Len(s)
  BY <1>4, <1>6 DEF l
<1>10. \A i \in 0..Len(seqs) : c[i] \in 0..Len(s)
  BY <1>4, <1>7 DEF l
<1>11. \A i \in 1..Len(seqs) : c[i - 1] <= c[i] /\ seqs[i] = SubSeq(s, c[i - 1] + 1, c[i])
  BY <1>4, <1>8
<1> QED
  BY <1>4, <1>6, <1>9, <1>10, <1>11, CutsFlatten DEF seqs

\* Pieces of the same length.
LEMMA PiecesFlatten ==
  ASSUME NEW T, NEW s \in Seq(T), NEW n \in Nat, NEW m \in Nat, Len(s) = m * n,
         NEW seqs, IsList(seqs), Len(seqs) = m,
         \A i \in 1..m : seqs[i] = SubSeq(s, (i - 1) * n + 1, i * n)
  PROVE  FlattenSeq(seqs) = s
<1> DEFINE c == [i \in 0..m |-> i * n]
<1>1. c[0] = 0 /\ c[Len(seqs)] = Len(s)
  OBVIOUS
<1>2. ASSUME NEW i \in 0..m PROVE c[i] \in 0..Len(s)
  <2>1. i * n \in Nat /\ i * n <= m * n
    BY ProductOrder
  <2> QED
    BY <2>1
<1>3. ASSUME NEW i \in 1..m PROVE c[i - 1] <= c[i] /\ seqs[i] = SubSeq(s, c[i - 1] + 1, c[i])
  <2>1. i - 1 \in 0..m /\ c[i - 1] = (i - 1) * n /\ c[i] = i * n /\ (i - 1) * n <= i * n
    BY ProductOrder
  <2> QED
    BY <2>1
<1> HIDE DEF c
<1> QED
  BY <1>1, <1>2, <1>3, CutsFlatten

---------------------------------------------------------------------------
(***************************************************************************)
(* Rounding and ranges                                                     *)
(***************************************************************************)
\* The unit in the last place is 1, or small beside the number.
LEMMA UnitIs ==
  ASSUME NEW n \in Nat
  PROVE  Unit(n) \in Nat \ {0} /\ (Unit(n) = 1 \/ Unit(n) * Bits[3] <= 2 * n)
<1> DEFINE B == Bits[3]
           T == {u \in Nat \ {0} : u = 1 \/ u * B <= 2 * n}
           next(u) == IF n < u * B THEN u ELSE 2 * u
           g == [p \in T \X (1..64) |-> next(p[1])]
           Of(h) == h = [i \in 0..64 |-> IF i = 0 THEN 1 ELSE next(h[i - 1])]
           h == CHOOSE h : Of(h)
<1>1. B \in Nat \ {0}
  BY Ranges
<1> HIDE DEF B
<1>2. ASSUME NEW u \in T PROVE next(u) \in T
  <2>1. u \in Nat \ {0} /\ u * B \in Nat /\ (2 * u) * B = 2 * (u * B)
    BY <1>1
  <2>2. CASE n < u * B
    BY <2>2
  <2>3. CASE ~(n < u * B)
    <3>1. u * B <= n
      BY <2>1, <2>3
    <3>2. (2 * u) * B <= 2 * n /\ 2 * u \in Nat \ {0}
      BY <2>1, <3>1
    <3>3. next(u) = 2 * u
      BY <2>3
    <3> QED
      BY <3>2, <3>3
  <2> QED
    BY <2>2, <2>3
<1>3. 1 \in T
  OBVIOUS
<1> HIDE DEF T, next
<1>4. g \in Steps(T, 64)
  BY <1>2 DEF Steps
<1>5. PICK f : IsTable(f, T, 64, 1, g)
  <2>1. 64 \in Nat
    OBVIOUS
  <2> HIDE DEF g
  <2> QED
    BY <1>3, <1>4, <2>1, TableExists
<1>6. Of(f)
  <2>1. f \in [0..64 -> T] /\ f[0] = 1 /\ \A i \in 1..64 : f[i] = g[<<f[i - 1], i>>]
    <3> HIDE DEF g
    <3> QED
      BY <1>5 DEF IsTable
  <2>2. \A i \in 1..64 : f[i] = next(f[i - 1])
    <3> TAKE i \in 1..64
    <3>1. i - 1 \in 0..64
      OBVIOUS
    <3>2. f[i - 1] \in T
      BY <2>1, <3>1
    <3> QED
      BY <2>1, <3>2
  <2> HIDE DEF g
  <2> QED
    BY <2>1, <2>2
<1>7. Of(h)
  <2> HIDE DEF Of
  <2> QED
    BY <1>6
<1>8. Unit(n) = h[64]
  BY DEF Unit, next, B
<1> HIDE DEF h
<1>9. h[0] = 1 /\ \A i \in 1..64 : h[i] = next(h[i - 1])
  BY <1>7
<1>10. \A i \in 0..64 : h[i] \in T
  <2>1. h[0] \in T /\ \A i \in 1..64 : h[i - 1] \in T => h[i] \in T
    BY <1>2, <1>3, <1>9
  <2> QED
    BY <2>1, TableTyped
<1>11. h[64] \in T
  BY <1>10
<1> QED
  BY <1>8, <1>11 DEF T, B

\* An integer and the f32 it is converted to.
LEMMA RoundedNear ==
  ASSUME NEW v \in Int
  PROVE  Near(AsF32(v), v)
<1> DEFINE n == IF v < 0 THEN -v ELSE v
           u == Unit(n)
           B == Bits[3]
           q == n \div u
           r == n % u
           x == ToNearest(n)
<1>1. n \in Nat
  OBVIOUS
<1> HIDE DEF n
<1>2. u \in Nat \ {0} /\ (u = 1 \/ u * B <= 2 * n)
  BY <1>1, UnitIs
<1>3. B \in Nat \ {0}
  BY Ranges
<1> HIDE DEF u, B
<1>4. q \in Nat /\ r \in 0..u - 1 /\ n = u * q + r
  BY <1>1, <1>2
<1>5. x = u * q \/ x = u * (q + 1)
  BY DEF ToNearest, u
<1>6. /\ x = u * q => 2 * r <= u
      /\ x = u * (q + 1) => 2 * r >= u
  <2>1. x = u * (IF 2 * r > u \/ (2 * r = u /\ q % 2 = 1) THEN q + 1 ELSE q)
    BY DEF ToNearest, u
  <2> HIDE DEF q, r, x
  <2>2. u * (q + 1) = u * q + u /\ u * q \in Nat
    BY <1>2, <1>4
  <2>3. CASE 2 * r > u \/ (2 * r = u /\ q % 2 = 1)
    BY <1>2, <1>4, <2>1, <2>2, <2>3
  <2>4. CASE ~(2 * r > u \/ (2 * r = u /\ q % 2 = 1))
    BY <1>2, <1>4, <2>1, <2>2, <2>4
  <2> QED
    BY <2>3, <2>4
<1> HIDE DEF q, r, x
<1>7. x \in Nat /\ 2 * Distance(x, n) <= u /\ Distance(x, n) \in Nat
  <2>1. u * (q + 1) = u * q + u /\ u * q \in Nat
    BY <1>2, <1>4
  <2> QED
    BY <1>1, <1>2, <1>4, <1>5, <1>6, <2>1 DEF Distance
<1> DEFINE d == Distance(x, n)
<1>8. d * B <= n
  <2>1. d \in Nat /\ 2 * d <= u /\ x \in Nat
    BY <1>7
  <2> HIDE DEF d
  <2>2. CASE u = 1
    <3>1. d = 0
      BY <2>1, <2>2
    <3> QED
      BY <1>1, <1>3, <3>1
  <2>3. CASE u * B <= 2 * n
    <3>1. (2 * d) * B <= u * B
      BY <1>2, <1>3, <2>1, ProductOrder
    <3>2. (2 * d) * B = 2 * (d * B) /\ d * B \in Nat /\ u * B \in Nat
      BY <1>2, <1>3, <2>1
    <3> QED
      BY <1>1, <2>3, <3>1, <3>2
  <2> QED
    BY <1>2, <2>2, <2>3
<1>9. AsF32(v) = IF v < 0 THEN -x ELSE x
  BY DEF AsF32, n, x
<1>10. Distance(AsF32(v), v) = d /\ Distance(v, 0) = n
  BY <1>7, <1>9 DEF Distance, n
<1> QED
  BY <1>8, <1>10 DEF Near, B

\* A number of some bytes is below the number of those numbers.
LEMMA MagnitudeBelow ==
  ASSUME NEW bytes \in Seq(Bytes), Len(bytes) \in 0..8, NEW big \in BOOLEAN
  PROVE  Magnitude(bytes, big) \in 0..Bits[Len(bytes)] - 1
<1> DEFINE s == IF big THEN bytes ELSE Reverse(bytes)
           w == Len(s)
           S == {k \in 0..w : Leading(s)[k] < Bits[k]}
<1>1. s \in Seq(Bytes) /\ Len(s) = Len(bytes)
  BY DEF Reverse
<1>2. Magnitude(bytes, big) = Leading(s)[w]
  BY <1>1 DEF Magnitude
<1> HIDE DEF s
<1>3. w \in 0..8 /\ w \in Nat /\ \A i \in 1..w : s[i] \in Bytes
  <2>1. w \in 0..8
    BY <1>1
  <2>2. \A i \in 1..w : s[i] \in Bytes
    BY <1>1
  <2> QED
    BY <2>1, <2>2
<1>4. /\ Leading(s)[0] = 0 /\ \A i \in 0..w : Leading(s)[i] \in Nat
      /\ \A i \in 1..w : Leading(s)[i] = Leading(s)[i - 1] * Byte + s[i]
  BY <1>1, LeadingNumbers
<1> HIDE DEF w
<1>5. /\ \A i \in 0..w : Bits[i] \in Nat \ {0}
      /\ \A i \in 1..w : Bits[i] = Bits[i - 1] * Byte
  <2>1. 0..w \subseteq 0..8 /\ 1..w \subseteq 1..8
    BY <1>3
  <2> QED
    BY <2>1, Ranges
<1>6. 0 \in S
  BY <1>3, <1>4, <1>5
<1>7. ASSUME NEW k \in 0..w - 1, k \in S PROVE k + 1 \in S
  <2>1. k + 1 \in 1..w /\ (k + 1) - 1 = k /\ k \in 0..w
    BY <1>3
  <2> DEFINE a == Leading(s)[k]
             b == Bits[k]
             d == s[k + 1]
  <2>2. a \in Nat /\ b \in Nat /\ a < b /\ d \in 0..Byte - 1 /\ Byte \in Nat
    BY <1>3, <1>4, <1>5, <1>7, <2>1, ByteIs
  <2>3. Leading(s)[k + 1] = a * Byte + d /\ Bits[k + 1] = b * Byte
    BY <1>4, <1>5, <2>1
  <2> HIDE DEF a, b, d
  <2>4. (a + 1) * Byte <= b * Byte
    <3>1. a + 1 \in Int /\ b \in Int /\ a + 1 <= b
      BY <2>2
    <3> QED
      BY <2>2, <3>1, ProductOrder
  <2>5. (a + 1) * Byte = a * Byte + Byte /\ a * Byte \in Nat /\ b * Byte \in Nat
    BY <2>2
  <2>6. Leading(s)[k + 1] < Bits[k + 1]
    BY <2>2, <2>3, <2>4, <2>5
  <2> QED
    BY <2>1, <2>6
<1>8. w \in S
  <2> HIDE DEF S
  <2>1. 0..w \subseteq S
    BY <1>3, <1>6, <1>7, Reaches
  <2> QED
    BY <1>3, <2>1
<1> QED
  BY <1>1, <1>2, <1>3, <1>4, <1>5, <1>8 DEF w

---------------------------------------------------------------------------
(***************************************************************************)
(* Decoded tensors                                                         *)
(***************************************************************************)
LEMMA ProductRecurs ==
  ASSUME NEW shape \in Seq(Nat)
  PROVE  \E h : /\ h[0] = 1 /\ \A i \in 0..Len(shape) : h[i] \in Nat
                /\ \A i \in 1..Len(shape) : h[i] = h[i - 1] * shape[i]
                /\ Product(shape) = h[Len(shape)]
<1> DEFINE n == Len(shape)
           g == [p \in Nat \X (1..n) |-> p[1] * shape[p[2]]]
           Of(h) == h = [i \in 0..n |-> IF i = 0 THEN 1 ELSE h[i - 1] * shape[i]]
           h == CHOOSE h : Of(h)
<1>1. n \in Nat /\ \A x \in Nat, i \in 1..n : x * shape[i] \in Nat
  OBVIOUS
<1>2. g \in Steps(Nat, n)
  BY <1>1 DEF Steps
<1>3. PICK f : IsTable(f, Nat, n, 1, g)
  <2> HIDE DEF g, n
  <2> QED
    BY <1>1, <1>2, TableExists
<1>4. Of(f)
  <2>1. f \in [0..n -> Nat] /\ f[0] = 1
        /\ \A i \in 1..n : f[i - 1] \in Nat /\ f[i] = g[<<f[i - 1], i>>]
    <3> HIDE DEF g, n
    <3> QED
      BY <1>1, <1>3 DEF IsTable
  <2>2. \A i \in 1..n : f[i] = f[i - 1] * shape[i]
    BY <2>1
  <2> HIDE DEF n
  <2> QED
    BY <2>1, <2>2
<1>5. Of(h)
  <2> HIDE DEF Of
  <2> QED
    BY <1>4
<1>6. Product(shape) = h[n]
  BY DEF Product
<1> HIDE DEF h
<1>7. h[0] = 1 /\ \A i \in 1..n : h[i] = h[i - 1] * shape[i]
  <2> HIDE DEF n
  <2> QED
    BY <1>1, <1>5
<1>8. h[0] \in Nat /\ \A i \in 1..n : h[i - 1] \in Nat => h[i] \in Nat
  <2> HIDE DEF n
  <2>2. ASSUME NEW i \in 1..n, h[i - 1] \in Nat PROVE h[i] \in Nat
    <3> DEFINE x == h[i - 1]
               y == shape[i]
    <3>1. x \in Nat /\ y \in Nat /\ h[i] = x * y
      BY <1>7, <2>2 DEF n
    <3> HIDE DEF x, y
    <3> QED
      BY <3>1
  <2> QED
    BY <1>7, <2>2
<1>9. \A i \in 0..n : h[i] \in Nat
  <2> HIDE DEF n
  <2> QED
    BY <1>1, <1>8, TableTyped
<1> QED
  BY <1>6, <1>7, <1>9

LEMMA ProductIsNatural == ASSUME NEW shape \in Seq(Nat) PROVE Product(shape) \in Nat
<1>1. Len(shape) \in 0..Len(shape)
  OBVIOUS
<1> QED
  BY <1>1, ProductRecurs

LEMMA ProductOfTwo ==
  ASSUME NEW a \in Nat, NEW b \in Nat
  PROVE  Product(<<a, b>>) = a * b
<1> DEFINE shape == <<a, b>>
<1>1. shape \in Seq(Nat) /\ Len(shape) = 2 /\ shape[1] = a /\ shape[2] = b
  OBVIOUS
<1> HIDE DEF shape
<1>2. PICK h : /\ h[0] = 1 /\ \A i \in 1..2 : h[i] = h[i - 1] * shape[i]
               /\ Product(shape) = h[2]
  BY <1>1, ProductRecurs
<1>3. h[1] = 1 * a /\ h[2] = h[1] * b
  BY <1>1, <1>2
<1> QED
  BY <1>2, <1>3 DEF shape

\* An element's width divides the numbers of eight bytes.
LEMMA WidthDivides ==
  ASSUME NEW w \in {1, 2, 4, 8}
  PROVE  \E c \in Nat \ {0} : usize = c * w
<1>1. PICK h \in Nat \ {0} : Byte = 2 * h
  <2>1. Byte \in Nat /\ Byte > 1 /\ Byte % 2 = 0
    BY ByteAssumption
  <2>2. Byte = 2 * (Byte \div 2)
    BY <2>1
  <2> QED
    BY <2>1, <2>2
<1> DEFINE p == Bits[5]
<1>2. p \in Nat \ {0} /\ usize = p * Byte * Byte * Byte
  BY Ranges DEF usize
<1> HIDE DEF p
<1>3. usize = (p * h * h * h) * 8
  BY <1>1, <1>2
<1>4. p * h \in Nat \ {0}
  BY <1>1, <1>2
<1>5. p * h * h \in Nat \ {0}
  BY <1>1, <1>4
<1> DEFINE q == p * h * h * h
<1>6. q \in Nat \ {0} /\ usize = q * 8
  BY <1>1, <1>3, <1>5
<1> HIDE DEF q
<1>7. /\ q * 8 = (q * 4) * 2 /\ q * 8 = (q * 2) * 4 /\ q * 8 = (q * 8) * 1
      /\ q * 2 \in Nat \ {0} /\ q * 4 \in Nat \ {0} /\ q * 8 \in Nat \ {0}
  BY <1>6
<1> QED
  BY <1>6, <1>7

\* What decode accepts is a whole number of elements.
LEMMA DecodedArray ==
  ASSUME NEW map, TensorTyped(map), decode(map).ok
  PROVE  LET a == decode(map).value IN
         /\ a.kind = map.type.kind /\ a.big = (map.type.mark = ">") /\ Width(a.kind) \in {1, 2, 4, 8}
         /\ a.shape \in Seq(Nat) /\ a.data = map.data /\ a.data \in Seq(Bytes)
         /\ \E m \in Nat : Len(a.data) = m * Width(a.kind)
<1> DEFINE a == decode(map).value
           dtype == parse_dtype(map.type).value
           w == Width(a.kind)
<1>1. /\ map.shape # None /\ map.data # None /\ parse_dtype(map.type).ok
      /\ \A i \in DOMAIN map.shape : ~(map.shape[i] < 0)
      /\ Len(map.data) = Expected(map.shape, dtype.kind)
      /\ a = [kind |-> dtype.kind, big |-> dtype.big, shape |-> map.shape, data |-> map.data]
  BY DEF decode, Ok, Err
<1>2. /\ map.type.kind \in Floats \cup Signed \cup Unsigned
      /\ dtype = [big |-> map.type.mark = ">", kind |-> map.type.kind]
  BY <1>1 DEF parse_dtype, Ok, Err
<1>3. map.data \in Seq(Bytes) /\ map.shape \in Seq(Int)
  BY <1>1 DEF TensorTyped
<1>4. map.shape \in Seq(Nat)
  <2>1. \A i \in 1..Len(map.shape) : map.shape[i] \in Nat
    BY <1>1, <1>3
  <2> QED
    BY <1>3, <2>1, SMTT(30)
<1>5. a.kind = map.type.kind /\ a.big = (map.type.mark = ">") /\ a.shape = map.shape /\ a.data = map.data
  BY <1>1, <1>2
<1>6. w \in {1, 2, 4, 8}
  BY <1>2, <1>5 DEF Width, Floats, Signed, Unsigned
<1>7. \E m \in Nat : Len(map.data) = m * w
  <2>1. PICK c \in Nat \ {0} : usize = c * w
    BY <1>6, WidthDivides
  <2> DEFINE p == Product(map.shape)
  <2>2. p \in Nat /\ Len(map.data) = (p * w) % usize
    BY <1>1, <1>2, <1>4, <1>5, ProductIsNatural DEF Expected
  <2> HIDE DEF w, p
  <2> DEFINE r == p % c
             q == p \div c
  <2>3. q \in Int /\ r \in 0..c - 1 /\ p = q * c + r
    BY <2>1, <2>2
  <2> HIDE DEF q, r
  <2>4. w \in Nat \ {0} /\ r * w \in Nat /\ c * w \in Nat \ {0} /\ (c - 1) * w = c * w - w
        /\ r * w <= (c - 1) * w
    <3>1. w \in Nat \ {0} /\ r \in Int /\ c - 1 \in Int /\ r <= c - 1
      BY <1>6, <2>3
    <3>2. r * w <= (c - 1) * w
      BY <3>1, ProductOrder
    <3> QED
      BY <2>3, <3>1, <3>2
  <2>5. r * w \in 0..c * w - 1
    BY <2>4
  <2>6. p * w = q * (c * w) + r * w
    BY <2>1, <2>3, <2>4
  <2> DEFINE cw == c * w
             rw == r * w
  <2>7. cw \in Nat \ {0} /\ rw \in 0..cw - 1 /\ p * w = q * cw + rw
    BY <2>4, <2>5, <2>6
  <2>8. usize = cw
    BY <2>1
  <2> HIDE DEF cw, rw
  <2>9. (q * cw + rw) % cw = rw
    BY <2>3, <2>7, Divides
  <2>10. Len(map.data) = rw
    BY <2>2, <2>7, <2>8, <2>9
  <2> QED
    BY <2>3, <2>10 DEF rw
<1> QED
  BY <1>3, <1>4, <1>5, <1>6, <1>7

\* The bytes of the elements.
LEMMA ElementPieces ==
  ASSUME NEW data \in Seq(Bytes), NEW w \in Nat \ {0}, NEW m \in Nat, Len(data) = m * w
  PROVE  /\ DOMAIN ChunksExact(data, w) = 1..m
         /\ \A i \in 1..m :
              /\ ChunksExact(data, w)[i] = SubSeq(data, (i - 1) * w + 1, i * w)
              /\ ChunksExact(data, w)[i] \in Seq(Bytes) /\ Len(ChunksExact(data, w)[i]) = w
<1>1. Len(data) \div w = m
  <2>1. (m * w + 0) \div w = m
    BY Divides
  <2>2. m * w + 0 = m * w
    OBVIOUS
  <2> QED
    BY <2>1, <2>2
<1>2. ChunksExact(data, w) = [i \in 1..m |-> SubSeq(data, (i - 1) * w + 1, i * w)]
  BY <1>1 DEF ChunksExact
<1>3. ASSUME NEW i \in 1..m
      PROVE  LET piece == SubSeq(data, (i - 1) * w + 1, i * w)
             IN piece \in Seq(Bytes) /\ Len(piece) = w
  <2> DEFINE low == (i - 1) * w
             high == i * w
  <2>1. low \in Nat /\ high = low + w /\ high <= Len(data)
    <3>1. i * w <= m * w
      BY ProductOrder
    <3> QED
      BY <3>1
  <2> HIDE DEF low, high
  <2>2. SubSeq(data, low + 1, high) \in Seq(Bytes) /\ Len(SubSeq(data, low + 1, high)) = w
    BY <2>1
  <2> QED
    BY <2>2 DEF low, high
<1> QED
  BY <1>2, <1>3

LEMMA MagnitudeNatural ==
  ASSUME NEW bytes \in Seq(Bytes), NEW big \in BOOLEAN
  PROVE  Magnitude(bytes, big) \in Nat
<1> DEFINE s == IF big THEN bytes ELSE Reverse(bytes)
<1>1. s \in Seq(Bytes) /\ Len(s) = Len(bytes)
  BY DEF Reverse
<1>2. Magnitude(bytes, big) = Leading(s)[Len(bytes)]
  BY DEF Magnitude
<1> HIDE DEF s
<1> QED
  BY <1>1, <1>2, LeadingNumbers

\* An element of a buffer, or what differs from it by what two's complement takes away.
IsElement(x, data, w, big, i) ==
  \E c \in {0, 1} : x = Magnitude(ChunksExact(data, w)[i], big) - c * Bits[w]

Written(numbers, w, big) == [i \in DOMAIN numbers |-> BytesOf(numbers[i], w, big)]

\* Numbers that are those of a buffer hold its bytes.
LEMMA NumbersHold ==
  ASSUME NEW data \in Seq(Bytes), NEW w \in 1..8, NEW big \in BOOLEAN,
         NEW numbers, DOMAIN numbers = 1..Len(numbers), Len(numbers) \in Nat,
         Len(data) = Len(numbers) * w,
         \A i \in DOMAIN numbers : IsElement(numbers[i], data, w, big, i)
  PROVE  FlattenSeq(Written(numbers, w, big)) = data
<1> DEFINE m == Len(numbers)
           piece(i) == ChunksExact(data, w)[i]
           seqs == Written(numbers, w, big)
<1>1. w \in Nat \ {0} /\ w \in Nat
  OBVIOUS
<1>2. \A i \in 1..m : /\ piece(i) = SubSeq(data, (i - 1) * w + 1, i * w)
                      /\ piece(i) \in Seq(Bytes) /\ Len(piece(i)) = w
  BY <1>1, ElementPieces
<1>3. ASSUME NEW i \in 1..m PROVE seqs[i] = SubSeq(data, (i - 1) * w + 1, i * w)
  <2>1. PICK c \in {0, 1} : numbers[i] = Magnitude(piece(i), big) - c * Bits[w]
    BY DEF IsElement
  <2> HIDE DEF piece
  <2>2. BytesOf(Magnitude(piece(i), big) - c * Bits[w], w, big) = piece(i)
    BY <1>1, <1>2, BytesRoundTrip
  <2> QED
    BY <1>2, <2>1, <2>2 DEF Written
<1>4. IsList(seqs) /\ Len(seqs) = m
  BY DEF IsList, IsObject, Written
<1> HIDE DEF seqs
<1>5. FlattenSeq(seqs) = data
  BY <1>1, <1>3, <1>4, PiecesFlatten
<1> QED
  BY <1>5 DEF seqs

\* The elements of an array, and what is taken away of each.
LEMMA ElementsAre ==
  ASSUME NEW a, NEW m \in Nat, NEW w \in {1, 2, 4, 8}, w = Width(a.kind), a.big \in BOOLEAN,
         a.data \in Seq(Bytes), Len(a.data) = m * w
  PROVE  /\ DOMAIN Elements(a) = 1..m
         /\ \A i \in 1..m :
              LET n == Magnitude(ChunksExact(a.data, w)[i], a.big)
              IN /\ n \in Nat /\ Bits[w] \in Nat
                 /\ \/ Elements(a)[i] = n
                    \/ a.kind \in Signed /\ Elements(a)[i] = n - Bits[w]
                 /\ Elements(a)[i] \in ValuesOf(a.kind)
<1>1. /\ DOMAIN ChunksExact(a.data, w) = 1..m
      /\ \A i \in 1..m : ChunksExact(a.data, w)[i] \in Seq(Bytes) /\ Len(ChunksExact(a.data, w)[i]) = w
  <2>1. w \in Nat \ {0}
    OBVIOUS
  <2> DEFINE data == a.data
  <2>2. data \in Seq(Bytes) /\ Len(data) = m * w
    OBVIOUS
  <2> HIDE DEF data
  <2>3. /\ DOMAIN ChunksExact(data, w) = 1..m
        /\ \A i \in 1..m : ChunksExact(data, w)[i] \in Seq(Bytes) /\ Len(ChunksExact(data, w)[i]) = w
    BY <2>1, <2>2, ElementPieces
  <2> QED
    BY <2>3 DEF data
<1>2. DOMAIN Elements(a) = 1..m
  BY <1>1 DEF Elements
<1>3. ASSUME NEW i \in 1..m
      PROVE  LET n == Magnitude(ChunksExact(a.data, w)[i], a.big)
             IN /\ n \in Nat /\ Bits[w] \in Nat
                /\ \/ Elements(a)[i] = n
                   \/ a.kind \in Signed /\ Elements(a)[i] = n - Bits[w]
                /\ Elements(a)[i] \in ValuesOf(a.kind)
  <2> DEFINE n == Magnitude(ChunksExact(a.data, w)[i], a.big)
             all == Bits[w]
  <2>1. n \in 0..all - 1
    <3>1. w \in 0..8
      OBVIOUS
    <3> QED
      BY <1>1, <3>1, MagnitudeBelow
  <2>2. all \in Nat
    <3>1. w \in 0..8
      OBVIOUS
    <3> QED
      BY <3>1, Ranges
  <2>3. Elements(a)[i] = IF a.kind \in Signed THEN TwosComplement(n, w) ELSE n
    BY <1>1 DEF Elements
  <2>4. TwosComplement(n, w) = IF 2 * n >= all THEN n - all ELSE n
    BY DEF TwosComplement
  <2>5. ValuesOf(a.kind) = IF a.kind \in Signed
                           THEN {k \in -all..all - 1 : 2 * k \in -all..all - 1} ELSE 0..all - 1
    BY DEF ValuesOf
  <2> HIDE DEF n, all
  <2>6. \/ Elements(a)[i] = n
        \/ a.kind \in Signed /\ Elements(a)[i] = n - all
    BY <2>3, <2>4
  <2>7. Elements(a)[i] \in ValuesOf(a.kind)
    <3>1. CASE a.kind \in Signed
      <4>1. TwosComplement(n, w) \in {k \in -all..all - 1 : 2 * k \in -all..all - 1}
        BY <2>1, <2>2, <2>4
      <4> QED
        BY <2>3, <2>5, <3>1, <4>1
    <3>2. CASE a.kind \notin Signed
      BY <2>1, <2>3, <2>5, <3>2
    <3> QED
      BY <3>1, <3>2
  <2> QED
    BY <2>1, <2>2, <2>6, <2>7 DEF n, all
<1> QED
  BY <1>2, <1>3

(***************************************************************************)
(* The numbers a caller gets of a tensor are read of those the server      *)
(* wrote, for every type, order, shape and length: values of the dtype     *)
(* that give the bytes of the buffer, floats of up to 32 bits as they are, *)
(* doubles narrowed, integers within one part in 2^24, those of the rows   *)
(* one after another; and indices exactly.                                 *)
(***************************************************************************)
THEOREM TensorsAreRead ==
  ASSUME NEW map, TensorTyped(map), decode(map).ok
  PROVE  LET a == decode(map).value IN
         /\ AsSent(to_f32(a), map)
         /\ rows(a).ok => AsSent(FlattenSeq(rows(a).value), map)
         /\ to_u32(a).ok => Holds(to_u32(a).value, map)
<1> DEFINE a == decode(map).value
           w == Width(a.kind)
           big == map.type.mark = ">"
           n(i) == Magnitude(ChunksExact(map.data, w)[i], big)
<1>1. /\ a.kind = map.type.kind /\ a.big = big /\ w \in {1, 2, 4, 8}
      /\ a.shape \in Seq(Nat) /\ a.data = map.data /\ map.data \in Seq(Bytes)
  BY DecodedArray
<1>2. PICK m \in Nat : Len(map.data) = m * w
  BY <1>1, DecodedArray
<1> HIDE DEF a
<1>3. /\ DOMAIN Elements(a) = 1..m
      /\ \A i \in 1..m : /\ n(i) \in Nat /\ Bits[w] \in Nat
                         /\ Elements(a)[i] = n(i) \/ Elements(a)[i] = n(i) - Bits[w]
      /\ a.kind \notin Signed => \A i \in 1..m : Elements(a)[i] = n(i)
      /\ \A i \in 1..m : Elements(a)[i] \in ValuesOf(a.kind)
  <2>1. a.big \in BOOLEAN /\ a.data \in Seq(Bytes) /\ Len(a.data) = m * w
    BY <1>1, <1>2
  <2>2. /\ DOMAIN Elements(a) = 1..m
        /\ \A i \in 1..m :
             LET k == Magnitude(ChunksExact(a.data, w)[i], a.big)
             IN /\ k \in Nat /\ Bits[w] \in Nat
                /\ \/ Elements(a)[i] = k
                   \/ a.kind \in Signed /\ Elements(a)[i] = k - Bits[w]
                /\ Elements(a)[i] \in ValuesOf(a.kind)
    BY <1>1, <2>1, ElementsAre
  <2>3. \A i \in 1..m : n(i) = Magnitude(ChunksExact(a.data, w)[i], a.big)
    BY <1>1
  <2> HIDE DEF n
  <2> QED
    BY <2>2, <2>3
<1> HIDE DEF n
<1>4. ASSUME NEW i \in 1..m, NEW x, x = n(i) \/ x = n(i) - Bits[w]
      PROVE  IsElement(x, map.data, w, big, i)
  <2>1. n(i) \in Nat /\ Bits[w] \in Nat
    BY <1>3
  <2>2. n(i) - 0 * Bits[w] = n(i) /\ n(i) - 1 * Bits[w] = n(i) - Bits[w]
    BY <2>1
  <2> QED
    BY <1>4, <2>2 DEF IsElement, n
<1>5. ASSUME NEW numbers, DOMAIN numbers = 1..m,
             \A i \in 1..m : numbers[i] = n(i) \/ numbers[i] = n(i) - Bits[w]
      PROVE  Holds(numbers, map)
  <2>1. \A i \in 1..m : IsElement(numbers[i], map.data, w, big, i)
    BY <1>4, <1>5
  <2>2. w = Width(map.type.kind) /\ w \in 1..8 /\ big \in BOOLEAN /\ map.data \in Seq(Bytes)
    BY <1>1
  <2>3. FlattenSeq(Written(numbers, w, big)) = map.data
    <3> HIDE DEF w, big
    <3>1. PICK v \in 1..8, b \in BOOLEAN, data \in Seq(Bytes) : v = w /\ b = big /\ data = map.data
      BY <2>2
    <3>2. DOMAIN numbers = 1..m /\ Len(numbers) = m
      BY <1>5
    <3>3. Len(data) = Len(numbers) * v /\ DOMAIN numbers = 1..Len(numbers)
          /\ \A i \in DOMAIN numbers : IsElement(numbers[i], data, v, b, i)
      BY <1>2, <2>1, <3>1, <3>2
    <3>4. FlattenSeq(Written(numbers, v, b)) = data
      BY <3>2, <3>3, NumbersHold
    <3> QED
      BY <3>1, <3>4
  <2> QED
    BY <2>2, <2>3 DEF Holds, Written
<1> DEFINE pairs == to_f32(a)
<1>6. /\ DOMAIN pairs = 1..m
      /\ \A i \in 1..m : IsRead(pairs[i], a.kind, Elements(a)[i])
      /\ pairs = [i \in 1..m |-> pairs[i]]
  <2>1. ASSUME NEW i \in 1..m PROVE IsRead(pairs[i], a.kind, Elements(a)[i])
    <3> DEFINE v == Elements(a)[i]
    <3>1. pairs[i] = CASE a.kind \in {"f2", "f4"} -> <<a.kind, v>>
                       [] a.kind = "f8" -> <<"f4", Narrowed(v)>>
                       [] OTHER -> <<"integer", AsF32(v)>>
      BY <1>3 DEF to_f32
    <3>2. v \in Int
      BY <1>3
    <3>3. Near(AsF32(v), v)
      BY <3>2, RoundedNear
    <3> HIDE DEF v, pairs
    <3>4. IsRead(pairs[i], a.kind, v)
      BY <3>1, <3>3 DEF IsRead, Floats
    <3> QED
      BY <3>4 DEF v
  <2> QED
    BY <1>3, <2>1 DEF to_f32
<1> HIDE DEF pairs
<1>7. AsSent(pairs, map)
  <2> DEFINE sent == [i \in 1..m |-> Elements(a)[i]]
  <2>1. DOMAIN sent = 1..m /\ \A i \in 1..m : sent[i] = Elements(a)[i]
    OBVIOUS
  <2>2. sent \in [1..m -> ValuesOf(a.kind)]
    BY <1>3
  <2> HIDE DEF sent
  <2>3. Holds(sent, map)
    BY <1>3, <1>5, <2>1
  <2>4. sent \in [DOMAIN pairs -> ValuesOf(map.type.kind)]
    BY <1>1, <1>6, <2>2
  <2>5. \A i \in DOMAIN pairs : IsRead(pairs[i], map.type.kind, sent[i])
    BY <1>1, <1>6, <2>1
  <2> QED
    BY <2>3, <2>4, <2>5 DEF AsSent
<1>8. ASSUME rows(a).ok PROVE AsSent(FlattenSeq(rows(a).value), map)
  <2>1. cols(a).ok /\ rows(a).value = Chunks(pairs, cols(a).value)
    BY <1>8 DEF rows, Ok, Err, pairs
  <2>2. cols(a).value \in Nat \ {0}
    <3>1. Len(a.shape) = 2 /\ a.shape[2] \in Nat
      BY <1>1, <2>1 DEF cols, Err
    <3> QED
      BY <3>1 DEF cols, Ok
  <2>3. pairs \in Seq({pairs[i] : i \in 1..m})
    BY <1>6
  <2>4. FlattenSeq(rows(a).value) = pairs
    BY <2>1, <2>2, <2>3, ChunksFlatten
  <2> QED
    BY <1>7, <2>4
<1>9. ASSUME to_u32(a).ok PROVE Holds(to_u32(a).value, map)
  <2> DEFINE value(i) == IF a.kind = "u8" THEN TwosComplement(Elements(a)[i], 8) ELSE Elements(a)[i]
             results == [i \in DOMAIN Elements(a) |-> ToIndex(value(i))]
  <2>1. All(results).ok /\ to_u32(a).value = All(results).value
    BY <1>9 DEF to_u32, Err
  <2>2. DOMAIN results = 1..m /\ \A i \in 1..m : results[i] = ToIndex(value(i))
    BY <1>3
  <2>3. \A i \in 1..m : results[i].ok => results[i].value = value(i)
    <3> HIDE DEF value
    <3> QED
      BY <2>2 DEF ToIndex, Ok, Err
  <2>4. \A i \in 1..m : value(i) = n(i) \/ value(i) = n(i) - Bits[w]
    <3> TAKE i \in 1..m
    <3>1. CASE a.kind = "u8"
      <4>1. w = 8 /\ a.kind \notin Signed
        BY <3>1 DEF Width, Signed
      <4> HIDE DEF w
      <4>2. value(i) = TwosComplement(n(i), w)
        BY <1>3, <3>1, <4>1
      <4> QED
        BY <4>2 DEF TwosComplement
    <3>2. CASE a.kind # "u8"
      BY <1>3, <3>2
    <3> QED
      BY <3>1, <3>2
  <2> HIDE DEF value, results
  <2>5. /\ \A i \in DOMAIN results : results[i].ok
        /\ All(results) = Ok([i \in DOMAIN results |-> results[i].value])
    BY <2>1, <2>2, AllResults
  <2>6. DOMAIN to_u32(a).value = 1..m /\ \A i \in 1..m : to_u32(a).value[i] = value(i)
    BY <2>1, <2>2, <2>3, <2>5 DEF Ok
  <2> QED
    BY <1>5, <2>4, <2>6
<1> QED
  BY <1>7, <1>8, <1>9 DEF a, pairs

---------------------------------------------------------------------------
(***************************************************************************)
(* What a caller makes of tensors                                          *)
(***************************************************************************)
\* The array of a matrix: its rows one after another, as many numbers as its
\* shape says.
THEOREM ArrayOfRows ==
  ASSUME NEW matrix, IsList(matrix), \A i \in DOMAIN matrix : IsList(matrix[i]),
         rows_to_array(matrix).ok
  PROVE  LET array == rows_to_array(matrix).value IN
         /\ array.elements = FlattenSeq(matrix)
         /\ Len(array.elements) = Product(array.shape)
<1> DEFINE width == IF matrix = <<>> THEN 0 ELSE Len(matrix[1])
           array == rows_to_array(matrix).value
           T == UNION {{matrix[i][j] : j \in DOMAIN matrix[i]} : i \in DOMAIN matrix}
<1>1. /\ \A i \in DOMAIN matrix : Len(matrix[i]) = width
      /\ array = [shape |-> <<Len(matrix), width>>, elements |-> FlattenSeq(matrix)]
  BY DEF rows_to_array, Ok, Err
<1>2. Len(matrix) \in Nat /\ DOMAIN matrix = 1..Len(matrix)
      /\ matrix = [i \in 1..Len(matrix) |-> matrix[i]]
  BY DEF IsList, IsObject
<1>3. \A i \in DOMAIN matrix : matrix[i] \in Seq(T)
  <2> TAKE i \in DOMAIN matrix
  <2>1. /\ Len(matrix[i]) \in Nat /\ DOMAIN matrix[i] = 1..Len(matrix[i])
        /\ matrix[i] = [j \in 1..Len(matrix[i]) |-> matrix[i][j]]
    BY DEF IsList, IsObject
  <2>2. \A j \in DOMAIN matrix[i] : matrix[i][j] \in T
    OBVIOUS
  <2> HIDE DEF T
  <2> QED
    BY <2>1, <2>2
<1> HIDE DEF T
<1>4. matrix \in Seq(Seq(T))
  BY <1>2, <1>3
<1>5. width \in Nat
  <2>1. matrix # <<>> => 1 \in DOMAIN matrix
    BY <1>2
  <2> QED
    BY <2>1 DEF IsList
<1> HIDE DEF width, array
<1>6. Len(FlattenSeq(matrix)) = Len(matrix) * width
  BY <1>1, <1>2, <1>4, <1>5, RowsFlatten
<1>7. Product(<<Len(matrix), width>>) = Len(matrix) * width
  BY <1>2, <1>5, ProductOfTwo
<1> QED
  BY <1>1, <1>6, <1>7 DEF array

LEMMA GreatestExists ==
  ASSUME NEW n \in Nat, NEW S \in SUBSET (0..n), S # {}
  PROVE  Max(S) \in S /\ \A y \in S : y <= Max(S)
<1> DEFINE below == {n - x : x \in S}
<1>1. below \in SUBSET Nat /\ below # {}
  <2>1. \A x \in S : n - x \in Nat
    OBVIOUS
  <2> QED
    BY <2>1
<1>2. \E x \in below : \A y \in below : x <= y
  <2> HIDE DEF below
  <2> QED
    BY <1>1, LeastExists
<1>3. \E x \in S : \A y \in S : y <= x
  <2>1. PICK x \in S : \A y \in S : n - x <= n - y
    BY <1>2
  <2>2. \A y \in S : y <= x
    BY <2>1
  <2> QED
    BY <2>2
<1> HIDE DEF below
<1> QED
  BY <1>3 DEF Max

\* A sparse vector as a dense one: each index has a value that it was given, none
\* that a later entry overwrites, and nothing else is set.
THEOREM DenseOfSparse ==
  ASSUME NEW sparse, NEW dims \in Nat, IsList(sparse.indices), IsList(sparse.values),
         \A k \in DOMAIN sparse.indices : sparse.indices[k] \in Nat,
         sparse_to_dense(sparse, dims).ok
  PROVE  LET dense == sparse_to_dense(sparse, dims).value
             pairs == DOMAIN sparse.indices \cap DOMAIN sparse.values
         IN /\ DOMAIN dense = 0..dims - 1
            /\ \A k \in pairs :
                 \E l \in pairs : /\ l >= k /\ sparse.indices[l] = sparse.indices[k]
                                  /\ dense[sparse.indices[k]] = sparse.values[l]
            /\ \A i \in DOMAIN dense :
                 (\A k \in pairs : sparse.indices[k] # i) => dense[i] = Zero
<1> DEFINE indices == sparse.indices
           values == sparse.values
           n == Min({Len(indices), Len(values)})
           at(i) == {k \in 1..n : indices[k] = i}
           dense == sparse_to_dense(sparse, dims).value
           pairs == DOMAIN indices \cap DOMAIN values
<1>1. /\ \A k \in 1..n : ~(indices[k] >= dims)
      /\ dense = [i \in 0..dims - 1 |-> IF at(i) = {} THEN Zero ELSE values[Max(at(i))]]
  BY DEF sparse_to_dense, Ok, Err
<1>2. /\ Len(indices) \in Nat /\ DOMAIN indices = 1..Len(indices)
      /\ Len(values) \in Nat /\ DOMAIN values = 1..Len(values)
  BY DEF IsList
<1>3. n \in Nat /\ n <= Len(indices) /\ n <= Len(values) /\ n \in {Len(indices), Len(values)}
  <2> DEFINE S == {Len(indices), Len(values)}
  <2>1. \E x \in S : \A y \in S : x <= y
    BY <1>2
  <2>2. Min(S) \in S /\ \A y \in S : Min(S) <= y
    BY <2>1 DEF Min
  <2> QED
    BY <1>2, <2>2
<1> HIDE DEF n, dense
<1>4. pairs = 1..n
  BY <1>2, <1>3
<1> HIDE DEF pairs
<1>5. ASSUME NEW k \in pairs
      PROVE  \E l \in pairs : /\ l >= k /\ indices[l] = indices[k]
                              /\ dense[indices[k]] = values[l]
  <2> DEFINE S == at(indices[k])
             l == Max(S)
  <2>1. S \in SUBSET (0..n) /\ k \in S
    BY <1>3, <1>4, <1>5
  <2>2. l \in S /\ k <= l
    <3> HIDE DEF S
    <3> QED
      BY <1>3, <2>1, GreatestExists
  <2>3. indices[k] \in 0..dims - 1
    <3>1. indices[k] \in Nat /\ ~(indices[k] >= dims)
      BY <1>1, <1>2, <1>3, <1>4, <1>5
    <3> QED
      BY <3>1
  <2>4. dense[indices[k]] = values[l]
    BY <1>1, <2>1, <2>3
  <2> HIDE DEF l
  <2>5. l \in pairs /\ indices[l] = indices[k] /\ l >= k
    BY <1>3, <1>4, <1>5, <2>2
  <2> QED
    BY <2>4, <2>5
<1>6. ASSUME NEW i \in 0..dims - 1, \A k \in pairs : indices[k] # i PROVE dense[i] = Zero
  <2>1. at(i) = {}
    BY <1>4, <1>6
  <2> QED
    BY <1>1, <2>1
<1>7. DOMAIN dense = 0..dims - 1
  BY <1>1
<1> QED
  BY <1>5, <1>6, <1>7 DEF dense, pairs

\* The rows of a batch are those of its queries, one by one.
THEOREM BatchIsMaxsim ==
  ASSUME NEW queries, NEW documents, IsList(documents)
  PROVE  maxsim_batch(queries, documents)
           = [q \in DOMAIN queries |-> maxsim(queries[q], documents)]
<1> DEFINE n == Len(documents)
           Q == DOMAIN queries
           D == DOMAIN documents
           score(q, d) == score_against(queries[q], documents[d])
           V == {0} \cup {score(q, d) : q \in Q, d \in D}
           T == [Q -> [D -> V]]
           b == [q \in Q |-> [d \in D |-> 0]]
           next(x, i) == [q \in Q |-> [x[q] EXCEPT ![i] = score(q, i)]]
           g == [p \in T \X (1..n) |-> next(p[1], p[2])]
           Of(h) == h = [i \in 0..n |-> IF i = 0 THEN b ELSE next(h[i - 1], i)]
           h == CHOOSE h : Of(h)
<1>1. n \in Nat /\ D = 1..n
  BY DEF IsList
<1>2. b \in T
  OBVIOUS
<1>3. \A x \in T, i \in 1..n : next(x, i) \in T
  <2> HIDE DEF n, Q, D, score
  <2> QED
    BY <1>1
<1>4. g \in Steps(T, n)
  <2> HIDE DEF T, next, n
  <2> QED
    BY <1>3 DEF Steps
<1>5. PICK f : IsTable(f, T, n, b, g)
  <2> HIDE DEF g, n, T, b
  <2> QED
    BY <1>1, <1>2, <1>4, TableExists
<1>6. Of(f)
  <2> HIDE DEF T, next, n, b
  <2>1. f \in [0..n -> T] /\ f[0] = b
        /\ \A i \in 1..n : f[i - 1] \in T /\ f[i] = g[<<f[i - 1], i>>]
    <3> HIDE DEF g
    <3> QED
      BY <1>1, <1>5 DEF IsTable
  <2>2. \A i \in 1..n : f[i] = next(f[i - 1], i)
    BY <2>1
  <2> HIDE DEF g
  <2> QED
    BY <1>1, <2>1, <2>2
<1>7. Of(h)
  <2> HIDE DEF Of
  <2> QED
    BY <1>6
<1>8. maxsim_batch(queries, documents) = h[n]
  BY DEF maxsim_batch
<1> HIDE DEF h
<1>9. h[0] = b /\ \A i \in 1..n : h[i] = next(h[i - 1], i)
  <2> HIDE DEF n, next, b
  <2> QED
    BY <1>1, <1>7
<1> DEFINE upto(k) == [q \in Q |-> [d \in D |-> IF d <= k THEN score(q, d) ELSE 0]]
           S == {k \in 0..n : h[k] = upto(k)}
<1> HIDE DEF score, Q, n
<1>10. 0 \in S
  <2>1. b = upto(0)
    BY <1>1
  <2> HIDE DEF upto, b, next
  <2> QED
    BY <1>1, <1>9, <2>1
<1>11. ASSUME NEW k \in 0..n - 1, k \in S PROVE k + 1 \in S
  <2>1. k + 1 \in 1..n /\ (k + 1) - 1 = k /\ h[k] = upto(k)
    BY <1>1, <1>11
  <2>2. h[k + 1] = next(upto(k), k + 1)
    <3> HIDE DEF upto, next
    <3> QED
      BY <1>9, <2>1
  <2>3. \A q \in Q : [upto(k)[q] EXCEPT ![k + 1] = score(q, k + 1)] = upto(k + 1)[q]
    BY <1>1, <2>1, SMTT(30)
  <2>4. next(upto(k), k + 1) = upto(k + 1)
    BY <2>3
  <2> QED
    BY <1>1, <2>1, <2>2, <2>4
<1>12. h[n] = upto(n)
  <2> HIDE DEF S
  <2>1. 0..n \subseteq S
    BY <1>1, <1>10, <1>11, Reaches
  <2>2. n \in S
    BY <1>1, <2>1
  <2> QED
    BY <2>2 DEF S
<1>13. upto(n) = [q \in Q |-> [d \in D |-> score(q, d)]]
  BY <1>1
<1> QED
  BY <1>8, <1>12, <1>13 DEF maxsim, score, Q
=============================================================================
