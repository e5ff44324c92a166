----------------------------- MODULE NumpyArray -----------------------------
(***************************************************************************)
(* Tensors in msgpack-numpy form (src/wire/ndarray.rs), what a caller can  *)
(* make of them (src/ndarray.rs) and MaxSim over them (src/scoring.rs).    *)
(* A buffer is a sequence of bytes and every width keeps its arithmetic,   *)
(* but a byte has Byte values instead of 256; release builds wrap.         *)
(***************************************************************************)
EXTENDS Fields, SequencesExt, FiniteSetsExt

CONSTANTS
  Byte,
  Narrowed(_)   \* the pattern of the f32 that `as` makes of an f64's pattern

\* Even, so that the width of an element divides usize.
ASSUME ByteAssumption == Byte \in Nat /\ Byte > 1 /\ Byte % 2 = 0

\* How many numbers there are of so many bytes: Byte ^ bytes.
Bits[bytes \in 0..8] == IF bytes = 0 THEN 1 ELSE Bits[bytes - 1] * Byte

usize == Bits[8]
u32 == Bits[4]

ASSUME NarrowedAssumption == \A n \in 0..usize - 1 : Narrowed(n) \in 0..u32 - 1

---------------------------------------------------------------------------
Floats == {"f2", "f4", "f8"}
Signed == {"i1", "i2", "i4", "i8"}
Unsigned == {"u1", "u2", "u4", "u8"}

Width(kind) ==
  CASE kind \in {"i1", "u1"} -> 1
    [] kind \in {"f2", "i2", "u2"} -> 2
    [] kind \in {"f4", "i4", "u4"} -> 4
    [] kind \in {"f8", "i8", "u8"} -> 8

\* A dtype is its order mark and its kind; an empty descriptor has neither.
parse_dtype(descr) ==
  IF descr.mark \in {"<", "|", "=", ">"} /\ descr.kind \in Floats \cup Signed \cup Unsigned
  THEN Ok([big |-> descr.mark = ">", kind |-> descr.kind])
  ELSE Err("decode")

Product(shape) ==
  LET product[i \in 0..Len(shape)] == IF i = 0 THEN 1 ELSE product[i - 1] * shape[i]
  IN product[Len(shape)]

\* iter().product::<usize>() * width
Expected(shape, kind) == (Product(shape) * Width(kind)) % usize

\* decode: a map with nd, type, shape and data, each None when it is missing
\* or of the wrong kind; a dimension that is no unsigned integer is negative.
decode(map) ==
  IF \/ map.nd # TRUE \/ map.type = None \/ map.shape = None \/ map.data = None
     \/ ~parse_dtype(map.type).ok
     \/ \E i \in DOMAIN map.shape : map.shape[i] < 0
  THEN Err("decode")
  ELSE LET dtype == parse_dtype(map.type).value
       IN IF Len(map.data) # Expected(map.shape, dtype.kind) THEN Err("decode")
          ELSE Ok([kind |-> dtype.kind, big |-> dtype.big,
                   shape |-> map.shape, data |-> map.data])

---------------------------------------------------------------------------
\* chunks_exact and chunks.
ChunksExact(s, n) == [i \in 1..(Len(s) \div n) |-> SubSeq(s, (i - 1) * n + 1, i * n)]

Chunks(s, n) ==
  [i \in 1..((Len(s) + n - 1) \div n) |->
     SubSeq(s, (i - 1) * n + 1, IF i * n > Len(s) THEN Len(s) ELSE i * n)]

\* The number that the first i bytes are, the most significant byte first.
Leading(bytes) ==
  LET prefix[i \in 0..Len(bytes)] == IF i = 0 THEN 0 ELSE prefix[i - 1] * Byte + bytes[i]
  IN prefix

\* Slip: the buffer's declared order is not looked at.
Magnitude_little(bytes, big) == Leading(Reverse(bytes))[Len(bytes)]

\* from_le_bytes, from_be_bytes
Magnitude(bytes, big) == Leading(IF big THEN bytes ELSE Reverse(bytes))[Len(bytes)]

\* A bit pattern as a two's complement number of the given width.
TwosComplement(n, bytes) == IF 2 * n >= Bits[bytes] THEN n - Bits[bytes] ELSE n

\* read_elements!: the pattern of a float, the value of an integer.
Elements(a) ==
  LET w == Width(a.kind)
      raw == ChunksExact(a.data, w)
  IN [i \in DOMAIN raw |->
        LET n == Magnitude(raw[i], a.big)
        IN IF a.kind \in Signed THEN TwosComplement(n, w) ELSE n]

\* The unit in the last of the 24 bits, three bytes, that an f32 has for a whole
\* number: a power of two, found within as many doublings as a u64 has bits.
Unit(n) ==
  LET unit[i \in 0..64] ==
        IF i = 0 THEN 1
        ELSE LET u == unit[i - 1] IN IF n < u * Bits[3] THEN u ELSE 2 * u
  IN unit[64]

\* An integer as an f32: to the nearest one, of two to the even one.
ToNearest(n) ==
  LET u == Unit(n)
      q == n \div u
      r == n % u
  IN u * (IF 2 * r > u \/ (2 * r = u /\ q % 2 = 1) THEN q + 1 ELSE q)

AsF32(v) == IF v < 0 THEN -ToNearest(-v) ELSE ToNearest(v)

\* to_f32: a half is widened and a double narrowed, an integer is converted and
\* not reinterpreted.  A number is what it is read as and its pattern or value.
to_f32(a) ==
  [i \in DOMAIN Elements(a) |->
     LET v == Elements(a)[i]
     IN CASE a.kind \in {"f2", "f4"} -> <<a.kind, v>>
          [] a.kind = "f8" -> <<"f4", Narrowed(v)>>
          [] OTHER -> <<"integer", AsF32(v)>>]

\* Slip: the value is passed on as it is.
ToIndex_unchecked(v) == Ok(v)

\* u32::try_from
ToIndex(v) == IF v \in 0..u32 - 1 THEN Ok(v) ELSE Err("decode")

\* to_u32: through i64, as which a u8 may be negative.
to_u32(a) ==
  IF a.kind \in Floats THEN Err("decode")
  ELSE All([i \in DOMAIN Elements(a) |->
              ToIndex(IF a.kind = "u8" THEN TwosComplement(Elements(a)[i], 8)
                      ELSE Elements(a)[i])])

\* cols: a matrix without columns counts as one of one column.
cols(a) ==
  IF Len(a.shape) # 2 THEN Err("decode")
  ELSE Ok(IF a.shape[2] > 0 THEN a.shape[2] ELSE 1)

rows(a) == IF cols(a).ok THEN Ok(Chunks(to_f32(a), cols(a).value)) ELSE cols(a)

---------------------------------------------------------------------------
\* sparse_to_dense: the last value of an index wins, a missing one is Zero.
Zero == <<"integer", 0>>

sparse_to_dense(sparse, dims) ==
  LET n == Min({Len(sparse.indices), Len(sparse.values)})
      at(i) == {k \in 1..n : sparse.indices[k] = i}
  IN IF \E k \in 1..n : sparse.indices[k] >= dims THEN Err("decode")
     ELSE Ok([i \in 0..dims - 1 |-> IF at(i) = {} THEN Zero ELSE sparse.values[Max(at(i))]])

\* rows_to_array: an array's shape, or the error of ragged rows.
rows_to_array(matrix) ==
  LET width == IF matrix = <<>> THEN 0 ELSE Len(matrix[1])
  IN IF \E i \in DOMAIN matrix : Len(matrix[i]) # width THEN Err("decode")
     ELSE Ok([shape |-> <<Len(matrix), width>>, elements |-> FlattenSeq(matrix)])

---------------------------------------------------------------------------
(***************************************************************************)
(* MaxSim, over whole numbers: the sum over the query's tokens of the best *)
(* dot product with a token of the document, 0 for a document without any. *)
(***************************************************************************)
Total(s) == FoldLeft(LAMBDA a, b : a + b, 0, s)

\* zip: the shorter of the two counts.
dot(left, right) ==
  Total([k \in 1..Min({Len(left), Len(right)}) |-> left[k] * right[k]])

\* fold(NEG_INFINITY, max), and 0.0 for what is not finite.
Best(token, document) ==
  IF document = <<>> THEN 0 ELSE Max({dot(token, document[j]) : j \in DOMAIN document})

score_against(query, document) == Total([i \in DOMAIN query |-> Best(query[i], document)])

maxsim(query, documents) ==
  [j \in DOMAIN documents |-> score_against(query, documents[j])]

\* maxsim_batch: one row per query, filled document after document.
maxsim_batch(queries, documents) ==
  LET scores[n \in 0..Len(documents)] ==
        IF n = 0 THEN [q \in DOMAIN queries |-> [d \in DOMAIN documents |-> 0]]
        ELSE [q \in DOMAIN queries |->
                [scores[n - 1][q] EXCEPT ![n] = score_against(queries[q], documents[n])]]
  IN scores[Len(documents)]
---------------------------------------------------------------------------
(***************************************************************************)
(* What the numbers of a tensor say of its bytes.                          *)
(***************************************************************************)
Bytes == 0..Byte - 1

\* The bytes of a number in the given width and order.
BytesOf(n, w, big) ==
  LET little == [k \in 1..w |-> (n \div Bits[k - 1]) % Byte]
  IN IF big THEN Reverse(little) ELSE little

\* The numbers are those of the map's buffer.
Holds(numbers, map) ==
  FlattenSeq([i \in DOMAIN numbers |->
                BytesOf(numbers[i], Width(map.type.kind), map.type.mark = ">")]) = map.data

\* The patterns of a float type, the values of an integer type.
ValuesOf(kind) ==
  LET all == Bits[Width(kind)]
  IN IF kind \in Signed THEN {n \in -all..all - 1 : 2 * n \in -all..all - 1} ELSE 0..all - 1

Distance(m, n) == IF m > n THEN m - n ELSE n - m

\* Apart by one part in 2^24 at most, thus equal below 2^24.
Near(m, n) == Distance(m, n) * Bits[3] <= Distance(n, 0)

\* What is read as a number of a kind, of value or pattern n.
IsRead(number, kind, n) ==
  /\ kind \in {"f2", "f4"} => number = <<kind, n>>
  /\ kind = "f8" => number = <<"f4", Narrowed(n)>>
  /\ kind \notin Floats => number[1] = "integer" /\ Near(number[2], n)

\* The numbers are what is read of those that the server wrote to the buffer.
AsSent(numbers, map) ==
  \E sent \in [DOMAIN numbers -> ValuesOf(map.type.kind)] :
    /\ Holds(sent, map)
    /\ \A i \in DOMAIN numbers : IsRead(numbers[i], map.type.kind, sent[i])

\* A map as it is read off msgpack: a buffer is of bytes, a shape of numbers.
TensorTyped(map) ==
  /\ map.data # None => map.data \in Seq(Bytes)
  /\ map.shape # None => map.shape \in Seq(Int)
=============================================================================
