------------------------- MODULE TsedgeQuery_proof -------------------------
(***************************************************************************)
(* Proofs about blocks and their codecs, for every width of a byte and of  *)
(* a word, and every sequence of timestamps and of values.                 *)
(*                                                                         *)
(* The first part is about TsedgeCodec alone: words and their bytes, the   *)
(* varint, what a reader sees of a stream that was cut, and the round      *)
(* trips of timestamps and values.  The second part is about the states    *)
(* of TsedgeQuery: a block is the compression of points that were          *)
(* appended (BlockOk), so that reading it gives them back.  The third part *)
(* is about the order: the index lists the blocks in the order of the      *)
(* appends (WriteInv), and a range read keeps to it while its callback     *)
(* writes (ReadInv).  The rest is about what is computed from the points:  *)
(* the statistics, the aggregate of a range and the aggregates of its      *)
(* windows, whose loops add up the points that they should (Tells,         *)
(* Windowed).                                                              *)
(***************************************************************************)
EXTENDS TsedgeQuery, TsedgeSequences_proof

-----------------------------------------------------------------------------
(* Words and integers *)

Words == 0..(Modulus - 1)

Ints == MinInt..MaxInt

\* What the assumption says about the widths of a byte and a word.
LEMMA Widths ==
  /\ ByteBits \in Nat /\ ByteBits >= 2 /\ WordBytes \in Nat /\ WordBytes >= 4
  /\ Radix \in Nat /\ Radix >= 4 /\ WordBytes < Radix
  /\ ByteBits * WordBytes \in Nat /\ ByteBits * WordBytes >= 8
<1>1. ByteBits \in Nat /\ ByteBits >= 2
  BY CodecAssumption
<1>2. Radix \in Nat
  BY <1>1, TwoToNat DEF Radix
<1>3. WordBytes \in Nat /\ WordBytes >= 4 /\ WordBytes < Radix
  BY <1>2, CodecAssumption
<1>4. ByteBits * WordBytes \in Nat /\ ByteBits * WordBytes >= 8
  <2>1. ByteBits * WordBytes \in Nat
    BY <1>1, <1>3
  <2>2. \A a, b \in Nat : a >= 2 /\ b >= 4 => a * b >= 8
    OBVIOUS
  <2> QED
    BY <1>1, <1>3, <2>1, <2>2
<1>5. Radix >= 4
  BY <1>2, <1>3
<1> QED
  BY <1>1, <1>2, <1>3, <1>4, <1>5

\* The half of the modulus.
LEMMA Halves ==
  \E h \in Nat \ {0} : Modulus = 2 * h /\ MaxInt = h - 1 /\ MinInt = -h
<1>1. PICK n \in Nat : ByteBits * WordBytes = n + 1
  <2>1. ByteBits * WordBytes - 1 \in Nat /\ ByteBits * WordBytes = (ByteBits * WordBytes - 1) + 1
    BY Widths
  <2> QED
    BY <2>1
<1>2. PICK h \in Nat \ {0} : h = TwoTo[n]
  BY TwoToNat
<1>3. Modulus = 2 * h
  BY <1>1, <1>2, TwoToIs DEF Modulus
<1>4. Modulus \div 2 = h
  BY <1>3
<1> QED
  BY <1>3, <1>4 DEF MaxInt, MinInt

\* A number differs from its int64_t by a multiple of the modulus, and that is the
\* only integer in range that does.
LEMMA Wraps ==
  ASSUME NEW n \in Int
  PROVE  /\ Unsigned(n) \in Words
         /\ Int64(n) \in Ints
         /\ \E k \in Int : Int64(n) = n + k * Modulus
<1>1. PICK h \in Nat \ {0} : Modulus = 2 * h /\ MaxInt = h - 1 /\ MinInt = -h
  BY Halves
<1>2. PICK m \in Nat \ {0} : m = Modulus
  BY <1>1
<1>3. PICK q \in Int, r \in 0..(m - 1) : q = n \div m /\ r = n % m /\ n = m * q + r
  OBVIOUS
<1>4. Unsigned(n) = r /\ r \in Words
  BY <1>2, <1>3 DEF Unsigned, Words
<1>5. CASE r > MaxInt
  <2>1. Int64(n) = r - m
    BY <1>2, <1>4, <1>5 DEF Int64, Signed
  <2>2. r - m \in Ints
    BY <1>1, <1>2, <1>5 DEF Ints
  <2>3. r - m = n + (-(q + 1)) * m
    <3>1. (-(q + 1)) * m = -(m * q) - m
      OBVIOUS
    <3>2. PICK x \in Int : x = m * q
      OBVIOUS
    <3> QED
      BY <1>3, <3>1, <3>2
  <2>4. -(q + 1) \in Int
    OBVIOUS
  <2> QED
    BY <1>2, <1>4, <2>1, <2>2, <2>3, <2>4
<1>6. CASE ~(r > MaxInt)
  <2>1. Int64(n) = r
    BY <1>4, <1>6 DEF Int64, Signed
  <2>2. r \in Ints
    BY <1>1, <1>6 DEF Ints
  <2>3. r = n + (-q) * m
    <3>1. (-q) * m = -(m * q)
      OBVIOUS
    <3>2. PICK x \in Int : x = m * q
      OBVIOUS
    <3> QED
      BY <1>3, <3>1, <3>2
  <2>4. -q \in Int
    OBVIOUS
  <2> QED
    BY <1>2, <1>4, <2>1, <2>2, <2>3, <2>4
<1> QED
  BY <1>5, <1>6

\* Two integers in range with a multiple of the modulus between them are equal.
LEMMA OneInRange ==
  ASSUME NEW a \in Ints, NEW b \in Ints, NEW k \in Int, a = b + k * Modulus
  PROVE  a = b
<1>1. PICK h \in Nat \ {0} : Modulus = 2 * h /\ MaxInt = h - 1 /\ MinInt = -h
  BY Halves
<1>2. a \in Int /\ b \in Int /\ -h <= a /\ a < h /\ -h <= b /\ b < h
  BY <1>1 DEF Ints
<1>3. PICK m \in Nat \ {0} : m = 2 * h
  OBVIOUS
<1>4. CASE k >= 1
  <2>1. k * m >= m
    BY <1>4
  <2> QED
    BY <1>1, <1>2, <1>3, <2>1
<1>5. CASE k <= -1
  <2>1. k * m <= -m
    BY <1>5
  <2> QED
    BY <1>1, <1>2, <1>3, <2>1
<1>6. CASE k = 0
  BY <1>1, <1>2, <1>6
<1> QED
  BY <1>4, <1>5, <1>6

\* The whole point of wrapping: the difference added to the one gives the other.
LEMMA Int64Sum ==
  ASSUME NEW x \in Ints, NEW y \in Ints
  PROVE  Int64(y - x) \in Ints /\ Int64(x + Int64(y - x)) = y
<1>1. x \in Int /\ y \in Int /\ Modulus \in Int
  BY Halves DEF Ints
<1>2. PICK d \in Ints, k \in Int : d = Int64(y - x) /\ d = (y - x) + k * Modulus
  <2>1. y - x \in Int
    BY <1>1
  <2>2. Int64(y - x) \in Ints /\ \E k \in Int : Int64(y - x) = (y - x) + k * Modulus
    BY <2>1, Wraps
  <2> QED
    BY <2>2
<1>3. d \in Int
  BY Halves DEF Ints
<1>4. PICK e \in Ints, l \in Int : e = Int64(x + d) /\ e = (x + d) + l * Modulus
  <2>1. x + d \in Int
    BY <1>1, <1>3
  <2>2. Int64(x + d) \in Ints /\ \E l \in Int : Int64(x + d) = (x + d) + l * Modulus
    BY <2>1, Wraps
  <2> QED
    BY <2>2
<1>5. e = y + (k + l) * Modulus
  <2>1. PICK m \in Int : m = Modulus
    BY <1>1
  <2>2. (k + l) * m = k * m + l * m
    OBVIOUS
  <2>3. PICK s \in Int, t \in Int : s = k * m /\ t = l * m
    OBVIOUS
  <2> QED
    BY <1>1, <1>2, <1>3, <1>4, <2>1, <2>2, <2>3
<1>6. k + l \in Int
  OBVIOUS
<1>7. e = y
  BY <1>5, <1>6, OneInRange
<1> QED
  BY <1>2, <1>4, <1>7

\* The casts between int64_t and uint64_t are inverse to each other.
LEMMA CastBack ==
  /\ \A n \in Ints : Unsigned(n) \in Words /\ Signed(Unsigned(n)) = n
  /\ \A w \in Words : Unsigned(w) = w /\ Signed(w) \in Ints
<1>1. PICK h \in Nat \ {0} : Modulus = 2 * h /\ MaxInt = h - 1 /\ MinInt = -h
  BY Halves
<1>2. PICK m \in Nat \ {0} : m = Modulus
  BY <1>1
<1>3. ASSUME NEW n \in Ints PROVE Unsigned(n) \in Words /\ Signed(Unsigned(n)) = n
  <2>1. n \in Int
    BY <1>1 DEF Ints
  <2>2. Unsigned(n) \in Words /\ Int64(n) \in Ints /\ \E k \in Int : Int64(n) = n + k * Modulus
    BY <2>1, Wraps
  <2>3. Int64(n) = n
    BY <2>2, OneInRange
  <2> QED
    BY <2>2, <2>3 DEF Int64
<1>4. ASSUME NEW w \in Words PROVE Unsigned(w) = w /\ Signed(w) \in Ints
  <2>1. w \in 0..(m - 1)
    BY <1>2 DEF Words
  <2>2. (m * 0 + w) % m = w /\ m * 0 + w = w
    BY <2>1
  <2>3. Unsigned(w) = w
    BY <1>2, <2>2 DEF Unsigned
  <2>4. Signed(w) \in Ints
    BY <1>1, <2>1, <1>2 DEF Signed, Ints
  <2> QED
    BY <2>3, <2>4
<1> QED
  BY <1>3, <1>4

\* The zigzag code of an int64_t is a word, and decodes to it.
LEMMA Zigzag ==
  ASSUME NEW n \in Ints
  PROVE  ZigzagEncode(n) \in Words /\ ZigzagDecode(ZigzagEncode(n)) = n
<1>1. PICK h \in Nat \ {0} : Modulus = 2 * h /\ MaxInt = h - 1 /\ MinInt = -h
  BY Halves
<1>2. PICK m \in Nat \ {0} : m = Modulus /\ m = 2 * h
  BY <1>1
<1>3. n \in Int /\ -h <= n /\ n < h
  BY <1>1 DEF Ints
<1>4. CASE n >= 0
  <2>1. 2 * n \in 0..(m - 1)
    BY <1>2, <1>3, <1>4
  <2>2. (m * 0 + 2 * n) % m = 2 * n /\ m * 0 + 2 * n = 2 * n
    BY <2>1
  <2>3. ZigzagEncode(n) = 2 * n
    BY <1>2, <1>4, <1>3, <2>2 DEF ZigzagEncode, Unsigned
  <2>4. (2 * n) % 2 = 0 /\ (2 * n) \div 2 = n
    BY <1>3
  <2>5. ZigzagDecode(2 * n) = n
    BY <1>1, <1>3, <2>4 DEF ZigzagDecode, Signed
  <2> QED
    BY <1>2, <2>1, <2>3, <2>5 DEF Words
<1>5. CASE n < 0
  <2>1. 2 * n + m \in 0..(m - 1)
    BY <1>2, <1>3, <1>5
  <2>2. (m * (-1) + (2 * n + m)) % m = 2 * n + m /\ m * (-1) + (2 * n + m) = 2 * n
    BY <1>3, <2>1
  <2>3. Unsigned(2 * n) = 2 * n + m
    BY <1>2, <2>2 DEF Unsigned
  <2>4. ZigzagEncode(n) = m - 1 - (2 * n + m)
    BY <1>2, <1>5, <2>3 DEF ZigzagEncode
  <2>5. m - 1 - (2 * n + m) = 2 * (-n - 1) + 1
    BY <1>3
  <2>6. PICK v \in Nat : v = -n - 1
    BY <1>3, <1>5
  <2>7. ZigzagEncode(n) = 2 * v + 1
    BY <2>4, <2>5, <2>6
  <2>8. (2 * v + 1) % 2 = 1 /\ (2 * v + 1) \div 2 = v
    OBVIOUS
  <2>9. ZigzagDecode(2 * v + 1) = Signed(m - 1 - v)
    BY <1>2, <2>8 DEF ZigzagDecode
  <2>10. Signed(m - 1 - v) = n
    BY <1>1, <1>2, <1>3, <1>5, <2>6 DEF Signed
  <2>11. 2 * v + 1 \in Words
    BY <1>2, <1>3, <2>6 DEF Words
  <2> QED
    BY <2>7, <2>9, <2>10, <2>11
<1> QED
  BY <1>3, <1>4, <1>5

-----------------------------------------------------------------------------
(* Words and bytes *)

\* A word written as bytes is read back.
LEMMA ReadWrite ==
  ASSUME NEW w \in Words
  PROVE  /\ Write(w) \in [1..WordBytes -> Bytes] /\ Write(w) \in Seq(Nat) /\ Len(Write(w)) = WordBytes
         /\ Join(ByteBits, Write(w)) = w
<1>1. w \in Nat /\ ByteBits \in Nat /\ WordBytes \in Nat /\ Bytes = 0..(TwoTo[ByteBits] - 1)
  BY Widths, Halves DEF Words, Bytes, Radix
<1>2. Write(w) \in Digits(ByteBits, WordBytes) /\ Write(w) \in NatRow(WordBytes)
  BY <1>1, SplitDigits DEF Write
<1>3. Join(ByteBits, Write(w)) = w % TwoTo[ByteBits * WordBytes]
  BY <1>1, JoinSplit DEF Write
<1>4. w % TwoTo[ByteBits * WordBytes] = w
  BY CastBack DEF Unsigned, Modulus
<1>5. Write(w) \in Seq(Nat) /\ Len(Write(w)) = WordBytes
  BY <1>1, <1>2 DEF NatRow
<1> QED
  BY <1>1, <1>2, <1>3, <1>4, <1>5 DEF Digits

\* A word is read where its bytes are.
LEMMA ReadAt ==
  ASSUME NEW w \in Words, NEW data, NEW at \in Nat,
         \A i \in 1..WordBytes : data[at + i - 1] = Write(w)[i]
  PROVE  Read(data, at) = w
<1>1. Write(w) = [i \in 1..WordBytes |-> Write(w)[i]]
  BY ReadWrite
<1>2. [i \in 1..WordBytes |-> data[at + i - 1]] = [i \in 1..WordBytes |-> Write(w)[i]]
  OBVIOUS
<1> QED
  BY <1>1, <1>2, ReadWrite DEF Read

-----------------------------------------------------------------------------
(* Varints *)

\* The continuation bit is half of a byte.
LEMMA MoreIs ==
  /\ ByteBits - 1 \in Nat \ {0}
  /\ More \in Nat /\ More >= 2 /\ More = TwoTo[ByteBits - 1] /\ Radix = 2 * More
<1>1. ByteBits - 1 \in Nat \ {0} /\ ByteBits = (ByteBits - 1) + 1
  BY Widths
<1>2. Radix = 2 * More
  BY <1>1, TwoToIs DEF Radix, More
<1>3. More \in Nat
  BY <1>1, TwoToNat DEF More
<1> QED
  BY <1>1, <1>2, <1>3, Widths DEF More

\* What is left of a number after its lowest group is smaller.
LEMMA Shorter ==
  ASSUME NEW w \in Nat
  PROVE  /\ w \div More \in Nat /\ w % More \in 0..(More - 1)
         /\ w = More * (w \div More) + (w % More)
         /\ w >= More => w \div More < w
<1>1. PICK m \in Nat \ {0} : m = More /\ m >= 2
  BY MoreIs
<1>2. w \div m \in Nat /\ w % m \in Nat /\ w % m < m /\ w = m * (w \div m) + (w % m)
  BY Division
<1>3. PICK q \in Nat, r \in Nat : q = w \div m /\ r = w % m
  BY <1>2
<1>4. ASSUME w >= m PROVE q < w
  <2>1. m * q >= 2 * q
    BY <1>1
  <2>2. PICK x \in Nat : x = m * q
    OBVIOUS
  <2>3. q = 0 \/ q >= 1
    OBVIOUS
  <2> QED
    BY <1>1, <1>2, <1>3, <1>4, <2>1, <2>2, <2>3
<1> QED
  BY <1>1, <1>2, <1>3, <1>4

\* The varints of the numbers up to k, which Varint makes.
VarintRow(t, w) == IF w < More THEN <<w>> ELSE <<(w % More) + More>> \o t[w \div More]

VarintTable(t, k) == t = [w \in 0..k |-> VarintRow(t, w)]

\* One more row for the table.
LEMMA VarintTableGrows ==
  ASSUME NEW k \in Nat, NEW t, VarintTable(t, k)
  PROVE  \E u : VarintTable(u, k + 1)
<1> DEFINE last == VarintRow(t, k + 1)
           u == [w \in 0..(k + 1) |-> IF w = k + 1 THEN last ELSE t[w]]
<1>1. \A w \in 0..k : t[w] = VarintRow(t, w)
  BY DEF VarintTable
<1> HIDE DEF last
<1>2. /\ \A w \in 0..(k + 1) : u[w] = IF w = k + 1 THEN last ELSE t[w]
      /\ u = [w \in 0..(k + 1) |-> u[w]]
  OBVIOUS
<1> HIDE DEF u
<1>3. ASSUME NEW w \in 0..(k + 1) PROVE u[w] = VarintRow(u, w)
  <2>1. u[w] = VarintRow(t, w)
    <3>1. CASE w = k + 1
      BY <1>2, <3>1 DEF last
    <3>2. CASE w # k + 1
      <4>1. w \in 0..k
        BY <3>2
      <4> QED
        BY <1>1, <1>2, <3>2, <4>1
    <3> QED
      BY <3>1, <3>2
  <2>2. CASE w < More
    BY <2>1, <2>2 DEF VarintRow
  <2>3. CASE ~(w < More)
    <3>1. w \in Nat /\ More \in Nat
      BY MoreIs
    <3>2. w \div More \in Nat /\ w \div More < w
      BY <2>3, <3>1, Shorter
    <3>3. PICK v \in Nat : v = w \div More
      BY <3>2
    <3>4. v \in 0..(k + 1) /\ v # k + 1
      BY <3>2, <3>3
    <3>5. u[v] = t[v]
      BY <1>2, <3>4
    <3> QED
      BY <2>1, <2>3, <3>3, <3>5 DEF VarintRow
  <2> QED
    BY <2>2, <2>3
<1> QED
  BY <1>2, <1>3 DEF VarintTable

\* The recursion has a solution.
LEMMA VarintTableExists == \A k \in Nat : \E t : VarintTable(t, k)
<1> DEFINE G == {k \in Nat : \E t : VarintTable(t, k)}
<1>1. 0 \in G
  <2>1. \A w \in 0..0 : w < More
    BY MoreIs
  <2>2. VarintTable([w \in 0..0 |-> <<w>>], 0)
    BY <2>1 DEF VarintTable, VarintRow
  <2> QED
    BY <2>2
<1>2. ASSUME NEW k \in Nat, k \in G PROVE k + 1 \in G
  BY <1>2, VarintTableGrows
<1> HIDE DEF G
<1>3. Nat \subseteq G
  BY <1>1, <1>2, NatSetInduction
<1> QED
  BY <1>3 DEF G

\* Two tables agree where both have rows.
LEMMA VarintTablesAgree ==
  ASSUME NEW k \in Nat, NEW l \in Nat, NEW t, NEW u, VarintTable(t, k), VarintTable(u, l)
  PROVE  \A w \in Nat : w <= k /\ w <= l => t[w] = u[w]
<1> DEFINE G == {n \in Nat : \A w \in 0..n : w <= k /\ w <= l => t[w] = u[w]}
<1>1. (\A w \in 0..k : t[w] = VarintRow(t, w)) /\ (\A w \in 0..l : u[w] = VarintRow(u, w))
  BY DEF VarintTable
<1>2. 0 \in G
  <2>1. ASSUME NEW w \in 0..0 PROVE t[w] = u[w]
    <3>1. w < More /\ w \in 0..k /\ w \in 0..l
      BY MoreIs
    <3> QED
      BY <1>1, <3>1 DEF VarintRow
  <2> QED
    BY <2>1
<1>3. ASSUME NEW n \in Nat, n \in G PROVE n + 1 \in G
  <2>1. ASSUME NEW w \in 0..(n + 1), w <= k, w <= l PROVE t[w] = u[w]
    <3>1. w \in 0..k /\ w \in 0..l /\ w \in Nat
      BY <2>1
    <3>2. t[w] = VarintRow(t, w) /\ u[w] = VarintRow(u, w)
      BY <1>1, <3>1
    <3>3. CASE w < More
      BY <3>2, <3>3 DEF VarintRow
    <3>4. CASE ~(w < More)
      <4>1. w \div More \in Nat /\ w \div More < w
        BY <3>1, <3>4, Shorter, MoreIs
      <4>2. PICK v \in Nat : v = w \div More
        BY <4>1
      <4>3. v \in 0..n /\ v <= k /\ v <= l
        BY <2>1, <4>1, <4>2
      <4>4. t[v] = u[v]
        BY <1>3, <4>3
      <4> QED
        BY <3>2, <3>4, <4>2, <4>4 DEF VarintRow
    <3> QED
      BY <3>3, <3>4
  <2> QED
    BY <2>1
<1> HIDE DEF G
<1>4. Nat \subseteq G
  BY <1>2, <1>3, NatSetInduction
<1>5. ASSUME NEW w \in Nat, w <= k, w <= l PROVE t[w] = u[w]
  <2>1. w \in G /\ w \in 0..w
    BY <1>4
  <2> QED
    BY <1>5, <2>1 DEF G
<1> QED
  BY <1>5

\* The recursion of Varint has a solution, so Varint is one.
LEMMA VarintIs == \A w \in Nat : Varint[w] = VarintRow(Varint, w)
<1> DEFINE f == [n \in Nat |-> (CHOOSE t : VarintTable(t, n))[n]]
<1>1. ASSUME NEW n \in Nat PROVE f[n] = VarintRow(f, n)
  <2>1. PICK t : t = CHOOSE s : VarintTable(s, n)
    OBVIOUS
  <2>2. VarintTable(t, n) /\ f[n] = t[n]
    BY <2>1, VarintTableExists
  <2>3. t[n] = VarintRow(t, n)
    BY <2>2 DEF VarintTable
  <2>4. CASE n < More
    BY <2>2, <2>3, <2>4 DEF VarintRow
  <2>5. CASE ~(n < More)
    <3>1. n \div More \in Nat /\ n \div More < n
      BY <2>5, Shorter, MoreIs
    <3>2. PICK v \in Nat : v = n \div More
      BY <3>1
    <3>3. PICK u : u = CHOOSE s : VarintTable(s, v)
      OBVIOUS
    <3>4. VarintTable(u, v) /\ f[v] = u[v]
      BY <3>3, VarintTableExists
    <3>5. v <= n /\ v <= v
      BY <3>1, <3>2
    <3>6. u[v] = t[v]
      BY <3>4, <2>2, <3>5, VarintTablesAgree
    <3> HIDE DEF f
    <3> QED
      BY <2>2, <2>3, <2>5, <3>2, <3>4, <3>6 DEF VarintRow
  <2> QED
    BY <2>4, <2>5
<1>2. f = [n \in Nat |-> f[n]]
  OBVIOUS
<1> HIDE DEF f
<1>3. f = [n \in Nat |-> VarintRow(f, n)]
  BY <1>1, <1>2
<1>4. Varint = CHOOSE g : g = [n \in Nat |-> VarintRow(g, n)]
  BY DEF Varint, VarintRow
<1>5. Varint = [n \in Nat |-> VarintRow(Varint, n)]
  BY <1>3, <1>4
<1> QED
  BY <1>5

-----------------------------------------------------------------------------
\* A varint v of w: n bytes that say that another one follows, and one that does not;
\* the groups of seven bits make w, and there are as many as w needs.
IsVarint(v, w, n) ==
  /\ v \in NatRow(n + 1)
  /\ \A i \in 1..n : v[i] >= More
  /\ v[n + 1] < More
  /\ Join(ByteBits - 1, [i \in 1..(n + 1) |-> v[i] % More]) = w
  /\ \A k \in Nat : w >= TwoTo[(ByteBits - 1) * (k + 1)] <=> k < n

\* A number below the continuation bit is a varint of one byte.
LEMMA VarintShort ==
  ASSUME NEW w \in Nat, w < More
  PROVE  IsVarint(<<w>>, w, 0)
<1> DEFINE v == <<w>>
           b == ByteBits - 1
<1>1. More \in Nat \ {0} /\ b \in Nat \ {0} /\ More = TwoTo[b]
  BY MoreIs
<1>2. v \in NatRow(0 + 1) /\ v[0 + 1] = w
  BY DEF NatRow
<1>3. w % More = w
  <2>1. PICK m \in Nat \ {0} : m = More
    BY <1>1
  <2>2. (m * 0 + w) % m = w /\ m * 0 + w = w
    BY <2>1
  <2> QED
    BY <2>1, <2>2
<1> DEFINE d == [i \in 1..(0 + 1) |-> v[i] % More]
<1>4. d \in NatRow(0 + 1) /\ d[0 + 1] = w
  <2>1. \A i \in 1..(0 + 1) : v[i] % More = w
    BY <1>2, <1>3
  <2> QED
    BY <2>1 DEF NatRow
<1> DEFINE e == [i \in 1..0 |-> 0]
<1>5. e \in NatRow(0) /\ DOMAIN e = {} /\ \A i \in 1..0 : e[i] = d[i]
  BY DEF NatRow
<1> HIDE DEF v, d, e, b
<1>6. Join(b, d) = Join(b, e) + d[0 + 1] * TwoTo[b * 0]
  BY <1>1, <1>4, <1>5, JoinLast
<1>7. Join(b, e) = 0 /\ b * 0 = 0
  BY <1>1, <1>5, JoinNone
<1>8. Join(b, d) = w
  BY <1>4, <1>6, <1>7, TwoToIs
<1>9. ASSUME NEW k \in Nat PROVE ~(w >= TwoTo[b * (k + 1)])
  <2>1. b * (k + 1) \in Nat /\ b * k \in Nat /\ b * (k + 1) = b + b * k
    BY <1>1
  <2>2. TwoTo[b * (k + 1)] >= TwoTo[b]
    <3>1. CASE b * k = 0
      BY <1>1, <2>1, <3>1
    <3>2. CASE b * k # 0
      <4>1. b < b * (k + 1)
        BY <1>1, <2>1, <3>2
      <4>2. TwoTo[b] \in Nat /\ TwoTo[b * (k + 1)] \in Nat
        BY <1>1, <2>1, TwoToNat
      <4>3. 2 * TwoTo[b] <= TwoTo[b * (k + 1)]
        BY <1>1, <2>1, <4>1, TwoToGrows
      <4> QED
        BY <4>2, <4>3
    <3> QED
      BY <3>1, <3>2
  <2>3. TwoTo[b] \in Nat /\ TwoTo[b * (k + 1)] \in Nat
    BY <1>1, <2>1, TwoToNat
  <2> QED
    BY <1>1, <2>2, <2>3
<1>10. \A i \in 1..0 : v[i] >= More
  OBVIOUS
<1>11. \A k \in Nat : w >= TwoTo[b * (k + 1)] <=> k < 0
  BY <1>9
<1>12. v[0 + 1] < More
  BY <1>2
<1> QED
  BY <1>2, <1>8, <1>10, <1>11, <1>12 DEF IsVarint, v, d, b

\* One more group in front of a varint.
LEMMA VarintLong ==
  ASSUME NEW w \in Nat, w >= More, NEW n \in Nat, NEW u, IsVarint(u, w \div More, n)
  PROVE  IsVarint(<<(w % More) + More>> \o u, w, n + 1)
<1> DEFINE x == (w % More) + More
           v == <<x>> \o u
           b == ByteBits - 1
           m == n + 1
<1>1. More \in Nat \ {0} /\ b \in Nat \ {0} /\ More = TwoTo[b] /\ m \in Nat
  BY MoreIs
<1>2. PICK q \in Nat, r \in Nat : q = w \div More /\ r = w % More /\ r < More /\ w = More * q + r
  BY Shorter, <1>1
<1>3. x \in Nat /\ x >= More
  <2>1. PICK c \in Nat : c = More
    BY <1>1
  <2>2. x = r + c
    BY <1>2, <2>1
  <2> HIDE DEF x
  <2>3. r + c \in Nat /\ r + c >= c
    OBVIOUS
  <2> QED
    BY <2>1, <2>2, <2>3
<1>4. u \in NatRow(m) /\ IsVarint(u, q, n)
  BY <1>2 DEF IsVarint
<1> HIDE DEF x
<1>5. v \in NatRow(m + 1) /\ v[1] = x /\ \A i \in 1..m : v[i + 1] = u[i]
  <2>1. u \in Seq(Nat) /\ Len(u) = m /\ <<x>> \in Seq(Nat) /\ Len(<<x>>) = 1
    BY <1>1, <1>3, <1>4 DEF NatRow
  <2>2. /\ v \in Seq(Nat) /\ Len(v) = 1 + m
        /\ \A i \in 1 .. 1 + m : v[i] = IF i <= 1 THEN <<x>>[i] ELSE u[i - 1]
    BY <2>1, ConcatProperties
  <2>3. v \in NatRow(m + 1)
    <3>1. DOMAIN v = 1..(m + 1)
      BY <1>1, <2>2
    <3>2. \A i \in 1..(m + 1) : v[i] \in Nat
      BY <2>2, <3>1
    <3>3. v = [i \in 1..(m + 1) |-> v[i]]
      BY <2>2, <3>1
    <3> QED
      BY <3>2, <3>3 DEF NatRow
  <2>4. v[1] = x
    BY <1>1, <2>2
  <2>5. ASSUME NEW i \in 1..m PROVE v[i + 1] = u[i]
    <3>1. i + 1 \in 1 .. 1 + m /\ ~(i + 1 <= 1) /\ (i + 1) - 1 = i
      BY <1>1
    <3> QED
      BY <2>2, <3>1
  <2> QED
    BY <2>3, <2>4, <2>5
<1> HIDE DEF v
<1>6. \A i \in 1..m : v[i] >= More
  <2> TAKE i \in 1..m
  <2>1. CASE i = 1
    BY <1>3, <1>5, <2>1
  <2>2. CASE i # 1
    <3>1. i - 1 \in 1..n /\ i - 1 \in 1..m /\ (i - 1) + 1 = i
      BY <2>2
    <3> QED
      BY <1>4, <1>5, <3>1 DEF IsVarint
  <2> QED
    BY <2>1, <2>2
<1>7. v[m + 1] < More
  <2>1. m \in 1..m
    OBVIOUS
  <2> QED
    BY <1>4, <1>5, <2>1 DEF IsVarint
<1> DEFINE d == [i \in 1..(m + 1) |-> v[i] % More]
           e == [i \in 1..m |-> u[i] % More]
<1>8. d \in NatRow(m + 1) /\ e \in NatRow(m) /\ d[1] = v[1] % More /\ \A i \in 1..m : e[i] = d[i + 1]
  <2>1. \A a \in Nat : a % More \in Nat
    BY Shorter
  <2>2. (\A i \in 1..(m + 1) : v[i] \in Nat) /\ (\A i \in 1..m : u[i] \in Nat)
    BY <1>4, <1>5 DEF NatRow
  <2>3. 1 \in 1..(m + 1) /\ \A i \in 1..m : i + 1 \in 1..(m + 1)
    BY <1>1
  <2> QED
    BY <1>5, <2>1, <2>2, <2>3 DEF NatRow
<1>9. d[1] = r
  <2>1. PICK c \in Nat \ {0} : c = More
    BY <1>1
  <2>2. r \in 0..(c - 1)
    BY <1>2, <2>1
  <2>3. (c * 1 + r) % c = r /\ c * 1 + r = r + c
    BY <2>2
  <2> QED
    BY <1>2, <1>5, <1>8, <2>1, <2>3 DEF x
<1>10. Join(b, e) = q
  BY <1>4 DEF IsVarint
<1> HIDE DEF d, e, m, b
<1>11. Join(b, d) = w
  <2>1. Join(b, d) = d[1] + TwoTo[b] * Join(b, e)
    BY <1>1, <1>8, JoinFirst
  <2>2. PICK t \in Nat : t = More * q
    BY <1>1
  <2>3. r + t = w
    <3>1. w = t + r
      BY ONLY <1>2, <2>2, Zenon
    <3>2. t + r = r + t
      OBVIOUS
    <3> QED
      BY ONLY <3>1, <3>2, Zenon
  <2>4. d[1] = r /\ Join(b, e) = q /\ TwoTo[b] = More
    BY <1>1, <1>9, <1>10
  <2>5. Join(b, d) = r + More * q
    BY ONLY <2>1, <2>4, Zenon
  <2> QED
    BY ONLY <2>2, <2>3, <2>5, Zenon
<1>12. ASSUME NEW k \in Nat PROVE w >= TwoTo[b * (k + 1)] <=> k < m
  <2>1. b * k \in Nat /\ b * (k + 1) = b * k + b /\ k + 1 \in Nat
    BY <1>1
  <2>2. PICK p \in Nat \ {0} : p = TwoTo[b * k]
    BY <2>1, TwoToNat
  <2>3. PICK c \in Nat \ {0} : c = More
    BY <1>1
  <2>4. TwoTo[b * (k + 1)] = p * c
    BY <1>1, <2>1, <2>2, <2>3, TwoToSum
  <2>5. w >= p * c <=> q >= p
    <3>1. ASSUME q >= p PROVE w >= p * c
      <4>1. c * q >= c * p
        BY <3>1
      <4>2. c * p = p * c /\ c * p \in Nat /\ c * q \in Nat
        OBVIOUS
      <4> QED
        BY <1>2, <2>3, <4>1, <4>2
    <3>2. ASSUME ~(q >= p) PROVE ~(w >= p * c)
      <4>1. q + 1 <= p
        BY <3>2
      <4>2. c * (q + 1) <= c * p
        BY <4>1
      <4>3. c * (q + 1) = c * q + c /\ c * p = p * c /\ c * p \in Nat /\ c * q \in Nat
        OBVIOUS
      <4> QED
        BY <1>2, <2>3, <4>2, <4>3
    <3> QED
      BY <3>1, <3>2
  <2>6. CASE k = 0
    <3>1. p = 1
      BY <1>1, <2>2, <2>6, TwoToIs
    <3>2. p * c = c
      BY <3>1
    <3>3. 0 < m
      BY DEF m
    <3> QED
      BY <2>3, <2>4, <2>6, <3>2, <3>3
  <2>7. CASE k # 0
    <3>1. PICK l \in Nat : k = l + 1
      <4>1. k - 1 \in Nat /\ k = (k - 1) + 1
        BY <2>7
      <4> QED
        BY <4>1
    <3>2. q >= TwoTo[b * (l + 1)] <=> l < n
      BY <1>4, <3>1 DEF IsVarint, b
    <3>3. l < n <=> k < m
      BY <3>1 DEF m
    <3> QED
      BY <2>2, <2>4, <2>5, <3>1, <3>2, <3>3
  <2> QED
    BY <2>6, <2>7
<1>13. IsVarint(v, w, m)
  BY <1>5, <1>6, <1>7, <1>11, <1>12 DEF IsVarint, d, b
<1> QED
  BY <1>13 DEF v, x, m

\* Every number is written as a varint.
LEMMA VarintShape == \A w \in Nat : \E n \in Nat : IsVarint(Varint[w], w, n)
<1> DEFINE G == {k \in Nat : \A w \in 0..k : \E n \in Nat : IsVarint(Varint[w], w, n)}
<1>1. 0 \in G
  <2>1. 0 < More /\ 0 \in Nat
    BY MoreIs
  <2>2. Varint[0] = <<0>>
    BY <2>1, VarintIs DEF VarintRow
  <2>3. IsVarint(Varint[0], 0, 0)
    BY <2>1, <2>2, VarintShort
  <2>4. 0..0 = {0}
    OBVIOUS
  <2> QED
    BY <2>3, <2>4
<1>2. ASSUME NEW k \in Nat, k \in G PROVE k + 1 \in G
  <2>1. ASSUME NEW w \in 0..(k + 1) PROVE \E n \in Nat : IsVarint(Varint[w], w, n)
    <3>1. w \in Nat /\ Varint[w] = VarintRow(Varint, w) /\ More \in Nat
      BY VarintIs, MoreIs
    <3>2. CASE w < More
      <4>1. Varint[w] = <<w>>
        BY <3>1, <3>2 DEF VarintRow
      <4>2. IsVarint(<<w>>, w, 0)
        BY <3>1, <3>2, VarintShort
      <4> QED
        BY <4>1, <4>2
    <3>3. CASE ~(w < More)
      <4>1. w >= More /\ w \div More \in Nat /\ w \div More < w
        BY <3>1, <3>3, Shorter
      <4>2. PICK v \in Nat : v = w \div More
        BY <4>1
      <4>3. v \in 0..k
        BY <4>1, <4>2
      <4>4. PICK n \in Nat : IsVarint(Varint[v], v, n)
        BY <1>2, <4>3
      <4>5. Varint[w] = <<(w % More) + More>> \o Varint[v]
        BY <3>1, <3>3, <4>2 DEF VarintRow
      <4>6. IsVarint(<<(w % More) + More>> \o Varint[v], w, n + 1)
        BY <3>1, <4>1, <4>2, <4>4, VarintLong
      <4>7. n + 1 \in Nat
        OBVIOUS
      <4> QED
        BY <4>5, <4>6, <4>7
    <3> QED
      BY <3>2, <3>3
  <2> QED
    BY <2>1
<1> HIDE DEF G
<1>3. Nat \subseteq G
  BY <1>1, <1>2, NatSetInduction
<1>4. ASSUME NEW w \in Nat PROVE \E n \in Nat : IsVarint(Varint[w], w, n)
  <2>1. w \in G /\ w \in 0..w
    BY <1>3
  <2> QED
    BY <2>1 DEF G
<1> QED
  BY <1>4

\* How many bytes after the first one tsedge_read_varint looks at.
Limit == (ByteBits * WordBytes - 1) \div (ByteBits - 1)

\* The varint of a word is never longer than tsedge_read_varint allows.
LEMMA VarintFits ==
  ASSUME NEW w \in Words, NEW n \in Nat, NEW v, IsVarint(v, w, n)
  PROVE  Limit \in Nat /\ n <= Limit /\ n <= ByteBits * WordBytes
<1>1. PICK b \in Nat \ {0} : b = ByteBits - 1
  BY MoreIs
<1>2. PICK l \in Nat : ByteBits * WordBytes = l + 1
  <2>1. ByteBits * WordBytes - 1 \in Nat /\ ByteBits * WordBytes = (ByteBits * WordBytes - 1) + 1
    BY Widths
  <2> QED
    BY <2>1
<1>3. Limit = l \div b
  <2>1. (l + 1) - 1 = l
    OBVIOUS
  <2> QED
    BY <1>1, <1>2, <2>1 DEF Limit
<1>4. PICK q \in Nat, r \in Nat : q = l \div b /\ r < b /\ l = b * q + r
  BY Division
<1>5. b * n <= l
  <2>1. CASE n = 0
    BY <1>1, <2>1
  <2>2. CASE n # 0
    <3>1. PICK k \in Nat : n = k + 1
      <4>1. n - 1 \in Nat /\ n = (n - 1) + 1
        BY <2>2
      <4> QED
        BY <4>1
    <3>2. k < n
      BY <3>1
    <3>3. w >= TwoTo[b * n]
      BY <1>1, <3>1, <3>2 DEF IsVarint
    <3>4. w \in Nat /\ w < TwoTo[l + 1]
      BY <1>2, Halves DEF Words, Modulus
    <3>5. b * n \in Nat /\ l + 1 \in Nat
      BY <1>1
    <3>6. TwoTo[b * n] \in Nat /\ TwoTo[l + 1] \in Nat
      BY <3>5, TwoToNat
    <3>7. ~(l + 1 <= b * n)
      BY <3>3, <3>4, <3>5, <3>6, TwoToOrder
    <3> QED
      BY <3>5, <3>7
  <2> QED
    BY <2>1, <2>2
<1>6. n <= q
  <2>1. SUFFICES ASSUME n >= q + 1 PROVE FALSE
    OBVIOUS
  <2>2. b * n >= b * (q + 1)
    BY <2>1
  <2>3. b * (q + 1) = b * q + b
    OBVIOUS
  <2>4. PICK x \in Nat : x = b * q
    OBVIOUS
  <2>5. PICK y \in Nat : y = b * n
    OBVIOUS
  <2> QED
    BY <1>4, <1>5, <2>2, <2>3, <2>4, <2>5
<1>7. n <= b * n
  OBVIOUS
<1>8. n <= l + 1
  <2>1. PICK y \in Nat : y = b * n
    OBVIOUS
  <2> QED
    BY <1>5, <1>7, <2>1
<1> QED
  BY <1>2, <1>3, <1>4, <1>6, <1>8

\* The first pass of the encoder counts the bytes that the second pass writes.
LEMMA VarintSizeIs ==
  ASSUME NEW w \in Words
  PROVE  /\ Varint[w] \in Seq(Nat) /\ Len(Varint[w]) \in Nat \ {0}
         /\ VarintSize(w) = Len(Varint[w])
<1>1. w \in Nat
  BY Halves DEF Words
<1>2. PICK n \in Nat : IsVarint(Varint[w], w, n)
  BY <1>1, VarintShape
<1>3. Varint[w] \in Seq(Nat) /\ Len(Varint[w]) = n + 1
  BY <1>2 DEF IsVarint, NatRow
<1>4. n <= ByteBits * WordBytes /\ ByteBits * WordBytes \in Nat
  BY <1>2, VarintFits, Widths
<1> DEFINE S == {k \in 1..(ByteBits * WordBytes) : w >= TwoTo[(ByteBits - 1) * k]}
<1>5. S = 1..n
  <2>1. ASSUME NEW k \in 1..(ByteBits * WordBytes)
        PROVE  w >= TwoTo[(ByteBits - 1) * k] <=> k <= n
    <3>1. PICK l \in Nat : k = l + 1
      <4>1. k \in Nat /\ k - 1 \in Nat /\ k = (k - 1) + 1
        BY <1>4
      <4> QED
        BY <4>1
    <3>2. w >= TwoTo[(ByteBits - 1) * (l + 1)] <=> l < n
      BY <1>2 DEF IsVarint
    <3>3. l < n <=> k <= n
      BY <3>1
    <3> QED
      BY <3>1, <3>2, <3>3
  <2>2. \A k \in 1..n : k \in 1..(ByteBits * WordBytes)
    BY <1>4
  <2>3. \A k \in 1..(ByteBits * WordBytes) : k \in Nat /\ 1 <= k
    BY <1>4
  <2>4. \A k : k \in S => k \in 1..n
    BY <2>1, <2>3
  <2>5. \A k : k \in 1..n => k \in S
    <3> SUFFICES ASSUME NEW k, k \in 1..n PROVE k \in S
      OBVIOUS
    <3>1. k <= n /\ k \in 1..(ByteBits * WordBytes)
      BY <2>2
    <3> QED
      BY <2>1, <3>1
  <2> HIDE DEF S
  <2> QED
    BY <2>4, <2>5
<1>6. Cardinality(S) = n
  <2>1. Cardinality(1..n) = n
    BY FS_Interval
  <2> QED
    BY <1>5, <2>1
<1>7. VarintSize(w) = 1 + n
  BY <1>6 DEF VarintSize
<1> QED
  BY <1>3, <1>7

\* The ends of a varint that tsedge_read_varint considers.
Ends(data, at) ==
  LET limit == Min({Len(data), at + Limit})
  IN {i \in at..limit : data[i] < More}

\* What ReadVarint returns, in one equation.
LEMMA ReadVarintIs ==
  ASSUME NEW data, NEW at
  PROVE  ReadVarint(data, at) =
           IF Ends(data, at) = {} THEN Corrupt
           ELSE [next |-> Min(Ends(data, at)) + 1,
                 value |-> Unsigned(Groups(data, at, Min(Ends(data, at))))]
BY DEF ReadVarint, Ends, Limit

\* A varint is read where its bytes are.
LEMMA ReadVarintAt ==
  ASSUME NEW w \in Words, NEW data \in Seq(Nat), NEW at \in Nat \ {0},
         at + Len(Varint[w]) - 1 <= Len(data),
         \A i \in 1..Len(Varint[w]) : data[at + i - 1] = Varint[w][i]
  PROVE  ReadVarint(data, at) = [next |-> at + Len(Varint[w]), value |-> w]
<1>1. w \in Nat
  BY Halves DEF Words
<1>2. PICK n \in Nat : IsVarint(Varint[w], w, n)
  BY <1>1, VarintShape
<1>3. Len(Varint[w]) = n + 1
  <2>1. Varint[w] \in [1..(n + 1) -> Nat]
    BY <1>2 DEF IsVarint, NatRow
  <2>2. \A m \in Nat : \A v \in [1..m -> Nat] : Len(v) = m
    OBVIOUS
  <2>3. n + 1 \in Nat
    OBVIOUS
  <2> QED
    BY ONLY <2>1, <2>2, <2>3
<1>4. Limit \in Nat /\ n <= Limit /\ More \in Nat
  BY <1>2, VarintFits, MoreIs
<1> DEFINE limit == Min({Len(data), at + Limit})
           S == {i \in at..limit : data[i] < More}
<1>5. limit \in Nat /\ at + n <= limit
  <2>1. Len(data) \in Nat /\ at + Limit \in Nat
    BY <1>4
  <2>2. limit = IF Len(data) <= at + Limit THEN Len(data) ELSE at + Limit
    BY <2>1, MinOfTwo
  <2>3. at + n <= Len(data) /\ at + n <= at + Limit
    BY <1>3, <1>4, <2>1
  <2> HIDE DEF limit
  <2> QED
    BY <2>1, <2>2, <2>3
<1> HIDE DEF limit
<1>6. at + n \in S
  <2>1. n + 1 \in 1..(n + 1) /\ at + (n + 1) - 1 = at + n
    OBVIOUS
  <2>2. data[at + n] < More
    <3>1. data[at + (n + 1) - 1] = Varint[w][n + 1]
      BY <1>3, <2>1
    <3> QED
      BY <1>2, <2>1, <3>1 DEF IsVarint
  <2>3. at + n \in at..limit
    BY <1>5
  <2> QED
    BY <2>2, <2>3
<1>7. ASSUME NEW i \in S PROVE at + n <= i
  <2>1. SUFFICES ASSUME i < at + n PROVE FALSE
    BY <1>5
  <2>2. i \in at..limit /\ data[i] < More
    OBVIOUS
  <2>3. PICK j \in 1..n : i = at + j - 1
    <3>1. i - at + 1 \in 1..n /\ i = at + (i - at + 1) - 1
      BY <1>5, <2>1, <2>2
    <3> QED
      BY <3>1
  <2>4. data[i] = Varint[w][j]
    <3>1. j \in 1..(n + 1)
      OBVIOUS
    <3> QED
      BY <1>3, <2>3, <3>1
  <2>5. Varint[w][j] >= More
    BY <1>2 DEF IsVarint
  <2>6. Varint[w][j] \in Nat
    BY <1>2 DEF IsVarint, NatRow
  <2> QED
    BY <1>4, <2>2, <2>4, <2>5, <2>6
<1>8. S \subseteq Nat
  BY <1>5
<1> HIDE DEF S
<1>9. Min(S) = at + n /\ S # {}
  BY <1>6, <1>7, <1>8, MinIs
<1>10. Ends(data, at) = S
  BY DEF Ends, S, limit
<1>11. Groups(data, at, at + n) = w
  <2>1. (at + n) - at + 1 = n + 1
    OBVIOUS
  <2>2. [i \in 1..(n + 1) |-> data[at + i - 1] % More] = [i \in 1..(n + 1) |-> Varint[w][i] % More]
    BY <1>3
  <2> QED
    BY <1>2, <2>1, <2>2 DEF Groups, IsVarint
<1>12. Unsigned(w) = w
  BY CastBack
<1>13. at + n + 1 = at + Len(Varint[w])
  BY <1>3
<1> QED
  BY <1>9, <1>10, <1>11, <1>12, <1>13, ReadVarintIs

-----------------------------------------------------------------------------
\* What is read from a stream that was cut is read from the whole one, or nothing is.
LEMMA ReadVarintCut ==
  ASSUME NEW short, NEW data, Beginning(short, data), NEW at \in Nat \ {0}
  PROVE  ReadVarint(short, at) \in {Corrupt, ReadVarint(data, at)}
<1>1. /\ short \in Seq(Nat) /\ data \in Seq(Nat)
      /\ Len(short) \in Nat /\ Len(data) \in Nat /\ Len(short) <= Len(data)
      /\ \A i \in 1..Len(short) : short[i] = data[i]
  BY DEF Beginning
<1>2. Limit \in Nat
  <2>1. 0 \in Words
    BY Halves DEF Words
  <2>2. 0 \in Nat /\ \E n \in Nat : IsVarint(Varint[0], 0, n)
    BY VarintShape
  <2> QED
    BY <2>1, <2>2, VarintFits
<1> DEFINE s == Ends(short, at)
           d == Ends(data, at)
<1>3. SUFFICES ASSUME s # {} PROVE ReadVarint(short, at) = ReadVarint(data, at)
  BY ReadVarintIs
<1>4. PICK a \in Nat : a = Min({Len(short), at + Limit}) /\ a <= Len(short)
  <2>1. at + Limit \in Nat
    BY <1>2
  <2>2. Min({Len(short), at + Limit}) = IF Len(short) <= at + Limit THEN Len(short) ELSE at + Limit
    BY <1>1, <2>1, MinOfTwo
  <2> QED
    BY <1>1, <2>1, <2>2
<1>5. PICK b \in Nat : b = Min({Len(data), at + Limit}) /\ a <= b
  <2>1. at + Limit \in Nat
    BY <1>2
  <2>2. Min({Len(short), at + Limit}) = IF Len(short) <= at + Limit THEN Len(short) ELSE at + Limit
    BY <1>1, <2>1, MinOfTwo
  <2>3. Min({Len(data), at + Limit}) = IF Len(data) <= at + Limit THEN Len(data) ELSE at + Limit
    BY <1>1, <2>1, MinOfTwo
  <2> QED
    BY <1>1, <1>4, <2>1, <2>2, <2>3
<1>6. s = {i \in at..a : short[i] < More} /\ d = {i \in at..b : data[i] < More}
  BY <1>4, <1>5 DEF Ends
<1> HIDE DEF s, d
<1>7. \A i \in at..a : i \in 1..Len(short) /\ i \in at..b /\ short[i] = data[i]
  <2> TAKE i \in at..a
  <2>1. i \in Nat /\ 1 <= i /\ at <= i /\ i <= a /\ a <= Len(short) /\ a <= b
    BY <1>4, <1>5
  <2>2. i \in 1..Len(short)
    BY <1>1, <2>1
  <2>3. i \in at..b
    BY <2>1
  <2> QED
    BY <1>1, <2>2, <2>3
<1>8. s \subseteq d /\ s \subseteq Nat /\ d \subseteq Nat
  BY <1>6, <1>7
<1>9. PICK x \in s : x = Min(s) /\ \A y \in s : x <= y
  BY <1>3, <1>8, MinExists DEF s
<1>10. x \in at..a /\ x \in d
  BY <1>6, <1>8
<1>11. \A y \in d : x <= y
  <2> TAKE y \in d
  <2>1. CASE y \in at..a
    BY <1>6, <1>7, <1>9, <2>1
  <2>2. CASE ~(y \in at..a)
    BY <1>4, <1>5, <1>6, <1>10, <2>2
  <2> QED
    BY <2>1, <2>2
<1>12. Min(d) = x /\ d # {}
  BY <1>8, <1>10, <1>11, MinIs
<1>13. Groups(short, at, x) = Groups(data, at, x)
  <2>1. ASSUME NEW i \in 1..(x - at + 1) PROVE short[at + i - 1] = data[at + i - 1]
    <3>1. at + i - 1 \in at..a
      BY <1>4, <1>10
    <3> QED
      BY <1>7, <3>1
  <2>2. [i \in 1..(x - at + 1) |-> short[at + i - 1] % More] = [i \in 1..(x - at + 1) |-> data[at + i - 1] % More]
    BY <2>1
  <2> QED
    BY <2>2 DEF Groups
<1> QED
  BY <1>3, <1>9, <1>12, <1>13, ReadVarintIs DEF s, d

-----------------------------------------------------------------------------
(* The states of tsedge_decompress_timestamps *)

TimestampRow(data, count, t, k) ==
  IF k <= 2 THEN DecodeHead(data, count) ELSE DecodeTimestamp(data, t[k - 1])

TimestampTable(data, count, t, n) == t = [k \in 1..n |-> TimestampRow(data, count, t, k)]

\* One more row for the table.
LEMMA TimestampTableGrows ==
  ASSUME NEW data, NEW count, NEW n \in Nat, NEW t, TimestampTable(data, count, t, n)
  PROVE  \E u : TimestampTable(data, count, u, n + 1)
<1> DEFINE last == TimestampRow(data, count, t, n + 1)
           u == [k \in 1..(n + 1) |-> IF k = n + 1 THEN last ELSE t[k]]
<1>1. \A k \in 1..n : t[k] = TimestampRow(data, count, t, k)
  BY DEF TimestampTable
<1> HIDE DEF last
<1>2. /\ \A k \in 1..(n + 1) : u[k] = IF k = n + 1 THEN last ELSE t[k]
      /\ u = [k \in 1..(n + 1) |-> u[k]]
  OBVIOUS
<1> HIDE DEF u
<1>3. ASSUME NEW k \in 1..(n + 1) PROVE u[k] = TimestampRow(data, count, u, k)
  <2>1. u[k] = TimestampRow(data, count, t, k)
    <3>1. CASE k = n + 1
      BY <1>2, <3>1 DEF last
    <3>2. CASE k # n + 1
      <4>1. k \in 1..n
        BY <3>2
      <4> QED
        BY <1>1, <1>2, <3>2, <4>1
    <3> QED
      BY <3>1, <3>2
  <2>2. CASE k <= 2
    BY <2>1, <2>2 DEF TimestampRow
  <2>3. CASE ~(k <= 2)
    <3>1. k - 1 \in 1..(n + 1) /\ k - 1 # n + 1
      BY <2>3
    <3>2. u[k - 1] = t[k - 1]
      BY <1>2, <3>1
    <3> QED
      BY <2>1, <2>3, <3>2 DEF TimestampRow
  <2> QED
    BY <2>2, <2>3
<1> QED
  BY <1>2, <1>3 DEF TimestampTable

\* The recursion has a solution.
LEMMA TimestampTableExists ==
  ASSUME NEW data, NEW count
  PROVE  \A n \in Nat : \E t : TimestampTable(data, count, t, n)
<1> DEFINE G == {n \in Nat : \E t : TimestampTable(data, count, t, n)}
<1>1. 0 \in G
  <2>1. TimestampTable(data, count, [k \in 1..0 |-> 0], 0)
    BY DEF TimestampTable
  <2> QED
    BY <2>1
<1>2. ASSUME NEW n \in Nat, n \in G PROVE n + 1 \in G
  BY <1>2, TimestampTableGrows
<1> HIDE DEF G
<1>3. Nat \subseteq G
  BY <1>1, <1>2, NatSetInduction
<1> QED
  BY <1>3 DEF G

\* The states of the decoder, one per timestamp, and what it returns at the end.
LEMMA TimestampStates ==
  ASSUME NEW data, NEW count \in Nat \ {0}
  PROVE  \E t : /\ \A k \in 1..count : t[k] = TimestampRow(data, count, t, k)
                /\ DecompressTimestamps(data, count) =
                     IF Len(data) < WordBytes * Min({count, 2}) THEN Corrupt
                     ELSE Finished(t[count], data)
<1> DEFINE t == CHOOSE t : TimestampTable(data, count, t, count)
<1>1. TimestampTable(data, count, t, count)
  BY TimestampTableExists
<1>2. DecompressTimestamps(data, count) =
        IF Len(data) < WordBytes * Min({count, 2}) THEN Corrupt ELSE Finished(t[count], data)
  BY DEF DecompressTimestamps, TimestampTable, TimestampRow
<1> HIDE DEF t
<1>3. \A k \in 1..count : t[k] = TimestampRow(data, count, t, k)
  BY <1>1 DEF TimestampTable
<1> QED
  BY <1>2, <1>3

\* The bytes of the head.
LEMMA HeadSize ==
  ASSUME NEW count \in Nat \ {0}
  PROVE  WordBytes * Min({count, 2}) = IF count = 1 THEN WordBytes ELSE 2 * WordBytes
<1>1. WordBytes \in Nat
  BY Widths
<1>2. Min({count, 2}) = IF count <= 2 THEN count ELSE 2
  BY MinOfTwo
<1>3. CASE count = 1
  BY <1>1, <1>2, <1>3
<1>4. CASE count # 1
  <2>1. Min({count, 2}) = 2
    BY <1>2, <1>4
  <2> QED
    BY <1>1, <1>4, <2>1
<1> QED
  BY <1>3, <1>4

-----------------------------------------------------------------------------
(* Streams that were cut *)

\* A position is behind what was read, or nothing was.
LEMMA ReadVarintNext ==
  ASSUME NEW data \in Seq(Nat), NEW at \in Nat \ {0}
  PROVE  ReadVarint(data, at) = Corrupt \/ ReadVarint(data, at).next \in Nat \ {0}
<1>1. Ends(data, at) \subseteq Nat
  <2>1. Limit \in Nat
    <3>1. 0 \in Words /\ 0 \in Nat /\ \E n \in Nat : IsVarint(Varint[0], 0, n)
      BY VarintShape, Halves DEF Words
    <3> QED
      BY <3>1, VarintFits
  <2>2. PICK l \in Nat : l = Min({Len(data), at + Limit})
    <3>1. Len(data) \in Nat /\ at + Limit \in Nat
      BY <2>1
    <3> QED
      BY <3>1, MinOfTwo
  <2>3. Ends(data, at) \subseteq at..l
    BY <2>2 DEF Ends
  <2>4. at..l \subseteq Nat
    OBVIOUS
  <2> QED
    BY <2>3, <2>4
<1>2. CASE Ends(data, at) = {}
  BY <1>2, ReadVarintIs
<1>3. CASE Ends(data, at) # {}
  <2>1. PICK x \in Nat : x = Min(Ends(data, at))
    BY <1>1, <1>3, MinExists
  <2>2. ReadVarint(data, at).next = x + 1
    BY <1>3, <2>1, ReadVarintIs
  <2> QED
    BY <2>2
<1> QED
  BY <1>2, <1>3

\* Of two streams of timestamps of which one is the other one cut short, one at most is
\* whole: tsedge_decompress_timestamps returns TSEDGE_ERR_CORRUPT for the other one.
THEOREM TimestampsCut ==
  ASSUME NEW short, NEW data, Beginning(short, data), Len(short) # Len(data), NEW count \in Nat \ {0}
  PROVE  DecompressTimestamps(short, count) = Corrupt \/ DecompressTimestamps(data, count) = Corrupt
<1>1. SUFFICES ASSUME DecompressTimestamps(short, count) # Corrupt, DecompressTimestamps(data, count) # Corrupt
               PROVE  FALSE
  OBVIOUS
<1>2. /\ short \in Seq(Nat) /\ data \in Seq(Nat)
      /\ Len(short) \in Nat /\ Len(data) \in Nat /\ Len(short) <= Len(data)
      /\ \A i \in 1..Len(short) : short[i] = data[i]
  BY DEF Beginning
<1>3. PICK s : /\ \A k \in 1..count : s[k] = TimestampRow(short, count, s, k)
               /\ DecompressTimestamps(short, count) =
                    IF Len(short) < WordBytes * Min({count, 2}) THEN Corrupt
                    ELSE Finished(s[count], short)
  BY TimestampStates
<1>4. PICK d : /\ \A k \in 1..count : d[k] = TimestampRow(data, count, d, k)
               /\ DecompressTimestamps(data, count) =
                    IF Len(data) < WordBytes * Min({count, 2}) THEN Corrupt
                    ELSE Finished(d[count], data)
  BY TimestampStates
<1>5. ~(Len(short) < WordBytes * Min({count, 2})) /\ ~(Len(data) < WordBytes * Min({count, 2}))
  BY <1>1, <1>3, <1>4
<1>6. /\ s[count] # Corrupt /\ s[count].next = Len(short) + 1
      /\ d[count] # Corrupt /\ d[count].next = Len(data) + 1
  BY <1>1, <1>3, <1>4, <1>5 DEF Finished
<1>7. /\ DecodeHead(short, count) = DecodeHead(data, count)
      /\ DecodeHead(data, count).next \in Nat \ {0}
  <2>1. PICK w \in Nat : w = WordBytes
    BY Widths
  <2>2. Len(short) >= IF count = 1 THEN w ELSE 2 * w
    BY <1>2, <1>5, <2>1, HeadSize
  <2>3. Read(short, 1) = Read(data, 1)
    <3>1. ASSUME NEW i \in 1..w PROVE short[1 + i - 1] = data[1 + i - 1]
      <4>1. 1 + i - 1 = i /\ i \in 1..Len(short)
        BY <1>2, <2>2
      <4> QED
        BY <1>2, <4>1
    <3>2. [i \in 1..w |-> short[1 + i - 1]] = [i \in 1..w |-> data[1 + i - 1]]
      BY <3>1
    <3> QED
      BY <2>1, <3>2 DEF Read
  <2>4. count # 1 => Read(short, w + 1) = Read(data, w + 1)
    <3> SUFFICES ASSUME count # 1 PROVE Read(short, w + 1) = Read(data, w + 1)
      OBVIOUS
    <3>1. ASSUME NEW i \in 1..w PROVE short[w + 1 + i - 1] = data[w + 1 + i - 1]
      <4>1. w + 1 + i - 1 \in 1..Len(short)
        BY <1>2, <2>2
      <4> QED
        BY <1>2, <4>1
    <3>2. [i \in 1..w |-> short[w + 1 + i - 1]] = [i \in 1..w |-> data[w + 1 + i - 1]]
      BY <3>1
    <3> QED
      BY <2>1, <3>2 DEF Read
  <2>5. CASE count = 1
    BY <2>1, <2>3, <2>5 DEF DecodeHead
  <2>6. CASE count # 1
    BY <2>1, <2>3, <2>4, <2>6 DEF DecodeHead
  <2> QED
    BY <2>5, <2>6
<1> DEFINE Same(k) == s[k] \in {Corrupt, d[k]} /\ (d[k] = Corrupt \/ d[k].next \in Nat \ {0})
           G == {n \in Nat : n + 1 <= count => Same(n + 1)}
<1>8. 0 \in G
  <2>1. 1 \in 1..count /\ 1 <= 2
    OBVIOUS
  <2>2. s[1] = DecodeHead(short, count) /\ d[1] = DecodeHead(data, count)
    BY <1>3, <1>4, <2>1 DEF TimestampRow
  <2>3. Same(1)
    BY <1>7, <2>2
  <2> QED
    BY <2>3
<1>9. ASSUME NEW n \in Nat, n \in G PROVE n + 1 \in G
  <2>1. SUFFICES ASSUME n + 2 <= count PROVE Same(n + 2)
    OBVIOUS
  <2> DEFINE k == n + 2
  <2>2. k \in 1..count /\ k - 1 = n + 1 /\ n + 1 <= count
    BY <2>1
  <2>3. Same(n + 1)
    BY <1>9, <2>2
  <2> HIDE DEF G, k
  <2>4. s[k] = TimestampRow(short, count, s, k) /\ d[k] = TimestampRow(data, count, d, k)
    BY <1>3, <1>4, <2>2
  <2>5. CASE k <= 2
    <3>1. s[k] = DecodeHead(short, count) /\ d[k] = DecodeHead(data, count)
      BY <2>4, <2>5 DEF TimestampRow
    <3> QED
      BY <1>7, <3>1 DEF k
  <2>6. CASE ~(k <= 2)
    <3> DEFINE a == s[n + 1]
               b == d[n + 1]
    <3>1. a \in {Corrupt, b} /\ (b = Corrupt \/ b.next \in Nat \ {0})
      BY <2>3
    <3>2. s[k] = DecodeTimestamp(short, a) /\ d[k] = DecodeTimestamp(data, b)
      BY <2>2, <2>4, <2>6 DEF TimestampRow
    <3> HIDE DEF a, b
    <3>3. CASE b = Corrupt
      BY <3>1, <3>2, <3>3 DEF DecodeTimestamp, k
    <3>4. CASE b # Corrupt
      <4>1. b.next \in Nat \ {0}
        BY <3>1, <3>4
      <4>2. ReadVarint(short, b.next) \in {Corrupt, ReadVarint(data, b.next)}
        BY <4>1, ReadVarintCut
      <4>3. ReadVarint(data, b.next) = Corrupt \/ ReadVarint(data, b.next).next \in Nat \ {0}
        BY <1>2, <4>1, ReadVarintNext
      <4>4. d[k] = ApplyChange(b, ReadVarint(data, b.next))
        BY <3>2, <3>4 DEF DecodeTimestamp
      <4>5. s[k] = Corrupt \/ s[k] = ApplyChange(b, ReadVarint(short, b.next))
        BY <3>1, <3>2, <3>4 DEF DecodeTimestamp
      <4>6. s[k] \in {Corrupt, d[k]}
        BY <4>2, <4>4, <4>5 DEF ApplyChange
      <4>7. d[k] = Corrupt \/ d[k].next \in Nat \ {0}
        BY <4>3, <4>4 DEF ApplyChange, NextTimestamp
      <4> QED
        BY <4>6, <4>7 DEF k
    <3> QED
      BY <3>3, <3>4
  <2> QED
    BY <2>5, <2>6
<1> HIDE DEF G
<1>10. Nat \subseteq G
  BY <1>8, <1>9, NatSetInduction
<1>11. s[count] \in {Corrupt, d[count]}
  <2>1. count - 1 \in G /\ (count - 1) + 1 = count /\ count <= count
    BY <1>10
  <2> QED
    BY <2>1 DEF G
<1> QED
  BY <1>2, <1>6, <1>11

-----------------------------------------------------------------------------
(* The round trip *)

\* The varints of the changes.
Coded(ts) == [k \in DOMAIN Changes(ts) |-> Varint[Change(ts, k + 2)]]

Head2(ts) ==
  Write(Unsigned(ts[1])) \o (IF Len(ts) = 1 THEN <<>> ELSE Write(Unsigned(Delta(ts, 2))))

\* There is a change of the distance from the third timestamp on.
LEMMA ChangesDomain ==
  ASSUME NEW ts, Len(ts) \in Nat \ {0}
  PROVE  \E m \in Nat : /\ DOMAIN Changes(ts) = 1..m
                        /\ m = IF Len(ts) <= 2 THEN 0 ELSE Len(ts) - 2
<1>1. Max({Len(ts) - 2, 0}) = IF Len(ts) - 2 <= 0 THEN 0 ELSE Len(ts) - 2
  BY MaxOfTwo
<1>2. DOMAIN Changes(ts) = 1..Max({Len(ts) - 2, 0})
  BY DEF Changes
<1>3. CASE Len(ts) <= 2
  <2>1. Max({Len(ts) - 2, 0}) = 0
    BY <1>1, <1>3
  <2> QED
    BY <1>2, <1>3, <2>1
<1>4. CASE ~(Len(ts) <= 2)
  <2>1. Max({Len(ts) - 2, 0}) = Len(ts) - 2 /\ Len(ts) - 2 \in Nat
    BY <1>1, <1>4
  <2> QED
    BY <1>2, <1>4, <2>1
<1> QED
  BY <1>3, <1>4

\* Deltas and changes stay in range.
LEMMA DeltaRange ==
  ASSUME NEW ts \in Seq(Ints)
  PROVE  /\ \A i \in 2..Len(ts) : Delta(ts, i) \in Ints /\ Int64(ts[i - 1] + Delta(ts, i)) = ts[i]
         /\ \A i \in 3..Len(ts) :
              /\ Change(ts, i) \in Words
              /\ Int64(Delta(ts, i - 1) + ZigzagDecode(Change(ts, i))) = Delta(ts, i)
<1>1. ASSUME NEW i \in 2..Len(ts)
      PROVE  Delta(ts, i) \in Ints /\ Int64(ts[i - 1] + Delta(ts, i)) = ts[i]
  <2>1. ts[i] \in Ints /\ ts[i - 1] \in Ints
    OBVIOUS
  <2> QED
    BY <2>1, Int64Sum DEF Delta
<1>2. ASSUME NEW i \in 3..Len(ts)
      PROVE  /\ Change(ts, i) \in Words
             /\ Int64(Delta(ts, i - 1) + ZigzagDecode(Change(ts, i))) = Delta(ts, i)
  <2>1. i \in 2..Len(ts) /\ i - 1 \in 2..Len(ts)
    OBVIOUS
  <2>2. PICK a \in Ints, b \in Ints : a = Delta(ts, i - 1) /\ b = Delta(ts, i)
    BY <1>1, <2>1
  <2>3. Int64(b - a) \in Ints /\ Int64(a + Int64(b - a)) = b
    BY Int64Sum
  <2>4. Change(ts, i) = ZigzagEncode(Int64(b - a))
    BY <2>2 DEF Change
  <2>5. Change(ts, i) \in Words /\ ZigzagDecode(Change(ts, i)) = Int64(b - a)
    BY <2>3, <2>4, Zigzag
  <2> QED
    BY <2>2, <2>3, <2>5
<1> QED
  BY <1>1, <1>2

\* The head is one word or two, and holds the first timestamp and the first delta.
LEMMA HeadBytes ==
  ASSUME NEW ts \in Seq(Ints), Len(ts) # 0
  PROVE  /\ Head2(ts) \in Seq(Nat)
         /\ Len(Head2(ts)) = IF Len(ts) = 1 THEN WordBytes ELSE 2 * WordBytes
         /\ \A i \in 1..WordBytes : i \in 1..Len(Head2(ts)) /\ Head2(ts)[i] = Write(Unsigned(ts[1]))[i]
         /\ Len(ts) # 1 => \A i \in 1..WordBytes :
              /\ WordBytes + i \in 1..Len(Head2(ts))
              /\ Head2(ts)[WordBytes + i] = Write(Unsigned(Delta(ts, 2)))[i]
<1>1. WordBytes \in Nat
  BY Widths
<1> DEFINE a == Write(Unsigned(ts[1]))
<1>2. a \in Seq(Nat) /\ Len(a) = WordBytes
  <2>1. ts[1] \in Ints
    OBVIOUS
  <2>2. Unsigned(ts[1]) \in Words
    BY <2>1, CastBack
  <2> QED
    BY <2>2, ReadWrite
<1> HIDE DEF a
<1>3. CASE Len(ts) = 1
  <2>1. Head2(ts) = a
    BY <1>2, <1>3, ConcatEmptySeq DEF Head2, a
  <2> QED
    BY <1>2, <1>3, <2>1 DEF a
<1>4. CASE Len(ts) # 1
  <2> DEFINE b == Write(Unsigned(Delta(ts, 2)))
  <2>1. b \in Seq(Nat) /\ Len(b) = WordBytes
    <3>1. 2 \in 2..Len(ts)
      BY <1>4
    <3>2. Delta(ts, 2) \in Ints
      BY <3>1, DeltaRange
    <3>3. Unsigned(Delta(ts, 2)) \in Words
      BY <3>2, CastBack
    <3> QED
      BY <3>3, ReadWrite
  <2>2. Head2(ts) = a \o b
    BY <1>4 DEF Head2, a
  <2> HIDE DEF b
  <2> DEFINE c == a \o b
  <2>3. a \in Seq(Nat) /\ b \in Seq(Nat)
    BY <1>2, <2>1
  <2>4. /\ c \in Seq(Nat) /\ Len(c) = Len(a) + Len(b)
        /\ \A i \in 1..Len(a) : i \in 1..Len(c) /\ c[i] = a[i]
        /\ \A i \in 1..Len(b) : Len(a) + i \in 1..Len(c) /\ c[Len(a) + i] = b[i]
    BY ONLY <2>3, Concatenated
  <2>5. Head2(ts) = c
    BY <2>2
  <2> HIDE DEF c
  <2>6. Len(c) = 2 * WordBytes
    BY <1>1, <1>2, <2>1, <2>4
  <2>7. \A i \in 1..WordBytes : i \in 1..Len(c) /\ c[i] = a[i]
    BY <1>2, <2>4
  <2>8. \A i \in 1..WordBytes : WordBytes + i \in 1..Len(c) /\ c[WordBytes + i] = b[i]
    BY <1>2, <2>1, <2>4
  <2> QED
    BY <1>4, <2>4, <2>5, <2>6, <2>7, <2>8 DEF a, b
<1> QED
  BY <1>3, <1>4

\* The varints of the changes, and the bytes of the stream.
LEMMA TimestampStream ==
  ASSUME NEW ts \in Seq(Ints), Len(ts) # 0
  PROVE  /\ Coded(ts) \in Seq(Seq(Nat)) /\ Head2(ts) \in Seq(Nat)
         /\ Len(Coded(ts)) = IF Len(ts) <= 2 THEN 0 ELSE Len(ts) - 2
         /\ \A k \in 1..Len(Coded(ts)) : Coded(ts)[k] = Varint[Change(ts, k + 2)]
         /\ CompressTimestamps(ts) = Head2(ts) \o FlattenSeq(Coded(ts))
         /\ TimestampSize(ts) = Len(Head2(ts)) + SumFunction(Lengths(Coded(ts)))
<1>1. PICK m \in Nat : DOMAIN Changes(ts) = 1..m /\ m = IF Len(ts) <= 2 THEN 0 ELSE Len(ts) - 2
  <2>1. Len(ts) \in Nat \ {0}
    OBVIOUS
  <2> QED
    BY <2>1, ChangesDomain
<1> DEFINE q == Coded(ts)
           head == Head2(ts)
           h == Len(head)
<1>2. head \in Seq(Nat) /\ h = WordBytes * Min({Len(ts), 2})
  <2>1. head \in Seq(Nat) /\ Len(head) = IF Len(ts) = 1 THEN WordBytes ELSE 2 * WordBytes
    BY HeadBytes
  <2>2. PICK n \in Nat \ {0} : n = Len(ts)
    OBVIOUS
  <2>3. Len(head) = WordBytes * Min({Len(ts), 2})
    BY <2>1, <2>2, HeadSize
  <2> HIDE DEF head
  <2> QED
    BY <2>1, <2>3
<1>3. \A k \in 1..m : Change(ts, k + 2) \in Words
  <2> TAKE k \in 1..m
  <2>1. k + 2 \in 3..Len(ts)
    BY <1>1
  <2> QED
    BY <2>1, DeltaRange
<1>4. q \in Seq(Seq(Nat)) /\ Len(q) = m /\ \A k \in 1..m : q[k] = Varint[Change(ts, k + 2)]
  <2>1. \A k \in 1..m : Varint[Change(ts, k + 2)] \in Seq(Nat)
    BY <1>3, VarintSizeIs
  <2>2. q = [k \in 1..m |-> Varint[Change(ts, k + 2)]]
    BY <1>1 DEF Coded
  <2> QED
    BY <2>1, <2>2
<1>5. CompressTimestamps(ts) = head \o FlattenSeq(q)
  BY DEF CompressTimestamps, Head2, Coded
<1>6. TimestampSize(ts) = h + SumFunction(Lengths(q))
  <2>1. [k \in DOMAIN Changes(ts) |-> VarintSize(Change(ts, k + 2))] = Lengths(q)
    <3>1. \A k \in 1..m : VarintSize(Change(ts, k + 2)) = Len(q[k])
      BY <1>3, <1>4, VarintSizeIs
    <3>2. DOMAIN q = 1..m
      BY <1>4
    <3> QED
      BY <1>1, <3>1, <3>2 DEF Lengths
  <2> QED
    BY <1>2, <2>1 DEF TimestampSize
<1> HIDE DEF q, h, head
<1> QED
  BY <1>1, <1>2, <1>4, <1>5, <1>6 DEF q, h, head

\* A state of the decoder is not TSEDGE_ERR_CORRUPT.
LEMMA NotCorrupt ==
  /\ \A a \in Nat, b \in Nat : [next |-> a, value |-> b] # Corrupt
  /\ \A a \in Nat, b \in Int, c \in Seq(Int) : [next |-> a, delta |-> b, out |-> c] # Corrupt
  /\ \A a \in Nat, c \in Seq(Int) : [next |-> a, out |-> c] # Corrupt
  /\ \A c \in Seq(Int) : c # Corrupt
  /\ \A c \in Seq(Int \X Int) : c # Corrupt
<1>1. ASSUME NEW a \in Nat, NEW b \in Nat PROVE [next |-> a, value |-> b] # Corrupt
  <2>1. [next |-> a, value |-> b] \in [next : Nat, value : Nat]
    OBVIOUS
  <2> QED
    BY <2>1, CodecAssumption
<1>2. ASSUME NEW a \in Nat, NEW b \in Int, NEW c \in Seq(Int)
      PROVE  [next |-> a, delta |-> b, out |-> c] # Corrupt
  <2>1. [next |-> a, delta |-> b, out |-> c] \in [next : Nat, delta : Int, out : Seq(Int)]
    OBVIOUS
  <2> QED
    BY <2>1, CodecAssumption
<1>3. ASSUME NEW a \in Nat, NEW c \in Seq(Int) PROVE [next |-> a, out |-> c] # Corrupt
  <2>1. [next |-> a, out |-> c] \in [next : Nat, out : Seq(Int)]
    OBVIOUS
  <2> QED
    BY <2>1, CodecAssumption
<1>4. Corrupt \notin Seq(Int) /\ Corrupt \notin Seq(Int \X Int)
  BY CodecAssumption
<1> QED
  BY <1>1, <1>2, <1>3, <1>4

\* What the decoder has after the first k timestamps.
Decoded(ts, k, next) == [next |-> next, delta |-> Delta(ts, k), out |-> Taken(ts, k)]

\* One round of the decoder.
LEMMA TimestampRound ==
  ASSUME NEW ts \in Seq(Ints), NEW k \in 2..Len(ts), k + 1 <= Len(ts),
         NEW data \in Seq(Nat), NEW at \in Nat \ {0},
         at + Len(Varint[Change(ts, k + 1)]) - 1 <= Len(data),
         \A j \in 1..Len(Varint[Change(ts, k + 1)]) : data[at + j - 1] = Varint[Change(ts, k + 1)][j]
  PROVE  DecodeTimestamp(data, Decoded(ts, k, at)) =
           Decoded(ts, k + 1, at + Len(Varint[Change(ts, k + 1)]))
<1> DEFINE w == Change(ts, k + 1)
           l == Len(Varint[w])
           s == Decoded(ts, k, at)
<1>1. k + 1 \in 3..Len(ts) /\ k + 1 \in 2..Len(ts) /\ (k + 1) - 1 = k /\ k \in 1..Len(ts) /\ k \in Nat
  OBVIOUS
<1>2. w \in Words /\ Int64(Delta(ts, k) + ZigzagDecode(w)) = Delta(ts, k + 1)
  BY <1>1, DeltaRange
<1>3. Int64(ts[k] + Delta(ts, k + 1)) = ts[k + 1] /\ Delta(ts, k) \in Ints
  BY <1>1, DeltaRange
<1>4. l \in Nat /\ w \in Nat
  BY <1>2, VarintSizeIs, Halves DEF Words
<1>5. ReadVarint(data, at) = [next |-> at + l, value |-> w]
  <2> HIDE DEF w
  <2>1. at + Len(Varint[w]) - 1 <= Len(data) /\ \A j \in 1..Len(Varint[w]) : data[at + j - 1] = Varint[w][j]
    BY DEF w
  <2> QED
    BY <1>2, <2>1, ReadVarintAt
<1>6. Last(Taken(ts, k)) = ts[k] /\ Taken(ts, k) \in Seq(Ints)
  BY <1>1, LastTaken
<1>7. Append(Taken(ts, k), ts[k + 1]) = Taken(ts, k + 1)
  BY <1>1, TakenGrows
<1>8. /\ s # Corrupt /\ [next |-> at + l, value |-> w] # Corrupt
  <2>1. Ints \subseteq Int
    BY Halves DEF Ints
  <2>2. Taken(ts, k) \in Seq(Int) /\ Delta(ts, k) \in Int
    BY <1>3, <1>6, <2>1, SeqWider
  <2>3. at + l \in Nat /\ at \in Nat
    BY <1>4
  <2> HIDE DEF l, w
  <2> QED
    BY <1>4, <2>2, <2>3, NotCorrupt DEF Decoded
<1> HIDE DEF l, w
<1>9. DecodeTimestamp(data, s) = ApplyChange(s, [next |-> at + l, value |-> w])
  BY <1>5, <1>8 DEF DecodeTimestamp, Decoded
<1>10. ApplyChange(s, [next |-> at + l, value |-> w])
         = NextTimestamp(s, Int64(s.delta + ZigzagDecode(w)), at + l)
  BY <1>8 DEF ApplyChange
<1>11. s.delta = Delta(ts, k) /\ s.out = Taken(ts, k)
  BY DEF Decoded
<1> HIDE DEF s
<1>12. NextTimestamp(s, Delta(ts, k + 1), at + l) = Decoded(ts, k + 1, at + l)
  BY <1>3, <1>6, <1>7, <1>11 DEF NextTimestamp, Decoded
<1>13. DecodeTimestamp(data, s) = Decoded(ts, k + 1, at + l)
  BY <1>2, <1>9, <1>10, <1>11, <1>12
<1> QED
  BY <1>13 DEF s, l, w

\* Any sequence of int64_t timestamps, sorted or not and with differences that wrap around,
\* is compressed into as many bytes as the size pass of tsedge_compress_timestamps counted,
\* and tsedge_decompress_timestamps gives the timestamps back.
THEOREM TimestampsLossless ==
  ASSUME NEW ts \in Seq(Ints), Len(ts) # 0
  PROVE  /\ CompressTimestamps(ts) \in Seq(Nat)
         /\ Len(CompressTimestamps(ts)) = TimestampSize(ts)
         /\ DecompressTimestamps(CompressTimestamps(ts), Len(ts)) = ts
<1> DEFINE data == CompressTimestamps(ts)
<1>0. PICK count \in Nat \ {0} : count = Len(ts)
  OBVIOUS
<1>1. /\ Coded(ts) \in Seq(Seq(Nat)) /\ Head2(ts) \in Seq(Nat)
      /\ Len(Coded(ts)) = IF Len(ts) <= 2 THEN 0 ELSE Len(ts) - 2
      /\ \A k \in 1..Len(Coded(ts)) : Coded(ts)[k] = Varint[Change(ts, k + 2)]
      /\ data = Head2(ts) \o FlattenSeq(Coded(ts))
      /\ TimestampSize(ts) = Len(Head2(ts)) + SumFunction(Lengths(Coded(ts)))
  BY TimestampStream
<1> HIDE DEF data
<1>a. PICK m, h \in Nat : m = Len(Coded(ts)) /\ h = Len(Head2(ts))
  BY <1>1
<1>b. PICK start : IsStream(Head2(ts), Coded(ts), data, start)
  BY <1>1, Streams
<1>c. /\ m = (IF count <= 2 THEN 0 ELSE count - 2) /\ h = Len(Head2(ts))
      /\ data \in Seq(Nat) /\ Len(data) = TimestampSize(ts)
      /\ \A i \in 1..h : data[i] = Head2(ts)[i]
      /\ start \in [1..(m + 1) -> Nat] /\ start[1] = 0 /\ h + start[m + 1] = Len(data)
      /\ \A k \in 1..m :
           /\ start[k + 1] = start[k] + Len(Varint[Change(ts, k + 2)])
           /\ h + start[k + 1] <= Len(data)
           /\ \A j \in 1..Len(Varint[Change(ts, k + 2)]) :
                data[h + start[k] + j] = Varint[Change(ts, k + 2)][j]
  <2> DEFINE q == Coded(ts)
             head == Head2(ts)
  <2>1. /\ data \in Seq(Nat) /\ Len(data) = Len(head) + SumFunction(Lengths(q))
        /\ \A i \in 1..Len(head) : data[i] = head[i]
        /\ start \in [1..(Len(q) + 1) -> Nat] /\ start[1] = 0 /\ Len(head) + start[Len(q) + 1] = Len(data)
        /\ \A k \in 1..Len(q) :
             /\ start[k + 1] = start[k] + Len(q[k])
             /\ Len(head) + start[k + 1] <= Len(data)
             /\ \A j \in 1..Len(q[k]) : data[Len(head) + start[k] + j] = q[k][j]
    BY <1>b DEF IsStream
  <2>2. /\ \A k \in 1..m : q[k] = Varint[Change(ts, k + 2)]
        /\ TimestampSize(ts) = Len(head) + SumFunction(Lengths(q))
        /\ m = IF count <= 2 THEN 0 ELSE count - 2
    BY <1>0, <1>1, <1>a
  <2>3. m = Len(q) /\ h = Len(head)
    BY <1>a
  <2> HIDE DEF q, head
  <2>4. \A k \in 1..m :
           /\ start[k + 1] = start[k] + Len(Varint[Change(ts, k + 2)])
           /\ h + start[k + 1] <= Len(data)
           /\ \A j \in 1..Len(Varint[Change(ts, k + 2)]) :
                data[h + start[k] + j] = Varint[Change(ts, k + 2)][j]
    BY <2>1, <2>2, <2>3
  <2>5. /\ data \in Seq(Nat) /\ Len(data) = TimestampSize(ts)
        /\ \A i \in 1..h : data[i] = head[i]
        /\ start \in [1..(m + 1) -> Nat] /\ start[1] = 0 /\ h + start[m + 1] = Len(data)
    BY <2>1, <2>2, <2>3
  <2> QED
    BY <2>2, <2>3, <2>4, <2>5 DEF head
<1>2. count \in Nat \ {0} /\ (count <= 2 => m = 0) /\ (~(count <= 2) => count = m + 2)
  BY <1>0, <1>c
<1>3. PICK t : /\ \A k \in 1..count : t[k] = TimestampRow(data, count, t, k)
               /\ DecompressTimestamps(data, count) =
                    IF Len(data) < WordBytes * Min({count, 2}) THEN Corrupt ELSE Finished(t[count], data)
  BY <1>0, <1>2, TimestampStates
<1>4. PICK w \in Nat : w = WordBytes
  BY Widths
<1>5. h = WordBytes * Min({count, 2}) /\ h = IF count = 1 THEN w ELSE 2 * w
  BY <1>0, <1>c, <1>2, <1>4, HeadBytes, HeadSize
<1>6. Len(data) \in Nat /\ h <= Len(data)
  <2>1. m + 1 \in 1..(m + 1)
    OBVIOUS
  <2>2. start[m + 1] \in Nat
    BY <1>0, <1>c, <2>1
  <2> QED
    BY <1>0, <1>c, <2>2
<1>7. Signed(Read(data, 1)) = ts[1]
  <2>1. ts[1] \in Ints
    BY <1>0, <1>2
  <2>2. Unsigned(ts[1]) \in Words /\ Signed(Unsigned(ts[1])) = ts[1]
    BY <2>1, CastBack
  <2>3. ASSUME NEW i \in 1..WordBytes PROVE data[1 + i - 1] = Write(Unsigned(ts[1]))[i]
    <3>1. 1 + i - 1 = i /\ i \in 1..h
      BY <1>4, <1>5
    <3> QED
      BY <1>0, <1>c, <3>1, HeadBytes
  <2>4. Read(data, 1) = Unsigned(ts[1])
    BY <2>2, <2>3, ReadAt
  <2> QED
    BY <2>2, <2>4
<1>8. Ints \subseteq Int /\ Corrupt \notin Seq(Int) /\ ts \in Seq(Int)
  <2>1. Ints \subseteq Int
    BY Halves DEF Ints
  <2> QED
    BY <2>1, NotCorrupt, SeqWider
<1>9. t[1] = DecodeHead(data, count)
  <2>1. 1 \in 1..count /\ 1 <= 2
    BY <1>0, <1>2
  <2> QED
    BY <1>3, <2>1 DEF TimestampRow
<1>10. CASE count = 1
  <2>1. t[1] = [next |-> 1 + w, delta |-> 0, out |-> <<ts[1]>>]
    BY <1>4, <1>7, <1>9, <1>10 DEF DecodeHead
  <2>2. <<ts[1]>> = ts
    <3>0. Len(ts) = 1
      BY <1>0, <1>10
    <3>1. Len(ts) = 1 /\ ts[1] \in Ints
      BY <3>0
    <3>2. <<ts[1]>> \in Seq(Ints) /\ Len(<<ts[1]>>) = 1 /\ <<ts[1]>>[1] = ts[1]
      BY <3>1
    <3>3. \A i \in 1..Len(ts) : ts[i] = <<ts[1]>>[i]
      BY <3>1
    <3> QED
      BY <3>1, <3>2, <3>3, SeqEqual
  <2>3. Len(data) = w
    BY <1>0, <1>c, <1>2, <1>5, <1>10
  <2>4. t[1] # Corrupt
    <3>1. 1 + w \in Nat /\ 0 \in Int /\ ts \in Seq(Int)
      BY <1>8
    <3>2. t[1] = [next |-> 1 + w, delta |-> 0, out |-> ts]
      BY <2>1, <2>2
    <3>3. [next |-> 1 + w, delta |-> 0, out |-> ts] # Corrupt
      BY ONLY <3>1, NotCorrupt
    <3> QED
      BY <3>2, <3>3
  <2>5. Finished(t[count], data) = ts
    BY <1>10, <2>1, <2>2, <2>3, <2>4 DEF Finished
  <2> QED
    BY <1>0, <1>c, <1>3, <1>5, <1>6, <2>5 DEF data
<1>11. CASE count # 1
  <2>1. h = 2 * w /\ count = m + 2
    BY <1>0, <1>2, <1>5, <1>11
  <2> DEFINE G == {n \in Nat : n <= m => t[n + 2] = Decoded(ts, n + 2, h + start[n + 1] + 1)}
  <2>2. 0 \in G
    <3>1. Signed(Read(data, w + 1)) = Delta(ts, 2) /\ Int64(ts[1] + Delta(ts, 2)) = ts[2]
      <4>1. 2 \in 2..count /\ 2 - 1 = 1
        BY <1>0, <1>2, <1>11
      <4>2. Delta(ts, 2) \in Ints /\ Int64(ts[1] + Delta(ts, 2)) = ts[2]
        BY <1>0, <4>1, DeltaRange
      <4>3. Unsigned(Delta(ts, 2)) \in Words /\ Signed(Unsigned(Delta(ts, 2))) = Delta(ts, 2)
        BY <4>2, CastBack
      <4>4. ASSUME NEW i \in 1..WordBytes PROVE data[(w + 1) + i - 1] = Write(Unsigned(Delta(ts, 2)))[i]
        <5>1. (w + 1) + i - 1 = w + i /\ w + i \in 1..h
          BY <1>4, <2>1
        <5>2. data[w + i] = Head2(ts)[w + i]
          BY <1>0, <1>c, <5>1
        <5> QED
          BY <1>0, <1>4, <1>11, <5>1, <5>2, HeadBytes
      <4>5. Read(data, w + 1) = Unsigned(Delta(ts, 2))
        <5>1. w + 1 \in Nat
          OBVIOUS
        <5> QED
          BY <4>3, <4>4, <5>1, ReadAt
      <4> QED
        BY <4>2, <4>3, <4>5
    <3>2. t[2] = [next |-> 1 + 2 * w, delta |-> Delta(ts, 2), out |-> <<ts[1], ts[2]>>]
      <4>1. 2 \in 1..count /\ 2 <= 2
        BY <1>0, <1>2, <1>11
      <4>2. t[2] = DecodeHead(data, count)
        BY <1>3, <4>1 DEF TimestampRow
      <4> QED
        BY <1>4, <1>7, <1>11, <3>1, <4>2 DEF DecodeHead
    <3>3. <<ts[1], ts[2]>> = Taken(ts, 2)
      <4>1. /\ Taken(ts, 2) \in Seq(Ints) /\ Len(Taken(ts, 2)) = 2
            /\ Taken(ts, 2)[1] = ts[1] /\ Taken(ts, 2)[2] = ts[2]
        <5>1. 2 \in 1..Len(ts)
          BY <1>0, <1>2, <1>11
        <5> QED
          BY <5>1, LastTaken DEF Taken
      <4> QED
        BY <4>1
    <3>4. 1 + 2 * w = h + start[0 + 1] + 1 /\ 0 + 2 = 2
      BY <1>0, <1>c, <2>1
    <3> QED
      BY <3>2, <3>3, <3>4 DEF Decoded
  <2>3. ASSUME NEW n \in Nat, n \in G PROVE n + 1 \in G
    <3>1. SUFFICES ASSUME n + 1 <= m
                   PROVE  t[(n + 1) + 2] = Decoded(ts, (n + 1) + 2, h + start[(n + 1) + 1] + 1)
      OBVIOUS
    <3> DEFINE k == n + 2
               c == n + 1
               v == Varint[Change(ts, c + 2)]
               at == h + start[c] + 1
    <3>2. t[k] = Decoded(ts, k, at)
      BY <2>3, <3>1
    <3>3. /\ k \in 2..count /\ k + 1 <= count /\ k + 1 \in 1..count /\ (k + 1) - 1 = k /\ ~(k + 1 <= 2)
          /\ k + 1 = c + 2 /\ c \in 1..m /\ c + 1 \in 1..(m + 1) /\ c \in 1..(m + 1)
      BY <2>1, <3>1
    <3> HIDE DEF G, k, at, c
    <3>4. start[c + 1] = start[c] + Len(v) /\ h + start[c + 1] <= Len(data)
          /\ \A j \in 1..Len(v) : data[h + start[c] + j] = v[j]
      BY <1>0, <1>c, <3>3
    <3>5. Change(ts, c + 2) \in Words
      <4>1. c + 2 \in 3..Len(ts)
        BY <1>0, <3>3
      <4> QED
        BY <4>1, DeltaRange
    <3>6. Len(v) \in Nat
      BY <3>5, VarintSizeIs
    <3> HIDE DEF v
    <3>7. PICK a \in Nat, b \in Nat, l \in Nat : a = start[c] /\ b = start[c + 1] /\ l = Len(v)
      BY <1>0, <1>c, <3>3, <3>6
    <3>8. at \in Nat \ {0} /\ at = h + a + 1 /\ b = a + l /\ h + b <= Len(data)
      <4>1. at = h + a + 1
        BY ONLY <3>7 DEF at
      <4>2. b = a + l /\ h + b <= Len(data)
        BY ONLY <3>4, <3>7
      <4>3. h \in Nat
        BY <1>0
      <4>4. a \in Nat
        OBVIOUS
      <4> QED
        BY ONLY <4>1, <4>2, <4>3, <4>4
    <3>9. at + l - 1 <= Len(data) /\ at + l = h + b + 1
      BY <1>6, <3>8
    <3>10. ASSUME NEW j \in 1..l PROVE data[at + j - 1] = v[j]
      <4>1. at + j - 1 = h + a + j
        BY <3>8
      <4> QED
        BY <3>4, <3>7, <4>1
    <3>11. DecodeTimestamp(data, Decoded(ts, k, at)) = Decoded(ts, k + 1, at + l)
      <4>1. v = Varint[Change(ts, k + 1)]
        BY <3>3 DEF v
      <4>2. /\ at + Len(Varint[Change(ts, k + 1)]) - 1 <= Len(data)
            /\ \A j \in 1..Len(Varint[Change(ts, k + 1)]) :
                 data[at + j - 1] = Varint[Change(ts, k + 1)][j]
        BY <3>7, <3>9, <3>10, <4>1
      <4>3. data \in Seq(Nat)
        BY <1>0, <1>c
      <4>4. DecodeTimestamp(data, Decoded(ts, k, at)) =
              Decoded(ts, k + 1, at + Len(Varint[Change(ts, k + 1)]))
        BY <1>0, <3>3, <3>8, <4>2, <4>3, TimestampRound
      <4> QED
        BY <3>7, <4>1, <4>4
    <3>12. t[k + 1] = DecodeTimestamp(data, t[k])
      BY <1>3, <3>3 DEF TimestampRow
    <3>13. t[k + 1] = Decoded(ts, k + 1, h + start[c + 1] + 1)
      BY <3>2, <3>7, <3>9, <3>11, <3>12
    <3>14. k + 1 = (n + 1) + 2 /\ c + 1 = (n + 1) + 1
      BY DEF k, c
    <3> QED
      BY <3>13, <3>14
  <2> HIDE DEF G
  <2>4. Nat \subseteq G
    BY <2>2, <2>3, NatSetInduction
  <2>5. t[count] = Decoded(ts, count, Len(data) + 1)
    <3>1. m \in G /\ m <= m
      BY <2>4
    <3>2. t[m + 2] = Decoded(ts, m + 2, h + start[m + 1] + 1)
      BY <3>1 DEF G
    <3> QED
      BY <1>0, <1>c, <2>1, <3>2
  <2>6. Taken(ts, count) = ts
    BY <1>0, TakenAll
  <2>7. Delta(ts, count) \in Int
    <3>1. count \in 2..Len(ts)
      BY <1>0, <1>2, <1>11
    <3> QED
      BY <1>8, <3>1, DeltaRange
  <2>8. t[count] # Corrupt
    <3>1. Len(data) + 1 \in Nat
      BY <1>6
    <3> QED
      BY <1>8, <2>5, <2>6, <2>7, <3>1, NotCorrupt DEF Decoded
  <2>9. Finished(t[count], data) = ts
    BY <2>5, <2>6, <2>8 DEF Finished, Decoded
  <2> QED
    BY <1>0, <1>c, <1>3, <1>5, <1>6, <2>9 DEF data
<1> QED
  BY <1>10, <1>11

-----------------------------------------------------------------------------
(* The exclusive or *)

Bits(a) == Split(1, ByteBits, a)

BitSum(a, b) == [i \in 1..ByteBits |-> (Bits(a)[i] + Bits(b)[i]) % 2]

\* The bits of a byte.
LEMMA BitsIs ==
  ASSUME NEW a \in Bytes
  PROVE  Bits(a) \in [1..ByteBits -> 0..1] /\ Join(1, Bits(a)) = a
<1>1. ByteBits \in Nat /\ 1 \in Nat /\ 1 * ByteBits = ByteBits /\ a \in Nat
  BY Widths DEF Bytes
<1>2. TwoTo[1] = 2
  <2>1. 0 + 1 = 1 /\ 0 \in Nat
    OBVIOUS
  <2> QED
    BY <2>1, TwoToIs
<1>3. Bits(a) \in Digits(1, ByteBits)
  BY <1>1, SplitDigits DEF Bits
<1>4. Bits(a) \in [1..ByteBits -> 0..1]
  <2>1. 2 - 1 = 1
    OBVIOUS
  <2> QED
    BY <1>2, <1>3, <2>1 DEF Digits
<1>5. Join(1, Bits(a)) = a % TwoTo[1 * ByteBits]
  BY <1>1, JoinSplit DEF Bits
<1>6. a % Radix = a
  <2>1. PICK r \in Nat \ {0} : r = Radix
    BY Widths
  <2>2. a \in 0..(r - 1)
    BY <2>1 DEF Bytes
  <2>3. (r * 0 + a) % r = a /\ r * 0 + a = a
    BY <2>2
  <2> QED
    BY <2>1, <2>3
<1> QED
  BY <1>1, <1>4, <1>5, <1>6 DEF Radix

\* Bits joined make a byte, and come back from it.
LEMMA BitsBack ==
  ASSUME NEW d \in [1..ByteBits -> 0..1]
  PROVE  Join(1, d) \in Bytes /\ Bits(Join(1, d)) = d
<1>1. ByteBits \in Nat /\ 1 \in Nat /\ 1 * ByteBits = ByteBits
  BY Widths
<1>2. TwoTo[1] = 2
  <2>1. 0 + 1 = 1 /\ 0 \in Nat
    OBVIOUS
  <2> QED
    BY <2>1, TwoToIs
<1>3. d \in Digits(1, ByteBits)
  <2>1. 2 - 1 = 1
    OBVIOUS
  <2> QED
    BY <1>2, <2>1 DEF Digits
<1>4. Join(1, d) \in Nat /\ Join(1, d) < TwoTo[1 * ByteBits]
  BY <1>1, <1>3, JoinBound
<1>5. Bits(Join(1, d)) = d
  BY <1>1, <1>3, SplitJoin DEF Bits
<1>6. Radix \in Nat
  BY Widths
<1>7. Join(1, d) \in Nat /\ Join(1, d) < Radix
  BY <1>1, <1>4 DEF Radix
<1>8. Join(1, d) \in 0..(Radix - 1)
  BY <1>6, <1>7
<1> QED
  BY <1>5, <1>8 DEF Bytes

\* The exclusive or of two bytes adds their bits without a carry.
LEMMA ByteXorIs ==
  ASSUME NEW a \in Bytes, NEW b \in Bytes
  PROVE  /\ ByteXor[<<a, b>>] = Join(1, BitSum(a, b)) /\ BitSum(a, b) \in [1..ByteBits -> 0..1]
         /\ ByteXor[<<a, b>>] \in Bytes
<1>1. ByteXor[<<a, b>>] = Join(1, BitSum(a, b))
  <2>0. <<a, b>> \in Bytes \X Bytes
    OBVIOUS
  <2>1. PICK p : p = <<a, b>> /\ p \in Bytes \X Bytes
    BY <2>0
  <2>2. ByteXor[p] = Join(1, BitSum(p[1], p[2]))
    BY <2>1 DEF ByteXor, BitSum, Bits
  <2>3. p[1] = a /\ p[2] = b
    BY <2>1
  <2> QED
    BY <2>1, <2>2, <2>3
<1>2. BitSum(a, b) \in [1..ByteBits -> 0..1]
  <2>1. Bits(a) \in [1..ByteBits -> 0..1] /\ Bits(b) \in [1..ByteBits -> 0..1]
    BY BitsIs
  <2>2. \A x, y \in 0..1 : (x + y) % 2 \in 0..1
    OBVIOUS
  <2>3. \A i \in 1..ByteBits : (Bits(a)[i] + Bits(b)[i]) % 2 \in 0..1
    BY <2>1, <2>2
  <2> QED
    BY <2>3 DEF BitSum
<1> QED
  BY <1>1, <1>2, BitsBack

\* A byte combined twice with the same byte is back.
LEMMA ByteXorTwice ==
  ASSUME NEW a \in Bytes, NEW b \in Bytes
  PROVE  ByteXor[<<a, ByteXor[<<a, b>>]>>] = b
<1>1. PICK c \in Bytes : c = ByteXor[<<a, b>>]
  BY ByteXorIs
<1>2. Bits(c) = BitSum(a, b)
  BY <1>1, ByteXorIs, BitsBack
<1>3. Bits(a) \in [1..ByteBits -> 0..1] /\ Bits(b) \in [1..ByteBits -> 0..1] /\ Join(1, Bits(b)) = b
  BY BitsIs
<1>4. \A x, y \in 0..1 : (x + ((x + y) % 2)) % 2 = y
  OBVIOUS
<1>5. ASSUME NEW i \in 1..ByteBits PROVE (Bits(a)[i] + Bits(c)[i]) % 2 = Bits(b)[i]
  <2>1. Bits(c)[i] = (Bits(a)[i] + Bits(b)[i]) % 2
    BY <1>2 DEF BitSum
  <2>2. PICK x \in 0..1, y \in 0..1 : x = Bits(a)[i] /\ y = Bits(b)[i]
    BY <1>3
  <2> QED
    BY <1>4, <2>1, <2>2
<1>6. BitSum(a, c) = Bits(b)
  <2>1. Bits(b) = [i \in 1..ByteBits |-> Bits(b)[i]]
    BY <1>3
  <2>2. [i \in 1..ByteBits |-> (Bits(a)[i] + Bits(c)[i]) % 2] = [i \in 1..ByteBits |-> Bits(b)[i]]
    BY <1>5
  <2> QED
    BY <2>1, <2>2 DEF BitSum
<1>7. ByteXor[<<a, c>>] = Join(1, BitSum(a, c))
  BY ByteXorIs
<1> QED
  BY <1>1, <1>3, <1>6, <1>7

\* The bytes of a word made of bytes are those bytes.
LEMMA WriteBack ==
  ASSUME NEW d \in [1..WordBytes -> Bytes]
  PROVE  Join(ByteBits, d) \in Words /\ Write(Join(ByteBits, d)) = d
<1>1. ByteBits \in Nat /\ WordBytes \in Nat
  BY Widths
<1>2. d \in Digits(ByteBits, WordBytes)
  BY DEF Digits, Bytes, Radix
<1>3. Join(ByteBits, d) \in Nat /\ Join(ByteBits, d) < Modulus
  BY <1>1, <1>2, JoinBound DEF Modulus
<1>4. Write(Join(ByteBits, d)) = d
  BY <1>1, <1>2, SplitJoin DEF Write
<1>5. Modulus \in Nat
  BY Halves
<1>6. Join(ByteBits, d) \in 0..(Modulus - 1)
  BY <1>3, <1>5
<1> QED
  BY <1>4, <1>6 DEF Words

\* The exclusive or of two words is a word, and takes the one back to the other.
LEMMA XorTwice ==
  ASSUME NEW v \in Words, NEW w \in Words
  PROVE  Xor(v, w) \in Words /\ Xor(v, Xor(v, w)) = w
<1>1. Write(v) \in [1..WordBytes -> Bytes] /\ Write(w) \in [1..WordBytes -> Bytes]
  BY ReadWrite
<1> DEFINE d == [i \in 1..WordBytes |-> ByteXor[<<Write(v)[i], Write(w)[i]>>]]
<1>2. d \in [1..WordBytes -> Bytes]
  <2>1. \A i \in 1..WordBytes : ByteXor[<<Write(v)[i], Write(w)[i]>>] \in Bytes
    BY <1>1, ByteXorIs
  <2> QED
    BY <2>1
<1>3. Xor(v, w) = Join(ByteBits, d)
  BY DEF Xor
<1>4. \A i \in 1..WordBytes : d[i] = ByteXor[<<Write(v)[i], Write(w)[i]>>]
  OBVIOUS
<1> HIDE DEF d
<1>5. PICK x \in Words : x = Xor(v, w) /\ Write(x) = d
  BY <1>2, <1>3, WriteBack
<1>6. ASSUME NEW i \in 1..WordBytes PROVE ByteXor[<<Write(v)[i], Write(x)[i]>>] = Write(w)[i]
  <2>1. Write(v)[i] \in Bytes /\ Write(w)[i] \in Bytes
    BY <1>1
  <2>2. Write(x)[i] = ByteXor[<<Write(v)[i], Write(w)[i]>>]
    BY <1>4, <1>5
  <2> QED
    BY <2>1, <2>2, ByteXorTwice
<1>7. [i \in 1..WordBytes |-> ByteXor[<<Write(v)[i], Write(x)[i]>>]] = [i \in 1..WordBytes |-> Write(w)[i]]
  BY <1>6
<1>8. Write(w) = [i \in 1..WordBytes |-> Write(w)[i]]
  BY <1>1
<1>9. Xor(v, x) = Join(ByteBits, Write(w))
  BY <1>7, <1>8 DEF Xor
<1> QED
  BY <1>5, <1>9, ReadWrite

-----------------------------------------------------------------------------
(* The bytes of a word that are not zero *)

\* What the two counts say.
LEMMA ZeroBytes ==
  ASSUME NEW w \in Words
  PROVE  /\ LeadingZeroBytes(w) \in 0..WordBytes /\ TrailingZeroBytes(w) \in 0..WordBytes
         /\ \A i \in 1..WordBytes :
              /\ i > WordBytes - LeadingZeroBytes(w) => Write(w)[i] = 0
              /\ i <= TrailingZeroBytes(w) => Write(w)[i] = 0
              /\ BigEndian(w)[i] = Write(w)[WordBytes - i + 1]
         /\ BigEndian(w) \in Seq(Nat) /\ Len(BigEndian(w)) = WordBytes
         /\ w # 0 => LeadingZeroBytes(w) + TrailingZeroBytes(w) < WordBytes
<1>1. PICK n \in Nat : n = WordBytes
  BY Widths
<1> DEFINE b == Write(w)
           e == BigEndian(w)
<1>2. b \in [1..n -> Bytes] /\ b \in Seq(Nat) /\ Len(b) = n
  BY <1>1, ReadWrite
<1>3. e = [i \in 1..n |-> b[(n - i) + 1]]
  BY <1>2 DEF BigEndian, Reverse
<1>4. \A i \in 1..n : (n - i) + 1 \in 1..n /\ b[i] \in Nat
  BY <1>2
<1>5. e \in Seq(Nat) /\ Len(e) = n /\ \A i \in 1..n : e[i] = b[(n - i) + 1]
  BY <1>3, <1>4
<1> HIDE DEF b, e
<1> DEFINE L == {k \in 0..n : \A i \in 1..k : e[i] = 0}
           T == {k \in 0..n : \A i \in 1..k : b[i] = 0}
           l == Max(L)
           t == Max(T)
<1>6. LeadingZeroBytes(w) = l /\ TrailingZeroBytes(w) = t
  BY <1>1 DEF LeadingZeroBytes, TrailingZeroBytes, b, e
<1>7. L \subseteq 0..n /\ T \subseteq 0..n /\ 0 \in L /\ 0 \in T
  OBVIOUS
<1>8. l \in L /\ t \in T
  <2> HIDE DEF L, T
  <2> QED
    BY <1>7, MaxIn
<1> HIDE DEF l, t
<1>9. l \in 0..n /\ t \in 0..n /\ (\A i \in 1..l : e[i] = 0) /\ (\A i \in 1..t : b[i] = 0)
  BY <1>8
<1> HIDE DEF L, T
<1>10. ASSUME NEW i \in 1..n, i > n - l PROVE b[i] = 0
  <2>1. (n - i) + 1 \in 1..n /\ (n - i) + 1 \in 1..l /\ (n - ((n - i) + 1)) + 1 = i
    BY <1>9, <1>10
  <2> QED
    BY <1>5, <1>9, <2>1
<1>11. ASSUME NEW i \in 1..n, i <= t PROVE b[i] = 0
  BY <1>9, <1>11
<1>12. ASSUME w # 0 PROVE l + t < n
  <2>1. SUFFICES ASSUME ~(l + t < n) PROVE FALSE
    BY <1>9
  <2>2. ASSUME NEW i \in 1..n PROVE b[i] = 0
    <3>1. i > n - l \/ i <= t
      BY <1>9, <2>1
    <3> QED
      BY <1>10, <1>11, <3>1
  <2>3. 0 \in Words
    BY Halves DEF Words
  <2>4. ASSUME NEW i \in 1..n PROVE Write(0)[i] = 0
    <3>1. i \in 1..WordBytes /\ i - 1 \in Nat /\ ByteBits \in Nat
      BY <1>1, Widths
    <3>2. PICK p \in Nat \ {0}, r \in Nat \ {0} : p = TwoTo[ByteBits * (i - 1)] /\ r = TwoTo[ByteBits]
      <4>1. ByteBits * (i - 1) \in Nat
        BY <3>1
      <4> QED
        BY <3>1, <4>1, TwoToNat
    <3>3. 0 \div p = 0 /\ 0 % r = 0
      <4>1. (p * 0 + 0) \div p = 0 /\ (r * 0 + 0) % r = 0 /\ p * 0 + 0 = 0 /\ r * 0 + 0 = 0
        OBVIOUS
      <4> QED
        BY <4>1
    <3> QED
      BY <3>1, <3>2, <3>3 DEF Write, Split
  <2>5. Write(0) \in [1..n -> Bytes]
    BY <1>1, <2>3, ReadWrite
  <2>6. b = Write(0)
    <3>1. b = [i \in 1..n |-> b[i]] /\ Write(0) = [i \in 1..n |-> Write(0)[i]]
      BY <1>2, <2>5
    <3>2. [i \in 1..n |-> b[i]] = [i \in 1..n |-> Write(0)[i]]
      BY <2>2, <2>4
    <3> QED
      BY <3>1, <3>2
  <2>7. w = Join(ByteBits, b) /\ 0 = Join(ByteBits, Write(0))
    BY <2>3, ReadWrite DEF b
  <2> QED
    BY <1>12, <2>6, <2>7
<1>13. \A i \in 1..n : (n - i) + 1 = n - i + 1
  OBVIOUS
<1> QED
  BY <1>1, <1>5, <1>6, <1>9, <1>10, <1>11, <1>12, <1>13 DEF b, e

-----------------------------------------------------------------------------
(* The rounds of tsedge_decompress_values *)

\* The three markers.
LEMMA Markers == \A x \in 0..2 : x = 0 \/ x = 1 \/ x = 2
OBVIOUS

Left(data, state) == Len(data) - state.next

\* One round, case by case.
LEMMA DecodeXorIs ==
  ASSUME NEW data, NEW state, state # Corrupt, ~(state.next > Len(data))
  PROVE  /\ data[state.next] = 0 => DecodeXor(data, state) = NextValue(state, 0, state.next + 1)
         /\ data[state.next] = 1 /\ Left(data, state) >= 2 =>
              DecodeXor(data, state) = DecodePacked(data, state, data[state.next + 1], data[state.next + 2])
         /\ data[state.next] = 2 /\ Left(data, state) >= WordBytes =>
              DecodeXor(data, state) =
                NextValue(state, Read(data, state.next + 1), state.next + 1 + WordBytes)
         /\ \/ data[state.next] \notin 0..2
            \/ data[state.next] = 1 /\ ~(Left(data, state) >= 2)
            \/ data[state.next] = 2 /\ ~(Left(data, state) >= WordBytes)
            => DecodeXor(data, state) = Corrupt
<1>1. CASE data[state.next] = 0
  BY <1>1 DEF DecodeXor
<1>2. CASE data[state.next] = 1
  BY <1>2 DEF DecodeXor, Left
<1>3. CASE data[state.next] = 2
  BY <1>3 DEF DecodeXor, Left
<1>4. CASE data[state.next] \notin 0..2
  <2>1. data[state.next] # 0 /\ data[state.next] # 1 /\ data[state.next] # 2
    BY <1>4
  <2> QED
    BY <2>1 DEF DecodeXor
<1> QED
  BY <1>1, <1>2, <1>3, <1>4

\* A round that reads from a stream that was cut fails, or reads the same.
LEMMA DecodeXorCut ==
  ASSUME NEW short, NEW data, Beginning(short, data),
         NEW a, NEW b, a \in {Corrupt, b}, b # Corrupt, b.next \in Nat \ {0}
  PROVE  /\ DecodeXor(short, a) \in {Corrupt, DecodeXor(data, b)}
         /\ DecodeXor(data, b) = Corrupt \/ DecodeXor(data, b).next \in Nat \ {0}
<1>1. /\ short \in Seq(Nat) /\ data \in Seq(Nat) /\ Len(short) <= Len(data)
      /\ \A i \in 1..Len(short) : short[i] = data[i]
  BY DEF Beginning
<1>2. PICK at \in Nat \ {0}, s \in Nat, d \in Nat, n \in Nat :
        at = b.next /\ s = Len(short) /\ d = Len(data) /\ n = WordBytes
  <2>1. b.next \in Nat \ {0} /\ Len(short) \in Nat /\ Len(data) \in Nat /\ WordBytes \in Nat
    BY <1>1, Widths
  <2> QED
    BY ONLY <2>1
<1>3. s <= d /\ n >= 4 /\ \A i \in 1..s : short[i] = data[i]
  BY <1>1, <1>2, Widths
<1>4. DecodeXor(data, b) = Corrupt \/ DecodeXor(data, b).next \in Nat \ {0}
  <2>1. CASE at > d
    BY <1>2, <2>1 DEF DecodeXor
  <2>2. CASE ~(at > d)
    <3>1. CASE data[at] = 0
      BY <1>2, <2>2, <3>1, DecodeXorIs DEF NextValue
    <3>2. CASE data[at] = 1 /\ d - at >= 2
      <4>1. DecodeXor(data, b) = DecodePacked(data, b, data[at + 1], data[at + 2])
        BY <1>2, <2>2, <3>2, DecodeXorIs DEF Left
      <4>2. at + 2 \in 1..d /\ data[at + 2] \in Nat
        <5>1. at + 2 \in 1..d
          BY ONLY <3>2, at \in Nat \ {0}, d \in Nat
        <5>2. data \in Seq(Nat) /\ d = Len(data)
          BY <1>1, <1>2
        <5> QED
          BY ONLY <5>1, <5>2
      <4> QED
        <5>1. PICK m \in Nat : m = data[at + 2]
          BY <4>2
        <5>2. \/ DecodeXor(data, b) = Corrupt
              \/ DecodeXor(data, b) = NextValue(b, Unpack(data, at + 3, data[at + 1], m), at + 3 + m)
          BY <1>2, <4>1, <5>1 DEF DecodePacked
        <5> QED
          BY <5>2 DEF NextValue
    <3>3. CASE data[at] = 2 /\ d - at >= n
      <4>1. DecodeXor(data, b) = NextValue(b, Read(data, at + 1), at + 1 + n)
        BY <1>2, <2>2, <3>3, DecodeXorIs DEF Left
      <4> QED
        BY <1>2, <4>1 DEF NextValue
    <3>4. CASE \/ data[at] \notin 0..2
               \/ data[at] = 1 /\ ~(d - at >= 2)
               \/ data[at] = 2 /\ ~(d - at >= n)
      BY <1>2, <2>2, <3>4, DecodeXorIs DEF Left
    <3>5. data[at] \in 0..2 => data[at] = 0 \/ data[at] = 1 \/ data[at] = 2
      BY ONLY Markers
    <3> QED
      BY <3>1, <3>2, <3>3, <3>4, <3>5
  <2> QED
    BY <2>1, <2>2
<1>5. CASE a = Corrupt \/ at > s
  <2>1. DecodeXor(short, a) = Corrupt
    BY <1>2, <1>5 DEF DecodeXor
  <2> QED
    BY <1>4, <2>1
<1>6. CASE a # Corrupt /\ ~(at > s)
  <2>1. a = b /\ at \in 1..s /\ short[at] = data[at] /\ ~(at > d) /\ ~(b.next > Len(data)) /\ ~(b.next > Len(short))
    BY <1>2, <1>3, <1>6
  <2>2. CASE data[at] = 0
    <3>1. DecodeXor(short, b) = NextValue(b, 0, at + 1) /\ DecodeXor(data, b) = NextValue(b, 0, at + 1)
      BY <1>2, <2>1, <2>2, DecodeXorIs
    <3> QED
      BY <1>4, <2>1, <3>1
  <2>3. CASE data[at] = 1 /\ s - at >= 2
    <3>1. d - at >= 2
      BY <1>3, <2>3
    <3>2. /\ DecodeXor(short, b) = DecodePacked(short, b, short[at + 1], short[at + 2])
          /\ DecodeXor(data, b) = DecodePacked(data, b, data[at + 1], data[at + 2])
      BY <1>2, <2>1, <2>3, <3>1, DecodeXorIs DEF Left
    <3>3. at + 1 \in 1..s /\ at + 2 \in 1..s
      BY <2>3
    <3>4. PICK l \in Nat, m \in Nat : /\ l = short[at + 1] /\ l = data[at + 1]
                                      /\ m = short[at + 2] /\ m = data[at + 2]
      <4>1. short[at + 1] = data[at + 1] /\ short[at + 2] = data[at + 2]
        BY <1>3, <3>3
      <4>2. short[at + 1] \in Nat /\ short[at + 2] \in Nat
        <5>1. \A i \in 1..s : short[i] \in Nat
          BY <1>1, <1>2
        <5> QED
          BY ONLY <3>3, <5>1
      <4> QED
        BY ONLY <4>1, <4>2
    <3> DEFINE Bad == l >= n \/ m = 0 \/ l + m > n
    <3>5. CASE Bad \/ s - at - 2 < m
      <4>1. DecodePacked(short, b, l, m) = Corrupt
        BY <1>2, <3>5 DEF DecodePacked
      <4> QED
        BY <1>4, <2>1, <3>2, <3>4, <4>1
    <3>6. CASE ~(Bad \/ s - at - 2 < m)
      <4>1. ~(d - at - 2 < m)
        BY <1>3, <3>6
      <4>2. /\ DecodePacked(short, b, l, m) = NextValue(b, Unpack(short, at + 3, l, m), at + 3 + m)
            /\ DecodePacked(data, b, l, m) = NextValue(b, Unpack(data, at + 3, l, m), at + 3 + m)
        <5>1. /\ ~(l >= WordBytes \/ m = 0 \/ l + m > WordBytes)
              /\ ~(Len(short) - b.next - 2 < m) /\ ~(Len(data) - b.next - 2 < m)
          BY <1>2, <3>6, <4>1
        <5> QED
          BY ONLY <5>1, <1>2 DEF DecodePacked
      <4>3. Unpack(short, at + 3, l, m) = Unpack(data, at + 3, l, m)
        <5> DEFINE place(i) == WordBytes - l - i
                   At(f, i) == IF place(i) \in 0..m - 1 THEN f[at + 3 + place(i)] ELSE 0
        <5>1. ASSUME NEW i \in 1..WordBytes PROVE At(short, i) = At(data, i)
          <6>1. CASE place(i) \in 0..m - 1
            <7>1. PICK p \in Int : p = place(i) /\ p \in 0..(m - 1)
              BY <6>1
            <7>2. at + 3 + p \in 1..s
              BY <3>6, <7>1
            <7>3. short[at + 3 + p] = data[at + 3 + p]
              BY <1>3, <7>2
            <7> QED
              BY <6>1, <7>1, <7>3
          <6>2. CASE ~(place(i) \in 0..m - 1)
            BY <6>2
          <6> QED
            BY <6>1, <6>2
        <5> HIDE DEF At
        <5>2. [i \in 1..WordBytes |-> At(short, i)] = [i \in 1..WordBytes |-> At(data, i)]
          BY <5>1
        <5> QED
          BY <5>2 DEF Unpack, At
      <4> QED
        BY <1>4, <2>1, <3>2, <3>4, <4>2, <4>3
    <3> QED
      BY <3>5, <3>6
  <2>4. CASE data[at] = 2 /\ s - at >= n
    <3>1. d - at >= n
      BY <1>3, <2>4
    <3>2. /\ DecodeXor(short, b) = NextValue(b, Read(short, at + 1), at + 1 + n)
          /\ DecodeXor(data, b) = NextValue(b, Read(data, at + 1), at + 1 + n)
      BY <1>2, <2>1, <2>4, <3>1, DecodeXorIs DEF Left
    <3>3. ASSUME NEW i \in 1..n PROVE short[(at + 1) + i - 1] = data[(at + 1) + i - 1]
      <4>1. (at + 1) + i - 1 \in 1..s
        BY <2>4
      <4> QED
        BY <1>3, <4>1
    <3>4. [i \in 1..n |-> short[(at + 1) + i - 1]] = [i \in 1..n |-> data[(at + 1) + i - 1]]
      BY <3>3
    <3>5. Read(short, at + 1) = Read(data, at + 1)
      BY <1>2, <3>4 DEF Read
    <3> QED
      BY <1>4, <2>1, <3>2, <3>5
  <2>5. CASE \/ data[at] \notin 0..2
             \/ data[at] = 1 /\ ~(s - at >= 2)
             \/ data[at] = 2 /\ ~(s - at >= n)
    <3>1. DecodeXor(short, b) = Corrupt
      BY <1>2, <2>1, <2>5, DecodeXorIs DEF Left
    <3> QED
      BY <1>4, <2>1, <3>1
  <2>6. data[at] \in 0..2 => data[at] = 0 \/ data[at] = 1 \/ data[at] = 2
    BY ONLY Markers
  <2> QED
    BY <2>2, <2>3, <2>4, <2>5, <2>6
<1> QED
  BY <1>5, <1>6

-----------------------------------------------------------------------------
(* The states of tsedge_decompress_values *)

ValueRow(data, t, k) ==
  IF k = 1 THEN [next |-> WordBytes + 1, out |-> <<Read(data, 1)>>] ELSE DecodeXor(data, t[k - 1])

ValueTable(data, t, n) == t = [k \in 1..n |-> ValueRow(data, t, k)]

\* One more row for the table.
LEMMA ValueTableGrows ==
  ASSUME NEW data, NEW n \in Nat, NEW t, ValueTable(data, t, n)
  PROVE  \E u : ValueTable(data, u, n + 1)
<1> DEFINE last == ValueRow(data, t, n + 1)
           u == [k \in 1..(n + 1) |-> IF k = n + 1 THEN last ELSE t[k]]
<1>1. \A k \in 1..n : t[k] = ValueRow(data, t, k)
  BY DEF ValueTable
<1> HIDE DEF last
<1>2. /\ \A k \in 1..(n + 1) : u[k] = IF k = n + 1 THEN last ELSE t[k]
      /\ u = [k \in 1..(n + 1) |-> u[k]]
  OBVIOUS
<1> HIDE DEF u
<1>3. ASSUME NEW k \in 1..(n + 1) PROVE u[k] = ValueRow(data, u, k)
  <2>1. u[k] = ValueRow(data, t, k)
    <3>1. CASE k = n + 1
      BY <1>2, <3>1 DEF last
    <3>2. CASE k # n + 1
      <4>1. k \in 1..n
        BY <3>2
      <4> QED
        BY <1>1, <1>2, <3>2, <4>1
    <3> QED
      BY <3>1, <3>2
  <2>2. CASE k = 1
    BY <2>1, <2>2 DEF ValueRow
  <2>3. CASE k # 1
    <3>1. k - 1 \in 1..(n + 1) /\ k - 1 # n + 1
      BY <2>3
    <3>2. u[k - 1] = t[k - 1]
      BY <1>2, <3>1
    <3> QED
      BY <2>1, <2>3, <3>2 DEF ValueRow
  <2> QED
    BY <2>2, <2>3
<1> QED
  BY <1>2, <1>3 DEF ValueTable

\* The recursion has a solution.
LEMMA ValueTableExists ==
  ASSUME NEW data
  PROVE  \A n \in Nat : \E t : ValueTable(data, t, n)
<1> DEFINE G == {n \in Nat : \E t : ValueTable(data, t, n)}
<1>1. 0 \in G
  <2>1. ValueTable(data, [k \in 1..0 |-> 0], 0)
    BY DEF ValueTable
  <2> QED
    BY <2>1
<1>2. ASSUME NEW n \in Nat, n \in G PROVE n + 1 \in G
  BY <1>2, ValueTableGrows
<1> HIDE DEF G
<1>3. Nat \subseteq G
  BY <1>1, <1>2, NatSetInduction
<1> QED
  BY <1>3 DEF G

\* The states of the decoder, one per value, and what it returns at the end.
LEMMA ValueStates ==
  ASSUME NEW data, NEW count \in Nat \ {0}
  PROVE  \E t : /\ \A k \in 1..count : t[k] = ValueRow(data, t, k)
                /\ DecompressValues(data, count) =
                     IF Len(data) < WordBytes THEN Corrupt ELSE Finished(t[count], data)
<1> DEFINE t == CHOOSE t : ValueTable(data, t, count)
<1>1. ValueTable(data, t, count)
  BY ValueTableExists
<1>2. DecompressValues(data, count) =
        IF Len(data) < WordBytes THEN Corrupt ELSE Finished(t[count], data)
  BY DEF DecompressValues, ValueTable, ValueRow
<1> HIDE DEF t
<1>3. \A k \in 1..count : t[k] = ValueRow(data, t, k)
  BY <1>1 DEF ValueTable
<1> QED
  BY <1>2, <1>3

\* Of two streams of values of which one is the other one cut short, one at most is whole:
\* tsedge_decompress_values returns TSEDGE_ERR_CORRUPT for the other one.
THEOREM ValuesCut ==
  ASSUME NEW short, NEW data, Beginning(short, data), Len(short) # Len(data), NEW count \in Nat \ {0}
  PROVE  DecompressValues(short, count) = Corrupt \/ DecompressValues(data, count) = Corrupt
<1>1. SUFFICES ASSUME DecompressValues(short, count) # Corrupt, DecompressValues(data, count) # Corrupt
               PROVE  FALSE
  OBVIOUS
<1>2. /\ short \in Seq(Nat) /\ data \in Seq(Nat)
      /\ Len(short) \in Nat /\ Len(data) \in Nat /\ Len(short) <= Len(data)
      /\ \A i \in 1..Len(short) : short[i] = data[i]
  BY DEF Beginning
<1>3. PICK s : /\ \A k \in 1..count : s[k] = ValueRow(short, s, k)
               /\ DecompressValues(short, count) =
                    IF Len(short) < WordBytes THEN Corrupt ELSE Finished(s[count], short)
  BY ValueStates
<1>4. PICK d : /\ \A k \in 1..count : d[k] = ValueRow(data, d, k)
               /\ DecompressValues(data, count) =
                    IF Len(data) < WordBytes THEN Corrupt ELSE Finished(d[count], data)
  BY ValueStates
<1>5. ~(Len(short) < WordBytes) /\ ~(Len(data) < WordBytes)
  BY <1>1, <1>3, <1>4
<1>6. /\ s[count] # Corrupt /\ s[count].next = Len(short) + 1
      /\ d[count] # Corrupt /\ d[count].next = Len(data) + 1
  BY <1>1, <1>3, <1>4, <1>5 DEF Finished
<1>7. PICK w \in Nat : w = WordBytes
  BY Widths
<1>8. Read(short, 1) = Read(data, 1)
  <2>1. ASSUME NEW i \in 1..w PROVE short[1 + i - 1] = data[1 + i - 1]
    <3>1. 1 + i - 1 = i /\ i \in 1..Len(short)
      BY <1>2, <1>5, <1>7
    <3> QED
      BY <1>2, <3>1
  <2>2. [i \in 1..w |-> short[1 + i - 1]] = [i \in 1..w |-> data[1 + i - 1]]
    BY <2>1
  <2> QED
    BY <1>7, <2>2 DEF Read
<1> DEFINE Same(k) == s[k] \in {Corrupt, d[k]} /\ (d[k] = Corrupt \/ d[k].next \in Nat \ {0})
           G == {n \in Nat : n + 1 <= count => Same(n + 1)}
<1>9. 0 \in G
  <2>1. 1 \in 1..count
    OBVIOUS
  <2>2. s[1] = ValueRow(short, s, 1) /\ d[1] = ValueRow(data, d, 1)
    BY <1>3, <1>4, <2>1
  <2>3. s[1] = d[1] /\ d[1].next = w + 1
    BY <1>7, <1>8, <2>2 DEF ValueRow
  <2>4. Same(1)
    BY <2>3
  <2> QED
    BY <2>4
<1>10. ASSUME NEW n \in Nat, n \in G PROVE n + 1 \in G
  <2>1. SUFFICES ASSUME n + 2 <= count PROVE Same(n + 2)
    OBVIOUS
  <2> DEFINE k == n + 2
             a == s[n + 1]
             b == d[n + 1]
  <2>2. k \in 1..count /\ k - 1 = n + 1 /\ n + 1 <= count /\ k # 1
    BY <2>1
  <2>3. a \in {Corrupt, b} /\ (b = Corrupt \/ b.next \in Nat \ {0})
    BY <1>10, <2>2
  <2> HIDE DEF G, k
  <2>4. s[k] = DecodeXor(short, a) /\ d[k] = DecodeXor(data, b)
    BY <1>3, <1>4, <2>2 DEF ValueRow
  <2> HIDE DEF a, b
  <2>5. CASE b = Corrupt
    BY <2>3, <2>4, <2>5 DEF DecodeXor, k
  <2>6. CASE b # Corrupt
    BY <2>3, <2>4, <2>6, DecodeXorCut DEF k
  <2> QED
    BY <2>5, <2>6
<1> HIDE DEF G
<1>11. Nat \subseteq G
  BY <1>9, <1>10, NatSetInduction
<1>12. s[count] \in {Corrupt, d[count]}
  <2>1. count - 1 \in G /\ (count - 1) + 1 = count /\ count <= count
    BY <1>11
  <2> QED
    BY <2>1 DEF G
<1> QED
  BY <1>2, <1>6, <1>12

-----------------------------------------------------------------------------
(* What the encoder writes for one exclusive or *)

IsZero(e, w) == w = 0 /\ e = <<0>>

\* l leading zero bytes, and s bytes behind them.
IsPacked(e, w, l, s) ==
  /\ w # 0 /\ Len(e) = 3 + s
  /\ l < WordBytes /\ s # 0 /\ l + s <= WordBytes
  /\ e[1] = 1 /\ e[2] = l /\ e[3] = s
  /\ \A p \in 0..(s - 1) : e[4 + p] = Write(w)[WordBytes - l - p]
  /\ \A i \in 1..WordBytes : i > WordBytes - l \/ i <= WordBytes - l - s => Write(w)[i] = 0

IsPlain(e, w) ==
  /\ w # 0 /\ Len(e) = 1 + WordBytes /\ e[1] = 2
  /\ \A i \in 1..WordBytes : e[1 + i] = Write(w)[i]

\* What is written when the window is shorter than the word.
LEMMA PackedBytes ==
  ASSUME NEW w \in Words, w # 0, Packed(w)
  PROVE  /\ EncodeXor(w) \in Seq(Nat) /\ Len(EncodeXor(w)) = XorSize(w)
         /\ \E l, s \in Nat : IsPacked(EncodeXor(w), w, l, s)
<1>1. PICK n \in Nat, l \in Nat, t \in Nat :
        n = WordBytes /\ l = LeadingZeroBytes(w) /\ t = TrailingZeroBytes(w)
  <2>1. /\ LeadingZeroBytes(w) \in 0..WordBytes /\ TrailingZeroBytes(w) \in 0..WordBytes
        /\ WordBytes \in Nat
    BY Widths, ZeroBytes
  <2>2. LeadingZeroBytes(w) \in Nat /\ TrailingZeroBytes(w) \in Nat
    BY <2>1
  <2> QED
    BY ONLY <2>1, <2>2
<1>2. PICK s \in Nat : s = n - l - t /\ s # 0 /\ l < n /\ l + s <= n /\ s = Significant(w)
  <2>1. l + t < n
    BY <1>1, ZeroBytes
  <2>2. n - l - t \in Nat /\ n - l - t # 0
    BY <2>1
  <2> QED
    BY <1>1, <2>1, <2>2 DEF Significant
<1> DEFINE b == BigEndian(w)
           u == <<1, l, s>>
           v == SubSeq(b, l + 1, l + s)
           e == u \o v
<1>3. EncodeXor(w) = e
  BY <1>1, <1>2 DEF EncodeXor
<1>4. b \in Seq(Nat) /\ Len(b) = n /\ \A i \in 1..n : b[i] = Write(w)[(n - i) + 1]
  BY <1>1, ZeroBytes
<1> HIDE DEF b
<1>5. v \in Seq(Nat) /\ Len(v) = s /\ \A i \in 1..s : v[i] = b[l + i]
  <2>1. v = [i \in 1..s |-> b[l + i]]
    <3>1. (l + s) - (l + 1) + 1 = s
      OBVIOUS
    <3>2. v = [i \in 1..((l + s) - (l + 1) + 1) |-> b[i + (l + 1) - 1]]
      BY DEF SubSeq
    <3>3. \A i \in 1..s : b[i + (l + 1) - 1] = b[l + i]
      <4> TAKE i \in 1..s
      <4>1. i + (l + 1) - 1 = l + i
        OBVIOUS
      <4> QED
        BY <4>1
    <3> QED
      BY <3>1, <3>2, <3>3
  <2>2. \A i \in 1..s : b[l + i] \in Nat
    <3> TAKE i \in 1..s
    <3>1. l + i \in 1..Len(b)
      BY <1>2, <1>4
    <3> QED
      BY <1>4, <3>1
  <2> HIDE DEF v
  <2> QED
    BY <2>1, <2>2
<1> HIDE DEF v
<1>6. u \in Seq(Nat) /\ Len(u) = 3 /\ u[1] = 1 /\ u[2] = l /\ u[3] = s
  OBVIOUS
<1> HIDE DEF u
<1>7. /\ e \in Seq(Nat) /\ Len(e) = Len(u) + Len(v)
      /\ \A i \in 1..Len(u) : i \in 1..Len(e) /\ e[i] = u[i]
      /\ \A i \in 1..Len(v) : Len(u) + i \in 1..Len(e) /\ e[Len(u) + i] = v[i]
  BY ONLY <1>5, <1>6, Concatenated
<1> HIDE DEF e
<1>8. Len(e) = 3 + s /\ e[1] = 1 /\ e[2] = l /\ e[3] = s
  BY <1>5, <1>6, <1>7
<1>9. ASSUME NEW p \in 0..(s - 1) PROVE e[4 + p] = Write(w)[n - l - p]
  <2>1. p + 1 \in 1..s /\ 3 + (p + 1) = 4 + p
    OBVIOUS
  <2>2. e[4 + p] = v[p + 1]
    BY <1>5, <1>6, <1>7, <2>1
  <2>3. v[p + 1] = b[l + (p + 1)]
    BY <1>5, <2>1
  <2>4. l + (p + 1) \in 1..n /\ (n - (l + (p + 1))) + 1 = n - l - p
    BY <1>2
  <2> QED
    BY <1>4, <2>2, <2>3, <2>4
<1>10. ASSUME NEW i \in 1..n, i > n - l \/ i <= n - l - s PROVE Write(w)[i] = 0
  <2>1. i > n - l \/ i <= t
    BY <1>2, <1>10
  <2> QED
    BY <1>1, <2>1, ZeroBytes
<1>11. IsPacked(e, w, l, s)
  BY <1>1, <1>2, <1>8, <1>9, <1>10 DEF IsPacked
<1>12. XorSize(w) = s + 3
  <2>1. Significant(w) + 3 < WordBytes + 1
    BY DEF Packed
  <2> QED
    BY <1>2, <2>1 DEF XorSize
<1> QED
  BY <1>3, <1>7, <1>8, <1>11, <1>12

\* What is written when it is not.
LEMMA PlainBytes ==
  ASSUME NEW w \in Words, w # 0, ~Packed(w)
  PROVE  /\ EncodeXor(w) \in Seq(Nat) /\ Len(EncodeXor(w)) = XorSize(w)
         /\ IsPlain(EncodeXor(w), w)
<1>1. PICK n \in Nat : n = WordBytes
  BY Widths
<1> DEFINE u == <<2>>
           v == Write(w)
           e == u \o v
<1>2. EncodeXor(w) = e
  BY DEF EncodeXor
<1>3. u \in Seq(Nat) /\ Len(u) = 1 /\ u[1] = 2
  OBVIOUS
<1>4. v \in Seq(Nat) /\ Len(v) = n
  BY <1>1, ReadWrite
<1> HIDE DEF u, v
<1>5. /\ e \in Seq(Nat) /\ Len(e) = Len(u) + Len(v)
      /\ \A i \in 1..Len(u) : i \in 1..Len(e) /\ e[i] = u[i]
      /\ \A i \in 1..Len(v) : Len(u) + i \in 1..Len(e) /\ e[Len(u) + i] = v[i]
  BY ONLY <1>3, <1>4, Concatenated
<1> HIDE DEF e
<1>6. Len(e) = 1 + n /\ e[1] = 2 /\ \A i \in 1..n : e[1 + i] = v[i]
  BY <1>3, <1>4, <1>5
<1>7. IsPlain(e, w)
  BY <1>1, <1>6 DEF IsPlain, v
<1>8. XorSize(w) = n + 1
  <2>1. ~(Significant(w) + 3 < WordBytes + 1)
    BY DEF Packed
  <2> QED
    BY <1>1, <2>1 DEF XorSize
<1> QED
  BY <1>2, <1>5, <1>6, <1>7, <1>8

\* The three forms of an exclusive or, and their sizes.
LEMMA XorBytes ==
  ASSUME NEW w \in Words
  PROVE  /\ EncodeXor(w) \in Seq(Nat) /\ Len(EncodeXor(w)) \in Nat \ {0}
         /\ Len(EncodeXor(w)) = XorSize(w)
         /\ \/ IsZero(EncodeXor(w), w)
            \/ \E l, s \in Nat : IsPacked(EncodeXor(w), w, l, s)
            \/ IsPlain(EncodeXor(w), w)
<1>1. CASE w = 0
  <2>1. EncodeXor(w) = <<0>> /\ XorSize(w) = 1
    BY <1>1 DEF EncodeXor, XorSize
  <2>2. <<0>> \in Seq(Nat) /\ Len(<<0>>) = 1
    OBVIOUS
  <2>3. PICK e : e = <<0>> /\ e \in Seq(Nat) /\ Len(e) = 1
    BY <2>2
  <2>4. EncodeXor(w) = e /\ IsZero(e, w)
    BY <1>1, <2>1, <2>3 DEF IsZero
  <2> QED
    BY ONLY <2>1, <2>3, <2>4
<1>2. CASE w # 0 /\ Packed(w)
  <2>1. PICK e : e = EncodeXor(w)
    OBVIOUS
  <2>2. e \in Seq(Nat) /\ Len(e) = XorSize(w) /\ \E l, s \in Nat : IsPacked(e, w, l, s)
    BY <1>2, <2>1, PackedBytes
  <2>3. PICK l, s \in Nat : IsPacked(e, w, l, s)
    BY <2>2
  <2>4. Len(e) \in Nat \ {0}
    BY <2>3 DEF IsPacked
  <2> QED
    BY <2>1, <2>2, <2>4
<1>3. CASE w # 0 /\ ~Packed(w)
  <2>1. PICK e : e = EncodeXor(w)
    OBVIOUS
  <2>2. e \in Seq(Nat) /\ Len(e) = XorSize(w) /\ IsPlain(e, w)
    BY <1>3, <2>1, PlainBytes
  <2>3. Len(e) \in Nat \ {0}
    BY <2>2, Widths DEF IsPlain
  <2> QED
    BY <2>1, <2>2, <2>3
<1> QED
  BY <1>1, <1>2, <1>3

\* The decoder takes an exclusive or back from where its bytes are.
LEMMA DecodeXorAt ==
  ASSUME NEW w \in Words, NEW data \in Seq(Nat), NEW state, state # Corrupt, state.next \in Nat \ {0},
         NEW e, e = EncodeXor(w),
         state.next + Len(e) - 1 <= Len(data),
         \A j \in 1..Len(e) : data[state.next + j - 1] = e[j]
  PROVE  DecodeXor(data, state) = NextValue(state, w, state.next + Len(e))
<1>1. PICK n \in Nat, d \in Nat : n = WordBytes /\ d = Len(data)
  <2>1. WordBytes \in Nat /\ Len(data) \in Nat
    BY Widths
  <2> QED
    BY ONLY <2>1
<1>2. PICK at \in Nat \ {0} : at = state.next
  OBVIOUS
<1>3. PICK k \in Nat \ {0} : k = Len(e)
  BY XorBytes
<1>4. at + k - 1 <= d /\ at <= d /\ ~(state.next > Len(data)) /\ \A j \in 1..k : data[at + j - 1] = e[j]
  BY <1>1, <1>2, <1>3
<1>5. data[at] = e[1]
  <2>1. 1 \in 1..k /\ at + 1 - 1 = at
    OBVIOUS
  <2> QED
    BY <1>4, <2>1
<1>6. CASE IsZero(e, w)
  <2>1. w = 0 /\ e = <<0>>
    BY <1>6 DEF IsZero
  <2>2. k = 1 /\ e[1] = 0
    BY <1>3, <2>1
  <2>3. DecodeXor(data, state) = NextValue(state, 0, state.next + 1)
    BY <1>2, <1>4, <1>5, <2>2, DecodeXorIs
  <2> QED
    BY <1>3, <2>1, <2>2, <2>3
<1>7. ASSUME NEW l \in Nat, NEW s \in Nat, IsPacked(e, w, l, s)
      PROVE  DecodeXor(data, state) = NextValue(state, w, state.next + Len(e))
  <2>1. /\ k = 3 + s /\ l < n /\ s # 0 /\ l + s <= n
        /\ e[1] = 1 /\ e[2] = l /\ e[3] = s
        /\ \A p \in 0..(s - 1) : e[4 + p] = Write(w)[n - l - p]
        /\ \A i \in 1..n : i > n - l \/ i <= n - l - s => Write(w)[i] = 0
    BY <1>1, <1>3, <1>7 DEF IsPacked
  <2>2. data[at + 1] = l /\ data[at + 2] = s /\ d - at >= 2 /\ ~(d - at - 2 < s)
    <3>1. 2 \in 1..k /\ 3 \in 1..k /\ at + 2 - 1 = at + 1 /\ at + 3 - 1 = at + 2
      BY <2>1
    <3>2. data[at + 1] = l /\ data[at + 2] = s
      BY <1>4, <2>1, <3>1
    <3> QED
      BY <1>4, <2>1, <3>2
  <2>3. DecodeXor(data, state) = DecodePacked(data, state, l, s)
    <3>1. data[state.next] = 1 /\ Left(data, state) >= 2
      BY <1>1, <1>2, <1>5, <2>1, <2>2 DEF Left
    <3>2. DecodeXor(data, state) = DecodePacked(data, state, data[state.next + 1], data[state.next + 2])
      BY <1>4, <3>1, DecodeXorIs
    <3> QED
      BY ONLY <1>2, <2>2, <3>2
  <2>4. DecodePacked(data, state, l, s) =
          NextValue(state, Unpack(data, at + 3, l, s), at + 3 + s)
    <3>1. /\ ~(l >= WordBytes \/ s = 0 \/ l + s > WordBytes)
          /\ ~(Len(data) - state.next - 2 < s)
      BY <1>1, <1>2, <2>1, <2>2
    <3> QED
      BY ONLY <1>2, <3>1 DEF DecodePacked
  <2>5. Unpack(data, at + 3, l, s) = w
    <3> DEFINE place(i) == WordBytes - l - i
               At(i) == IF place(i) \in 0..s - 1 THEN data[at + 3 + place(i)] ELSE 0
    <3>1. ASSUME NEW i \in 1..WordBytes PROVE At(i) = Write(w)[i]
      <4>1. i \in 1..n
        BY <1>1
      <4>2. PICK p \in Int : p = place(i) /\ p = n - l - i
        BY <1>1
      <4>3. CASE p \in 0..(s - 1)
        <5>1. 4 + p \in 1..k /\ at + (4 + p) - 1 = at + 3 + p /\ n - l - p = i
          <6>1. k = 3 + s /\ p = n - l - i
            BY <2>1, <4>2
          <6> QED
            BY ONLY <4>1, <4>3, <6>1, n \in Nat, l \in Nat, s \in Nat, at \in Nat
        <5>2. data[at + 3 + p] = e[4 + p]
          BY <1>4, <5>1
        <5>3. e[4 + p] = Write(w)[i]
          BY <2>1, <4>3, <5>1
        <5> QED
          BY <4>2, <4>3, <5>2, <5>3
      <4>4. CASE ~(p \in 0..(s - 1))
        <5>1. i > n - l \/ i <= n - l - s
          BY <4>1, <4>2, <4>4
        <5>2. Write(w)[i] = 0
          BY <2>1, <4>1, <5>1
        <5> QED
          BY <4>2, <4>4, <5>2
      <4> QED
        BY <4>3, <4>4
    <3> HIDE DEF At
    <3>2. [i \in 1..WordBytes |-> At(i)] = [i \in 1..WordBytes |-> Write(w)[i]]
      BY <3>1
    <3>3. Write(w) = [i \in 1..WordBytes |-> Write(w)[i]] /\ Join(ByteBits, Write(w)) = w
      BY ReadWrite
    <3>4. Unpack(data, at + 3, l, s) = Join(ByteBits, [i \in 1..WordBytes |-> At(i)])
      BY DEF Unpack, At
    <3> QED
      BY <3>2, <3>3, <3>4
  <2>6. at + 3 + s = at + k
    BY <2>1
  <2> QED
    BY <1>2, <1>3, <2>3, <2>4, <2>5, <2>6
<1>8. CASE IsPlain(e, w)
  <2>1. k = 1 + n /\ e[1] = 2 /\ \A i \in 1..n : e[1 + i] = Write(w)[i]
    BY <1>1, <1>3, <1>8 DEF IsPlain
  <2>2. d - at >= n
    BY <1>4, <2>1
  <2>3. DecodeXor(data, state) = NextValue(state, Read(data, at + 1), at + 1 + n)
    <3>1. data[state.next] = 2 /\ Left(data, state) >= WordBytes
      BY <1>1, <1>2, <1>5, <2>1, <2>2 DEF Left
    <3>2. DecodeXor(data, state) =
            NextValue(state, Read(data, state.next + 1), state.next + 1 + WordBytes)
      BY <1>4, <3>1, DecodeXorIs
    <3> QED
      BY ONLY <1>1, <1>2, <3>2
  <2>4. ASSUME NEW i \in 1..WordBytes PROVE data[(at + 1) + i - 1] = Write(w)[i]
    <3>1. i \in 1..n /\ 1 + i \in 1..k /\ at + (1 + i) - 1 = (at + 1) + i - 1
      BY <1>1, <2>1
    <3> QED
      BY <1>4, <2>1, <3>1
  <2>5. Read(data, at + 1) = w
    <3>1. at + 1 \in Nat
      OBVIOUS
    <3> QED
      BY <2>4, <3>1, ReadAt
  <2>6. at + 1 + n = at + k
    BY ONLY <2>1, n \in Nat, at \in Nat
  <2>7. NextValue(state, Read(data, at + 1), at + 1 + n) = NextValue(state, w, at + k)
    BY ONLY <2>5, <2>6
  <2> QED
    BY ONLY <1>2, <1>3, <2>3, <2>7
<1>9. \/ IsZero(e, w)
      \/ \E l, s \in Nat : IsPacked(e, w, l, s)
      \/ IsPlain(e, w)
  BY XorBytes
<1> QED
  BY ONLY <1>6, <1>7, <1>8, <1>9

-----------------------------------------------------------------------------
(* The round trip of values *)

XorsCoded(values) == [k \in DOMAIN Xors(values) |-> EncodeXor(Xors(values)[k])]

\* The exclusive ors, their bytes, and the bytes of the stream.
LEMMA ValueStream ==
  ASSUME NEW values \in Seq(Words), NEW m \in Nat, Len(values) = m + 1
  PROVE  /\ \A k \in 1..m : Xors(values)[k] = Xor(values[k], values[k + 1]) /\ Xors(values)[k] \in Words
         /\ XorsCoded(values) \in Seq(Seq(Nat)) /\ Len(XorsCoded(values)) = m
         /\ \A k \in 1..m : XorsCoded(values)[k] = EncodeXor(Xors(values)[k])
         /\ CompressValues(values) = Write(values[1]) \o FlattenSeq(XorsCoded(values))
         /\ ValueSize(values) = WordBytes + SumFunction(Lengths(XorsCoded(values)))
<1> DEFINE x == Xors(values)
           q == XorsCoded(values)
<1>1. x = [k \in 1..m |-> Xor(values[k], values[k + 1])]
  <2>1. Len(values) - 1 = m
    OBVIOUS
  <2> QED
    BY <2>1 DEF Xors
<1>2. ASSUME NEW k \in 1..m PROVE x[k] = Xor(values[k], values[k + 1]) /\ x[k] \in Words
  <2>1. x[k] = Xor(values[k], values[k + 1])
    BY <1>1
  <2>2. values[k] \in Words /\ values[k + 1] \in Words
    <3>1. k \in 1..Len(values) /\ k + 1 \in 1..Len(values)
      OBVIOUS
    <3> QED
      BY <3>1
  <2> QED
    BY <2>1, <2>2, XorTwice
<1>3. DOMAIN x = 1..m
  BY <1>1
<1> HIDE DEF x
<1>4. q = [k \in 1..m |-> EncodeXor(x[k])]
  BY <1>3 DEF XorsCoded, x
<1>5. \A k \in 1..m : EncodeXor(x[k]) \in Seq(Nat) /\ Len(EncodeXor(x[k])) = XorSize(x[k])
  BY <1>2, XorBytes
<1> HIDE DEF q
<1>6. q \in Seq(Seq(Nat)) /\ Len(q) = m /\ DOMAIN q = 1..m /\ \A k \in 1..m : q[k] = EncodeXor(x[k])
  BY <1>4, <1>5
<1>7. CompressValues(values) = Write(values[1]) \o FlattenSeq(q)
  BY DEF CompressValues, XorsCoded, q
<1>8. [k \in 1..m |-> XorSize(x[k])] = Lengths(q)
  <2>1. \A k \in 1..m : XorSize(x[k]) = Len(q[k])
    BY <1>5, <1>6
  <2>2. Lengths(q) = [k \in 1..m |-> Len(q[k])]
    BY <1>6 DEF Lengths
  <2> QED
    BY <2>1, <2>2
<1>9. ValueSize(values) = WordBytes + SumFunction(Lengths(q))
  <2>1. ValueSize(values) = WordBytes + SumFunction([k \in DOMAIN x |-> XorSize(x[k])])
    BY DEF ValueSize, x
  <2> QED
    BY <1>3, <1>8, <2>1
<1> QED
  BY <1>2, <1>6, <1>7, <1>9 DEF x, q

\* What the decoder has after the first k values.
Restored(values, k, next) == [next |-> next, out |-> Taken(values, k)]

\* The coded exclusive or w is at the place at of the stream.
CodedAt(data, at, w) ==
  /\ at + Len(EncodeXor(w)) - 1 <= Len(data)
  /\ \A j \in 1..Len(EncodeXor(w)) : data[at + j - 1] = EncodeXor(w)[j]

\* w takes value k to the next one.
Leads(values, k, w) == k + 1 <= Len(values) /\ w = Xor(values[k], values[k + 1])

\* One round of the decoder.
LEMMA ValueRound ==
  ASSUME NEW values \in Seq(Words), NEW k \in Nat \ {0}, NEW w \in Words, Leads(values, k, w),
         NEW data \in Seq(Nat), NEW at \in Nat \ {0}, CodedAt(data, at, w)
  PROVE  DecodeXor(data, Restored(values, k, at)) = Restored(values, k + 1, at + Len(EncodeXor(w)))
<1> k + 1 <= Len(values) /\ w = Xor(values[k], values[k + 1])
  BY DEF Leads
<1>1. k \in 1..Len(values) /\ k + 1 \in 1..Len(values) /\ k \in Nat
  OBVIOUS
<1>2. Taken(values, k) \in Seq(Words) /\ Last(Taken(values, k)) = values[k]
  BY <1>1, LastTaken
<1>3. Append(Taken(values, k), values[k + 1]) = Taken(values, k + 1)
  BY <1>1, TakenGrows
<1>4. Xor(values[k], w) = values[k + 1]
  <2>1. values[k] \in Words /\ values[k + 1] \in Words
    BY <1>1
  <2> QED
    BY <2>1, XorTwice
<1>5. PICK state : state = Restored(values, k, at)
  OBVIOUS
<1>6. state.next = at /\ state.out = Taken(values, k) /\ state # Corrupt
  <2>1. Words \subseteq Int
    BY Halves DEF Words
  <2>2. Taken(values, k) \in Seq(Int)
    BY <1>2, <2>1, SeqWider
  <2> QED
    BY <1>5, <2>2, NotCorrupt DEF Restored
<1>7. PICK e : e = EncodeXor(w)
  OBVIOUS
<1>8. DecodeXor(data, state) = NextValue(state, w, at + Len(e))
  <2>1. /\ state.next + Len(e) - 1 <= Len(data)
        /\ \A j \in 1..Len(e) : data[state.next + j - 1] = e[j]
        /\ state.next \in Nat \ {0}
    BY <1>6, <1>7 DEF CodedAt
  <2>2. DecodeXor(data, state) = NextValue(state, w, state.next + Len(e))
    BY ONLY <1>6, <1>7, <2>1, w \in Words, data \in Seq(Nat), DecodeXorAt
  <2> QED
    BY ONLY <1>6, <2>2
<1>9. NextValue(state, w, at + Len(e)) = Restored(values, k + 1, at + Len(e))
  BY <1>2, <1>3, <1>4, <1>6 DEF NextValue, Restored
<1> QED
  BY <1>5, <1>7, <1>8, <1>9

\* Any sequence of bit patterns of doubles is compressed into as many bytes as the size pass
\* of tsedge_compress_values counted, and tsedge_decompress_values gives the patterns back.
THEOREM ValuesLossless ==
  ASSUME NEW values \in Seq(Words), Len(values) # 0
  PROVE  /\ CompressValues(values) \in Seq(Nat)
         /\ Len(CompressValues(values)) = ValueSize(values)
         /\ DecompressValues(CompressValues(values), Len(values)) = values
<1> DEFINE data == CompressValues(values)
           x == Xors(values)
           q == XorsCoded(values)
           head == Write(values[1])
<1>1. PICK count \in Nat \ {0} : count = Len(values)
  OBVIOUS
<1>2. PICK m \in Nat : count = m + 1
  <2>1. count - 1 \in Nat /\ count = (count - 1) + 1
    OBVIOUS
  <2> QED
    BY <2>1
<1>3. PICK n \in Nat : n = WordBytes
  BY Widths
<1>4. /\ \A k \in 1..m : x[k] = Xor(values[k], values[k + 1]) /\ x[k] \in Words
      /\ q \in Seq(Seq(Nat)) /\ Len(q) = m
      /\ \A k \in 1..m : q[k] = EncodeXor(x[k])
      /\ data = head \o FlattenSeq(q)
      /\ ValueSize(values) = n + SumFunction(Lengths(q))
  BY <1>1, <1>2, <1>3, ValueStream
<1>5. values[1] \in Words
  BY <1>1
<1>6. head \in Seq(Nat) /\ Len(head) = n
  BY <1>3, <1>5, ReadWrite
<1> HIDE DEF data, x, q, head
<1>7. PICK start : IsStream(head, q, data, start)
  BY <1>4, <1>6, Streams
<1>8. /\ data \in Seq(Nat) /\ Len(data) = ValueSize(values)
      /\ \A i \in 1..n : data[i] = head[i]
      /\ start \in [1..(m + 1) -> Nat] /\ start[1] = 0 /\ n + start[m + 1] = Len(data)
      /\ \A k \in 1..m :
           /\ start[k + 1] = start[k] + Len(q[k])
           /\ n + start[k + 1] <= Len(data)
           /\ \A j \in 1..Len(q[k]) : data[n + start[k] + j] = q[k][j]
  BY <1>4, <1>6, <1>7 DEF IsStream
<1>9. PICK t : /\ \A k \in 1..count : t[k] = ValueRow(data, t, k)
               /\ DecompressValues(data, count) =
                    IF Len(data) < WordBytes THEN Corrupt ELSE Finished(t[count], data)
  BY ValueStates
<1>10. Len(data) \in Nat /\ ~(Len(data) < n)
  <2>1. m + 1 \in 1..(m + 1)
    OBVIOUS
  <2>2. start[m + 1] \in Nat
    BY <1>8, <2>1
  <2> QED
    BY <1>8, <2>2
<1>11. Read(data, 1) = values[1]
  <2>1. ASSUME NEW i \in 1..WordBytes PROVE data[1 + i - 1] = Write(values[1])[i]
    <3>1. 1 + i - 1 = i /\ i \in 1..n
      BY <1>3
    <3> QED
      BY <1>8, <3>1 DEF head
  <2>2. 1 \in Nat
    OBVIOUS
  <2> QED
    BY <1>5, <2>1, <2>2, ReadAt
<1> DEFINE G == {c \in Nat : c <= m => t[c + 1] = Restored(values, c + 1, n + start[c + 1] + 1)}
<1>12. 0 \in G
  <2>1. 1 \in 1..count
    OBVIOUS
  <2>2. t[1] = [next |-> n + 1, out |-> <<values[1]>>]
    BY <1>3, <1>9, <1>11, <2>1 DEF ValueRow
  <2>3. <<values[1]>> = Taken(values, 1)
    <3>1. 1 \in 1..Len(values)
      BY <1>1
    <3>2. Taken(values, 1) \in Seq(Words) /\ Len(Taken(values, 1)) = 1 /\ Taken(values, 1)[1] = values[1]
      BY <3>1, LastTaken DEF Taken
    <3> QED
      BY <3>2
  <2>4. n + 1 = n + start[0 + 1] + 1 /\ 0 + 1 = 1
    BY <1>8
  <2> QED
    BY <2>2, <2>3, <2>4 DEF Restored
<1>13. ASSUME NEW c \in Nat, c \in G PROVE c + 1 \in G
  <2>1. SUFFICES ASSUME c + 1 <= m
                 PROVE  t[(c + 1) + 1] = Restored(values, (c + 1) + 1, n + start[(c + 1) + 1] + 1)
    OBVIOUS
  <2> DEFINE k == c + 1
             at == n + start[k] + 1
  <2>2. t[k] = Restored(values, k, at)
    BY <1>13, <2>1
  <2>3. /\ k \in 1..m /\ k \in Nat \ {0} /\ k + 1 <= count /\ k + 1 \in 1..count /\ (k + 1) - 1 = k /\ k + 1 # 1
        /\ k \in 1..(m + 1) /\ k + 1 \in 1..(m + 1) /\ k + 1 <= Len(values)
    BY <1>1, <1>2, <2>1
  <2> HIDE DEF G, k, at
  <2>4. PICK w \in Words : w = x[k] /\ w = Xor(values[k], values[k + 1]) /\ q[k] = EncodeXor(w)
    BY <1>4, <2>3
  <2>5. PICK e : e = EncodeXor(w) /\ e = q[k]
    BY <2>4
  <2>6. start[k + 1] = start[k] + Len(e) /\ n + start[k + 1] <= Len(data)
        /\ \A j \in 1..Len(e) : data[n + start[k] + j] = e[j]
    <3>1. /\ start[k + 1] = start[k] + Len(q[k]) /\ n + start[k + 1] <= Len(data)
          /\ \A j \in 1..Len(q[k]) : data[n + start[k] + j] = q[k][j]
      BY <1>8, <2>3
    <3> QED
      BY ONLY <2>5, <3>1
  <2>7. PICK a \in Nat, b \in Nat, l \in Nat : a = start[k] /\ b = start[k + 1] /\ l = Len(e)
    <3>1. Len(e) \in Nat
      BY <2>4, <2>5, XorBytes
    <3>2. start[k] \in Nat /\ start[k + 1] \in Nat
      BY <1>8, <2>3
    <3> QED
      BY ONLY <3>1, <3>2
  <2>8. at \in Nat \ {0} /\ at = n + a + 1 /\ b = a + l /\ n + b <= Len(data)
    <3>1. at = n + a + 1
      BY ONLY <2>7 DEF at
    <3>2. b = a + l /\ n + b <= Len(data)
      BY ONLY <2>6, <2>7
    <3> QED
      BY ONLY <3>1, <3>2, n \in Nat, a \in Nat
  <2>9. at + l - 1 <= Len(data) /\ at + l = n + b + 1
    BY <1>10, <2>8
  <2>10. ASSUME NEW j \in 1..l PROVE data[at + j - 1] = e[j]
    <3>1. at + j - 1 = n + a + j
      BY <2>8
    <3> QED
      BY <2>6, <2>7, <3>1
  <2>11. DecodeXor(data, Restored(values, k, at)) = Restored(values, k + 1, at + l)
    <3>1. /\ at + Len(EncodeXor(w)) - 1 <= Len(data)
          /\ \A j \in 1..Len(EncodeXor(w)) : data[at + j - 1] = EncodeXor(w)[j]
          /\ Len(EncodeXor(w)) = l
      BY <2>5, <2>7, <2>9, <2>10
    <3>2. data \in Seq(Nat)
      BY <1>8
    <3> QED
      <4>1. DecodeXor(data, Restored(values, k, at)) = Restored(values, k + 1, at + Len(EncodeXor(w)))
        <5>1. k \in Nat \ {0} /\ at \in Nat \ {0} /\ w \in Words /\ data \in Seq(Nat)
          BY <2>3, <2>8, <3>2
        <5>2. Leads(values, k, w)
          BY <2>3, <2>4 DEF Leads
        <5>3. CodedAt(data, at, w)
          BY <3>1 DEF CodedAt
        <5>4. values \in Seq(Words)
          OBVIOUS
        <5> QED
          BY ONLY <5>1, <5>2, <5>3, <5>4, ValueRound
      <4>2. Len(EncodeXor(w)) = l
        BY ONLY <3>1
      <4> QED
        BY ONLY <4>1, <4>2
  <2>12. t[k + 1] = DecodeXor(data, t[k])
    BY <1>9, <2>3 DEF ValueRow
  <2>13. t[k + 1] = Restored(values, k + 1, n + start[k + 1] + 1)
    BY <2>2, <2>7, <2>9, <2>11, <2>12
  <2>14. k + 1 = (c + 1) + 1
    BY DEF k
  <2> QED
    BY <2>13, <2>14
<1> HIDE DEF G
<1>14. Nat \subseteq G
  BY <1>12, <1>13, NatSetInduction
<1>15. t[count] = Restored(values, count, Len(data) + 1)
  <2>1. m \in G /\ m <= m
    BY <1>14
  <2>2. t[m + 1] = Restored(values, m + 1, n + start[m + 1] + 1)
    BY <2>1 DEF G
  <2> QED
    BY <1>2, <1>8, <2>2
<1>16. Taken(values, count) = values
  BY <1>1, TakenAll
<1>17. values \in Seq(Int)
  <2>1. Words \subseteq Int
    BY Halves DEF Words
  <2> QED
    BY <2>1, SeqWider
<1>18. t[count] = [next |-> Len(data) + 1, out |-> values] /\ t[count] # Corrupt
  <2>1. t[count] = [next |-> Len(data) + 1, out |-> values]
    BY <1>15, <1>16 DEF Restored
  <2>2. Len(data) + 1 \in Nat
    BY <1>10
  <2>3. [next |-> Len(data) + 1, out |-> values] # Corrupt
    BY ONLY <1>17, <2>2, NotCorrupt
  <2> QED
    BY ONLY <2>1, <2>3
<1>19. Finished(t[count], data) = values
  BY <1>18 DEF Finished
<1>20. DecompressValues(data, count) = values
  BY <1>3, <1>9, <1>10, <1>19
<1> QED
  BY <1>1, <1>8, <1>20 DEF data

-----------------------------------------------------------------------------
(* The smallest and the largest of some timestamps *)

\* The Min of the library finds the earliest of some timestamps.
LEMMA LeastTime ==
  ASSUME NEW S, S \subseteq Ints, S # {}
  PROVE  Min(S) \in S /\ \A y \in S : Min(S) <= y
<1>1. PICK m \in Int : m = MinInt /\ \A y \in Ints : y \in Int /\ m <= y
  BY Halves DEF Ints
<1>2. S \subseteq Int /\ \A y \in S : m <= y
  BY <1>1
<1> QED
  BY <1>1, <1>2, LeastOf

\* The Max of the library finds the latest one.
LEMMA GreatestTime ==
  ASSUME NEW S, S \subseteq Ints, S # {}
  PROVE  Max(S) \in S /\ \A y \in S : Max(S) >= y
<1>1. PICK m \in Int : m = MaxInt /\ \A y \in Ints : y \in Int /\ y <= m
  BY Halves DEF Ints
<1>2. S \subseteq Int /\ \A y \in S : y <= m
  BY <1>1
<1> QED
  BY <1>1, <1>2, GreatestOf

-----------------------------------------------------------------------------
(* Blocks *)

TimesOf(numbers) == [i \in DOMAIN numbers |-> history[numbers[i]][1]]

ValuesOf(numbers) == [i \in DOMAIN numbers |-> history[numbers[i]][2]]

PointsOf(numbers) == [i \in DOMAIN numbers |-> history[numbers[i]]]

\* The numbers of a block: some points that were appended.
IsNumbers(numbers) == numbers \in Seq(DOMAIN history) /\ Len(numbers) \in 1..Capacity

\* A block is what the writer makes of its points, but for the mark.
BlockOk(block) ==
  /\ IsNumbers(block.numbers) /\ block.whole \in BOOLEAN
  /\ block = [BlockOf(block.numbers) EXCEPT !.whole = block.whole]

\* The parts of a block.
LEMMA BlockParts ==
  ASSUME NEW numbers, NEW whole \in BOOLEAN
  PROVE  LET block == [BlockOf(numbers) EXCEPT !.whole = whole]
         IN /\ block.numbers = numbers /\ block.whole = whole
            /\ block.header = Header(PointsOf(numbers))
            /\ block.timestamps = CompressTimestamps([i \in DOMAIN PointsOf(numbers) |-> PointsOf(numbers)[i][1]])
            /\ block.values = CompressValues([i \in DOMAIN PointsOf(numbers) |-> PointsOf(numbers)[i][2]])
BY DEF BlockOf, PointsOf

\* The points of a block, their timestamps and their values.
LEMMA NumberedPoints ==
  ASSUME history \in Seq(Points), NEW numbers, IsNumbers(numbers)
  PROVE  /\ PointsOf(numbers) \in Seq(Points) /\ PointsOf(numbers) \in Seq(Ints \X Words)
         /\ TimesOf(numbers) \in Seq(Ints) /\ ValuesOf(numbers) \in Seq(Words)
         /\ Len(PointsOf(numbers)) = Len(numbers) /\ Len(TimesOf(numbers)) = Len(numbers)
         /\ Len(ValuesOf(numbers)) = Len(numbers) /\ Len(numbers) \in Nat \ {0}
         /\ DOMAIN PointsOf(numbers) = 1..Len(numbers)
         /\ [i \in DOMAIN PointsOf(numbers) |-> PointsOf(numbers)[i][1]] = TimesOf(numbers)
         /\ [i \in DOMAIN PointsOf(numbers) |-> PointsOf(numbers)[i][2]] = ValuesOf(numbers)
         /\ \A i \in 1..Len(numbers) : PointsOf(numbers)[i] = <<TimesOf(numbers)[i], ValuesOf(numbers)[i]>>
<1>1. PICK n \in Nat \ {0} : n = Len(numbers)
  BY DEF IsNumbers
<1>2. /\ DOMAIN numbers = 1..n /\ \A i \in 1..n : numbers[i] \in DOMAIN history
  BY <1>1 DEF IsNumbers
<1>3. \A i \in 1..n : history[numbers[i]] \in Points
  BY <1>2
<1>4. Points \subseteq Ints \X Words
  BY QueryAssumption DEF Ints, Words
<1>5. \A i \in 1..n : /\ history[numbers[i]] \in Ints \X Words
                      /\ history[numbers[i]][1] \in Ints /\ history[numbers[i]][2] \in Words
                      /\ history[numbers[i]] = <<history[numbers[i]][1], history[numbers[i]][2]>>
  BY <1>3, <1>4
<1>6. /\ PointsOf(numbers) = [i \in 1..n |-> history[numbers[i]]]
      /\ TimesOf(numbers) = [i \in 1..n |-> history[numbers[i]][1]]
      /\ ValuesOf(numbers) = [i \in 1..n |-> history[numbers[i]][2]]
  BY <1>2 DEF PointsOf, TimesOf, ValuesOf
<1>7. PointsOf(numbers) \in Seq(Points) /\ PointsOf(numbers) \in Seq(Ints \X Words)
  BY <1>3, <1>5, <1>6
<1>8. TimesOf(numbers) \in Seq(Ints) /\ ValuesOf(numbers) \in Seq(Words)
  BY <1>5, <1>6
<1>9. /\ Len(PointsOf(numbers)) = n /\ Len(TimesOf(numbers)) = n /\ Len(ValuesOf(numbers)) = n
      /\ DOMAIN PointsOf(numbers) = 1..n
  BY <1>6
<1>10. /\ [i \in DOMAIN PointsOf(numbers) |-> PointsOf(numbers)[i][1]] = TimesOf(numbers)
       /\ [i \in DOMAIN PointsOf(numbers) |-> PointsOf(numbers)[i][2]] = ValuesOf(numbers)
  BY <1>6
<1>11. \A i \in 1..n : PointsOf(numbers)[i] = <<TimesOf(numbers)[i], ValuesOf(numbers)[i]>>
  BY <1>5, <1>6
<1> QED
  BY <1>1, <1>7, <1>8, <1>9, <1>10, <1>11

\* What the streams and the header of a block are.
LEMMA BlockStreams ==
  ASSUME history \in Seq(Points), NEW block, BlockOk(block)
  PROVE  /\ block.timestamps = CompressTimestamps(TimesOf(block.numbers))
         /\ block.values = CompressValues(ValuesOf(block.numbers))
         /\ block.header = Header(PointsOf(block.numbers))
         /\ block.header.count = Len(block.numbers)
         /\ block.header.min \in Ints /\ block.header.max \in Ints
         /\ block.header.count \in 1..Capacity
         /\ block.timestamps \in Seq(Nat) /\ block.values \in Seq(Nat)
<1> DEFINE numbers == block.numbers
           whole == block.whole
           p == PointsOf(numbers)
<1>1. IsNumbers(numbers) /\ whole \in BOOLEAN /\ block = [BlockOf(numbers) EXCEPT !.whole = whole]
  BY DEF BlockOk
<1> HIDE DEF numbers, whole
<1>2. /\ block.header = Header(p)
      /\ block.timestamps = CompressTimestamps([i \in DOMAIN p |-> p[i][1]])
      /\ block.values = CompressValues([i \in DOMAIN p |-> p[i][2]])
  BY <1>1, BlockParts
<1>3. /\ p \in Seq(Ints \X Words) /\ Len(p) = Len(numbers) /\ DOMAIN p = 1..Len(numbers)
      /\ [i \in DOMAIN p |-> p[i][1]] = TimesOf(numbers)
      /\ [i \in DOMAIN p |-> p[i][2]] = ValuesOf(numbers)
      /\ TimesOf(numbers) \in Seq(Ints) /\ ValuesOf(numbers) \in Seq(Words)
      /\ Len(TimesOf(numbers)) = Len(numbers) /\ Len(ValuesOf(numbers)) = Len(numbers)
      /\ Len(numbers) \in Nat \ {0}
  BY <1>1, NumberedPoints
<1> HIDE DEF p
<1>4. /\ block.timestamps = CompressTimestamps(TimesOf(numbers))
      /\ block.values = CompressValues(ValuesOf(numbers))
  BY <1>2, <1>3
<1>5. block.timestamps \in Seq(Nat) /\ block.values \in Seq(Nat)
  <2>1. CompressTimestamps(TimesOf(numbers)) \in Seq(Nat)
    BY <1>3, TimestampsLossless
  <2>2. CompressValues(ValuesOf(numbers)) \in Seq(Nat)
    BY <1>3, ValuesLossless
  <2> QED
    BY <1>4, <2>1, <2>2
<1> DEFINE S == {p[i][1] : i \in DOMAIN p}
<1>6. S \subseteq Ints /\ S # {}
  <2>1. \A i \in DOMAIN p : p[i][1] \in Ints
    BY <1>3
  <2>2. 1 \in DOMAIN p
    BY <1>3
  <2> QED
    BY <2>1, <2>2
<1>7. Header(p) = [min |-> Min(S), max |-> Max(S), count |-> Len(p), stats |-> Statistics(p)]
  BY DEF Header
<1> HIDE DEF S
<1>8. Min(S) \in Ints /\ Max(S) \in Ints
  BY <1>6, LeastTime, GreatestTime
<1>9. Len(numbers) \in 1..Capacity
  BY <1>1 DEF IsNumbers
<1>10. /\ block.header.count = Len(numbers) /\ block.header.min \in Ints /\ block.header.max \in Ints
       /\ block.header = Header(p)
  BY <1>2, <1>3, <1>7, <1>8
<1> QED
  BY <1>4, <1>5, <1>9, <1>10 DEF p, numbers

\* What a block decodes to: its points.
LEMMA BlockDecodes ==
  ASSUME history \in Seq(Points), NEW block, BlockOk(block), block.whole
  PROVE  /\ Decode(block) = PointsOf(block.numbers)
         /\ DecompressTimestamps(block.timestamps, block.header.count) = TimesOf(block.numbers)
         /\ DecompressValues(block.values, block.header.count) = ValuesOf(block.numbers)
         /\ Len(block.timestamps) = TimestampSize(TimesOf(block.numbers))
         /\ Len(block.values) = ValueSize(ValuesOf(block.numbers))
<1> DEFINE numbers == block.numbers
           ts == TimesOf(numbers)
           vs == ValuesOf(numbers)
           p == PointsOf(numbers)
<1>1. IsNumbers(numbers)
  BY DEF BlockOk
<1>2. /\ block.timestamps = CompressTimestamps(ts) /\ block.values = CompressValues(vs)
      /\ block.header.count = Len(numbers)
  BY BlockStreams
<1> HIDE DEF numbers
<1>3. /\ p = [i \in DOMAIN numbers |-> history[numbers[i]]]
      /\ DOMAIN p = 1..Len(numbers)
      /\ ts \in Seq(Ints) /\ vs \in Seq(Words)
      /\ Len(ts) = Len(numbers) /\ Len(vs) = Len(numbers) /\ Len(numbers) \in Nat \ {0}
      /\ \A i \in 1..Len(numbers) : p[i] = <<ts[i], vs[i]>>
  BY <1>1, NumberedPoints DEF PointsOf
<1>4. /\ DecompressTimestamps(CompressTimestamps(ts), Len(ts)) = ts
      /\ Len(CompressTimestamps(ts)) = TimestampSize(ts)
  BY <1>3, TimestampsLossless
<1>5. /\ DecompressValues(CompressValues(vs), Len(vs)) = vs
      /\ Len(CompressValues(vs)) = ValueSize(vs)
  BY <1>3, ValuesLossless
<1> HIDE DEF ts, vs, p
<1>6. ts # Corrupt /\ vs # Corrupt
  <2>1. Ints \subseteq Int /\ Words \subseteq Int
    BY Halves DEF Ints, Words
  <2>2. ts \in Seq(Int) /\ vs \in Seq(Int)
    BY <1>3, <2>1, SeqWider
  <2> QED
    BY <2>2, NotCorrupt
<1>7. DecompressTimestamps(block.timestamps, block.header.count) = ts
  BY <1>2, <1>3, <1>4
<1>8. DecompressValues(block.values, block.header.count) = vs
  BY <1>2, <1>3, <1>5
<1>9. Decode(block) = Pairs(ts, vs)
  BY <1>7, <1>8 DEF Decode
<1>10. Pairs(ts, vs) = [i \in 1..Len(numbers) |-> <<ts[i], vs[i]>>]
  <2>1. DOMAIN ts = 1..Len(numbers)
    BY <1>3
  <2> QED
    BY <1>6, <2>1 DEF Pairs
<1>11. p = [i \in 1..Len(numbers) |-> p[i]]
  BY <1>3
<1>12. Decode(block) = p
  BY <1>3, <1>9, <1>10, <1>11
<1> QED
  BY <1>2, <1>4, <1>5, <1>7, <1>8, <1>12 DEF ts, vs, p, numbers

\* A stream of a whole block that is cut, or has a byte too many, is not decoded.
LEMMA DamageNoticed ==
  ASSUME history \in Seq(Points), NEW block, BlockOk(block), block.whole
  PROVE  LET count == block.header.count
         IN /\ \A k \in 0..Len(block.timestamps) - 1 :
                 DecompressTimestamps(SubSeq(block.timestamps, 1, k), count) = Corrupt
            /\ \A k \in 0..Len(block.values) - 1 :
                 DecompressValues(SubSeq(block.values, 1, k), count) = Corrupt
            /\ DecompressTimestamps(Append(block.timestamps, 0), count) = Corrupt
            /\ DecompressValues(Append(block.values, 0), count) = Corrupt
<1> DEFINE count == block.header.count
           a == block.timestamps
           b == block.values
<1>1. a \in Seq(Nat) /\ b \in Seq(Nat) /\ count \in Nat \ {0}
  <2>1. count \in 1..Capacity
    BY BlockStreams
  <2> QED
    BY <2>1, BlockStreams
<1>2. DecompressTimestamps(a, count) # Corrupt /\ DecompressValues(b, count) # Corrupt
  <2>1. TimesOf(block.numbers) \in Seq(Ints) /\ ValuesOf(block.numbers) \in Seq(Words)
    BY NumberedPoints DEF BlockOk
  <2>2. Ints \subseteq Int /\ Words \subseteq Int
    BY Halves DEF Ints, Words
  <2>3. TimesOf(block.numbers) \in Seq(Int) /\ ValuesOf(block.numbers) \in Seq(Int)
    BY <2>1, <2>2, SeqWider
  <2>4. TimesOf(block.numbers) # Corrupt /\ ValuesOf(block.numbers) # Corrupt
    BY <2>3, NotCorrupt
  <2> QED
    BY <2>4, BlockDecodes
<1> HIDE DEF a, b, count
<1>3. ASSUME NEW k \in 0..Len(a) - 1 PROVE DecompressTimestamps(SubSeq(a, 1, k), count) = Corrupt
  <2>1. Beginning(SubSeq(a, 1, k), a) /\ Len(SubSeq(a, 1, k)) # Len(a)
    BY <1>1, OtherLength
  <2> QED
    BY <1>1, <1>2, <2>1, TimestampsCut
<1>4. ASSUME NEW k \in 0..Len(b) - 1 PROVE DecompressValues(SubSeq(b, 1, k), count) = Corrupt
  <2>1. Beginning(SubSeq(b, 1, k), b) /\ Len(SubSeq(b, 1, k)) # Len(b)
    BY <1>1, OtherLength
  <2> QED
    BY <1>1, <1>2, <2>1, ValuesCut
<1>5. DecompressTimestamps(Append(a, 0), count) = Corrupt
  <2>1. Beginning(a, Append(a, 0)) /\ Len(a) # Len(Append(a, 0))
    BY <1>1, OtherLength
  <2> QED
    BY <1>1, <1>2, <2>1, TimestampsCut
<1>6. DecompressValues(Append(b, 0), count) = Corrupt
  <2>1. Beginning(b, Append(b, 0)) /\ Len(b) # Len(Append(b, 0))
    BY <1>1, OtherLength
  <2> QED
    BY <1>1, <1>2, <2>1, ValuesCut
<1> QED
  BY <1>3, <1>4, <1>5, <1>6 DEF a, b, count

-----------------------------------------------------------------------------
(* The inductive invariant *)

Entries == [segment : Segments, offset : Nat, min : MinInt..MaxInt, max : MinInt..MaxInt, count : 1..Capacity]

Phases == {"none", "loop", "callback", "done"}

FileOk(file) == file \in Seq(Range(file)) /\ \A k \in 1..Len(file) : BlockOk(file[k])

FilesOk == \A id \in Segments : FileOk(files[id])

IInv ==
  /\ history \in Seq(Points)
  /\ DOMAIN files = Segments /\ FilesOk
  /\ active \in Segments
  /\ index \in Seq(Entries)
  /\ buffer \in Seq(DOMAIN history) /\ Len(buffer) <= Capacity
  /\ "phase" \in DOMAIN read /\ read.phase \in Phases
  /\ damage \in Damages \union {"none"}
  /\ torn \in {Corrupt} \union Seq(Garbage)

\* The place of a block is a number.
LEMMA OffsetNat ==
  ASSUME history \in Seq(Points), NEW n \in Nat, NEW f, \A j \in 1..n : BlockOk(f[j])
  PROVE  /\ \A j \in 1..n : BlockSize(f[j]) \in Nat /\ BlockSize(f[j]) >= HeaderSize
         /\ Offset(f, n + 1) \in Nat
<1>1. HeaderSize \in Nat
  BY QueryAssumption
<1>2. ASSUME NEW j \in 1..n PROVE BlockSize(f[j]) \in Nat /\ BlockSize(f[j]) >= HeaderSize
  <2>1. PICK b : b = f[j]
    OBVIOUS
  <2>2. BlockOk(b)
    BY <2>1
  <2>3. b.timestamps \in Seq(Nat) /\ b.values \in Seq(Nat)
    BY <2>2, BlockStreams
  <2>4. Len(b.timestamps) \in Nat /\ Len(b.values) \in Nat
    BY <2>3
  <2>5. PICK l \in Nat, m \in Nat, h \in Nat : l = Len(b.timestamps) /\ m = Len(b.values) /\ h = HeaderSize
    BY ONLY <1>1, <2>4
  <2>6. BlockSize(b) = h + l + m
    BY <2>5 DEF BlockSize
  <2>7. BlockSize(b) \in Nat /\ BlockSize(b) >= HeaderSize
    <3>1. \A x, y, z \in Nat : x + y + z \in Nat /\ x + y + z >= x
      OBVIOUS
    <3>2. h + l + m \in Nat /\ h + l + m >= h
      BY <3>1
    <3> QED
      BY ONLY <2>5, <2>6, <3>2
  <2> QED
    BY <2>1, <2>7
<1>3. [j \in 1..n |-> BlockSize(f[j])] \in NatRow(n)
  BY <1>2 DEF NatRow
<1>4. SumFunction([j \in 1..n |-> BlockSize(f[j])]) \in Nat
  BY <1>3, RowNumbers
<1>5. (n + 1) - 1 = n
  OBVIOUS
<1>6. Offset(f, n + 1) = SumFunction([j \in 1..n |-> BlockSize(f[j])])
  BY <1>5 DEF Offset
<1> QED
  BY <1>2, <1>4, <1>6

\* A block is still a block when a point is appended.
LEMMA BlockKept ==
  ASSUME history \in Seq(Points), NEW point \in Points, history' \in {history, Append(history, point)},
         NEW block, BlockOk(block)
  PROVE  BlockOk(block)'
<1>1. /\ DOMAIN history \subseteq DOMAIN history'
      /\ \A i \in DOMAIN history : history'[i] = history[i]
  <2>1. CASE history' = history
    BY <2>1
  <2>2. CASE history' = Append(history, point)
    <3>1. /\ Append(history, point) \in Seq(Points) /\ Len(Append(history, point)) = Len(history) + 1
          /\ \A i \in 1..Len(history) : Append(history, point)[i] = history[i]
      BY AppendProperties
    <3> QED
      BY <2>2, <3>1
  <2> QED
    BY <2>1, <2>2
<1> DEFINE numbers == block.numbers
           whole == block.whole
<1>2. IsNumbers(numbers) /\ whole \in BOOLEAN /\ block = [BlockOf(numbers) EXCEPT !.whole = whole]
  BY DEF BlockOk
<1> HIDE DEF numbers, whole
<1>3. numbers \in Seq(DOMAIN history')
  BY <1>1, <1>2, SeqWider DEF IsNumbers
<1>4. [i \in DOMAIN numbers |-> history'[numbers[i]]] = [i \in DOMAIN numbers |-> history[numbers[i]]]
  <2>1. \A i \in DOMAIN numbers : numbers[i] \in DOMAIN history
    BY <1>2 DEF IsNumbers
  <2> QED
    BY <1>1, <2>1
<1>5. BlockOf(numbers)' = BlockOf(numbers)
  BY <1>4 DEF BlockOf
<1>6. IsNumbers(numbers)'
  BY <1>2, <1>3 DEF IsNumbers
<1> QED
  BY <1>2, <1>5, <1>6 DEF BlockOk, numbers, whole

\* What WriteBlock does.
LEMMA Written ==
  ASSUME IInv, NEW numbers, IsNumbers(numbers), NEW whole \in BOOLEAN, WriteBlock(numbers, whole)
  PROVE  \E id \in Segments : \E b, e :
           /\ active' = id /\ BlockOk(b) /\ b.numbers = numbers /\ b.whole = whole
           /\ files' = [files EXCEPT ![id] = Append(files[id], b)]
           /\ e = Entry(id, Offset(Append(files[id], b), Len(files[id]) + 1), b.header)
           /\ e \in Entries /\ index' = Append(index, e)
           /\ id \in {active, active + 1}
<1> DEFINE b == [BlockOf(numbers) EXCEPT !.whole = whole]
<1>1. b.numbers = numbers /\ b.whole = whole
  BY DEF BlockOf
<1>2. BlockOk(b)
  BY <1>1 DEF BlockOk
<1>3. PICK id \in Segments : active' = id /\ id \in {active, active + 1}
  BY DEF WriteBlock
<1>4. files' = [files EXCEPT ![id] = Append(files[id], b)]
  BY <1>3 DEF WriteBlock
<1> HIDE DEF b
<1>5. PICK f : f = files[id]
  OBVIOUS
<1>6. PICK g : g = Append(f, b)
  OBVIOUS
<1>7. f \in Seq(Range(f)) /\ \A k \in 1..Len(f) : BlockOk(f[k])
  BY <1>3, <1>5 DEF IInv, FilesOk, FileOk
<1>8. /\ Len(f) \in Nat /\ Len(g) = Len(f) + 1 /\ Last(g) = b
      /\ \A i \in 1..Len(f) : g[i] = f[i]
  BY <1>6, <1>7, SeqGrows
<1>9. files'[id] = g
  BY <1>3, <1>4, <1>5, <1>6 DEF IInv
<1> DEFINE e == Entry(id, Offset(g, Len(f) + 1), b.header)
<1>10. index' = Append(index, e)
  <2>1. index' = Append(index, Entry(active', Offset(files'[active'], Len(files'[active'])), Last(files'[active']).header))
    BY DEF WriteBlock
  <2> QED
    BY <1>3, <1>8, <1>9, <2>1
<1>11. Offset(g, Len(f) + 1) \in Nat
  <2>1. \A j \in 1..Len(f) : BlockOk(g[j])
    BY <1>7, <1>8
  <2> QED
    BY <1>8, <2>1, OffsetNat DEF IInv
<1>12. e \in Entries
  <2>1. /\ b.header.min \in Ints /\ b.header.max \in Ints /\ b.header.count \in 1..Capacity
    BY <1>2, BlockStreams DEF IInv
  <2> QED
    BY <1>3, <1>11, <2>1 DEF Entry, Entries, Ints
<1> HIDE DEF e
<1>13. e = Entry(id, Offset(Append(files[id], b), Len(files[id]) + 1), b.header)
  BY <1>5, <1>6 DEF e
<1> QED
  BY <1>1, <1>2, <1>3, <1>4, <1>10, <1>12, <1>13

\* What the bytes of later blocks make of the one that was cut short, which they complete once.
LEMMA TornKept ==
  ASSUME IInv, NEW numbers, NEW whole, WriteBlock(numbers, whole)
  PROVE  torn' \in {Corrupt} \union Seq(Garbage) /\ (torn # Corrupt => torn' # Corrupt)
<1>1. /\ torn \in {Corrupt} \union Seq(Garbage) /\ active' \in Segments
      /\ torn' = torn \/ (torn = Corrupt /\ torn' \in Completed(files[active']))
  BY DEF IInv, WriteBlock
<1>2. PICK file : file = files[active']
  OBVIOUS
<1>3. DOMAIN file = 1..Len(file) /\ (\A k \in 1..Len(file) : BlockOk(file[k])) /\ history \in Seq(Points)
  BY <1>1, <1>2 DEF IInv, FilesOk, FileOk
<1>4. ASSUME torn' \in Completed(file) PROVE torn' \in Seq(Garbage)
  <2>1. PICK k \in DOMAIN file : torn' \in [1..file[k].header.count -> Garbage]
    BY <1>4 DEF Completed
  <2>2. PICK n : n = file[k].header.count
    OBVIOUS
  <2>3. n \in 1..Capacity /\ Capacity \in Nat
    BY <1>3, <2>1, <2>2, BlockStreams, QueryAssumption
  <2>4. n \in Nat /\ torn' \in [1..n -> Garbage]
    BY <2>1, <2>2, <2>3
  <2> QED
    BY <2>4
<1> QED
  BY <1>1, <1>2, <1>4

\* A new block keeps the files, the index and the active segment in shape.
LEMMA WriteKeeps ==
  ASSUME IInv, NEW numbers, IsNumbers(numbers), NEW whole \in BOOLEAN, WriteBlock(numbers, whole),
         NEW point \in Points, history' \in {history, Append(history, point)}
  PROVE  /\ DOMAIN files' = Segments /\ FilesOk'
         /\ active' \in Segments /\ index' \in Seq(Entries)
         /\ torn' \in {Corrupt} \union Seq(Garbage)
<1>1. PICK id \in Segments : \E b, e :
           /\ active' = id /\ BlockOk(b)
           /\ files' = [files EXCEPT ![id] = Append(files[id], b)]
           /\ e \in Entries /\ index' = Append(index, e)
  BY Written
<1>2. PICK b, e :
           /\ active' = id /\ BlockOk(b)
           /\ files' = [files EXCEPT ![id] = Append(files[id], b)]
           /\ e \in Entries /\ index' = Append(index, e)
  BY <1>1
<1>3. index' \in Seq(Entries)
  BY <1>2, AppendProperties DEF IInv
<1>4. DOMAIN files' = Segments
  BY <1>2 DEF IInv
<1>5. history \in Seq(Points)
  BY DEF IInv
<1>6. ASSUME NEW i \in Segments PROVE \E g : g = files'[i] /\ FileOk(g)'
  <2>1. files[i] \in Seq(Range(files[i])) /\ \A k \in 1..Len(files[i]) : BlockOk(files[i][k])
    BY DEF IInv, FilesOk, FileOk
  <2>2. CASE i # id
    <3>1. files'[i] = files[i]
      BY <1>2, <2>2 DEF IInv
    <3>2. PICK f : f = files[i]
      OBVIOUS
    <3>3. ASSUME NEW k \in 1..Len(f) PROVE BlockOk(f[k])'
      <4>1. PICK x : x = f[k]
        OBVIOUS
      <4>2. BlockOk(x)
        BY <2>1, <3>2, <4>1
      <4>3. BlockOk(x)'
        BY <1>5, <4>2, BlockKept
      <4> QED
        BY <4>1, <4>3
    <3>4. FileOk(f)'
      BY <2>1, <3>2, <3>3 DEF FileOk
    <3> QED
      BY <3>1, <3>2, <3>4
  <2>3. CASE i = id
    <3>1. PICK f : f = files[i]
      OBVIOUS
    <3>2. PICK g : g = Append(f, b)
      OBVIOUS
    <3>3. files'[i] = g
      BY <1>2, <2>3, <3>1, <3>2 DEF IInv
    <3>4. /\ g \in Seq(Range(g)) /\ Len(f) \in Nat /\ Len(g) = Len(f) + 1
          /\ g[Len(f) + 1] = b /\ \A j \in 1..Len(f) : g[j] = f[j]
      BY <2>1, <3>1, <3>2, SeqGrows
    <3>5. ASSUME NEW k \in 1..Len(g) PROVE BlockOk(g[k])'
      <4>1. PICK x : x = g[k]
        OBVIOUS
      <4>2. BlockOk(x)
        <5>1. CASE k = Len(f) + 1
          BY <1>2, <3>4, <4>1, <5>1
        <5>2. CASE k # Len(f) + 1
          <6>1. k \in 1..Len(f)
            BY <3>4, <5>2
          <6> QED
            BY <2>1, <3>1, <3>4, <4>1, <6>1
        <5> QED
          BY <5>1, <5>2
      <4>3. BlockOk(x)'
        BY <1>5, <4>2, BlockKept
      <4> QED
        BY <4>1, <4>3
    <3>6. FileOk(g)'
      BY <3>4, <3>5 DEF FileOk
    <3> QED
      BY <3>3, <3>6
  <2> QED
    BY <2>2, <2>3
<1>7. FilesOk'
  <2>1. ASSUME NEW i \in Segments PROVE FileOk(files[i])'
    <3>1. PICK g : g = files'[i] /\ FileOk(g)'
      BY <1>6
    <3> QED
      BY <3>1 DEF FileOk
  <2> QED
    BY <2>1 DEF FilesOk
<1> QED
  BY <1>2, <1>3, <1>4, <1>7, TornKept

-----------------------------------------------------------------------------
(* The invariant holds initially, and every step keeps it *)

\* The part of the invariant that a step of a read leaves alone.
StoreOk ==
  /\ history \in Seq(Points)
  /\ DOMAIN files = Segments /\ FilesOk
  /\ active \in Segments
  /\ index \in Seq(Entries)
  /\ buffer \in Seq(DOMAIN history) /\ Len(buffer) <= Capacity
  /\ damage \in Damages \union {"none"}
  /\ torn \in {Corrupt} \union Seq(Garbage)

ReadOk == "phase" \in DOMAIN read /\ read.phase \in Phases

\* The invariant is one about the store and one about the read.
LEMMA InvParts == IInv <=> StoreOk /\ ReadOk
BY DEF IInv, StoreOk, ReadOk

\* The invariant holds at first.
LEMMA InitInv == Init => IInv
<1> SUFFICES ASSUME Init PROVE IInv
  OBVIOUS
<1> USE DEF Init
<1>1. history \in Seq(Points) /\ index \in Seq(Entries) /\ buffer \in Seq(DOMAIN history) /\ Len(buffer) <= Capacity
  BY QueryAssumption
<1>2. DOMAIN files = Segments
  OBVIOUS
<1>3. FilesOk
  <2>1. FileOk(<<>>)
    <3>1. <<>> \in Seq(Range(<<>>)) /\ Len(<<>>) = 0
      OBVIOUS
    <3> QED
      BY <3>1 DEF FileOk
  <2>2. \A id \in Segments : files[id] = <<>>
    OBVIOUS
  <2> QED
    BY <2>1, <2>2 DEF FilesOk
<1>4. active \in Segments
  BY QueryAssumption DEF Segments
<1>5. "phase" \in DOMAIN read /\ read.phase \in Phases
  BY DEF NoRead, Phases
<1>6. damage \in Damages \union {"none"} /\ torn \in {Corrupt} \union Seq(Garbage)
  OBVIOUS
<1> QED
  BY <1>1, <1>2, <1>3, <1>4, <1>5, <1>6 DEF IInv

\* Nothing but the read changes.
LEMMA StoreKept ==
  ASSUME StoreOk, UNCHANGED store
  PROVE  StoreOk'
<1>1. /\ history' = history /\ files' = files /\ index' = index /\ active' = active
      /\ buffer' = buffer /\ damage' = damage /\ torn' = torn
  BY DEF store
<1>2. FilesOk'
  <2>1. ASSUME NEW block PROVE BlockOk(block)' <=> BlockOk(block)
    BY <1>1 DEF BlockOk, BlockOf, IsNumbers
  <2>2. ASSUME NEW file PROVE FileOk(file)' <=> FileOk(file)
    BY <2>1 DEF FileOk
  <2>3. ASSUME NEW id \in Segments PROVE FileOk(files[id])'
    <3>1. PICK file : file = files[id]
      OBVIOUS
    <3>2. FileOk(file)'
      BY <2>2, <3>1 DEF StoreOk, FilesOk
    <3>3. files'[id] = file
      BY <1>1, <3>1
    <3> QED
      BY <3>2, <3>3 DEF FileOk
  <2> QED
    BY <2>3 DEF FilesOk
<1> QED
  BY <1>1, <1>2 DEF StoreOk

\* A flush from a callback leaves the phase of the read.
LEMMA FlushedRead ==
  ASSUME ReadOk
  PROVE  "phase" \in DOMAIN ReadAfterFlush /\ ReadAfterFlush.phase = read.phase
BY DEF ReadOk, ReadAfterFlush

\* Steps that write.
LEMMA AppendKeeps ==
  ASSUME StoreOk, ReadOk, NEW point \in Points, AppendPoint(point)
  PROVE  StoreOk' /\ ReadOk'
<1> DEFINE n == Len(history) + 1
<1>0. IInv
  BY InvParts
<1>1. history \in Seq(Points) /\ buffer \in Seq(DOMAIN history) /\ Capacity \in Nat \ {0}
  BY QueryAssumption DEF StoreOk
<1>2. /\ history' = Append(history, point) /\ damage' = damage
  BY DEF AppendPoint
<1>3. /\ history' \in Seq(Points) /\ DOMAIN history \subseteq DOMAIN history' /\ n \in DOMAIN history'
  <2>1. Append(history, point) \in Seq(Points) /\ Len(Append(history, point)) = n
    BY <1>1, AppendProperties
  <2> QED
    BY <1>1, <1>2, <2>1
<1>4. CASE BufferFull
  <2>1. WriteBlock(buffer, TRUE) /\ buffer' = <<n>> /\ read' = ReadAfterFlush
    BY <1>4 DEF AppendPoint
  <2>2. IsNumbers(buffer)
    BY <1>1, <1>4 DEF IsNumbers, BufferFull, StoreOk
  <2>3. /\ DOMAIN files' = Segments /\ FilesOk' /\ active' \in Segments /\ index' \in Seq(Entries)
        /\ torn' \in {Corrupt} \union Seq(Garbage)
    BY <1>0, <1>2, <2>1, <2>2, WriteKeeps
  <2>4. buffer' \in Seq(DOMAIN history') /\ Len(buffer') <= Capacity
    BY <1>1, <1>3, <2>1
  <2>5. ReadOk'
    BY <2>1, FlushedRead DEF ReadOk
  <2> QED
    BY <1>2, <1>3, <2>3, <2>4, <2>5 DEF StoreOk
<1>5. CASE ~BufferFull
  <2>1. buffer' = Append(buffer, n) /\ UNCHANGED <<files, index, active, torn, read>>
    BY <1>5 DEF AppendPoint
  <2>2. buffer \in Seq(DOMAIN history')
    BY <1>1, <1>3, SeqWider
  <2>3. Append(buffer, n) \in Seq(DOMAIN history') /\ Len(Append(buffer, n)) = Len(buffer) + 1
    BY <1>3, <2>2, AppendProperties
  <2>4. Len(buffer) + 1 <= Capacity
    BY <1>1, <1>5 DEF BufferFull, StoreOk
  <2>5. FilesOk'
    <3>1. ASSUME NEW id \in Segments PROVE FileOk(files[id])'
      <4>1. PICK file : file = files[id]
        OBVIOUS
      <4>2. file \in Seq(Range(file)) /\ \A k \in 1..Len(file) : BlockOk(file[k])
        BY <4>1 DEF StoreOk, FilesOk, FileOk
      <4>3. ASSUME NEW k \in 1..Len(file) PROVE BlockOk(file[k])'
        <5>1. PICK x : x = file[k]
          OBVIOUS
        <5>2. BlockOk(x)'
          BY <1>1, <1>2, <4>2, <5>1, BlockKept
        <5> QED
          BY <5>1, <5>2
      <4>4. FileOk(file)'
        BY <4>2, <4>3 DEF FileOk
      <4>5. files'[id] = file
        BY <2>1, <4>1
      <4> QED
        BY <4>4, <4>5 DEF FileOk
    <3> QED
      BY <3>1 DEF FilesOk
  <2>6. ReadOk'
    BY <2>1 DEF ReadOk
  <2>7. buffer' \in Seq(DOMAIN history') /\ Len(buffer') <= Capacity
    BY <2>1, <2>3, <2>4
  <2> QED
    BY <1>2, <1>3, <2>1, <2>5, <2>6, <2>7 DEF StoreOk
<1> QED
  BY <1>4, <1>5

\* A flush keeps the invariant.
LEMMA FlushKeeps ==
  ASSUME StoreOk, ReadOk, Flush
  PROVE  StoreOk' /\ ReadOk'
<1>0. IInv
  BY InvParts
<1>1. WriteBlock(buffer, TRUE) /\ buffer' = <<>> /\ read' = ReadAfterFlush /\ history' = history /\ damage' = damage
  BY DEF Flush
<1>2. IsNumbers(buffer)
  <2>1. buffer # <<>> /\ buffer \in Seq(DOMAIN history) /\ Len(buffer) <= Capacity /\ Capacity \in Nat
    BY QueryAssumption DEF Flush, StoreOk
  <2>2. Len(buffer) \in Nat \ {0}
    BY <2>1
  <2> QED
    BY <2>1, <2>2 DEF IsNumbers
<1>3. history \in Seq(Points) /\ Points # {}
  <2>1. history \in Seq(Points) /\ buffer \in Seq(DOMAIN history)
    BY DEF StoreOk
  <2>2. Len(buffer) \in Nat \ {0}
    BY <1>2, QueryAssumption DEF IsNumbers
  <2>3. buffer[1] \in DOMAIN history
    BY <2>1, <2>2
  <2>4. history[buffer[1]] \in Points
    BY <2>1, <2>3
  <2> QED
    BY <2>1, <2>4
<1>4. PICK point \in Points : TRUE
  BY <1>3
<1>5. /\ DOMAIN files' = Segments /\ FilesOk' /\ active' \in Segments /\ index' \in Seq(Entries)
      /\ torn' \in {Corrupt} \union Seq(Garbage)
  <2>1. history' \in {history, Append(history, point)}
    BY <1>1
  <2>2. WriteBlock(buffer, TRUE) /\ TRUE \in BOOLEAN
    BY <1>1
  <2> QED
    BY ONLY <1>0, <1>2, <1>4, <2>1, <2>2, WriteKeeps
<1>6. buffer' \in Seq(DOMAIN history') /\ Len(buffer') <= Capacity
  BY <1>1, QueryAssumption
<1>7. ReadOk'
  BY <1>1, FlushedRead DEF ReadOk
<1> QED
  BY <1>1, <1>5, <1>6, <1>7 DEF StoreOk

\* A block that is cut short is one all the same.
LEMMA CrashKeeps ==
  ASSUME StoreOk, ReadOk, CrashInBlock
  PROVE  StoreOk' /\ ReadOk'
<1>0. IInv
  BY InvParts
<1>1. /\ WriteBlock(buffer, FALSE) /\ buffer' = buffer /\ read' = read /\ history' = history
      /\ damage' \in Damages
  BY DEF CrashInBlock
<1>2. IsNumbers(buffer)
  <2>1. buffer # <<>> /\ buffer \in Seq(DOMAIN history) /\ Len(buffer) <= Capacity /\ Capacity \in Nat
    BY QueryAssumption DEF CrashInBlock, StoreOk
  <2>2. Len(buffer) \in Nat \ {0}
    BY <2>1
  <2> QED
    BY <2>1, <2>2 DEF IsNumbers
<1>3. history \in Seq(Points) /\ Points # {}
  <2>1. history \in Seq(Points) /\ buffer \in Seq(DOMAIN history)
    BY DEF StoreOk
  <2>2. Len(buffer) \in Nat \ {0}
    BY <1>2, QueryAssumption DEF IsNumbers
  <2>3. buffer[1] \in DOMAIN history
    BY <2>1, <2>2
  <2>4. history[buffer[1]] \in Points
    BY <2>1, <2>3
  <2> QED
    BY <2>1, <2>4
<1>4. PICK point \in Points : TRUE
  BY <1>3
<1>5. /\ DOMAIN files' = Segments /\ FilesOk' /\ active' \in Segments /\ index' \in Seq(Entries)
      /\ torn' \in {Corrupt} \union Seq(Garbage)
  <2>1. history' \in {history, Append(history, point)}
    BY <1>1
  <2>2. WriteBlock(buffer, FALSE) /\ FALSE \in BOOLEAN
    BY <1>1
  <2> QED
    BY ONLY <1>0, <1>2, <1>4, <2>1, <2>2, WriteKeeps
<1> QED
  BY <1>1, <1>5 DEF StoreOk, ReadOk

\* A file without blocks is one too.
LEMMA DeletionKeeps ==
  ASSUME StoreOk, ReadOk, DeletionFails
  PROVE  StoreOk' /\ ReadOk'
<1>1. /\ UNCHANGED <<history, index, active, buffer, torn, read>> /\ damage' \in Damages
  BY DEF DeletionFails
<1>2. PICK ids : files' = [id \in Segments |-> IF id \in ids THEN <<>> ELSE files[id]]
  BY DEF DeletionFails
<1>3. DOMAIN files' = Segments
  BY <1>2
<1>4. FilesOk'
  <2>1. ASSUME NEW file PROVE FileOk(file)' <=> FileOk(file)
    <3>1. ASSUME NEW block PROVE BlockOk(block)' <=> BlockOk(block)
      BY <1>1 DEF BlockOk, BlockOf, IsNumbers
    <3> QED
      BY <3>1 DEF FileOk
  <2>2. FileOk(<<>>)
    <3>1. <<>> \in Seq(Range(<<>>)) /\ Len(<<>>) = 0
      OBVIOUS
    <3> QED
      BY <3>1 DEF FileOk
  <2>3. ASSUME NEW id \in Segments PROVE FileOk(files[id])'
    <3>1. PICK file : file = files'[id]
      OBVIOUS
    <3>2. file = <<>> \/ file = files[id]
      BY <1>2, <3>1
    <3>3. FileOk(file)
      BY <2>2, <3>2 DEF StoreOk, FilesOk
    <3>4. FileOk(file)'
      BY <2>1, <3>3
    <3> QED
      BY <3>1, <3>4 DEF FileOk
  <2> QED
    BY <2>3 DEF FilesOk
<1> QED
  BY <1>1, <1>3, <1>4 DEF StoreOk, ReadOk

\* Steps of a read.
LEMMA ReadKeeps ==
  ASSUME ReadOk,
         \/ \E client \in Clients, range \in ReadRanges : StartRead(client, range[1], range[2])
         \/ ReadBlock \/ DeliverDecoded \/ BlocksDone \/ ReadBuffer \/ BufferDone
         \/ CallbackContinues \/ CallbackStops \/ EndRead
  PROVE  ReadOk' /\ UNCHANGED store
<1> USE DEF Phases
<1>0. "phase" \in DOMAIN read /\ read.phase \in Phases
  BY DEF ReadOk
<1>1. ASSUME NEW client \in Clients, NEW range \in ReadRanges, StartRead(client, range[1], range[2])
      PROVE  ReadOk' /\ UNCHANGED store
  BY <1>1 DEF StartRead, ReadOk
<1>2. CASE ReadBlock
  <2>1. UNCHANGED store
    BY <1>2 DEF ReadBlock
  <2>2. \/ read' = [read EXCEPT !.next = @ + 1]
        \/ \E p : read' = [read EXCEPT !.next = @ + 1, !.pending = p]
        \/ read' = ReadFails
    BY <1>2 DEF ReadBlock, ReadStored, ReadDecoded
  <2> QED
    BY <1>0, <2>1, <2>2 DEF ReadOk, ReadFails
<1>3. ASSUME NEW point, Deliver(point) PROVE ReadOk'
  BY <1>0, <1>3 DEF Deliver, ReadOk
<1>4. CASE DeliverDecoded
  BY <1>3, <1>4 DEF DeliverDecoded
<1>5. CASE BlocksDone
  BY <1>0, <1>5 DEF BlocksDone, ReadOk
<1>6. CASE ReadBuffer
  <2>1. UNCHANGED store
    BY <1>6 DEF ReadBuffer
  <2>2. (\E point : Deliver(point)) \/ read' = [read EXCEPT !.next = @ + 1]
    BY <1>6 DEF ReadBuffer
  <2> QED
    BY <1>0, <1>3, <2>1, <2>2 DEF ReadOk
<1>7. CASE BufferDone
  BY <1>0, <1>7 DEF BufferDone, ReadOk
<1>8. CASE CallbackContinues
  BY <1>0, <1>8 DEF CallbackContinues, ReadOk
<1>9. CASE CallbackStops
  BY <1>0, <1>9 DEF CallbackStops, ReadOk
<1>10. CASE EndRead
  BY <1>10 DEF EndRead, NoRead, ReadOk
<1> QED
  BY <1>1, <1>2, <1>4, <1>5, <1>6, <1>7, <1>8, <1>9, <1>10

\* Every step keeps the invariant.
LEMMA StepInv == IInv /\ [Next]_vars => IInv'
<1> SUFFICES ASSUME StoreOk, ReadOk, [Next]_vars PROVE StoreOk' /\ ReadOk'
  BY InvParts DEF IInv, StoreOk, ReadOk
<1>1. ASSUME NEW point \in Points, AppendPoint(point) PROVE StoreOk' /\ ReadOk'
  BY <1>1, AppendKeeps
<1>2. CASE Flush
  BY <1>2, FlushKeeps
<1>3. CASE CrashInBlock
  BY <1>3, CrashKeeps
<1>4. CASE DeletionFails
  BY <1>4, DeletionKeeps
<1>5. CASE \/ \E client \in Clients, range \in ReadRanges : StartRead(client, range[1], range[2])
           \/ ReadBlock \/ DeliverDecoded \/ BlocksDone \/ ReadBuffer \/ BufferDone
           \/ CallbackContinues \/ CallbackStops \/ EndRead
  BY <1>5, ReadKeeps, StoreKept
<1>6. CASE UNCHANGED vars
  <2>1. UNCHANGED store /\ read' = read
    BY <1>6 DEF vars
  <2> QED
    BY <2>1, StoreKept DEF ReadOk
<1> QED
  BY <1>1, <1>2, <1>3, <1>4, <1>5, <1>6 DEF Next

\* What the invariant says about blocks.
LEMMA InvImplies == IInv => TypeOK /\ LosslessBlocks /\ DamagedStreamsRejected
<1> SUFFICES ASSUME IInv PROVE TypeOK /\ LosslessBlocks /\ DamagedStreamsRejected
  OBVIOUS
<1>1. TypeOK
  BY DEF IInv, TypeOK, Entries, Phases
<1>2. ASSUME NEW block \in WholeBlocks PROVE history \in Seq(Points) /\ BlockOk(block) /\ block.whole
  <2>1. block.whole /\ \E id \in Segments : block \in Range(files[id])
    BY DEF WholeBlocks, Blocks
  <2>2. PICK id \in Segments : block \in Range(files[id])
    BY <2>1
  <2>3. FileOk(files[id])
    BY DEF IInv, FilesOk
  <2>4. PICK file : file = files[id]
    OBVIOUS
  <2>5. DOMAIN file = 1..Len(file) /\ \A k \in 1..Len(file) : BlockOk(file[k])
    BY <2>3, <2>4 DEF FileOk
  <2>6. PICK k \in 1..Len(file) : block = file[k]
    BY <2>2, <2>4, <2>5 DEF Range
  <2> QED
    BY <2>1, <2>5, <2>6 DEF IInv
<1>3. LosslessBlocks
  <2>1. ASSUME NEW block \in WholeBlocks
        PROVE  LET pts == [i \in DOMAIN block.numbers |-> history[block.numbers[i]]]
               IN /\ Decode(block) = pts
                  /\ Len(block.timestamps) = TimestampSize([i \in DOMAIN pts |-> pts[i][1]])
                  /\ Len(block.values) = ValueSize([i \in DOMAIN pts |-> pts[i][2]])
    <3>1. history \in Seq(Points) /\ BlockOk(block) /\ block.whole
      BY <1>2
    <3>2. IsNumbers(block.numbers)
      BY <3>1 DEF BlockOk
    <3>3. /\ Decode(block) = PointsOf(block.numbers)
          /\ Len(block.timestamps) = TimestampSize(TimesOf(block.numbers))
          /\ Len(block.values) = ValueSize(ValuesOf(block.numbers))
      BY <3>1, BlockDecodes
    <3>4. /\ [i \in DOMAIN PointsOf(block.numbers) |-> PointsOf(block.numbers)[i][1]] = TimesOf(block.numbers)
          /\ [i \in DOMAIN PointsOf(block.numbers) |-> PointsOf(block.numbers)[i][2]] = ValuesOf(block.numbers)
      BY <3>1, <3>2, NumberedPoints
    <3>5. PICK p : p = PointsOf(block.numbers) /\ p = [i \in DOMAIN block.numbers |-> history[block.numbers[i]]]
      BY DEF PointsOf
    <3>6. /\ Decode(block) = p
          /\ Len(block.timestamps) = TimestampSize([i \in DOMAIN p |-> p[i][1]])
          /\ Len(block.values) = ValueSize([i \in DOMAIN p |-> p[i][2]])
      BY <3>3, <3>4, <3>5
    <3> QED
      BY ONLY <3>5, <3>6
  <2> QED
    BY <2>1 DEF LosslessBlocks
<1>4. DamagedStreamsRejected
  <2>1. ASSUME NEW block \in WholeBlocks
        PROVE  LET count == block.header.count
               IN /\ \A k \in 0..Len(block.timestamps) - 1 :
                       DecompressTimestamps(SubSeq(block.timestamps, 1, k), count) = Corrupt
                  /\ \A k \in 0..Len(block.values) - 1 :
                       DecompressValues(SubSeq(block.values, 1, k), count) = Corrupt
                  /\ DecompressTimestamps(Append(block.timestamps, 0), count) = Corrupt
                  /\ DecompressValues(Append(block.values, 0), count) = Corrupt
    BY <1>2, DamageNoticed
  <2> QED
    BY <2>1 DEF DamagedStreamsRejected
<1> QED
  BY <1>1, <1>3, <1>4

\* The files hold blocks that the writer made of points that were appended, whatever is
\* crashed, unlinked or read in between.
THEOREM QueryInvariant == Spec => []IInv
BY InitInv, StepInv, PTL DEF Spec

\* TypeOK: the shape of the state, for any points, capacity and number of segments.
THEOREM TypeCorrect == Spec => []TypeOK
BY QueryInvariant, InvImplies, PTL

\* LosslessBlocks: what tsedge_segment_append_block compressed is decoded to the points
\* that were appended, in exactly the bytes that the size pass of the encoders counted.
THEOREM CompressionLossless == Spec => []LosslessBlocks
BY QueryInvariant, InvImplies, PTL

\* DamagedStreamsRejected: a stream of a block that is cut anywhere, or that has a byte too
\* many, is TSEDGE_ERR_CORRUPT.
THEOREM DamageRejected == Spec => []DamagedStreamsRejected
BY QueryInvariant, InvImplies, PTL

-----------------------------------------------------------------------------
(* Places in a file *)

\* Blocks that a file can have.
BlocksTo(f, n) == \A j \in 1..n : BlockOk(f[j])

\* A block takes at least one byte.
LEMMA OffsetNext ==
  ASSUME history \in Seq(Points), NEW n \in Nat, NEW f, BlocksTo(f, n), NEW k \in 1..n
  PROVE  Offset(f, k) \in Nat /\ Offset(f, k + 1) \in Nat /\ Offset(f, k) < Offset(f, k + 1)
<1>1. HeaderSize \in Nat \ {0}
  BY QueryAssumption
<1>2. \A j \in 1..n : BlockSize(f[j]) \in Nat /\ BlockSize(f[j]) >= HeaderSize
  BY OffsetNat DEF BlocksTo
<1>3. PICK m \in Nat : m = k - 1 /\ k = m + 1 /\ (k + 1) - 1 = m + 1
  <2>1. k - 1 \in Nat /\ k = (k - 1) + 1 /\ (k + 1) - 1 = (k - 1) + 1
    OBVIOUS
  <2> QED
    BY <2>1
<1> DEFINE u == [j \in 1..m |-> BlockSize(f[j])]
           v == [j \in 1..(m + 1) |-> BlockSize(f[j])]
<1>4. u \in NatRow(m) /\ v \in NatRow(m + 1) /\ \A j \in 1..m : u[j] = v[j]
  BY <1>2, <1>3 DEF NatRow
<1>5. v[m + 1] = BlockSize(f[k])
  BY <1>3
<1>6. Offset(f, k) = SumFunction(u) /\ Offset(f, k + 1) = SumFunction(v)
  BY <1>3 DEF Offset
<1> HIDE DEF u, v
<1>7. SumFunction(u) \in Nat /\ SumFunction(v) = SumFunction(u) + v[m + 1]
  <2>1. SumFunction(u) \in Nat
    BY <1>4, RowNumbers
  <2> QED
    BY <1>4, <2>1, SumLast
<1>8. PICK a \in Nat, b \in Nat \ {0} : a = SumFunction(u) /\ b = v[m + 1]
  <2>1. v[m + 1] \in Nat \ {0}
    BY <1>1, <1>2, <1>5
  <2> QED
    BY <1>7, <2>1
<1>9. a + b \in Nat /\ a < a + b
  OBVIOUS
<1> QED
  BY ONLY <1>6, <1>7, <1>8, <1>9

\* Later blocks start later.
LEMMA OffsetGrows ==
  ASSUME history \in Seq(Points), NEW n \in Nat, NEW f, BlocksTo(f, n)
  PROVE  \A k, l \in 1..n : k < l => Offset(f, k) < Offset(f, l)
<1> DEFINE G == {d \in Nat : \A k \in 1..n : k + d + 1 \in 1..n =>
                    /\ Offset(f, k) \in Nat /\ Offset(f, k + d + 1) \in Nat
                    /\ Offset(f, k) < Offset(f, k + d + 1)}
<1>1. 0 \in G
  <2>1. ASSUME NEW k \in 1..n, k + 0 + 1 \in 1..n
        PROVE  /\ Offset(f, k) \in Nat /\ Offset(f, k + 0 + 1) \in Nat
               /\ Offset(f, k) < Offset(f, k + 0 + 1)
    <3>1. k + 0 + 1 = k + 1
      OBVIOUS
    <3> QED
      BY <3>1, OffsetNext
  <2> QED
    BY <2>1
<1>2. ASSUME NEW d \in Nat, d \in G PROVE d + 1 \in G
  <2>1. ASSUME NEW k \in 1..n, k + (d + 1) + 1 \in 1..n
        PROVE  /\ Offset(f, k) \in Nat /\ Offset(f, k + (d + 1) + 1) \in Nat
               /\ Offset(f, k) < Offset(f, k + (d + 1) + 1)
    <3>1. PICK l \in 1..n : l = k + d + 1 /\ k + (d + 1) + 1 = l + 1
      <4>1. k + d + 1 \in 1..n /\ k + (d + 1) + 1 = (k + d + 1) + 1
        BY <2>1
      <4> QED
        BY <4>1
    <3>2. Offset(f, k) \in Nat /\ Offset(f, l) \in Nat /\ Offset(f, k) < Offset(f, l)
      BY <1>2, <3>1
    <3>3. Offset(f, l + 1) \in Nat /\ Offset(f, l) < Offset(f, l + 1)
      BY OffsetNext
    <3>4. \A x, y, z \in Nat : x < y /\ y < z => x < z
      OBVIOUS
    <3>5. Offset(f, k) < Offset(f, l + 1)
      BY ONLY <3>2, <3>3, <3>4
    <3> QED
      BY <3>1, <3>2, <3>3, <3>5
  <2> QED
    BY <2>1
<1>3. Nat \subseteq G
  <2> HIDE DEF G
  <2> QED
    BY <1>1, <1>2, NatSetInduction
<1>4. ASSUME NEW k \in 1..n, NEW l \in 1..n, k < l PROVE Offset(f, k) < Offset(f, l)
  <2>1. PICK d \in Nat : k + d + 1 = l
    <3>1. l - k - 1 \in Nat /\ k + (l - k - 1) + 1 = l
      BY <1>4
    <3> QED
      BY <3>1
  <2>2. d \in G
    BY <1>3
  <2>3. k + d + 1 \in 1..n
    BY <2>1
  <2>4. Offset(f, k) < Offset(f, k + d + 1)
    BY <2>2, <2>3
  <2> QED
    BY <2>1, <2>4
<1> QED
  BY <1>4

\* One place, one block.
LEMMA OffsetUnique ==
  ASSUME history \in Seq(Points), NEW n \in Nat, NEW f, BlocksTo(f, n),
         NEW k \in 1..n, NEW l \in 1..n, Offset(f, k) = Offset(f, l)
  PROVE  k = l
<1>1. Offset(f, k) \in Nat /\ Offset(f, l) \in Nat
  BY OffsetNext
<1>2. ~(k < l) /\ ~(l < k)
  BY <1>1, OffsetGrows
<1> QED
  BY <1>2

\* The place of a block depends on what is before it.
LEMMA OffsetSame ==
  ASSUME NEW f, NEW g, NEW k \in Nat, \A j \in 1..(k - 1) : g[j] = f[j]
  PROVE  Offset(g, k) = Offset(f, k)
<1>1. [j \in 1..(k - 1) |-> BlockSize(g[j])] = [j \in 1..(k - 1) |-> BlockSize(f[j])]
  OBVIOUS
<1> QED
  BY <1>1 DEF Offset

-----------------------------------------------------------------------------
(* Entries and blocks *)

\* The entry of block k of the file f of segment id.
EntryIn(f, id, k) == Entry(id, Offset(f, k), f[k].header)

\* Entry i is the entry of block k of segment id.
Placed(i, id, k) ==
  /\ i \in 1..Len(index) /\ id \in Segments /\ k \in 1..Len(files[id])
  /\ index[i] = EntryIn(files[id], id, k)

\* The parts of a file.
LEMMA FileParts ==
  ASSUME IInv, NEW id \in Segments
  PROVE  /\ Len(files[id]) \in Nat /\ DOMAIN files[id] = 1..Len(files[id])
         /\ BlocksTo(files[id], Len(files[id])) /\ history \in Seq(Points)
<1>1. PICK f : f = files[id]
  OBVIOUS
<1>2. f \in Seq(Range(f)) /\ \A k \in 1..Len(f) : BlockOk(f[k])
  BY <1>1 DEF IInv, FilesOk, FileOk
<1> QED
  BY <1>1, <1>2 DEF IInv, BlocksTo

\* What an entry that is placed leads to.
LEMMA PlacedBlock ==
  ASSUME IInv, NEW i, NEW id, NEW k, Placed(i, id, k)
  PROVE  /\ HasBlock(index[i]) /\ BlockAt(index[i]) = files[id][k] /\ ~NoFile(index[i])
         /\ index[i].min = files[id][k].header.min /\ index[i].max = files[id][k].header.max
         /\ index[i].count = files[id][k].header.count
<1>1. PICK f : f = files[id]
  OBVIOUS
<1>2. /\ Len(f) \in Nat /\ DOMAIN f = 1..Len(f) /\ BlocksTo(f, Len(f)) /\ k \in 1..Len(f)
      /\ history \in Seq(Points)
  BY <1>1, FileParts DEF Placed
<1>3. /\ index[i].segment = id /\ index[i].offset = Offset(f, k)
      /\ index[i].min = f[k].header.min /\ index[i].max = f[k].header.max
      /\ index[i].count = f[k].header.count
  BY <1>1 DEF Placed, EntryIn, Entry
<1>4. Found(index[i]) = {k}
  <2>1. Found(index[i]) = {l \in 1..Len(f) : Offset(f, l) = Offset(f, k)}
    BY <1>1, <1>2, <1>3 DEF Found
  <2>2. \A l \in 1..Len(f) : Offset(f, l) = Offset(f, k) => l = k
    BY <1>2, OffsetUnique
  <2> QED
    BY <1>2, <2>1, <2>2
<1>5. BlockAt(index[i]) = f[k]
  <2>1. (CHOOSE l \in {k} : TRUE) = k
    OBVIOUS
  <2> QED
    BY <1>1, <1>3, <1>4, <2>1 DEF BlockAt
<1>6. f # <<>>
  BY <1>2
<1> QED
  BY <1>1, <1>3, <1>4, <1>5, <1>6 DEF HasBlock, NoFile

\* An entry belongs to one block.
LEMMA PlacedOnce ==
  ASSUME IInv, NEW i, NEW id, NEW k, Placed(i, id, k), NEW b, NEW l, Placed(i, b, l)
  PROVE  b = id /\ l = k
<1>1. b = id
  BY DEF Placed, EntryIn, Entry
<1>2. PICK f : f = files[id]
  OBVIOUS
<1>3. Offset(f, k) = Offset(f, l) /\ k \in 1..Len(f) /\ l \in 1..Len(f) /\ id \in Segments
  BY <1>1, <1>2 DEF Placed, EntryIn, Entry
<1>4. Len(f) \in Nat /\ BlocksTo(f, Len(f)) /\ history \in Seq(Points)
  BY <1>2, <1>3, FileParts
<1> QED
  BY <1>1, <1>3, <1>4, OffsetUnique

\* What an entry leads to at all is a block.
LEMMA FoundBlock ==
  ASSUME IInv, NEW i \in 1..Len(index), HasBlock(index[i])
  PROVE  \E id \in Segments : \E k \in 1..Len(files[id]) :
           BlockAt(index[i]) = files[id][k] /\ BlockOk(files[id][k])
<1>1. index[i] \in Entries
  BY DEF IInv
<1>2. PICK id \in Segments : id = index[i].segment
  BY <1>1 DEF Entries
<1>3. PICK k : k = (CHOOSE l \in Found(index[i]) : TRUE) /\ k \in Found(index[i])
  BY DEF HasBlock
<1>4. k \in DOMAIN files[id]
  BY <1>2, <1>3 DEF Found
<1>5. k \in 1..Len(files[id]) /\ BlockOk(files[id][k])
  BY <1>4, FileParts DEF BlocksTo
<1>6. BlockAt(index[i]) = files[id][k]
  BY <1>2, <1>3 DEF BlockAt
<1> QED
  BY <1>5, <1>6

-----------------------------------------------------------------------------
(* The places that are in a range *)

Ascending(s) == \A a, b \in 1..Len(s) : a < b => s[a] < s[b]

Within(time, from, to) == time >= from /\ time <= to

HitsRow(times, from, to, t, n) ==
  IF n = 0 THEN <<>>
  ELSE IF times[n] >= from /\ times[n] <= to THEN Append(t[n - 1], n)
  ELSE t[n - 1]

\* The rows of the recursion in Hits.
HitsTable(times, from, to, t, n) == t = [m \in 0..n |-> HitsRow(times, from, to, t, m)]

\* One more row for the table.
LEMMA HitsTableGrows ==
  ASSUME NEW times, NEW from, NEW to, NEW n \in Nat, NEW t, HitsTable(times, from, to, t, n)
  PROVE  \E u : HitsTable(times, from, to, u, n + 1)
<1> DEFINE last == HitsRow(times, from, to, t, n + 1)
           u == [k \in 0..(n + 1) |-> IF k = n + 1 THEN last ELSE t[k]]
<1>1. \A k \in 0..n : t[k] = HitsRow(times, from, to, t, k)
  BY DEF HitsTable
<1> HIDE DEF last
<1>2. /\ \A k \in 0..(n + 1) : u[k] = IF k = n + 1 THEN last ELSE t[k]
      /\ u = [k \in 0..(n + 1) |-> u[k]]
  OBVIOUS
<1> HIDE DEF u
<1>3. ASSUME NEW k \in 0..(n + 1) PROVE u[k] = HitsRow(times, from, to, u, k)
  <2>1. u[k] = HitsRow(times, from, to, t, k)
    <3>1. CASE k = n + 1
      BY <1>2, <3>1 DEF last
    <3>2. CASE k # n + 1
      <4>1. k \in 0..n
        BY <3>2
      <4> QED
        BY <1>1, <1>2, <3>2, <4>1
    <3> QED
      BY <3>1, <3>2
  <2>2. CASE k = 0
    BY <2>1, <2>2 DEF HitsRow
  <2>3. CASE k # 0
    <3>1. k - 1 \in 0..(n + 1) /\ k - 1 # n + 1
      BY <2>3
    <3>2. u[k - 1] = t[k - 1]
      BY <1>2, <3>1
    <3> QED
      BY <2>1, <2>3, <3>2 DEF HitsRow
  <2> QED
    BY <2>2, <2>3
<1> QED
  BY <1>2, <1>3 DEF HitsTable

\* The recursion has a solution.
LEMMA HitsTableExists ==
  ASSUME NEW times, NEW from, NEW to
  PROVE  \A n \in Nat : \E t : HitsTable(times, from, to, t, n)
<1> DEFINE G == {n \in Nat : \E t : HitsTable(times, from, to, t, n)}
<1>1. 0 \in G
  <2>1. HitsTable(times, from, to, [k \in 0..0 |-> <<>>], 0)
    BY DEF HitsTable, HitsRow
  <2> QED
    BY <2>1
<1>2. ASSUME NEW n \in Nat, n \in G PROVE n + 1 \in G
  BY <1>2, HitsTableGrows
<1> HIDE DEF G
<1>3. Nat \subseteq G
  BY <1>1, <1>2, NatSetInduction
<1> QED
  BY <1>3 DEF G

\* h has the places up to n, in order.
RightHits(times, from, to, h, n) ==
  /\ h \in Seq(1..n) /\ Ascending(h)
  /\ \A i \in 1..n : Within(times[i], from, to) <=> \E a \in 1..Len(h) : h[a] = i

\* Hits finds the places in the range, all of them and in order.
LEMMA HitsAre ==
  ASSUME NEW times, Len(times) \in Nat, NEW from, NEW to
  PROVE  RightHits(times, from, to, Hits(times, from, to), Len(times))
<1> DEFINE n == Len(times)
           t == CHOOSE t : HitsTable(times, from, to, t, n)
<1>1. HitsTable(times, from, to, t, n)
  BY HitsTableExists
<1>2. Hits(times, from, to) = t[n]
  BY DEF Hits, HitsTable, HitsRow
<1> HIDE DEF t
<1>3. \A k \in 0..n : t[k] = HitsRow(times, from, to, t, k)
  BY <1>1 DEF HitsTable
<1> HIDE DEF n
<1> DEFINE G == {m \in Nat : m <= n => RightHits(times, from, to, t[m], m)}
<1>4. n \in Nat
  BY DEF n
<1>5. 0 \in G
  <2>1. t[0] = <<>>
    BY <1>3, <1>4 DEF HitsRow
  <2>2. RightHits(times, from, to, <<>>, 0)
    <3>1. <<>> \in Seq(1..0) /\ Len(<<>>) = 0
      OBVIOUS
    <3> QED
      BY <3>1 DEF RightHits, Ascending
  <2> QED
    BY <2>1, <2>2
<1>6. ASSUME NEW m \in Nat, m \in G PROVE m + 1 \in G
  <2> SUFFICES ASSUME m + 1 <= n PROVE RightHits(times, from, to, t[m + 1], m + 1)
    OBVIOUS
  <2>1. PICK h : h = t[m]
    OBVIOUS
  <2>2. RightHits(times, from, to, h, m)
    BY <1>4, <1>6, <2>1
  <2> HIDE DEF G
  <2>3. t[m + 1] = IF Within(times[m + 1], from, to) THEN Append(h, m + 1) ELSE h
    <3>1. m + 1 \in 0..n /\ m + 1 # 0 /\ (m + 1) - 1 = m
      BY <1>4
    <3>2. t[m + 1] = HitsRow(times, from, to, t, m + 1)
      BY <1>3, <3>1
    <3> QED
      BY <2>1, <3>1, <3>2 DEF HitsRow, Within
  <2>4. h \in Seq(1..(m + 1)) /\ \A a \in 1..Len(h) : h[a] \in 1..m /\ h[a] < m + 1
    <3>1. h \in Seq(1..m)
      BY <2>2 DEF RightHits
    <3>2. 1..m \subseteq 1..(m + 1)
      OBVIOUS
    <3>3. h \in Seq(1..(m + 1))
      BY <3>1, <3>2, SeqWider
    <3>4. \A a \in 1..Len(h) : h[a] \in 1..m
      BY <3>1
    <3> QED
      BY <3>3, <3>4
  <2>5. CASE ~Within(times[m + 1], from, to)
    <3>1. \A i \in 1..(m + 1) : Within(times[i], from, to) <=> \E a \in 1..Len(h) : h[a] = i
      <4>1. ASSUME NEW i \in 1..(m + 1)
            PROVE Within(times[i], from, to) <=> \E a \in 1..Len(h) : h[a] = i
        <5>1. CASE i = m + 1
          <6>1. \A a \in 1..Len(h) : h[a] # m + 1
            BY <2>4
          <6> QED
            BY <2>5, <5>1, <6>1
        <5>2. CASE i # m + 1
          <6>1. i \in 1..m
            BY <5>2
          <6> QED
            BY <2>2, <6>1 DEF RightHits
        <5> QED
          BY <5>1, <5>2
      <4> QED
        BY <4>1
    <3> QED
      BY <2>2, <2>3, <2>4, <2>5, <3>1 DEF RightHits
  <2>6. CASE Within(times[m + 1], from, to)
    <3>1. PICK g : g = Append(h, m + 1)
      OBVIOUS
    <3>2. /\ g \in Seq(1..(m + 1)) /\ Len(g) = Len(h) + 1 /\ Len(h) \in Nat
          /\ g[Len(h) + 1] = m + 1 /\ \A a \in 1..Len(h) : g[a] = h[a]
      <4>1. m + 1 \in 1..(m + 1) /\ Len(h) \in Nat
        BY <2>4
      <4> QED
        BY <2>4, <3>1, <4>1, AppendProperties
    <3>3. Ascending(g)
      <4>1. ASSUME NEW a \in 1..Len(g), NEW b \in 1..Len(g), a < b PROVE g[a] < g[b]
        <5>1. a \in 1..Len(h) /\ g[a] = h[a]
          BY <3>2, <4>1
        <5>2. CASE b = Len(h) + 1
          BY <2>4, <3>2, <5>1, <5>2
        <5>3. CASE b # Len(h) + 1
          <6>1. b \in 1..Len(h) /\ g[b] = h[b]
            BY <3>2, <5>3
          <6> QED
            BY <2>2, <4>1, <5>1, <6>1 DEF RightHits, Ascending
        <5> QED
          BY <5>2, <5>3
      <4> QED
        BY <4>1 DEF Ascending
    <3>4. \A i \in 1..(m + 1) : Within(times[i], from, to) <=> \E a \in 1..Len(g) : g[a] = i
      <4>1. ASSUME NEW i \in 1..(m + 1)
            PROVE Within(times[i], from, to) <=> \E a \in 1..Len(g) : g[a] = i
        <5>1. CASE i = m + 1
          <6>1. Len(h) + 1 \in 1..Len(g)
            BY <3>2
          <6> QED
            BY <2>6, <3>2, <5>1, <6>1
        <5>2. CASE i # m + 1
          <6>1. i \in 1..m
            BY <5>2
          <6>2. (\E a \in 1..Len(g) : g[a] = i) <=> (\E a \in 1..Len(h) : h[a] = i)
            <7>1. ASSUME NEW a \in 1..Len(g), g[a] = i PROVE a \in 1..Len(h)
              BY <3>2, <5>2, <7>1
            <7>2. \A a \in 1..Len(h) : a \in 1..Len(g) /\ g[a] = h[a]
              BY <3>2
            <7> QED
              BY <7>1, <7>2
          <6> QED
            BY <2>2, <6>1, <6>2 DEF RightHits
        <5> QED
          BY <5>1, <5>2
      <4> QED
        BY <4>1
    <3>5. t[m + 1] = g
      BY <2>3, <2>6, <3>1
    <3> QED
      BY <3>2, <3>3, <3>4, <3>5 DEF RightHits
  <2> QED
    BY <2>5, <2>6
<1>7. Nat \subseteq G
  <2> HIDE DEF G
  <2> QED
    BY <1>5, <1>6, NatSetInduction
<1>8. RightHits(times, from, to, t[n], n)
  BY <1>4, <1>7
<1> QED
  BY <1>2, <1>8 DEF n

-----------------------------------------------------------------------------
(* The entries of the index and the blocks of the files *)

\* Everything in s is smaller than everything in t.
Below(s, t) == \A a \in 1..Len(s), b \in 1..Len(t) : s[a] < t[b]

AllListed == \A id \in Segments : \A k \in 1..Len(files[id]) : \E i : Placed(i, id, k)

BlocksAscend == \A id \in Segments : \A k \in 1..Len(files[id]) : Ascending(files[id][k].numbers)

BufferAscends == Ascending(buffer)

StoreInv == AllListed /\ BlocksAscend /\ BufferAscends

AllPlaced == \A i \in 1..Len(index) : \E id, k : Placed(i, id, k)

\* Entries of whole blocks stand in the order of the appends.
EntriesInOrder ==
  \A i, j, a, b, k, l :
    Placed(i, a, k) /\ Placed(j, b, l) /\ i < j /\ files[a][k].whole /\ files[b][l].whole =>
      Below(files[a][k].numbers, files[b][l].numbers)

BufferLast ==
  \A id \in Segments : \A k \in 1..Len(files[id]) :
    files[id][k].whole => Below(files[id][k].numbers, buffer)

\* As long as no file was unlinked behind the back of the index.
OrderInv == damage # "unlinked" => AllPlaced /\ EntriesInOrder /\ BufferLast

WholeInv ==
  damage = "none" => \A id \in Segments : \A k \in 1..Len(files[id]) : files[id][k].whole

\* One more block in the file of segment d, and its entry.
Grown(d, numbers, whole) ==
  LET m == Len(files[d]) + 1
  IN /\ Len(index) \in Nat /\ Len(index') = Len(index) + 1
     /\ \A i \in 1..Len(index) : index'[i] = index[i]
     /\ index'[Len(index) + 1] = EntryIn(files'[d], d, m)
     /\ Len(files'[d]) = m /\ files'[d][m].numbers = numbers /\ files'[d][m].whole = whole
     /\ \A id \in Segments : id # d => files'[id] = files[id]
     /\ \A id \in Segments : \A k \in 1..Len(files[id]) :
          /\ files'[id][k] = files[id][k]
          /\ EntryIn(files'[id], id, k) = EntryIn(files[id], id, k)
     /\ \A id \in Segments : Len(files[id]) \in Nat /\ BlocksTo(files'[id], Len(files'[id]))

\* What WriteBlock does, in these terms.
LEMMA WriteGrows ==
  ASSUME IInv, NEW numbers, IsNumbers(numbers), NEW whole \in BOOLEAN, WriteBlock(numbers, whole)
  PROVE  \E d \in Segments : Grown(d, numbers, whole)
<1>1. PICK d \in Segments : \E b, e :
           /\ BlockOk(b) /\ b.numbers = numbers /\ b.whole = whole
           /\ files' = [files EXCEPT ![d] = Append(files[d], b)]
           /\ e = Entry(d, Offset(Append(files[d], b), Len(files[d]) + 1), b.header)
           /\ e \in Entries /\ index' = Append(index, e)
  BY Written
<1>2. PICK b, e :
           /\ BlockOk(b) /\ b.numbers = numbers /\ b.whole = whole
           /\ files' = [files EXCEPT ![d] = Append(files[d], b)]
           /\ e = Entry(d, Offset(Append(files[d], b), Len(files[d]) + 1), b.header)
           /\ e \in Entries /\ index' = Append(index, e)
  BY <1>1
<1>3. PICK f : f = files[d]
  OBVIOUS
<1>4. PICK g : g = Append(f, b)
  OBVIOUS
<1>5. /\ f \in Seq(Range(f)) /\ Len(f) \in Nat /\ BlocksTo(f, Len(f))
  BY <1>3, FileParts DEF IInv, FilesOk, FileOk
<1>6. /\ Len(g) = Len(f) + 1 /\ g[Len(f) + 1] = b /\ \A k \in 1..Len(f) : g[k] = f[k]
  BY <1>4, <1>5, SeqGrows
<1>7. files'[d] = g /\ \A id \in Segments : id # d => files'[id] = files[id]
  BY <1>2, <1>3, <1>4 DEF IInv
<1>8. /\ Len(index) \in Nat /\ Len(index') = Len(index) + 1 /\ index'[Len(index) + 1] = e
      /\ \A i \in 1..Len(index) : index'[i] = index[i]
  BY <1>2, AppendProperties DEF IInv
<1>9. e = EntryIn(g, d, Len(f) + 1)
  BY <1>2, <1>3, <1>4, <1>6 DEF EntryIn
<1>10. \A k \in 1..Len(f) : EntryIn(g, d, k) = EntryIn(f, d, k)
  <2>1. ASSUME NEW k \in 1..Len(f) PROVE Offset(g, k) = Offset(f, k)
    <3>1. k \in Nat /\ \A j \in 1..(k - 1) : g[j] = f[j]
      BY <1>5, <1>6
    <3> QED
      BY <3>1, OffsetSame
  <2> QED
    BY <1>6, <2>1 DEF EntryIn
<1>11. BlocksTo(g, Len(g))
  <2>1. ASSUME NEW k \in 1..Len(g) PROVE BlockOk(g[k])
    <3>1. CASE k = Len(f) + 1
      BY <1>2, <1>6, <3>1
    <3>2. CASE k # Len(f) + 1
      <4>1. k \in 1..Len(f)
        BY <1>5, <1>6, <3>2
      <4> QED
        BY <1>5, <1>6, <4>1 DEF BlocksTo
    <3> QED
      BY <3>1, <3>2
  <2> QED
    BY <2>1 DEF BlocksTo
<1>12. \A id \in Segments : \A k \in 1..Len(files[id]) :
          /\ files'[id][k] = files[id][k]
          /\ EntryIn(files'[id], id, k) = EntryIn(files[id], id, k)
  BY <1>3, <1>6, <1>7, <1>10
<1>13. \A id \in Segments : Len(files[id]) \in Nat /\ BlocksTo(files'[id], Len(files'[id]))
  <2>1. ASSUME NEW id \in Segments PROVE Len(files[id]) \in Nat /\ BlocksTo(files'[id], Len(files'[id]))
    <3>1. Len(files[id]) \in Nat /\ BlocksTo(files[id], Len(files[id]))
      BY FileParts
    <3> QED
      BY <1>7, <1>11, <3>1
  <2> QED
    BY <2>1
<1>14. Grown(d, numbers, whole)
  BY <1>2, <1>3, <1>6, <1>7, <1>8, <1>9, <1>12, <1>13 DEF Grown
<1> QED
  BY <1>14

\* Placed, of the next state.
PlacedNext(i, id, k) ==
  /\ i \in 1..Len(index') /\ id \in Segments /\ k \in 1..Len(files'[id])
  /\ index'[i] = EntryIn(files'[id], id, k)

\* PlacedNext is Placed of the next state.
LEMMA PlacedNextIs ==
  ASSUME NEW i, NEW id, NEW k
  PROVE  Placed(i, id, k)' <=> PlacedNext(i, id, k)
BY DEF Placed, PlacedNext, EntryIn, Entry

\* Entries and blocks after that.
LEMMA PlacedGrows ==
  ASSUME IInv, NEW d \in Segments, NEW numbers, NEW whole, Grown(d, numbers, whole)
  PROVE  /\ \A i, id, k : Placed(i, id, k) => PlacedNext(i, id, k)
         /\ PlacedNext(Len(index) + 1, d, Len(files[d]) + 1)
         /\ AllPlaced => \A i, id, k : PlacedNext(i, id, k) =>
              \/ Placed(i, id, k)
              \/ i = Len(index) + 1 /\ id = d /\ k = Len(files[d]) + 1
<1> USE DEF Grown
<1>1. ASSUME NEW i, NEW id, NEW k, Placed(i, id, k) PROVE PlacedNext(i, id, k)
  <2>1. Len(files'[id]) \in Nat /\ Len(files[id]) \in Nat /\ Len(files[id]) <= Len(files'[id])
    BY <1>1 DEF Placed
  <2> QED
    BY <1>1, <2>1 DEF Placed, PlacedNext
<1>2. \A m \in Nat : m + 1 \in 1..(m + 1)
  OBVIOUS
<1>3. PlacedNext(Len(index) + 1, d, Len(files[d]) + 1)
  BY <1>2 DEF PlacedNext
<1>4. ASSUME AllPlaced, NEW i, NEW id, NEW k, PlacedNext(i, id, k)
      PROVE  \/ Placed(i, id, k)
             \/ i = Len(index) + 1 /\ id = d /\ k = Len(files[d]) + 1
  <2>1. ASSUME NEW a, NEW l, PlacedNext(i, a, l) PROVE a = id /\ l = k
    <3>1. a = id
      BY <1>4, <2>1 DEF EntryIn, Entry, PlacedNext
    <3>2. PICK g : g = files'[id]
      OBVIOUS
    <3>3. Offset(g, k) = Offset(g, l) /\ k \in 1..Len(g) /\ l \in 1..Len(g)
      BY <1>4, <2>1, <3>1, <3>2 DEF EntryIn, Entry, PlacedNext
    <3>4. Len(g) \in Nat /\ BlocksTo(g, Len(g))
      BY <1>4, <3>2 DEF PlacedNext
    <3>5. history \in Seq(Points)
      BY DEF IInv
    <3> QED
      BY <3>1, <3>3, <3>4, <3>5, OffsetUnique
  <2>2. CASE i \in 1..Len(index)
    <3>1. PICK a, l : Placed(i, a, l)
      BY <1>4, <2>2 DEF AllPlaced
    <3> QED
      BY <1>1, <2>1, <3>1
  <2>3. CASE i \notin 1..Len(index)
    <3>1. i = Len(index) + 1
      BY <1>4, <2>3 DEF PlacedNext
    <3> QED
      BY <1>3, <2>1, <3>1
  <2> QED
    BY <2>2, <2>3
<1> QED
  BY <1>1, <1>3, <1>4

\* What the steps that write keep of the order.
WriteInv == StoreInv /\ OrderInv /\ WholeInv

\* The numbers of a block are among the points appended so far.
LEMMA NumbersKnown ==
  ASSUME IInv, NEW id \in Segments, NEW k \in 1..Len(files[id])
  PROVE  /\ Len(files[id][k].numbers) \in Nat \ {0}
         /\ \A a \in 1..Len(files[id][k].numbers) :
              files[id][k].numbers[a] \in 1..Len(history)
<1>1. BlockOk(files[id][k])
  BY FileParts DEF BlocksTo
<1> DEFINE numbers == files[id][k].numbers
<1>2. numbers \in Seq(DOMAIN history) /\ Len(numbers) \in 1..Capacity
  BY <1>1 DEF BlockOk, IsNumbers
<1>3. DOMAIN history = 1..Len(history)
  BY DEF IInv
<1> HIDE DEF numbers
<1>4. Len(numbers) \in Nat \ {0} /\ \A a \in 1..Len(numbers) : numbers[a] \in 1..Len(history)
  BY <1>2, <1>3
<1> QED
  BY <1>4 DEF numbers

\* So are the numbers in the buffer.
LEMMA BufferKnown ==
  ASSUME IInv
  PROVE  /\ Len(buffer) \in Nat /\ Len(history) \in Nat
         /\ \A j \in 1..Len(buffer) : buffer[j] \in 1..Len(history)
<1>1. buffer \in Seq(DOMAIN history) /\ DOMAIN history = 1..Len(history) /\ Len(history) \in Nat
  BY DEF IInv
<1> QED
  BY <1>1

\* A block of the next state is an old one or the new one.
LEMMA GrownBlocks ==
  ASSUME IInv, NEW d \in Segments, NEW numbers, NEW whole, Grown(d, numbers, whole),
         NEW id \in Segments, NEW k \in 1..Len(files'[id])
  PROVE  \/ k \in 1..Len(files[id]) /\ files'[id][k] = files[id][k]
         \/ id = d /\ k = Len(files[d]) + 1
<1>1. Len(files[id]) \in Nat
  BY FileParts
<1>2. CASE id = d
  <2>1. Len(files'[id]) = Len(files[id]) + 1
    BY <1>2 DEF Grown
  <2>2. k \in 1..Len(files[id]) \/ k = Len(files[id]) + 1
    BY <1>1, <2>1
  <2> QED
    BY <1>2, <2>2 DEF Grown
<1>3. CASE id # d
  BY <1>3 DEF Grown
<1> QED
  BY <1>2, <1>3

\* A write keeps an entry for every block.
LEMMA WriteListed ==
  ASSUME IInv, NEW d \in Segments, NEW numbers, NEW whole, Grown(d, numbers, whole), AllListed
  PROVE  AllListed'
<1>1. ASSUME NEW id \in Segments, NEW k \in 1..Len(files'[id])
      PROVE  \E i : PlacedNext(i, id, k)
  <2>1. CASE k \in 1..Len(files[id])
    <3>1. PICK i : Placed(i, id, k)
      BY <2>1 DEF AllListed
    <3> QED
      BY <3>1, PlacedGrows
  <2>2. CASE k \notin 1..Len(files[id])
    BY <2>2, GrownBlocks, PlacedGrows
  <2> QED
    BY <2>1, <2>2
<1>2. ASSUME NEW id \in Segments, NEW k \in 1..Len(files'[id])
      PROVE  \E i : Placed(i, id, k)'
  <2>1. PICK i : PlacedNext(i, id, k)
    BY <1>1
  <2>2. Placed(i, id, k)'
    BY <2>1, PlacedNextIs
  <2> QED
    BY <2>2
<1> QED
  BY <1>2 DEF AllListed, Segments

\* A write keeps the numbers of every block in the order of the appends.
LEMMA WriteAscends ==
  ASSUME IInv, NEW d \in Segments, NEW numbers, NEW whole, Grown(d, numbers, whole),
         BlocksAscend, Ascending(numbers)
  PROVE  BlocksAscend'
<1>1. ASSUME NEW id \in Segments, NEW k \in 1..Len(files'[id])
      PROVE  Ascending(files'[id][k].numbers)
  <2>1. CASE k \in 1..Len(files[id]) /\ files'[id][k] = files[id][k]
    BY <2>1 DEF BlocksAscend
  <2>2. CASE id = d /\ k = Len(files[d]) + 1
    <3>1. files'[id][k].numbers = numbers
      BY <2>2 DEF Grown
    <3> QED
      BY <3>1
  <2> QED
    BY <2>1, <2>2, GrownBlocks
<1> QED
  BY <1>1 DEF BlocksAscend, Segments, Ascending

\* A write keeps a block for every entry.
LEMMA WritePlaced ==
  ASSUME IInv, NEW d \in Segments, NEW numbers, NEW whole, Grown(d, numbers, whole), AllPlaced
  PROVE  AllPlaced'
<1>1. ASSUME NEW i \in 1..Len(index') PROVE \E id, k : Placed(i, id, k)'
  <2>1. PICK id, k : PlacedNext(i, id, k)
    <3>1. CASE i \in 1..Len(index)
      <4>1. PICK id, k : Placed(i, id, k)
        BY <3>1 DEF AllPlaced
      <4> QED
        BY <4>1, PlacedGrows
    <3>2. CASE i \notin 1..Len(index)
      <4>1. i = Len(index) + 1
        BY <3>2 DEF Grown
      <4> QED
        BY <4>1, PlacedGrows
    <3> QED
      BY <3>1, <3>2
  <2>2. Placed(i, id, k)'
    BY <2>1, PlacedNextIs
  <2> QED
    BY <2>2
<1> QED
  BY <1>1 DEF AllPlaced

\* A write puts its block behind all others, as its numbers come from the buffer.
LEMMA WriteOrders ==
  ASSUME IInv, NEW d \in Segments, NEW whole, Grown(d, buffer, whole),
         AllPlaced, EntriesInOrder, BufferLast
  PROVE  EntriesInOrder'
<1>1. ASSUME NEW i, NEW j, NEW a, NEW b, NEW k, NEW l, PlacedNext(i, a, k), PlacedNext(j, b, l),
             i < j, files'[a][k].whole, files'[b][l].whole
      PROVE  Below(files'[a][k].numbers, files'[b][l].numbers)
  <2> DEFINE New(x, id, m) == x = Len(index) + 1 /\ id = d /\ m = Len(files[d]) + 1
  <2>1. (Placed(i, a, k) \/ New(i, a, k)) /\ (Placed(j, b, l) \/ New(j, b, l))
    BY <1>1, PlacedGrows
  <2>2. \A x, id, m : Placed(x, id, m) => files'[id][m] = files[id][m] /\ x \in 1..Len(index)
    BY DEF Placed, Grown
  <2>3. Len(index) \in Nat
    BY DEF IInv
  <2>4. Placed(i, a, k)
    BY <1>1, <2>1, <2>2, <2>3
  <2>5. CASE Placed(j, b, l)
    BY <1>1, <2>2, <2>4, <2>5 DEF EntriesInOrder
  <2>6. CASE New(j, b, l)
    <3>1. files'[b][l].numbers = buffer
      BY <2>6 DEF Grown
    <3>2. Below(files[a][k].numbers, buffer)
      <4>1. files'[a][k] = files[a][k]
        BY <2>2, <2>4
      <4>2. files[a][k].whole
        BY <1>1, <4>1
      <4>3. a \in Segments /\ k \in 1..Len(files[a])
        BY <2>4 DEF Placed
      <4> QED
        BY <4>2, <4>3 DEF BufferLast
    <3> QED
      BY <2>2, <2>4, <3>1, <3>2
  <2> QED
    BY <2>1, <2>5, <2>6
<1>2. ASSUME NEW i, NEW j, NEW a, NEW b, NEW k, NEW l, Placed(i, a, k)', Placed(j, b, l)',
             i < j, files'[a][k].whole, files'[b][l].whole
      PROVE  Below(files'[a][k].numbers, files'[b][l].numbers)
  BY <1>1, <1>2, PlacedNextIs
<1> QED
  BY <1>2 DEF EntriesInOrder, Below

\* What follows the new block is behind all others.
LEMMA WriteLast ==
  ASSUME IInv, NEW d \in Segments, NEW whole \in BOOLEAN, Grown(d, buffer, whole), BufferLast,
         whole => \A j \in 1..Len(buffer') : buffer'[j] \in Nat /\ buffer'[j] > Len(history),
         ~whole => buffer' = buffer
  PROVE  BufferLast'
<1>1. ASSUME NEW id \in Segments, NEW k \in 1..Len(files'[id]), files'[id][k].whole
      PROVE  Below(files'[id][k].numbers, buffer')
  <2>0. Len(history) \in Nat
    BY BufferKnown
  <2>1. CASE k \in 1..Len(files[id]) /\ files'[id][k] = files[id][k]
    <3>1. CASE whole
      <4>1. \A a \in 1..Len(files[id][k].numbers) : files[id][k].numbers[a] \in 1..Len(history)
        BY <2>1, NumbersKnown
      <4>2. \A j \in 1..Len(buffer') : buffer'[j] \in Nat /\ buffer'[j] > Len(history)
        BY <3>1
      <4>3. ASSUME NEW a \in 1..Len(files[id][k].numbers), NEW b \in 1..Len(buffer')
            PROVE  files[id][k].numbers[a] < buffer'[b]
        <5>1. PICK x, y : x = files[id][k].numbers[a] /\ y = buffer'[b]
          OBVIOUS
        <5>2. x \in 1..Len(history) /\ y \in Nat /\ y > Len(history)
          BY <4>1, <4>2, <5>1
        <5>3. x < y
          BY ONLY <2>0, <5>2
        <5> QED
          BY <5>1, <5>3
      <4>4. files'[id][k].numbers = files[id][k].numbers
        BY <2>1
      <4> QED
        BY <4>3, <4>4 DEF Below
    <3>2. CASE ~whole
      BY <1>1, <2>1, <3>2 DEF BufferLast
    <3> QED
      BY <3>1, <3>2
  <2>2. CASE id = d /\ k = Len(files[d]) + 1
    <3>1. files'[id][k].numbers = buffer /\ whole
      BY <1>1, <2>2 DEF Grown
    <3>2. \A j \in 1..Len(buffer) : buffer[j] \in 1..Len(history)
      BY BufferKnown
    <3> QED
      BY <2>0, <3>1, <3>2 DEF Below
  <2> QED
    BY <2>1, <2>2, GrownBlocks
<1> QED
  BY <1>1 DEF BufferLast, Segments, Below

\* A whole block leaves all blocks whole.
LEMMA WriteWhole ==
  ASSUME IInv, NEW d \in Segments, NEW numbers, Grown(d, numbers, TRUE),
         \A id \in Segments : \A k \in 1..Len(files[id]) : files[id][k].whole
  PROVE  \A id \in Segments : \A k \in 1..Len(files'[id]) : files'[id][k].whole
<1> TAKE id \in Segments
<1> TAKE k \in 1..Len(files'[id])
<1>1. CASE k \in 1..Len(files[id]) /\ files'[id][k] = files[id][k]
  BY <1>1
<1>2. CASE id = d /\ k = Len(files[d]) + 1
  <2>1. files'[id][k].whole = TRUE
    BY <1>2 DEF Grown
  <2> QED
    BY <2>1
<1> QED
  BY <1>1, <1>2, GrownBlocks

\* A new block, and what is in the buffer then.
LEMMA WriteStep ==
  ASSUME IInv, WriteInv, NEW whole \in BOOLEAN, IsNumbers(buffer), WriteBlock(buffer, whole),
         whole => damage' = damage /\ \A j \in 1..Len(buffer') : buffer'[j] \in Nat /\ buffer'[j] > Len(history),
         ~whole => buffer' = buffer /\ damage = "none" /\ damage' = "torn",
         Ascending(buffer')
  PROVE  WriteInv'
<1>1. PICK d \in Segments : Grown(d, buffer, whole)
  BY WriteGrows
<1>2. StoreInv /\ OrderInv /\ WholeInv
  BY DEF WriteInv
<1>3. StoreInv'
  <2>1. AllListed' /\ BlocksAscend'
    BY <1>1, <1>2, WriteListed, WriteAscends DEF StoreInv, BufferAscends
  <2>2. BufferAscends'
    BY DEF BufferAscends, Ascending
  <2> QED
    BY <2>1, <2>2 DEF StoreInv
<1>4. OrderInv'
  <2>1. CASE damage = "unlinked"
    BY <2>1 DEF OrderInv
  <2>2. CASE damage # "unlinked"
    <3>1. AllPlaced /\ EntriesInOrder /\ BufferLast
      BY <1>2, <2>2 DEF OrderInv
    <3>2. AllPlaced' /\ EntriesInOrder' /\ BufferLast'
      BY <1>1, <3>1, WritePlaced, WriteOrders, WriteLast
    <3> QED
      BY <3>2 DEF OrderInv
  <2> QED
    BY <2>1, <2>2
<1>5. WholeInv'
  <2>1. CASE damage' = "none"
    <3>1. damage = "none" /\ whole = TRUE
      BY <2>1
    <3>2. \A id \in Segments : \A k \in 1..Len(files'[id]) : files'[id][k].whole
      BY <1>1, <1>2, <3>1, WriteWhole DEF WholeInv
    <3> QED
      BY <3>2 DEF WholeInv, Segments
  <2>2. CASE damage' # "none"
    BY <2>2 DEF WholeInv
  <2> QED
    BY <2>1, <2>2
<1> QED
  BY <1>3, <1>4, <1>5 DEF WriteInv

-----------------------------------------------------------------------------
(* The order of the appends is kept *)

\* Without blocks and entries there is nothing to order.
LEMMA InitWrite == Init => WriteInv
<1> SUFFICES ASSUME Init PROVE WriteInv
  OBVIOUS
<1>1. Len(index) = 0 /\ Len(buffer) = 0 /\ \A id \in Segments : Len(files[id]) = 0
  BY DEF Init
<1>2. StoreInv
  BY <1>1 DEF StoreInv, AllListed, BlocksAscend, BufferAscends, Ascending
<1>3. AllPlaced /\ EntriesInOrder /\ BufferLast
  <2>1. AllPlaced
    BY <1>1 DEF AllPlaced
  <2>2. \A i, id, k : ~Placed(i, id, k)
    BY <1>1 DEF Placed
  <2>3. EntriesInOrder
    BY <2>2 DEF EntriesInOrder
  <2> QED
    BY <1>1, <2>1, <2>3 DEF BufferLast
<1>4. WholeInv
  BY <1>1 DEF WholeInv
<1> QED
  BY <1>2, <1>3, <1>4 DEF WriteInv, OrderInv

\* What does not depend on the buffer.
LEMMA SamePlaces ==
  ASSUME files' = files, index' = index
  PROVE  /\ AllListed => AllListed'
         /\ BlocksAscend => BlocksAscend'
         /\ AllPlaced => AllPlaced'
         /\ EntriesInOrder => EntriesInOrder'
         /\ damage' = damage /\ WholeInv => WholeInv'
<1>1. ASSUME NEW i, NEW id, NEW k PROVE Placed(i, id, k)' <=> Placed(i, id, k)
  BY DEF Placed, EntryIn, Entry
<1>2. AllListed => AllListed'
  BY <1>1 DEF AllListed, Segments
<1>3. BlocksAscend => BlocksAscend'
  BY DEF BlocksAscend, Segments, Ascending
<1>4. AllPlaced => AllPlaced'
  BY <1>1 DEF AllPlaced
<1>5. EntriesInOrder => EntriesInOrder'
  <2> SUFFICES ASSUME EntriesInOrder PROVE EntriesInOrder'
    OBVIOUS
  <2>1. ASSUME NEW i, NEW j, NEW a, NEW b, NEW k, NEW l, Placed(i, a, k)', Placed(j, b, l)', i < j,
               files'[a][k].whole, files'[b][l].whole
        PROVE  Below(files'[a][k].numbers, files'[b][l].numbers)
    <3>1. Placed(i, a, k) /\ Placed(j, b, l)
      BY <1>1, <2>1
    <3>2. files[a][k].whole /\ files[b][l].whole
      BY <2>1
    <3>3. Below(files[a][k].numbers, files[b][l].numbers)
      BY <2>1, <3>1, <3>2 DEF EntriesInOrder
    <3> QED
      BY <3>3
  <2> QED
    BY <2>1 DEF EntriesInOrder, Below
<1>6. damage' = damage /\ WholeInv => WholeInv'
  BY DEF WholeInv, Segments
<1> QED
  BY <1>2, <1>3, <1>4, <1>5, <1>6

\* The store of a step that does not write.
LEMMA UnchangedWrite ==
  ASSUME WriteInv, UNCHANGED store
  PROVE  WriteInv'
<1>1. files' = files /\ index' = index /\ buffer' = buffer /\ damage' = damage
  BY DEF store
<1>2. BufferAscends => BufferAscends'
  BY <1>1 DEF BufferAscends, Ascending
<1>3. BufferLast => BufferLast'
  BY <1>1 DEF BufferLast, Segments, Below
<1> QED
  BY <1>1, <1>2, <1>3, SamePlaces DEF WriteInv, StoreInv, OrderInv

\* An append, also one that finds the buffer full and flushes it, keeps the order.
LEMMA AppendWrites ==
  ASSUME IInv, WriteInv, NEW point \in Points, AppendPoint(point)
  PROVE  WriteInv'
<1>1. /\ Len(buffer) \in Nat /\ Len(history) \in Nat /\ buffer \in Seq(DOMAIN history)
      /\ \A j \in 1..Len(buffer) : buffer[j] \in 1..Len(history)
  BY BufferKnown DEF IInv
<1>2. Ascending(buffer)
  BY DEF WriteInv, StoreInv, BufferAscends
<1>3. damage' = damage
  BY DEF AppendPoint
<1>4. CASE BufferFull
  <2>1. WriteBlock(buffer, TRUE) /\ buffer' = <<Len(history) + 1>>
    BY <1>4 DEF AppendPoint
  <2>2. IsNumbers(buffer)
    <3>1. Len(buffer) >= Capacity /\ Len(buffer) <= Capacity /\ Capacity \in Nat \ {0}
      BY <1>4, QueryAssumption DEF BufferFull, IInv
    <3> QED
      BY <1>1, <3>1 DEF IsNumbers
  <2>3. Ascending(buffer') /\ \A j \in 1..Len(buffer') : buffer'[j] \in Nat /\ buffer'[j] > Len(history)
    <3>1. Len(buffer') = 1 /\ buffer'[1] = Len(history) + 1
      BY <2>1
    <3>2. \A j \in 1..Len(buffer') : j = 1
      BY <3>1
    <3> QED
      BY <1>1, <3>1, <3>2 DEF Ascending
  <2> QED
    BY <1>3, <2>1, <2>2, <2>3, WriteStep
<1>5. CASE ~BufferFull
  <2>1. buffer' = Append(buffer, Len(history) + 1) /\ files' = files /\ index' = index
    BY <1>5 DEF AppendPoint
  <2>2. /\ Len(buffer') = Len(buffer) + 1 /\ buffer'[Len(buffer) + 1] = Len(history) + 1
        /\ \A j \in 1..Len(buffer) : buffer'[j] = buffer[j]
    BY <1>1, <2>1
  <2>3. ASSUME NEW j \in 1..Len(buffer')
        PROVE  buffer'[j] = Len(history) + 1 \/ (j \in 1..Len(buffer) /\ buffer'[j] = buffer[j])
    <3>1. \A m \in Nat : j \in 1..(m + 1) => j \in 1..m \/ j = m + 1
      OBVIOUS
    <3>2. j \in 1..Len(buffer) \/ j = Len(buffer) + 1
      BY <1>1, <2>2, <3>1
    <3> QED
      BY <2>2, <3>2
  <2>4. Ascending(buffer')
    <3>1. ASSUME NEW a \in 1..Len(buffer'), NEW b \in 1..Len(buffer'), a < b
          PROVE  buffer'[a] < buffer'[b]
      <4>1. a \in 1..Len(buffer)
        BY <1>1, <2>2, <3>1
      <4>2. CASE b \in 1..Len(buffer)
        BY <1>2, <2>2, <3>1, <4>1, <4>2 DEF Ascending
      <4>3. CASE b \notin 1..Len(buffer)
        <5>1. buffer'[b] = Len(history) + 1 /\ buffer'[a] \in 1..Len(history)
          BY <1>1, <2>2, <2>3, <4>1, <4>3
        <5> QED
          BY <1>1, <5>1
      <4> QED
        BY <4>2, <4>3
    <3> QED
      BY <3>1 DEF Ascending
  <2>5. StoreInv'
    <3>1. BufferAscends'
      BY <2>4 DEF BufferAscends, Ascending
    <3> QED
      BY <2>1, <3>1, SamePlaces DEF WriteInv, StoreInv
  <2>6. ASSUME BufferLast PROVE BufferLast'
    <3>1. ASSUME NEW id \in Segments, NEW k \in 1..Len(files[id]), files[id][k].whole
          PROVE  Below(files[id][k].numbers, buffer')
      <4>1. Below(files[id][k].numbers, buffer)
        BY <2>6, <3>1 DEF BufferLast
      <4>2. \A a \in 1..Len(files[id][k].numbers) : files[id][k].numbers[a] \in 1..Len(history)
        BY NumbersKnown
      <4>3. ASSUME NEW a \in 1..Len(files[id][k].numbers), NEW j \in 1..Len(buffer')
            PROVE  files[id][k].numbers[a] < buffer'[j]
        <5>1. files[id][k].numbers[a] \in 1..Len(history)
          BY <4>2
        <5>2. CASE buffer'[j] = Len(history) + 1
          BY <1>1, <5>1, <5>2
        <5>3. CASE j \in 1..Len(buffer) /\ buffer'[j] = buffer[j]
          BY <4>1, <5>3 DEF Below
        <5> QED
          BY <2>3, <5>2, <5>3
      <4> QED
        BY <4>3 DEF Below
    <3> QED
      BY <2>1, <3>1 DEF BufferLast, Segments, Below
  <2>7. OrderInv'
    BY <1>3, <2>1, <2>6, SamePlaces DEF WriteInv, OrderInv
  <2>8. WholeInv'
    BY <1>3, <2>1, SamePlaces DEF WriteInv
  <2> QED
    BY <2>5, <2>7, <2>8 DEF WriteInv
<1> QED
  BY <1>4, <1>5

\* The buffer has as many numbers as a block can have.
LEMMA BufferNumbers ==
  ASSUME IInv, buffer # <<>>
  PROVE  IsNumbers(buffer)
<1>1. buffer \in Seq(DOMAIN history) /\ Len(buffer) <= Capacity /\ Capacity \in Nat \ {0}
  BY QueryAssumption DEF IInv
<1>2. Len(buffer) \in Nat /\ Len(buffer) # 0
  BY <1>1
<1> QED
  BY <1>1, <1>2 DEF IsNumbers

\* tsedge_flush keeps the order.
LEMMA FlushWrites ==
  ASSUME IInv, WriteInv, Flush
  PROVE  WriteInv'
<1>1. WriteBlock(buffer, TRUE) /\ buffer' = <<>> /\ damage' = damage /\ buffer # <<>>
  BY DEF Flush
<1>2. Ascending(buffer') /\ \A j \in 1..Len(buffer') : buffer'[j] \in Nat /\ buffer'[j] > Len(history)
  BY <1>1 DEF Ascending
<1>3. IsNumbers(buffer)
  BY <1>1, BufferNumbers
<1> QED
  BY <1>1, <1>2, <1>3, WriteStep

\* A crash within the payload of a block leaves a block that is not whole, which takes no part
\* in the order, and its points in the buffer.
LEMMA CrashWrites ==
  ASSUME IInv, WriteInv, CrashInBlock
  PROVE  WriteInv'
<1>1. WriteBlock(buffer, FALSE) /\ buffer' = buffer /\ damage = "none" /\ damage' = "torn" /\ buffer # <<>>
  BY DEF CrashInBlock
<1>2. Ascending(buffer')
  BY <1>1 DEF WriteInv, StoreInv, BufferAscends
<1>3. IsNumbers(buffer)
  BY <1>1, BufferNumbers
<1> QED
  BY <1>1, <1>2, <1>3, WriteStep

\* A deletion that unlinks a file and fails then leaves entries without a block; nothing is
\* said of the order after that.
LEMMA DeletionWrites ==
  ASSUME IInv, WriteInv, DeletionFails
  PROVE  WriteInv'
<1>1. /\ index' = index /\ buffer' = buffer /\ damage' = "unlinked"
      /\ \A id \in Segments : files'[id] = files[id] \/ files'[id] = <<>>
  BY DEF DeletionFails
<1>2. \A id \in Segments : \A k \in 1..Len(files'[id]) : files'[id] = files[id]
  <2>1. Len(<<>>) = 0
    OBVIOUS
  <2> QED
    BY <1>1, <2>1
<1>3. AllListed'
  <2>1. ASSUME NEW id \in Segments, NEW k \in 1..Len(files'[id]) PROVE \E i : Placed(i, id, k)'
    <3>1. files'[id] = files[id]
      BY <1>2
    <3>2. PICK i : Placed(i, id, k)
      BY <3>1 DEF WriteInv, StoreInv, AllListed
    <3>3. PlacedNext(i, id, k)
      BY <1>1, <3>1, <3>2 DEF Placed, PlacedNext, EntryIn
    <3>4. Placed(i, id, k)'
      BY <3>3, PlacedNextIs
    <3> QED
      BY <3>4
  <2> QED
    BY <2>1 DEF AllListed, Segments
<1>4. BlocksAscend'
  BY <1>2 DEF WriteInv, StoreInv, BlocksAscend, Segments, Ascending
<1>5. BufferAscends'
  BY <1>1 DEF WriteInv, StoreInv, BufferAscends, Ascending
<1> QED
  BY <1>1, <1>3, <1>4, <1>5 DEF WriteInv, StoreInv, OrderInv, WholeInv

\* Every step keeps the order of what is stored.
LEMMA StepWrites ==
  ASSUME IInv, WriteInv, [Next]_vars
  PROVE  WriteInv'
<1>1. CASE \E point \in Points : AppendPoint(point)
  BY <1>1, AppendWrites
<1>2. CASE Flush
  BY <1>2, FlushWrites
<1>3. CASE CrashInBlock
  BY <1>3, CrashWrites
<1>4. CASE DeletionFails
  BY <1>4, DeletionWrites
<1>5. CASE \/ \E client \in Clients, range \in ReadRanges : StartRead(client, range[1], range[2])
           \/ ReadBlock \/ DeliverDecoded \/ BlocksDone \/ ReadBuffer \/ BufferDone
           \/ CallbackContinues \/ CallbackStops \/ EndRead
  <2>1. UNCHANGED store
    BY <1>5 DEF StartRead, ReadBlock, DeliverDecoded, BlocksDone, ReadBuffer, BufferDone,
                CallbackContinues, CallbackStops, EndRead
  <2> QED
    BY <2>1, UnchangedWrite
<1>6. CASE UNCHANGED vars
  <2>1. UNCHANGED store
    BY <1>6 DEF vars
  <2> QED
    BY <2>1, UnchangedWrite
<1> QED
  BY <1>1, <1>2, <1>3, <1>4, <1>5, <1>6 DEF Next

-----------------------------------------------------------------------------
(* What a read finds *)

\* The bounds in a header are timestamps of the block, and hold all of them.
LEMMA HeaderBounds ==
  ASSUME history \in Seq(Points), NEW block, BlockOk(block)
  PROVE  /\ \A a \in 1..Len(block.numbers) :
              /\ Timestamp(block.numbers[a]) \in Ints
              /\ block.header.min <= Timestamp(block.numbers[a])
              /\ Timestamp(block.numbers[a]) <= block.header.max
         /\ \E a \in 1..Len(block.numbers) : block.header.min = Timestamp(block.numbers[a])
         /\ \E a \in 1..Len(block.numbers) : block.header.max = Timestamp(block.numbers[a])
<1>1. PICK numbers : numbers = block.numbers
  OBVIOUS
<1>2. PICK p : p = PointsOf(numbers)
  OBVIOUS
<1>3. IsNumbers(numbers) /\ block.header = Header(p)
  BY <1>1, <1>2, BlockStreams DEF BlockOk
<1>4. /\ p \in Seq(Ints \X Words) /\ DOMAIN p = 1..Len(numbers) /\ Len(numbers) \in Nat \ {0}
      /\ p = [a \in DOMAIN numbers |-> history[numbers[a]]]
  BY <1>2, <1>3, NumberedPoints DEF PointsOf
<1> DEFINE S == {p[a][1] : a \in DOMAIN p}
<1>5. \A a \in 1..Len(numbers) : p[a][1] = Timestamp(numbers[a]) /\ p[a][1] \in Ints
  <2>1. DOMAIN numbers = 1..Len(numbers)
    BY <1>3 DEF IsNumbers
  <2>2. \A a \in DOMAIN p : p[a] \in Ints \X Words
    BY <1>4
  <2> QED
    BY <1>4, <2>1, <2>2 DEF Timestamp
<1>6. S \subseteq Ints /\ S # {}
  <2>1. 1 \in DOMAIN p
    BY <1>4
  <2>2. \A a \in DOMAIN p : p[a][1] \in Ints
    BY <1>4, <1>5
  <2>3. p[1][1] \in S
    BY <2>1
  <2> QED
    BY <2>2, <2>3
<1>7. block.header.min = Min(S) /\ block.header.max = Max(S)
  BY <1>3 DEF Header
<1> HIDE DEF S
<1>8. /\ Min(S) \in S /\ \A y \in S : Min(S) <= y
      /\ Max(S) \in S /\ \A y \in S : Max(S) >= y
  BY <1>6, LeastTime, GreatestTime
<1>9. Ints \subseteq Int
  BY Halves DEF Ints
<1>10. \A y \in S : y <= Max(S)
  BY <1>6, <1>8, <1>9
<1>11. \A a \in 1..Len(numbers) : p[a][1] \in S
  BY <1>4 DEF S
<1>12. \A y \in S : \E a \in 1..Len(numbers) : y = p[a][1]
  BY <1>4 DEF S
<1> QED
  BY <1>1, <1>5, <1>7, <1>8, <1>10, <1>11, <1>12

\* The timestamps of some numbers, and which of them are in the range.
LEMMA HitsOf ==
  ASSUME NEW m \in Nat, NEW times, times = [i \in 1..m |-> times[i]], NEW from, NEW to
  PROVE  RightHits(times, from, to, Hits(times, from, to), m)
<1>1. Len(times) = m
  OBVIOUS
<1>2. RightHits(times, from, to, Hits(times, from, to), Len(times))
  BY <1>1, HitsAre
<1> QED
  BY ONLY <1>1, <1>2

\* The numbers in a range are those whose timestamps are in it.
LEMMA InRangeAre ==
  ASSUME NEW numbers \in Seq(Nat), NEW from, NEW to
  PROVE  Range(InRange(numbers, from, to)) =
           {n \in Range(numbers) : Within(Timestamp(n), from, to)}
<1>1. PICK m \in Nat : m = Len(numbers) /\ DOMAIN numbers = 1..m
  OBVIOUS
<1>2. PICK times : times = [i \in 1..m |-> Timestamp(numbers[i])]
  OBVIOUS
<1>3. PICK h : h = Hits(times, from, to)
  OBVIOUS
<1>4. /\ h \in Seq(1..m)
      /\ \A i \in 1..m : Within(times[i], from, to) <=> \E a \in 1..Len(h) : h[a] = i
  <2>1. times = [i \in 1..m |-> times[i]]
    BY <1>2
  <2>2. RightHits(times, from, to, Hits(times, from, to), m)
    BY <2>1, HitsOf
  <2>3. RightHits(times, from, to, h, m)
    BY <1>3, <2>2
  <2> QED
    BY <2>3 DEF RightHits
<1>5. InRange(numbers, from, to) = [a \in DOMAIN h |-> numbers[h[a]]]
  BY <1>1, <1>2, <1>3 DEF InRange
<1>6. DOMAIN h = 1..Len(h) /\ \A a \in 1..Len(h) : h[a] \in 1..m
  BY <1>4
<1>7. Range(InRange(numbers, from, to)) = {numbers[h[a]] : a \in 1..Len(h)}
  <2>1. PICK r : r = InRange(numbers, from, to)
    OBVIOUS
  <2>2. DOMAIN r = 1..Len(h) /\ \A a \in 1..Len(h) : r[a] = numbers[h[a]]
    BY <1>5, <1>6, <2>1
  <2>3. Range(r) = {r[a] : a \in 1..Len(h)}
    BY <2>2 DEF Range
  <2>4. {r[a] : a \in 1..Len(h)} = {numbers[h[a]] : a \in 1..Len(h)}
    BY <2>2
  <2> QED
    BY ONLY <2>1, <2>3, <2>4
<1>8. Range(numbers) = {numbers[i] : i \in 1..m}
  BY <1>1 DEF Range
<1>9. \A i \in 1..m : times[i] = Timestamp(numbers[i])
  BY <1>2
<1>10. ASSUME NEW a \in 1..Len(h)
       PROVE  numbers[h[a]] \in Range(numbers) /\ Within(Timestamp(numbers[h[a]]), from, to)
  BY <1>4, <1>6, <1>8, <1>9
<1>11. ASSUME NEW n \in Range(numbers), Within(Timestamp(n), from, to)
       PROVE  \E a \in 1..Len(h) : numbers[h[a]] = n
  <2>1. PICK i \in 1..m : n = numbers[i]
    BY <1>8
  <2>2. Within(times[i], from, to)
    BY <1>9, <1>11, <2>1
  <2>3. PICK a \in 1..Len(h) : h[a] = i
    BY <1>4, <2>2
  <2> QED
    BY <2>1, <2>3
<1> QED
  BY <1>7, <1>10, <1>11

Items == [number : Nat, point : Points \union Garbage]

Rising(items) ==
  \A a, b \in 1..Len(items) :
    a < b /\ items[b].number # 0 => items[a].number < items[b].number

In(items, n) == \E a \in 1..Len(items) : items[a].number = n

\* What is taken from a decoded block: its points in the range, in their order.
Matched(items, numbers) ==
  /\ items \in Seq(Items)
  /\ \A a \in 1..Len(items) : \E i \in 1..Len(numbers) :
       items[a].number = numbers[i] /\ items[a].point = history[numbers[i]]
  /\ \A i \in 1..Len(numbers) :
       Within(Timestamp(numbers[i]), read.from, read.to) => In(items, numbers[i])
  /\ Ascending(numbers) => Rising(items)

\* That is what Matching gives for the points of a block.
LEMMA MatchingAre ==
  ASSUME history \in Seq(Points), NEW numbers, IsNumbers(numbers), NEW items,
         items = Matching(numbers, PointsOf(numbers))
  PROVE  Matched(items, numbers)
<1>1. PICK m \in Nat : m = Len(numbers) /\ DOMAIN numbers = 1..m
  BY DEF IsNumbers
<1>2. PICK p : p = PointsOf(numbers)
  OBVIOUS
<1>3. /\ p \in Seq(Points) /\ DOMAIN p = 1..m
      /\ \A i \in 1..m : p[i] = history[numbers[i]] /\ p[i] \in Points
  <2>1. p \in Seq(Points) /\ DOMAIN p = 1..m
    BY <1>1, <1>2, NumberedPoints
  <2> QED
    BY <1>1, <1>2, <2>1 DEF PointsOf
<1>4. \A i \in 1..m : numbers[i] \in Nat
  <2>1. DOMAIN history \subseteq Nat
    OBVIOUS
  <2> QED
    BY <1>1, <2>1 DEF IsNumbers
<1>5. PICK times : times = [i \in 1..m |-> p[i][1]]
  OBVIOUS
<1>6. PICK h : h = Hits(times, read.from, read.to)
  OBVIOUS
<1>7. /\ h \in Seq(1..m) /\ Ascending(h)
      /\ \A i \in 1..m : Within(times[i], read.from, read.to) <=> \E a \in 1..Len(h) : h[a] = i
  <2>1. times = [i \in 1..m |-> times[i]]
    BY <1>5
  <2>2. RightHits(times, read.from, read.to, Hits(times, read.from, read.to), m)
    BY <2>1, HitsOf
  <2>3. RightHits(times, read.from, read.to, h, m)
    BY <1>6, <2>2
  <2> QED
    BY <2>3 DEF RightHits
<1>8. items = [a \in DOMAIN h |-> [number |-> numbers[h[a]], point |-> p[h[a]]]]
  BY <1>2, <1>3, <1>5, <1>6 DEF Matching
<1>9. DOMAIN h = 1..Len(h) /\ Len(h) \in Nat /\ \A a \in 1..Len(h) : h[a] \in 1..m
  BY <1>7
<1>10. /\ items \in Seq(Items) /\ Len(items) = Len(h)
       /\ \A a \in 1..Len(h) : items[a].number = numbers[h[a]] /\ items[a].point = p[h[a]]
  <2>1. \A a \in 1..Len(h) : [number |-> numbers[h[a]], point |-> p[h[a]]] \in Items
    BY <1>3, <1>4, <1>9 DEF Items
  <2> QED
    BY <1>8, <1>9, <2>1
<1>11. \A a \in 1..Len(items) : \E i \in 1..m :
         items[a].number = numbers[i] /\ items[a].point = history[numbers[i]]
  <2>1. ASSUME NEW a \in 1..Len(h)
        PROVE  h[a] \in 1..m /\ items[a].number = numbers[h[a]] /\ items[a].point = history[numbers[h[a]]]
    BY <1>3, <1>9, <1>10
  <2> QED
    BY <1>10, <2>1
<1>12. ASSUME NEW i \in 1..m, Within(Timestamp(numbers[i]), read.from, read.to)
       PROVE  In(items, numbers[i])
  <2>1. times[i] = Timestamp(numbers[i])
    BY <1>3, <1>5 DEF Timestamp
  <2>2. PICK a \in 1..Len(h) : h[a] = i
    BY <1>7, <1>12, <2>1
  <2> QED
    BY <1>10, <2>2 DEF In
<1>13. Ascending(numbers) => Rising(items)
  <2>1. ASSUME Ascending(numbers), NEW a \in 1..Len(h), NEW b \in 1..Len(h), a < b
        PROVE  items[a].number < items[b].number
    <3>1. h[a] < h[b] /\ h[a] \in 1..m /\ h[b] \in 1..m
      BY <1>7, <1>9, <2>1 DEF Ascending
    <3>2. numbers[h[a]] < numbers[h[b]]
      BY <1>1, <2>1, <3>1 DEF Ascending
    <3> QED
      BY <1>10, <3>2
  <2> QED
    BY <1>10, <2>1 DEF Rising
<1> QED
  BY <1>1, <1>10, <1>11, <1>12, <1>13 DEF Matched

\* What is taken from a block that other bytes have completed has no number.
LEMMA ForeignItems ==
  ASSUME NEW decoded \in Seq(Garbage), NEW items,
         items = Matching([i \in DOMAIN decoded |-> 0], decoded)
  PROVE  items \in Seq(Items) /\ \A a \in 1..Len(items) : items[a].number = 0
<1>1. PICK m \in Nat : m = Len(decoded) /\ DOMAIN decoded = 1..m
  OBVIOUS
<1>2. PICK times : times = [i \in 1..m |-> decoded[i][1]]
  OBVIOUS
<1>3. PICK h : h = Hits(times, read.from, read.to)
  OBVIOUS
<1>4. h \in Seq(1..m)
  <2>1. times = [i \in 1..m |-> times[i]]
    BY <1>2
  <2>2. RightHits(times, read.from, read.to, Hits(times, read.from, read.to), m)
    BY <2>1, HitsOf
  <2> QED
    BY <1>3, <2>2 DEF RightHits
<1>5. DOMAIN h = 1..Len(h) /\ Len(h) \in Nat /\ \A a \in 1..Len(h) : h[a] \in 1..m
  BY <1>4
<1>6. items = [a \in 1..Len(h) |-> [number |-> 0, point |-> decoded[h[a]]]]
  <2>1. items = [a \in DOMAIN h |-> [number |-> [i \in 1..m |-> 0][h[a]], point |-> decoded[h[a]]]]
    BY <1>1, <1>2, <1>3 DEF Matching
  <2> QED
    BY <1>5, <2>1
<1>7. \A a \in 1..Len(h) : decoded[h[a]] \in Garbage
  BY <1>1, <1>5
<1>8. \A a \in 1..Len(h) : [number |-> 0, point |-> decoded[h[a]]] \in Items
  BY <1>7 DEF Items
<1>9. PICK n \in Nat : n = Len(h)
  BY <1>5
<1>10. items \in Seq(Items) /\ Len(items) = n
  BY <1>6, <1>8, <1>9
<1> QED
  BY <1>6, <1>9, <1>10

\* Point n is in the whole block of entry i, or at place j of the buffer.
InBlock(i, n) ==
  \E id, k : /\ Placed(i, id, k) /\ files[id][k].whole
             /\ \E a \in 1..Len(files[id][k].numbers) : files[id][k].numbers[a] = n

InBuffer(j, n) == j \in 1..Len(buffer) /\ buffer[j] = n

\* What Readable lists of one entry.
NumbersOf(entry) ==
  IF HasBlock(entry) /\ BlockAt(entry).whole THEN BlockAt(entry).numbers ELSE <<>>

\* What can be read is in a whole block, or in the buffer.
LEMMA ReadableAre ==
  ASSUME IInv, AllListed
  PROVE  /\ Readable \in Seq(DOMAIN history)
         /\ \A n \in Range(Readable) : (\E i : InBlock(i, n)) \/ (\E j : InBuffer(j, n))
<1>1. PICK q : q = [i \in DOMAIN index |-> NumbersOf(index[i])]
  OBVIOUS
<1>2. DOMAIN index = 1..Len(index) /\ Len(index) \in Nat /\ buffer \in Seq(DOMAIN history)
  BY DEF IInv
<1>3. Readable = FlattenSeq(q) \o buffer
  BY <1>1 DEF Readable, NumbersOf
<1>4. ASSUME NEW i \in 1..Len(index)
      PROVE  /\ q[i] \in Seq(DOMAIN history)
             /\ \A n \in Range(q[i]) : \E l : InBlock(l, n)
  <2>1. q[i] = NumbersOf(index[i])
    BY <1>1, <1>2
  <2>2. CASE HasBlock(index[i]) /\ BlockAt(index[i]).whole
    <3>1. PICK id \in Segments : \E k \in 1..Len(files[id]) :
             BlockAt(index[i]) = files[id][k] /\ BlockOk(files[id][k])
      BY <2>2, FoundBlock
    <3>2. PICK k \in 1..Len(files[id]) : BlockAt(index[i]) = files[id][k] /\ BlockOk(files[id][k])
      BY <3>1
    <3>3. PICK numbers : numbers = files[id][k].numbers
      OBVIOUS
    <3>4. q[i] = numbers /\ numbers \in Seq(DOMAIN history)
      BY <2>1, <2>2, <3>2, <3>3 DEF NumbersOf, BlockOk, IsNumbers
    <3>5. PICK l : Placed(l, id, k)
      BY DEF AllListed
    <3>6. files[id][k].whole
      BY <2>2, <3>2
    <3>7. ASSUME NEW n \in Range(numbers) PROVE InBlock(l, n)
      <4>1. PICK a \in 1..Len(numbers) : numbers[a] = n
        BY <3>4 DEF Range
      <4> QED
        BY <3>3, <3>5, <3>6, <4>1 DEF InBlock
    <3> QED
      BY <3>4, <3>7
  <2>3. CASE ~(HasBlock(index[i]) /\ BlockAt(index[i]).whole)
    <3>1. q[i] = <<>>
      BY <2>1, <2>3 DEF NumbersOf
    <3> QED
      BY <3>1, RangeEmpty
  <2> QED
    BY <2>2, <2>3
<1>5. q \in Seq(Seq(DOMAIN history)) /\ Len(q) = Len(index)
  BY <1>1, <1>2, <1>4
<1>6. /\ FlattenSeq(q) \in Seq(DOMAIN history)
      /\ Range(FlattenSeq(q)) = UNION {Range(q[i]) : i \in 1..Len(q)}
  BY <1>5, FlattenRange
<1>7. Readable \in Seq(DOMAIN history)
  BY <1>2, <1>3, <1>6, ConcatProperties
<1>8. Range(Readable) = Range(FlattenSeq(q)) \union Range(buffer)
  BY <1>2, <1>3, <1>6, RangeConcat
<1>9. ASSUME NEW n \in Range(Readable) PROVE (\E i : InBlock(i, n)) \/ (\E j : InBuffer(j, n))
  <2>1. CASE n \in Range(FlattenSeq(q))
    <3>1. PICK i \in 1..Len(index) : n \in Range(q[i])
      BY <1>5, <1>6, <2>1
    <3> QED
      BY <1>4, <3>1
  <2>2. CASE n \in Range(buffer)
    <3>1. PICK j \in 1..Len(buffer) : buffer[j] = n
      BY <1>2, <2>2 DEF Range
    <3> QED
      BY <3>1 DEF InBuffer
  <2> QED
    BY <1>8, <1>9, <2>1, <2>2
<1> QED
  BY <1>7, <1>9

-----------------------------------------------------------------------------
(* The invariant of a read *)

ReadRecords ==
  [phase : {"loop", "callback", "done"}, loop : {"blocks", "buffer"}, client : Clients,
   from : Ints, to : Ints, next : Nat \ {0}, pending : Seq(Items), delivered : Seq(Items),
   stopped : BOOLEAN, result : {"ok", "error"}, due : SUBSET Nat]

\* t is the read in its callback, which has got the points in done.
Delivering(t, next, pending, done) ==
  t = [read EXCEPT !.phase = "callback", !.next = next, !.pending = pending, !.delivered = done]

\* A read that delivers a point is a read still.
LEMMA DeliveredRecord ==
  ASSUME read \in ReadRecords, NEW next \in Nat \ {0}, NEW pending \in Seq(Items), NEW done \in Seq(Items),
         NEW t, Delivering(t, next, pending, done)
  PROVE  /\ t \in ReadRecords /\ t.phase = "callback" /\ t.loop = read.loop /\ t.next = next
         /\ t.pending = pending /\ t.delivered = done /\ t.due = read.due
         /\ t.from = read.from /\ t.to = read.to
BY DEF ReadRecords, Delivering

\* The read r comes to point n yet.
Ahead(r, n) ==
  \/ r.loop = "blocks" /\ ((\E i : i >= r.next /\ InBlock(i, n)) \/ (\E j : InBuffer(j, n)))
  \/ r.loop = "buffer" /\ \E j : j >= r.next /\ InBuffer(j, n)

\* An item is a point that was appended, or one of the block that other bytes completed.
Right(item) ==
  \/ item.number \in 1..Len(history) /\ item.point = history[item.number]
  \/ item.number = 0 /\ torn # Corrupt

Genuine(r) ==
  /\ \A a \in 1..Len(r.delivered) : Right(r.delivered[a])
  /\ \A a \in 1..Len(r.pending) : Right(r.pending[a])

\* The place of the loops; the last point delivered from the buffer is before
\* what the loop over the buffer has left.
PlaceOk(r) ==
  /\ r.loop = "blocks" => r.next <= Len(index) + 1
  /\ r.loop = "buffer" => r.pending = <<>>
  /\ r.phase = "callback" =>
       /\ Len(r.delivered) # 0
       /\ r.loop = "buffer" =>
            \A n : Ahead(r, n) => r.delivered[Len(r.delivered)].number < n

\* Nothing that is due gets lost.
DueOk(r) ==
  \A n \in r.due :
    /\ n \in 1..Len(history) /\ Within(Timestamp(n), r.from, r.to)
    /\ In(r.delivered, n) \/ In(r.pending, n) \/ Ahead(r, n)

EndOk(r) ==
  r.result = "ok" /\ ~(r.client = "app" /\ r.stopped) => \A n \in r.due : In(r.delivered, n)

\* Delivered, pending and ahead are in the order of the appends.
AheadOk(r) ==
  /\ Rising(r.pending)
  /\ \A a \in 1..Len(r.delivered), b \in 1..Len(r.pending) :
       r.pending[b].number # 0 => r.delivered[a].number < r.pending[b].number
  /\ \A n : Ahead(r, n) =>
       /\ \A a \in 1..Len(r.delivered) : r.delivered[a].number < n
       /\ \A a \in 1..Len(r.pending) : r.pending[a].number < n

OrderOk(r) == Rising(r.delivered) /\ (r.phase # "done" => AheadOk(r))

ReadRight(r) ==
  /\ r \in ReadRecords /\ Genuine(r)
  /\ r.phase # "done" => PlaceOk(r) /\ DueOk(r)
  /\ r.phase = "done" => EndOk(r)
  /\ damage # "unlinked" => OrderOk(r)

ReadInv == read.phase = "none" \/ ReadRight(read)

\* The items t are the items s and x behind them.
Extended(s, x, t) ==
  /\ t \in Seq(Items) /\ Len(s) \in Nat /\ Len(t) = Len(s) + 1 /\ t[Len(t)] = x
  /\ \A a \in 1..Len(t) : (a \in 1..Len(s) /\ t[a] = s[a]) \/ (a = Len(s) + 1 /\ t[a] = x)
  /\ \A n : In(t, n) <=> In(s, n) \/ x.number = n
  /\ Rising(s) /\ (x.number # 0 => \A a \in 1..Len(s) : s[a].number < x.number) => Rising(t)

\* The items t are the items s without the first one, x.
Shortened(s, x, t) ==
  /\ t \in Seq(Items) /\ x \in Items /\ 1 \in 1..Len(s) /\ x = s[1]
  /\ \A a \in 1..Len(t) : a + 1 \in 1..Len(s) /\ t[a] = s[a + 1]
  /\ \A n : In(s, n) => In(t, n) \/ x.number = n
  /\ Rising(s) => Rising(t) /\ \A a \in 1..Len(t) : t[a].number # 0 => x.number < t[a].number

\* One more item.
LEMMA ItemAppend ==
  ASSUME NEW s \in Seq(Items), NEW x \in Items, NEW t, t = Append(s, x)
  PROVE  Extended(s, x, t)
<1>1. /\ t \in Seq(Items) /\ Len(s) \in Nat /\ Len(t) = Len(s) + 1 /\ t[Len(s) + 1] = x
      /\ \A a \in 1..Len(s) : t[a] = s[a]
  BY AppendProperties
<1>2. ASSUME NEW a \in 1..Len(t)
      PROVE  (a \in 1..Len(s) /\ t[a] = s[a]) \/ (a = Len(s) + 1 /\ t[a] = x)
  <2>1. a \in 1..Len(s) \/ a = Len(s) + 1
    BY <1>1
  <2> QED
    BY <1>1, <2>1
<1>3. \A a \in 1..Len(s) : a \in 1..Len(t)
  BY <1>1
<1>4. Len(s) + 1 \in 1..Len(t)
  BY <1>1
<1>5. \A n : In(t, n) <=> In(s, n) \/ x.number = n
  BY <1>1, <1>2, <1>3, <1>4 DEF In
<1>6. ASSUME Rising(s), x.number # 0 => \A a \in 1..Len(s) : s[a].number < x.number PROVE Rising(t)
  <2>1. ASSUME NEW a \in 1..Len(t), NEW b \in 1..Len(t), a < b, t[b].number # 0
        PROVE  t[a].number < t[b].number
    <3>1. a \in 1..Len(s) /\ t[a] = s[a]
      BY <1>1, <1>2, <2>1
    <3>2. CASE b \in 1..Len(s) /\ t[b] = s[b]
      BY <1>6, <2>1, <3>1, <3>2 DEF Rising
    <3>3. CASE t[b] = x
      BY <1>6, <2>1, <3>1, <3>3
    <3> QED
      BY <1>2, <3>2, <3>3
  <2> QED
    BY <2>1 DEF Rising
<1> QED
  BY <1>1, <1>2, <1>5, <1>6 DEF Extended

\* One item less.
LEMMA ItemTail ==
  ASSUME NEW s \in Seq(Items), s # <<>>, NEW t, t = Tail(s), NEW x, x = Head(s)
  PROVE  Shortened(s, x, t)
<1>1. PICK m \in Nat : Len(s) = m + 1
  <2>1. Len(s) \in Nat /\ Len(s) # 0
    OBVIOUS
  <2>2. Len(s) - 1 \in Nat /\ Len(s) = (Len(s) - 1) + 1
    BY <2>1
  <2> QED
    BY <2>2
<1>2. t \in Seq(Items) /\ Len(t) = m /\ \A a \in 1..m : t[a] = s[a + 1]
  BY <1>1, HeadTailProperties
<1>3. x = s[1] /\ 1 \in 1..Len(s) /\ x \in Items
  BY <1>1, HeadTailProperties
<1>4. \A a \in 1..Len(t) : a + 1 \in 1..Len(s) /\ t[a] = s[a + 1]
  BY <1>1, <1>2
<1>5. ASSUME NEW n, In(s, n) PROVE In(t, n) \/ x.number = n
  <2>1. PICK a \in 1..(m + 1) : s[a].number = n
    BY <1>1, <1>5 DEF In
  <2>2. CASE a = 1
    BY <1>3, <2>1, <2>2
  <2>3. CASE a # 1
    <3>1. PICK b \in 1..m : a = b + 1
      <4>1. a - 1 \in 1..m /\ a = (a - 1) + 1
        BY <2>3
      <4> QED
        BY <4>1
    <3>2. t[b].number = n
      BY <1>2, <2>1, <3>1
    <3> QED
      BY <1>2, <3>2 DEF In
  <2> QED
    BY <2>2, <2>3
<1>6. ASSUME Rising(s) PROVE Rising(t) /\ \A a \in 1..Len(t) : t[a].number # 0 => x.number < t[a].number
  <2>1. ASSUME NEW a \in 1..Len(t), NEW b \in 1..Len(t), a < b, t[b].number # 0 PROVE t[a].number < t[b].number
    <3>1. a + 1 < b + 1 /\ a + 1 \in 1..Len(s) /\ b + 1 \in 1..Len(s)
      BY <1>4, <2>1
    <3>2. s[a + 1].number < s[b + 1].number
      BY <1>4, <1>6, <2>1, <3>1 DEF Rising
    <3> QED
      BY <1>4, <3>2
  <2>2. ASSUME NEW a \in 1..Len(t), t[a].number # 0 PROVE x.number < t[a].number
    <3>1. 1 < a + 1 /\ a + 1 \in 1..Len(s)
      BY <1>4
    <3>2. s[1].number < s[a + 1].number
      BY <1>3, <1>4, <1>6, <2>2, <3>1 DEF Rising
    <3> QED
      BY <1>3, <1>4, <3>2
  <2> QED
    BY <2>1, <2>2 DEF Rising
<1> QED
  BY <1>2, <1>3, <1>4, <1>5, <1>6 DEF Shortened

\* A state that keeps the store keeps what is said of a read.
LEMMA ReadRightKept ==
  ASSUME UNCHANGED store, NEW t, ReadRight(t)
  PROVE  ReadRight(t)'
<1>1. /\ history' = history /\ files' = files /\ index' = index /\ buffer' = buffer
      /\ damage' = damage /\ torn' = torn
  BY DEF store
<1>2. ASSUME NEW i, NEW n PROVE InBlock(i, n)' <=> InBlock(i, n)
  BY <1>1 DEF InBlock, Placed, EntryIn, Entry
<1>3. ASSUME NEW j, NEW n PROVE InBuffer(j, n)' <=> InBuffer(j, n)
  BY <1>1 DEF InBuffer
<1>4. ASSUME NEW n PROVE Ahead(t, n)' <=> Ahead(t, n)
  BY <1>2, <1>3 DEF Ahead
<1>5. ASSUME NEW item PROVE Right(item)' <=> Right(item)
  BY <1>1 DEF Right
<1>6. Genuine(t) => Genuine(t)'
  BY <1>1 DEF Genuine, Right
<1>7. PlaceOk(t) => PlaceOk(t)'
  BY <1>1, <1>4 DEF PlaceOk
<1>8. DueOk(t) => DueOk(t)'
  BY <1>1, <1>4 DEF DueOk, In, Within, Timestamp
<1>9. EndOk(t) => EndOk(t)'
  BY DEF EndOk, In
<1>10. OrderOk(t) => OrderOk(t)'
  BY <1>4 DEF OrderOk, AheadOk, Rising
<1>11. t \in ReadRecords => (t \in ReadRecords)'
  BY DEF ReadRecords, Items, Clients, Ints
<1> QED
  BY <1>1, <1>6, <1>7, <1>8, <1>9, <1>10, <1>11 DEF ReadRight

\* The read of the next state.
LEMMA ReadRightNext ==
  ASSUME NEW t, read' = t, ReadRight(t)'
  PROVE  ReadRight(read)'
<1>1. (t \in ReadRecords)' => (read \in ReadRecords)'
  BY DEF ReadRecords
<1>2. Genuine(t)' => Genuine(read)'
  BY DEF Genuine, Right
<1>3. ASSUME NEW n PROVE Ahead(t, n)' <=> Ahead(read, n)'
  BY DEF Ahead, InBuffer, InBlock
<1>4. PlaceOk(t)' => PlaceOk(read)'
  BY <1>3 DEF PlaceOk
<1>5. DueOk(t)' => DueOk(read)'
  BY <1>3 DEF DueOk, In, Within, Timestamp
<1>6. EndOk(t)' => EndOk(read)'
  BY DEF EndOk, In
<1>7. OrderOk(t)' => OrderOk(read)'
  BY <1>3 DEF OrderOk, AheadOk, Rising
<1> QED
  BY <1>1, <1>2, <1>4, <1>5, <1>6, <1>7 DEF ReadRight

-----------------------------------------------------------------------------
(* The steps of a read *)

\* A read that starts owes the points of its range, all of them ahead of it.
LEMMA StartRight ==
  ASSUME IInv, WriteInv, NEW client \in Clients, NEW range \in ReadRanges, NEW t, t = read',
         StartRead(client, range[1], range[2])
  PROVE  ReadRight(t)
<1>1. PICK from, to : from = range[1] /\ to = range[2]
  OBVIOUS
<1>2. from \in Ints /\ to \in Ints
  BY <1>1, QueryAssumption DEF Ints
<1>3. PICK due : due = Range(InRange(Readable, from, to))
  OBVIOUS
<1>4. t = [phase |-> "loop", loop |-> "blocks", client |-> client, from |-> from, to |-> to,
           next |-> 1, pending |-> <<>>, delivered |-> <<>>, stopped |-> FALSE,
           result |-> "ok", due |-> due]
  BY <1>1, <1>3 DEF StartRead
<1>5. DOMAIN history = 1..Len(history) /\ Len(history) \in Nat
  BY DEF IInv
<1>6. /\ Readable \in Seq(DOMAIN history)
      /\ \A n \in Range(Readable) : (\E i : InBlock(i, n)) \/ (\E j : InBuffer(j, n))
  BY ReadableAre DEF WriteInv, StoreInv
<1>7. due = {n \in Range(Readable) : Within(Timestamp(n), from, to)}
  <2>1. DOMAIN history \subseteq Nat
    BY <1>5
  <2>2. Readable \in Seq(Nat)
    BY <1>6, <2>1, SeqWider
  <2> QED
    BY <1>3, <2>2, InRangeAre
<1>8. Range(Readable) \subseteq 1..Len(history)
  BY <1>5, <1>6 DEF Range
<1>9. due \subseteq 1..Len(history)
  BY <1>7, <1>8
<1>10. t \in ReadRecords
  <2>1. due \in SUBSET Nat
    BY <1>9
  <2> QED
    BY <1>2, <1>4, <2>1 DEF ReadRecords
<1>11. /\ t.phase = "loop" /\ t.loop = "blocks" /\ t.next = 1 /\ t.pending = <<>> /\ t.delivered = <<>>
       /\ t.due = due /\ t.from = from /\ t.to = to
  BY <1>4
<1>12. Len(t.pending) = 0 /\ Len(t.delivered) = 0
  BY <1>11
<1>13. Genuine(t) /\ OrderOk(t)
  BY <1>12 DEF Genuine, OrderOk, AheadOk, Rising
<1>14. PlaceOk(t)
  <2>1. Len(index) \in Nat
    BY DEF IInv
  <2> QED
    BY <1>11, <2>1 DEF PlaceOk
<1>15. DueOk(t)
  <2>1. ASSUME NEW n \in due
        PROVE n \in 1..Len(history) /\ Within(Timestamp(n), from, to) /\ Ahead(t, n)
    <3>1. (\E i : InBlock(i, n)) \/ (\E j : InBuffer(j, n))
      BY <1>6, <1>7
    <3>2. \A i : InBlock(i, n) => i >= 1
      BY DEF InBlock, Placed
    <3> QED
      BY <1>7, <1>9, <1>11, <3>1, <3>2 DEF Ahead
  <2> QED
    BY <1>11, <2>1 DEF DueOk
<1> QED
  BY <1>10, <1>11, <1>13, <1>14, <1>15 DEF ReadRight

\* What is read, in the loops.
LEMMA ReadFields ==
  ASSUME ReadRight(read)
  PROVE  /\ read.phase \in {"loop", "callback", "done"} /\ read.loop \in {"blocks", "buffer"}
         /\ read.next \in Nat \ {0} /\ read.pending \in Seq(Items) /\ read.delivered \in Seq(Items)
         /\ read.from \in Ints /\ read.to \in Ints /\ read.due \subseteq Nat
         /\ read \in ReadRecords /\ Genuine(read)
         /\ Len(read.delivered) \in Nat /\ Len(read.pending) \in Nat
BY DEF ReadRight, ReadRecords

\* A place further on, with nothing due left out.
LEMMA SkipRight ==
  ASSUME IInv, WriteInv, ReadRight(read), read.phase = "loop", NEW t, t = [read EXCEPT !.next = @ + 1],
         read.loop = "blocks" => read.next <= Len(index),
         \A n \in read.due : Ahead(read, n) => Ahead(t, n)
  PROVE  ReadRight(t)
<1>1. /\ read \in ReadRecords /\ read.next \in Nat \ {0} /\ Len(index) \in Nat
      /\ PlaceOk(read) /\ DueOk(read) /\ Genuine(read) /\ (damage # "unlinked" => OrderOk(read))
  BY ReadFields DEF IInv, ReadRight
<1>2. /\ t \in ReadRecords /\ t.phase = "loop" /\ t.loop = read.loop /\ t.next = read.next + 1
      /\ t.pending = read.pending /\ t.delivered = read.delivered /\ t.due = read.due
      /\ t.from = read.from /\ t.to = read.to
  <2>1. read.next + 1 \in Nat \ {0}
    BY <1>1
  <2> QED
    BY <1>1, <2>1 DEF ReadRecords
<1>3. ASSUME NEW n, Ahead(t, n) PROVE Ahead(read, n)
  <2>1. \A i : i >= read.next + 1 /\ InBlock(i, n) => i >= read.next
    BY <1>1 DEF InBlock, Placed
  <2>2. \A j : j >= read.next + 1 /\ InBuffer(j, n) => j >= read.next
    BY <1>1 DEF InBuffer
  <2> QED
    BY <1>2, <1>3, <2>1, <2>2 DEF Ahead
<1>4. Genuine(t)
  BY <1>1, <1>2 DEF Genuine
<1>5. PlaceOk(t)
  BY <1>1, <1>2 DEF PlaceOk
<1>6. DueOk(t)
  BY <1>1, <1>2 DEF DueOk
<1>7. damage # "unlinked" => OrderOk(t)
  BY <1>1, <1>2, <1>3 DEF OrderOk, AheadOk
<1> QED
  BY <1>2, <1>4, <1>5, <1>6, <1>7 DEF ReadRight

\* An error ends the read.
LEMMA FailsRight ==
  ASSUME ReadRight(read), read.phase = "loop", NEW t, t = ReadFails
  PROVE  ReadRight(t)
<1>1. /\ t \in ReadRecords /\ t.phase = "done" /\ t.result = "error"
      /\ t.pending = read.pending /\ t.delivered = read.delivered
  BY DEF ReadRight, ReadFails, ReadRecords
<1> QED
  BY <1>1 DEF ReadRight, Genuine, EndOk, OrderOk

\* A block that was found whole, and decoded.
LEMMA DecodedRight ==
  ASSUME IInv, WriteInv, ReadRight(read), InLoop("blocks"), read.pending = <<>>,
         read.next <= Len(index), HasBlock(index[read.next]),
         NEW block, block = BlockAt(index[read.next]), block.whole, NEW t,
         t = ReadDecoded(block.numbers, Decode(block))
  PROVE  ReadRight(t)
<1>1. /\ read \in ReadRecords /\ read.next \in 1..Len(index) /\ read.next \in Nat \ {0} /\ Len(index) \in Nat
      /\ PlaceOk(read) /\ DueOk(read) /\ Genuine(read) /\ (damage # "unlinked" => OrderOk(read))
      /\ read.phase = "loop" /\ read.loop = "blocks" /\ history \in Seq(Points)
  BY ReadFields DEF IInv, ReadRight, InLoop
<1>2. PICK id \in Segments : \E k \in 1..Len(files[id]) : block = files[id][k] /\ BlockOk(files[id][k])
  BY <1>1, FoundBlock
<1>3. PICK k \in 1..Len(files[id]) : block = files[id][k] /\ BlockOk(files[id][k])
  BY <1>2
<1>4. PICK numbers : numbers = block.numbers
  OBVIOUS
<1>5. IsNumbers(numbers) /\ BlockOk(block)
  BY <1>3, <1>4 DEF BlockOk
<1>6. CASE Decode(block) = Corrupt
  BY <1>1, <1>6, FailsRight DEF ReadDecoded
<1>7. CASE Decode(block) # Corrupt
  <2>1. block.whole
    OBVIOUS
  <2>2. Decode(block) = PointsOf(numbers)
    BY <1>1, <1>4, <1>5, <2>1, BlockDecodes
  <2>3. PICK items : items = Matching(numbers, PointsOf(numbers))
    OBVIOUS
  <2>4. /\ items \in Seq(Items)
        /\ \A a \in 1..Len(items) : \E i \in 1..Len(numbers) :
             items[a].number = numbers[i] /\ items[a].point = history[numbers[i]]
        /\ \A i \in 1..Len(numbers) :
             Within(Timestamp(numbers[i]), read.from, read.to) => In(items, numbers[i])
        /\ Ascending(numbers) => Rising(items)
    <3>1. history \in Seq(Points) /\ IsNumbers(numbers)
      BY <1>1, <1>5
    <3>2. Matched(items, numbers)
      BY <2>3, <3>1, MatchingAre
    <3> QED
      BY <3>2 DEF Matched
  <2>5. /\ t \in ReadRecords /\ t.phase = "loop" /\ t.loop = "blocks" /\ t.next = read.next + 1
        /\ t.pending = items /\ t.delivered = read.delivered /\ t.due = read.due
        /\ t.from = read.from /\ t.to = read.to
    <3>1. t = [read EXCEPT !.next = @ + 1, !.pending = items]
      BY <1>4, <1>7, <2>2, <2>3 DEF ReadDecoded
    <3>2. read.next + 1 \in Nat \ {0}
      BY <1>1
    <3> QED
      BY <1>1, <2>4, <3>1, <3>2 DEF ReadRecords
  <2>6. \A i \in 1..Len(numbers) : numbers[i] \in 1..Len(history)
    <3>1. numbers \in Seq(DOMAIN history) /\ DOMAIN history = 1..Len(history)
      BY <1>1, <1>5 DEF IsNumbers
    <3> QED
      BY <3>1
  <2>7. Genuine(t)
    <3>1. ASSUME NEW a \in 1..Len(items) PROVE Right(items[a])
      BY <2>4, <2>6 DEF Right
    <3> QED
      BY <1>1, <2>5, <3>1 DEF Genuine
  <2>8. PlaceOk(t)
    BY <1>1, <2>5 DEF PlaceOk
  <2>9. \A n : Ahead(t, n) => Ahead(read, n)
    <3>1. \A i, n : i >= read.next + 1 /\ InBlock(i, n) => i >= read.next
      BY <1>1 DEF InBlock, Placed
    <3> QED
      BY <1>1, <2>5, <3>1 DEF Ahead
  <2>10. DueOk(t)
    <3>1. ASSUME NEW n \in read.due, ~In(read.delivered, n) PROVE In(items, n) \/ Ahead(t, n)
      <4>1. Len(read.pending) = 0
        OBVIOUS
      <4>2. Ahead(read, n) /\ Within(Timestamp(n), read.from, read.to)
        BY <1>1, <3>1, <4>1 DEF DueOk, In
      <4>3. CASE \E j : InBuffer(j, n)
        BY <2>5, <4>3 DEF Ahead
      <4>4. CASE \E i : i >= read.next /\ InBlock(i, n)
        <5>1. PICK i : i >= read.next /\ InBlock(i, n)
          BY <4>4
        <5>2. i \in Int
          BY <5>1 DEF InBlock, Placed
        <5>3. CASE i >= read.next + 1
          BY <2>5, <5>1, <5>3 DEF Ahead
        <5>4. CASE i = read.next
          <6>1. PICK b, l : /\ Placed(read.next, b, l) /\ files[b][l].whole
                            /\ \E a \in 1..Len(files[b][l].numbers) : files[b][l].numbers[a] = n
            BY <5>1, <5>4 DEF InBlock
          <6>2. files[b][l] = block
            BY <6>1, PlacedBlock
          <6>3. PICK a \in 1..Len(numbers) : numbers[a] = n
            BY <1>4, <6>1, <6>2
          <6> QED
            BY <2>4, <4>2, <6>3
        <5> QED
          BY <1>1, <5>1, <5>2, <5>3, <5>4
      <4> QED
        BY <1>1, <4>2, <4>3, <4>4 DEF Ahead
    <3> QED
      BY <1>1, <2>5, <3>1 DEF DueOk
  <2>11. ASSUME damage # "unlinked" PROVE OrderOk(t)
    <3>1. AllPlaced /\ EntriesInOrder /\ BufferLast /\ BlocksAscend
      BY <2>11 DEF WriteInv, OrderInv, StoreInv
    <3>2. PICK b, l : Placed(read.next, b, l)
      BY <1>1, <3>1 DEF AllPlaced
    <3>3. files[b][l] = block /\ files[b][l].whole /\ b \in Segments /\ l \in 1..Len(files[b])
      <4>1. BlockAt(index[read.next]) = files[b][l]
        BY <3>2, PlacedBlock
      <4>2. files[b][l] = block
        BY <4>1
      <4>3. b \in Segments /\ l \in 1..Len(files[b])
        BY <3>2 DEF Placed
      <4> QED
        BY <2>1, <4>2, <4>3
    <3>4. Rising(items)
      BY <1>4, <2>4, <3>1, <3>3 DEF BlocksAscend
    <3>5. ASSUME NEW i \in 1..Len(numbers) PROVE Ahead(read, numbers[i])
      <4>1. InBlock(read.next, numbers[i])
        BY <1>4, <3>2, <3>3 DEF InBlock
      <4>2. read.next >= read.next
        BY <1>1
      <4> QED
        BY <1>1, <4>1, <4>2 DEF Ahead
    <3>6. Rising(read.delivered) /\ AheadOk(read)
      BY <1>1, <2>11 DEF OrderOk
    <3>7. ASSUME NEW c \in 1..Len(read.delivered), NEW a \in 1..Len(items)
          PROVE  read.delivered[c].number < items[a].number
      BY <2>4, <3>5, <3>6 DEF AheadOk
    <3>8. ASSUME NEW n, Ahead(t, n), NEW a \in 1..Len(items) PROVE items[a].number < n
      <4>1. PICK x \in 1..Len(numbers) : items[a].number = numbers[x]
        BY <2>4
      <4>2. CASE \E j : InBuffer(j, n)
        <5>1. PICK j \in 1..Len(buffer) : buffer[j] = n
          BY <4>2 DEF InBuffer
        <5>2. Below(numbers, buffer)
          BY <1>4, <3>1, <3>3 DEF BufferLast
        <5> QED
          BY <4>1, <5>1, <5>2 DEF Below
      <4>3. CASE \E i : i >= read.next + 1 /\ InBlock(i, n)
        <5>1. PICK i : i >= read.next + 1 /\ InBlock(i, n)
          BY <4>3
        <5>2. PICK c, m : /\ Placed(i, c, m) /\ files[c][m].whole
                          /\ \E y \in 1..Len(files[c][m].numbers) : files[c][m].numbers[y] = n
          BY <5>1 DEF InBlock
        <5>3. read.next < i
          BY <1>1, <5>1, <5>2 DEF Placed
        <5>4. Below(files[b][l].numbers, files[c][m].numbers)
          BY <3>1, <3>2, <3>3, <5>2, <5>3 DEF EntriesInOrder
        <5> QED
          BY <1>4, <3>3, <4>1, <5>2, <5>4 DEF Below
      <4> QED
        BY <2>5, <3>8, <4>2, <4>3 DEF Ahead
    <3> QED
      BY <2>5, <2>9, <3>4, <3>6, <3>7, <3>8 DEF OrderOk, AheadOk
  <2> QED
    BY <2>5, <2>7, <2>8, <2>10, <2>11 DEF ReadRight
<1> QED
  BY <1>6, <1>7

\* What is ahead of a read was appended.
LEMMA AheadKnown ==
  ASSUME IInv, NEW r, NEW n, Ahead(r, n)
  PROVE  n \in 1..Len(history)
<1>1. CASE \E j : InBuffer(j, n)
  BY <1>1, BufferKnown DEF InBuffer
<1>2. CASE \E i : InBlock(i, n)
  <2>1. PICK id, k : /\ id \in Segments /\ k \in 1..Len(files[id])
                     /\ \E a \in 1..Len(files[id][k].numbers) : files[id][k].numbers[a] = n
    BY <1>2 DEF InBlock, Placed
  <2>2. PICK numbers : numbers = files[id][k].numbers
    OBVIOUS
  <2>3. BlockOk(files[id][k])
    BY <2>1, FileParts DEF BlocksTo
  <2>4. numbers \in Seq(DOMAIN history) /\ DOMAIN history = 1..Len(history)
    BY <2>2, <2>3 DEF BlockOk, IsNumbers, IInv
  <2> QED
    BY <2>1, <2>2, <2>4
<1> QED
  BY <1>1, <1>2 DEF Ahead

\* A block that was cut short: an error, or points of no append.
LEMMA ForeignRight ==
  ASSUME IInv, ReadRight(read), InLoop("blocks"), read.pending = <<>>,
         read.next <= Len(index), NEW block, block = BlockAt(index[read.next]), ~block.whole, NEW t,
         t = ReadDecoded(NumbersIn(block), Decode(block))
  PROVE  ReadRight(t)
<1>1. /\ read \in ReadRecords /\ read.next \in 1..Len(index) /\ read.next \in Nat \ {0} /\ Len(index) \in Nat
      /\ PlaceOk(read) /\ DueOk(read) /\ Genuine(read) /\ (damage # "unlinked" => OrderOk(read))
      /\ read.phase = "loop" /\ read.loop = "blocks" /\ torn \in {Corrupt} \union Seq(Garbage)
  BY ReadFields DEF IInv, ReadRight, InLoop
<1>2. Decode(block) = torn /\ NumbersIn(block) = [i \in DOMAIN torn |-> 0]
  BY DEF Decode, NumbersIn
<1>3. CASE torn = Corrupt
  BY <1>1, <1>2, <1>3, FailsRight DEF ReadDecoded
<1>4. CASE torn # Corrupt
  <2>1. PICK items : items = Matching([i \in DOMAIN torn |-> 0], torn)
    OBVIOUS
  <2>2. items \in Seq(Items) /\ \A a \in 1..Len(items) : items[a].number = 0
    BY <1>1, <1>4, <2>1, ForeignItems
  <2>3. /\ t \in ReadRecords /\ t.phase = "loop" /\ t.loop = "blocks" /\ t.next = read.next + 1
        /\ t.pending = items /\ t.delivered = read.delivered /\ t.due = read.due
        /\ t.from = read.from /\ t.to = read.to
    <3>1. t = [read EXCEPT !.next = @ + 1, !.pending = items]
      BY <1>2, <1>4, <2>1 DEF ReadDecoded
    <3>2. read.next + 1 \in Nat \ {0}
      BY <1>1
    <3> QED
      BY <1>1, <2>2, <3>1, <3>2 DEF ReadRecords
  <2>4. Genuine(t)
    BY <1>1, <1>4, <2>2, <2>3 DEF Genuine, Right
  <2>5. PlaceOk(t)
    BY <1>1, <2>3 DEF PlaceOk
  <2>6. \A n : Ahead(t, n) => Ahead(read, n)
    <3>1. \A i, n : i >= read.next + 1 /\ InBlock(i, n) => i >= read.next
      BY <1>1 DEF InBlock, Placed
    <3> QED
      BY <1>1, <2>3, <3>1 DEF Ahead
  <2>7. ASSUME NEW n, Ahead(read, n) PROVE Ahead(t, n)
    <3>1. CASE \E j : InBuffer(j, n)
      BY <2>3, <3>1 DEF Ahead
    <3>2. CASE \E i : i >= read.next /\ InBlock(i, n)
      <4>1. PICK i : i >= read.next /\ InBlock(i, n)
        BY <3>2
      <4>2. i \in Int /\ i # read.next
        <5>1. PICK b, l : Placed(i, b, l) /\ files[b][l].whole
          BY <4>1 DEF InBlock
        <5>2. BlockAt(index[i]) = files[b][l]
          BY <5>1, PlacedBlock
        <5>3. i \in Int
          BY <5>1 DEF Placed
        <5> QED
          BY <5>1, <5>2, <5>3
      <4>3. i >= read.next + 1
        BY <1>1, <4>1, <4>2
      <4> QED
        BY <2>3, <4>1, <4>3 DEF Ahead
    <3> QED
      BY <1>1, <2>7, <3>1, <3>2 DEF Ahead
  <2>8. DueOk(t)
    <3>1. Len(read.pending) = 0
      OBVIOUS
    <3>2. \A n \in read.due : In(read.delivered, n) \/ Ahead(t, n)
      BY <1>1, <2>7, <3>1 DEF DueOk, In
    <3> QED
      BY <1>1, <2>3, <3>2 DEF DueOk
  <2>9. ASSUME damage # "unlinked" PROVE OrderOk(t)
    <3>1. Rising(read.delivered) /\ AheadOk(read)
      BY <1>1, <2>9 DEF OrderOk
    <3>2. ASSUME NEW n, Ahead(t, n)
          PROVE  /\ \A a \in 1..Len(read.delivered) : read.delivered[a].number < n
                 /\ \A a \in 1..Len(items) : items[a].number < n
      <4>1. Ahead(read, n) /\ n \in 1..Len(history)
        BY <2>6, <3>2, AheadKnown
      <4>2. 0 < n
        BY <4>1
      <4> QED
        BY <2>2, <3>1, <4>1, <4>2 DEF AheadOk
    <3>3. Rising(items)
      BY <2>2 DEF Rising
    <3> QED
      BY <2>2, <2>3, <3>1, <3>2, <3>3 DEF OrderOk, AheadOk
  <2> QED
    BY <2>3, <2>4, <2>5, <2>8, <2>9 DEF ReadRight
<1> QED
  BY <1>3, <1>4

\* The loop over the index skips a block, decodes it, or fails.
LEMMA BlockRight ==
  ASSUME IInv, WriteInv, ReadRight(read), ReadBlock, NEW t, t = read'
  PROVE  ReadRight(t)
<1>1. /\ InLoop("blocks") /\ read.pending = <<>> /\ read.next <= Len(index)
      /\ read.phase = "loop" /\ read.loop = "blocks" /\ read.next \in 1..Len(index)
  BY ReadFields DEF ReadBlock, InLoop, IInv
<1>2. PICK entry : entry = index[read.next]
  OBVIOUS
<1>3. CASE ~Intersects(entry, read.from, read.to) \/ NoFile(entry)
  <2>1. t = [read EXCEPT !.next = @ + 1]
    BY <1>2, <1>3 DEF ReadBlock
  <2>2. t.loop = "blocks" /\ t.next = read.next + 1
    BY <1>1, <2>1, ReadFields DEF ReadRecords
  <2>3. ASSUME NEW n \in read.due, Ahead(read, n) PROVE Ahead(t, n)
    <3>1. CASE \E j : InBuffer(j, n)
      BY <2>2, <3>1 DEF Ahead
    <3>2. CASE \E i : i >= read.next /\ InBlock(i, n)
      <4>1. PICK i : i >= read.next /\ InBlock(i, n)
        BY <3>2
      <4>2. i \in Int
        BY <4>1 DEF InBlock, Placed
      <4>3. CASE i >= read.next + 1
        BY <2>2, <4>1, <4>3 DEF Ahead
      <4>4. CASE i = read.next
        <5>1. PICK b, l : /\ Placed(read.next, b, l)
                          /\ \E a \in 1..Len(files[b][l].numbers) : files[b][l].numbers[a] = n
          BY <4>1, <4>4 DEF InBlock
        <5>2. PICK block : block = files[b][l]
          OBVIOUS
        <5>3. ~NoFile(entry) /\ entry.min = block.header.min /\ entry.max = block.header.max
          BY <1>2, <5>1, <5>2, PlacedBlock
        <5>4. BlockOk(block) /\ history \in Seq(Points)
          BY <5>1, <5>2, FileParts DEF Placed, BlocksTo
        <5>5. /\ Timestamp(n) \in Ints /\ entry.min <= Timestamp(n) /\ Timestamp(n) <= entry.max
              /\ entry.min \in Ints /\ entry.max \in Ints
          BY <5>1, <5>2, <5>3, <5>4, HeaderBounds, BlockStreams
        <5>6. Within(Timestamp(n), read.from, read.to) /\ read.from \in Ints /\ read.to \in Ints
          BY <1>1, ReadFields DEF ReadRight, DueOk
        <5>7. Ints \subseteq Int
          BY Halves DEF Ints
        <5>8. Intersects(entry, read.from, read.to)
          <6>1. /\ Timestamp(n) \in Int /\ entry.min \in Int /\ entry.max \in Int
                /\ read.from \in Int /\ read.to \in Int
            BY <5>5, <5>6, <5>7
          <6>2. Timestamp(n) >= read.from /\ Timestamp(n) <= read.to
            BY <5>6 DEF Within
          <6>3. \A x, y, z \in Int : (x <= y /\ y <= z => x <= z) /\ (x >= y <=> y <= x)
            OBVIOUS
          <6>4. entry.max >= read.from /\ entry.min <= read.to
            BY ONLY <5>5, <6>1, <6>2, <6>3
          <6> QED
            BY <6>4 DEF Intersects
        <5> QED
          BY <1>3, <5>3, <5>8
      <4> QED
        BY <1>1, <4>1, <4>2, <4>3, <4>4
    <3> QED
      BY <1>1, <2>3, <3>1, <3>2 DEF Ahead
  <2> QED
    BY <1>1, <2>1, <2>3, SkipRight
<1>4. CASE ~(~Intersects(entry, read.from, read.to) \/ NoFile(entry))
  <2>1. t = ReadStored(entry)
    BY <1>2, <1>4 DEF ReadBlock
  <2>2. CASE HasBlock(entry)
    <3>1. PICK block : block = BlockAt(entry)
      OBVIOUS
    <3>2. t = ReadDecoded(NumbersIn(block), Decode(block))
      BY <2>1, <2>2, <3>1 DEF ReadStored
    <3>3. CASE block.whole
      <4>1. t = ReadDecoded(block.numbers, Decode(block))
        BY <3>2, <3>3 DEF NumbersIn
      <4> QED
        BY <1>1, <1>2, <2>2, <3>1, <3>3, <4>1, DecodedRight
    <3>4. CASE ~block.whole
      BY <1>1, <1>2, <3>1, <3>2, <3>4, ForeignRight
    <3> QED
      BY <3>3, <3>4
  <2>3. CASE ~HasBlock(entry)
    BY <1>1, <2>1, <2>3, FailsRight DEF ReadStored
  <2> QED
    BY <2>2, <2>3
<1> QED
  BY <1>3, <1>4

\* A decoded point goes to the callback.
LEMMA DecodedDelivered ==
  ASSUME IInv, WriteInv, ReadRight(read), DeliverDecoded, NEW t, t = read'
  PROVE  ReadRight(t)
<1>1. /\ read \in ReadRecords /\ PlaceOk(read) /\ DueOk(read) /\ Genuine(read)
      /\ damage # "unlinked" => OrderOk(read)
      /\ read.phase = "loop" /\ read.loop = "blocks" /\ read.pending # <<>>
      /\ read.pending \in Seq(Items) /\ read.delivered \in Seq(Items)
  BY ReadFields DEF ReadRight, DeliverDecoded, InLoop
<1>2. PICK x, rest, done : /\ x = Head(read.pending) /\ rest = Tail(read.pending)
                           /\ done = Append(read.delivered, x)
  OBVIOUS
<1>3. /\ rest \in Seq(Items) /\ x \in Items /\ 1 \in 1..Len(read.pending) /\ x = read.pending[1]
      /\ \A a \in 1..Len(rest) : a + 1 \in 1..Len(read.pending) /\ rest[a] = read.pending[a + 1]
      /\ \A n : In(read.pending, n) => In(rest, n) \/ x.number = n
      /\ Rising(read.pending) =>
           Rising(rest) /\ \A a \in 1..Len(rest) : rest[a].number # 0 => x.number < rest[a].number
  <2>1. read.pending \in Seq(Items)
    BY <1>1
  <2>2. read.pending # <<>>
    BY <1>1
  <2>3. rest = Tail(read.pending)
    BY <1>2
  <2>4. x = Head(read.pending)
    BY <1>2
  <2>5. Shortened(read.pending, x, rest)
    BY ONLY <2>1, <2>2, <2>3, <2>4, ItemTail
  <2> QED
    BY <2>5 DEF Shortened
<1>4. /\ done \in Seq(Items) /\ Len(read.delivered) \in Nat /\ Len(done) = Len(read.delivered) + 1
      /\ \A a \in 1..Len(done) : (a \in 1..Len(read.delivered) /\ done[a] = read.delivered[a])
                                   \/ (a = Len(read.delivered) + 1 /\ done[a] = x)
      /\ \A n : In(done, n) <=> In(read.delivered, n) \/ x.number = n
      /\ Rising(read.delivered)
           /\ (x.number # 0 => \A a \in 1..Len(read.delivered) : read.delivered[a].number < x.number)
         => Rising(done)
  <2>1. read.delivered \in Seq(Items)
    BY <1>1
  <2>2. x \in Items
    BY <1>3
  <2>3. done = Append(read.delivered, x)
    BY <1>2
  <2>4. Extended(read.delivered, x, done)
    BY ONLY <2>1, <2>2, <2>3, ItemAppend
  <2> QED
    BY <2>4 DEF Extended
<1>5. /\ t \in ReadRecords /\ t.phase = "callback" /\ t.loop = "blocks" /\ t.next = read.next
      /\ t.pending = rest /\ t.delivered = done /\ t.due = read.due /\ t.from = read.from /\ t.to = read.to
  <2>1. Delivering(t, read.next, rest, done)
    BY <1>1, <1>2 DEF DeliverDecoded, Deliver, Delivering
  <2>2. read \in ReadRecords /\ read.next \in Nat \ {0} /\ read.loop = "blocks"
    BY <1>1 DEF ReadRecords
  <2>3. rest \in Seq(Items) /\ done \in Seq(Items)
    BY <1>3, <1>4
  <2> QED
    BY ONLY <2>1, <2>2, <2>3, DeliveredRecord
<1>6. Genuine(t)
  <2>1. Right(x)
    BY <1>1, <1>3 DEF Genuine
  <2>2. ASSUME NEW a \in 1..Len(done) PROVE Right(done[a])
    BY <1>1, <1>4, <2>1 DEF Genuine
  <2>3. ASSUME NEW a \in 1..Len(rest) PROVE Right(rest[a])
    BY <1>1, <1>3 DEF Genuine
  <2> QED
    BY <1>5, <2>2, <2>3 DEF Genuine
<1>7. \A n : Ahead(t, n) <=> Ahead(read, n)
  BY <1>1, <1>5 DEF Ahead
<1>8. PlaceOk(t)
  BY <1>1, <1>4, <1>5 DEF PlaceOk
<1>9. DueOk(t)
  BY <1>1, <1>3, <1>4, <1>5, <1>7 DEF DueOk
<1>10. ASSUME damage # "unlinked" PROVE OrderOk(t)
  <2>1. Rising(read.delivered) /\ AheadOk(read)
    BY <1>1, <1>10 DEF OrderOk
  <2>2. x.number # 0 => \A a \in 1..Len(read.delivered) : read.delivered[a].number < x.number
    BY <1>3, <2>1 DEF AheadOk
  <2>3. /\ Rising(done) /\ Rising(rest)
        /\ \A a \in 1..Len(rest) : rest[a].number # 0 => x.number < rest[a].number
    BY <1>3, <1>4, <2>1, <2>2 DEF AheadOk
  <2>4. ASSUME NEW a \in 1..Len(done), NEW b \in 1..Len(rest), rest[b].number # 0
        PROVE  done[a].number < rest[b].number
    <3>1. rest[b] = read.pending[b + 1] /\ b + 1 \in 1..Len(read.pending)
      BY <1>3
    <3>2. CASE a \in 1..Len(read.delivered) /\ done[a] = read.delivered[a]
      BY <2>1, <2>4, <3>1, <3>2 DEF AheadOk
    <3>3. CASE done[a] = x
      BY <2>3, <2>4, <3>3
    <3> QED
      BY <1>4, <3>2, <3>3
  <2>5. ASSUME NEW n, Ahead(t, n), NEW a \in 1..Len(done) PROVE done[a].number < n
    <3>1. Ahead(read, n)
      BY <1>7, <2>5
    <3> QED
      BY <1>3, <1>4, <2>1, <3>1 DEF AheadOk
  <2>6. ASSUME NEW n, Ahead(t, n), NEW a \in 1..Len(rest) PROVE rest[a].number < n
    <3>1. Ahead(read, n)
      BY <1>7, <2>6
    <3> QED
      BY <1>3, <2>1, <3>1 DEF AheadOk
  <2> QED
    BY <1>5, <2>3, <2>4, <2>5, <2>6 DEF OrderOk, AheadOk
<1> QED
  BY <1>5, <1>6, <1>8, <1>9, <1>10 DEF ReadRight

\* After the last block the read goes on with the buffer.
LEMMA BlocksDoneRight ==
  ASSUME IInv, WriteInv, ReadRight(read), BlocksDone, NEW t, t = read'
  PROVE  ReadRight(t)
<1>1. /\ read \in ReadRecords /\ PlaceOk(read) /\ DueOk(read) /\ Genuine(read)
      /\ damage # "unlinked" => OrderOk(read)
      /\ read.phase = "loop" /\ read.loop = "blocks" /\ read.pending = <<>> /\ read.next > Len(index)
      /\ Len(index) \in Nat /\ read.next \in Nat
  BY ReadFields DEF ReadRight, BlocksDone, InLoop, IInv
<1>2. /\ t \in ReadRecords /\ t.phase = "loop" /\ t.loop = "buffer" /\ t.next = 1
      /\ t.pending = read.pending /\ t.delivered = read.delivered /\ t.due = read.due
      /\ t.from = read.from /\ t.to = read.to
  <2>1. t = [read EXCEPT !.loop = "buffer", !.next = 1]
    BY DEF BlocksDone
  <2>2. 1 \in Nat \ {0}
    OBVIOUS
  <2>3. t \in ReadRecords
    BY <1>1, <2>1, <2>2 DEF ReadRecords
  <2> QED
    BY <1>1, <2>1, <2>3 DEF ReadRecords
<1>3. ASSUME NEW n PROVE Ahead(t, n) <=> Ahead(read, n)
  <2>1. \A i : InBlock(i, n) => ~(i >= read.next)
    BY <1>1 DEF InBlock, Placed
  <2>2. \A j : InBuffer(j, n) => j >= 1
    BY DEF InBuffer
  <2>3. Ahead(read, n) <=> \E j : InBuffer(j, n)
    BY <1>1, <2>1 DEF Ahead
  <2>4. Ahead(t, n) <=> \E j : j >= 1 /\ InBuffer(j, n)
    BY <1>2 DEF Ahead
  <2> QED
    BY ONLY <2>2, <2>3, <2>4
<1>4. Genuine(t)
  BY <1>1, <1>2 DEF Genuine
<1>5. PlaceOk(t) /\ DueOk(t)
  BY <1>1, <1>2, <1>3 DEF PlaceOk, DueOk
<1>6. damage # "unlinked" => OrderOk(t)
  BY <1>1, <1>2, <1>3 DEF OrderOk, AheadOk
<1> QED
  BY <1>2, <1>4, <1>5, <1>6 DEF ReadRight

\* The loop over the buffer passes over a point, or hands it to the callback.
LEMMA BufferRight ==
  ASSUME IInv, WriteInv, ReadRight(read), ReadBuffer, NEW t, t = read'
  PROVE  ReadRight(t)
<1>1. /\ read \in ReadRecords /\ PlaceOk(read) /\ DueOk(read) /\ Genuine(read)
      /\ damage # "unlinked" => OrderOk(read)
      /\ read.phase = "loop" /\ read.loop = "buffer" /\ read.pending = <<>> /\ read.next <= Len(buffer)
      /\ read.next \in Nat \ {0} /\ read.delivered \in Seq(Items) /\ history \in Seq(Points)
      /\ read.from \in Ints /\ read.to \in Ints
  BY ReadFields DEF ReadRight, ReadBuffer, InLoop, PlaceOk, IInv
<1>2. /\ Len(buffer) \in Nat /\ Len(history) \in Nat /\ read.next \in 1..Len(buffer)
      /\ buffer[read.next] \in 1..Len(history)
      /\ Ascending(buffer) /\ \A j \in 1..Len(buffer) : buffer[j] \in 1..Len(history)
  BY <1>1, BufferKnown DEF WriteInv, StoreInv, BufferAscends
<1>3. PICK n : n = buffer[read.next]
  OBVIOUS
<1>4. ASSUME NEW m, Ahead(read, m), m # n PROVE \E j : j >= read.next + 1 /\ InBuffer(j, m)
  <2>1. PICK j : j >= read.next /\ InBuffer(j, m)
    BY <1>1, <1>4 DEF Ahead
  <2>2. j \in 1..Len(buffer) /\ j # read.next
    BY <1>3, <1>4, <2>1 DEF InBuffer
  <2>3. j >= read.next + 1
    BY <1>1, <2>1, <2>2
  <2> QED
    BY <2>1, <2>3
<1>5. Ahead(read, n)
  <2>1. InBuffer(read.next, n) /\ read.next >= read.next
    BY <1>1, <1>2, <1>3 DEF InBuffer
  <2> QED
    BY <1>1, <2>1 DEF Ahead
<1>6. CASE Timestamp(n) >= read.from /\ Timestamp(n) <= read.to
  <2>1. PICK x : x = [number |-> n, point |-> history[n]]
    OBVIOUS
  <2>2. x \in Items /\ x.number = n /\ Right(x)
    BY <1>1, <1>2, <1>3, <2>1 DEF Items, Right
  <2>3. PICK done : done = Append(read.delivered, x)
    OBVIOUS
  <2>4. /\ done \in Seq(Items) /\ Len(read.delivered) \in Nat /\ Len(done) = Len(read.delivered) + 1
        /\ done[Len(done)] = x
        /\ \A a \in 1..Len(done) : (a \in 1..Len(read.delivered) /\ done[a] = read.delivered[a])
                                     \/ (a = Len(read.delivered) + 1 /\ done[a] = x)
        /\ \A m : In(done, m) <=> In(read.delivered, m) \/ x.number = m
        /\ Rising(read.delivered)
           /\ (x.number # 0 => \A a \in 1..Len(read.delivered) : read.delivered[a].number < x.number)
         => Rising(done)
    <3>1. read.delivered \in Seq(Items)
      BY <1>1
    <3>2. x \in Items
      BY <2>2
    <3>3. Extended(read.delivered, x, done)
      BY ONLY <2>3, <3>1, <3>2, ItemAppend
    <3> QED
      BY <3>3 DEF Extended
  <2>5. /\ t \in ReadRecords /\ t.phase = "callback" /\ t.loop = "buffer" /\ t.next = read.next + 1
        /\ t.pending = <<>> /\ t.delivered = done /\ t.due = read.due
        /\ t.from = read.from /\ t.to = read.to
    <3>1. Delivering(t, read.next + 1, read.pending, done)
      BY <1>1, <1>3, <1>6, <2>1, <2>3 DEF ReadBuffer, Deliver, Delivering
    <3>2. read.next + 1 \in Nat \ {0}
      BY <1>1
    <3>3. read \in ReadRecords /\ read.pending = <<>> /\ read.pending \in Seq(Items) /\ read.loop = "buffer"
      BY <1>1 DEF ReadRecords
    <3>4. done \in Seq(Items)
      BY <2>4
    <3>5. PICK m \in Nat \ {0}, rest \in Seq(Items) : m = read.next + 1 /\ rest = read.pending
      BY ONLY <3>2, <3>3
    <3>6. Delivering(t, m, rest, done)
      BY ONLY <3>1, <3>5
    <3>7. t \in ReadRecords /\ t.phase = "callback" /\ t.loop = read.loop /\ t.next = m
      BY ONLY <3>3, <3>4, <3>6, m \in Nat \ {0}, rest \in Seq(Items), DeliveredRecord
    <3>8. t.pending = rest /\ t.delivered = done /\ t.due = read.due /\ t.from = read.from /\ t.to = read.to
      BY ONLY <3>3, <3>4, <3>6, m \in Nat \ {0}, rest \in Seq(Items), DeliveredRecord
    <3> QED
      BY ONLY <3>3, <3>5, <3>7, <3>8
  <2>6. Len(t.pending) = 0
    BY <2>5
  <2>7. Genuine(t)
    <3>1. ASSUME NEW a \in 1..Len(done) PROVE Right(done[a])
      BY <1>1, <2>2, <2>4 DEF Genuine
    <3> QED
      BY <2>5, <2>6, <3>1 DEF Genuine
  <2>8. ASSUME NEW m, Ahead(t, m) PROVE Ahead(read, m) /\ n < m
    <3>1. PICK j : j >= read.next + 1 /\ InBuffer(j, m)
      BY <2>5, <2>8 DEF Ahead
    <3>2. j \in 1..Len(buffer) /\ buffer[j] = m /\ read.next < j /\ j >= read.next
      BY <1>1, <3>1 DEF InBuffer
    <3>3. n < m
      BY <1>2, <1>3, <3>2 DEF Ascending
    <3> QED
      BY <1>1, <3>1, <3>2, <3>3 DEF Ahead
  <2>9. PlaceOk(t)
    BY <2>2, <2>4, <2>5, <2>8 DEF PlaceOk
  <2>10. DueOk(t)
    <3>1. ASSUME NEW m \in read.due PROVE In(done, m) \/ Ahead(t, m)
      <4>1. In(read.delivered, m) \/ Ahead(read, m)
        <5>1. Len(read.pending) = 0
          BY <1>1
        <5> QED
          BY <1>1, <3>1, <5>1 DEF DueOk, In
      <4>2. CASE m = n
        BY <2>2, <2>4, <4>2
      <4>3. CASE m # n
        BY <1>4, <2>4, <2>5, <4>1, <4>3 DEF Ahead
      <4> QED
        BY <4>2, <4>3
    <3> QED
      BY <1>1, <2>5, <3>1 DEF DueOk
  <2>11. ASSUME damage # "unlinked" PROVE OrderOk(t)
    <3>1. Rising(read.delivered) /\ AheadOk(read)
      BY <1>1, <2>11 DEF OrderOk
    <3>2. \A a \in 1..Len(read.delivered) : read.delivered[a].number < n
      BY <1>5, <3>1 DEF AheadOk
    <3>3. Rising(done)
      BY <2>2, <2>4, <3>1, <3>2
    <3>4. ASSUME NEW m, Ahead(t, m), NEW a \in 1..Len(done) PROVE done[a].number < m
      BY <2>2, <2>4, <2>8, <3>1, <3>4 DEF AheadOk
    <3> QED
      BY <2>5, <2>6, <3>3, <3>4 DEF OrderOk, AheadOk, Rising
  <2> QED
    BY <2>5, <2>7, <2>9, <2>10, <2>11 DEF ReadRight
<1>7. CASE ~(Timestamp(n) >= read.from /\ Timestamp(n) <= read.to)
  <2>1. t = [read EXCEPT !.next = @ + 1]
    BY <1>3, <1>7 DEF ReadBuffer
  <2>2. t.loop = "buffer" /\ t.next = read.next + 1
    BY <1>1, <2>1 DEF ReadRecords
  <2>3. ASSUME NEW m \in read.due, Ahead(read, m) PROVE Ahead(t, m)
    <3>1. m # n
      BY <1>1, <1>7, <2>3 DEF DueOk, Within
    <3> QED
      BY <1>4, <2>2, <2>3, <3>1 DEF Ahead
  <2> QED
    BY <1>1, <2>1, <2>3, SkipRight
<1> QED
  BY <1>6, <1>7

\* After the last point of the buffer the read has delivered all that it owed.
LEMMA BufferDoneRight ==
  ASSUME IInv, WriteInv, ReadRight(read), BufferDone, NEW t, t = read'
  PROVE  ReadRight(t)
<1>1. /\ read \in ReadRecords /\ PlaceOk(read) /\ DueOk(read) /\ Genuine(read)
      /\ damage # "unlinked" => OrderOk(read)
      /\ read.phase = "loop" /\ read.loop = "buffer" /\ read.pending = <<>> /\ read.next > Len(buffer)
      /\ read.next \in Nat /\ Len(buffer) \in Nat
  BY ReadFields, BufferKnown DEF ReadRight, BufferDone, InLoop, PlaceOk
<1>2. /\ t \in ReadRecords /\ t.phase = "done"
      /\ t.pending = read.pending /\ t.delivered = read.delivered /\ t.due = read.due
  <2>1. t = [read EXCEPT !.phase = "done"]
    BY DEF BufferDone
  <2> QED
    BY <1>1, <2>1 DEF ReadRecords
<1>3. \A n \in read.due : In(read.delivered, n)
  <2>1. \A n : ~Ahead(read, n)
    BY <1>1 DEF Ahead, InBuffer
  <2>2. Len(read.pending) = 0
    BY <1>1
  <2> QED
    BY <1>1, <2>1, <2>2 DEF DueOk, In
<1> QED
  BY <1>1, <1>2, <1>3 DEF ReadRight, Genuine, EndOk, OrderOk

\* The callback returns, and the read goes on or stops.
LEMMA CallbackRight ==
  ASSUME IInv, WriteInv, ReadRight(read), CallbackContinues \/ CallbackStops, NEW t, t = read'
  PROVE  ReadRight(t)
<1>1. /\ read \in ReadRecords /\ PlaceOk(read) /\ DueOk(read) /\ Genuine(read)
      /\ damage # "unlinked" => OrderOk(read) /\ read.phase = "callback"
  BY ReadFields DEF ReadRight, CallbackContinues, CallbackStops
<1>2. CASE CallbackContinues
  <2>1. /\ t \in ReadRecords /\ t.phase = "loop" /\ t.loop = read.loop /\ t.next = read.next
        /\ t.pending = read.pending /\ t.delivered = read.delivered /\ t.due = read.due
        /\ t.from = read.from /\ t.to = read.to
    <3>1. t = [read EXCEPT !.phase = "loop"]
      BY <1>2 DEF CallbackContinues
    <3> QED
      BY <1>1, <3>1 DEF ReadRecords
  <2>2. \A n : Ahead(t, n) <=> Ahead(read, n)
    BY <2>1 DEF Ahead
  <2>3. Genuine(t) /\ PlaceOk(t)
    BY <1>1, <2>1 DEF Genuine, PlaceOk
  <2>4. DueOk(t)
    BY <1>1, <2>1, <2>2 DEF DueOk
  <2>5. damage # "unlinked" => OrderOk(t)
    BY <1>1, <2>1, <2>2 DEF OrderOk, AheadOk
  <2> QED
    BY <2>1, <2>3, <2>4, <2>5 DEF ReadRight
<1>3. CASE CallbackStops
  <2>1. /\ t \in ReadRecords /\ t.phase = "done" /\ t.stopped = TRUE /\ t.client = read.client
        /\ read.client = "collect" => t.result = "error"
        /\ t.pending = read.pending /\ t.delivered = read.delivered
    <3>1. t = [read EXCEPT !.phase = "done", !.stopped = TRUE,
                           !.result = IF read.client = "collect" THEN "error" ELSE read.result]
      BY <1>3 DEF CallbackStops
    <3> QED
      BY <1>1, <3>1 DEF ReadRecords
  <2>2. read.client \in {"app", "collect"}
    BY <1>1 DEF ReadRecords, Clients
  <2> QED
    BY <1>1, <2>1, <2>2 DEF ReadRight, Genuine, EndOk, OrderOk
<1> QED
  BY <1>2, <1>3

-----------------------------------------------------------------------------
(* What a callback that appends or flushes leaves of the read *)

\* The points appended so far keep their numbers.
LEMMA HistoryGrows ==
  ASSUME IInv, NEW point \in Points, history' \in {history, Append(history, point)}
  PROVE  /\ Len(history) \in Nat /\ history' \in Seq(Points)
         /\ \A n \in 1..Len(history) : n \in 1..Len(history') /\ history'[n] = history[n]
<1>1. history \in Seq(Points)
  BY DEF IInv
<1>2. CASE history' = history
  BY <1>1, <1>2
<1>3. CASE history' = Append(history, point)
  BY <1>1, <1>3, AppendProperties
<1> QED
  BY <1>2, <1>3

\* A read keeps what is said of it when what was ahead of it is still ahead, or no
\* longer due, and what comes to that is new.
LEMMA StillRight ==
  ASSUME IInv, ReadRight(read), read.phase = "callback",
         NEW point \in Points, history' \in {history, Append(history, point)}, damage' = damage,
         torn # Corrupt => torn' # Corrupt, Len(index') \in Nat, Len(index) <= Len(index'),
         NEW d \in SUBSET read.due, NEW t, t = [read EXCEPT !.due = d],
         \A n \in d : In(read.delivered, n) \/ In(read.pending, n) \/ Ahead(t, n)',
         read.loop = "buffer" \/ damage # "unlinked" =>
           \A n : Ahead(t, n)' => Ahead(read, n) \/ (n \in Nat /\ n > Len(history))
  PROVE  ReadRight(t)'
<1>1. /\ read \in ReadRecords /\ PlaceOk(read) /\ DueOk(read) /\ Genuine(read)
      /\ damage # "unlinked" => OrderOk(read)
      /\ read.next \in Nat /\ read.delivered \in Seq(Items) /\ read.pending \in Seq(Items)
      /\ Len(index) \in Nat /\ Len(read.delivered) \in Nat
  BY ReadFields DEF ReadRight, IInv
<1>2. /\ Len(history) \in Nat /\ history' \in Seq(Points)
      /\ \A n \in 1..Len(history) : n \in 1..Len(history') /\ history'[n] = history[n]
  BY HistoryGrows
<1>3. /\ t \in ReadRecords /\ t.phase = "callback" /\ t.loop = read.loop /\ t.next = read.next
      /\ t.pending = read.pending /\ t.delivered = read.delivered /\ t.due = d
      /\ t.from = read.from /\ t.to = read.to
  <2>1. d \in SUBSET Nat
    BY <1>1 DEF ReadRecords
  <2>2. t \in ReadRecords
    BY <1>1, <2>1 DEF ReadRecords
  <2> QED
    BY <1>1, <2>2 DEF ReadRecords
<1>4. /\ \A a \in 1..Len(read.delivered) : Right(read.delivered[a]) /\ read.delivered[a].number \in 0..Len(history)
      /\ \A a \in 1..Len(read.pending) : Right(read.pending[a]) /\ read.pending[a].number \in 0..Len(history)
  <2>1. ASSUME NEW item, Right(item) PROVE item.number \in 0..Len(history)
    BY <1>2, <2>1 DEF Right
  <2> QED
    BY <1>1, <2>1 DEF Genuine
<1>5. Genuine(t)'
  <2>1. ASSUME NEW item, Right(item) PROVE Right(item)'
    BY <1>2, <2>1 DEF Right
  <2>2. ASSUME NEW a \in 1..Len(t.delivered) PROVE Right(t.delivered[a])'
    BY <1>3, <1>4, <2>1
  <2>3. ASSUME NEW a \in 1..Len(t.pending) PROVE Right(t.pending[a])'
    BY <1>3, <1>4, <2>1
  <2> QED
    BY <2>2, <2>3 DEF Genuine
<1>6. ASSUME read.loop = "buffer", NEW n, Ahead(t, n)'
      PROVE  t.delivered[Len(t.delivered)].number < n
  <2>1. Ahead(read, n) \/ (n \in Nat /\ n > Len(history))
    BY <1>6
  <2>2. CASE Ahead(read, n)
    BY <1>1, <1>3, <1>6, <2>2 DEF PlaceOk
  <2>3. CASE n \in Nat /\ n > Len(history)
    <3>1. Len(read.delivered) \in 1..Len(read.delivered)
      BY <1>1 DEF PlaceOk
    <3>2. read.delivered[Len(read.delivered)].number \in 0..Len(history)
      BY <1>4, <3>1
    <3> QED
      BY <1>2, <1>3, <2>3, <3>2
  <2> QED
    BY <2>1, <2>2, <2>3
<1>7. PlaceOk(t)'
  <2>1. read.loop = "blocks" => t.next <= Len(index')
        \/ t.next = Len(index') + 1
    BY <1>1, <1>3 DEF PlaceOk
  <2>2. t.loop = "blocks" => t.next <= Len(index') + 1
    BY <1>1, <1>3, <2>1
  <2>3. t.loop = "buffer" => t.pending = <<>>
    BY <1>1, <1>3 DEF PlaceOk
  <2>4. Len(t.delivered) # 0
    BY <1>1, <1>3 DEF PlaceOk
  <2> QED
    BY <1>3, <1>6, <2>2, <2>3, <2>4 DEF PlaceOk
<1>8. DueOk(t)'
  <2>1. ASSUME NEW n \in d
        PROVE  /\ n \in 1..Len(history') /\ Within(history'[n][1], t.from, t.to)
               /\ In(t.delivered, n) \/ In(t.pending, n) \/ Ahead(t, n)'
    <3>1. n \in 1..Len(history) /\ Within(history[n][1], read.from, read.to)
      BY <1>1 DEF DueOk, Timestamp
    <3> QED
      BY <1>2, <1>3, <3>1
  <2> QED
    BY <1>3, <2>1 DEF DueOk, Timestamp, Within, In
<1>9. ASSUME damage # "unlinked" PROVE OrderOk(t)'
  <2>1. Rising(read.delivered) /\ AheadOk(read)
    BY <1>1, <1>9 DEF OrderOk
  <2>2. ASSUME NEW n, Ahead(t, n)'
        PROVE  /\ \A a \in 1..Len(t.delivered) : t.delivered[a].number < n
               /\ \A a \in 1..Len(t.pending) : t.pending[a].number < n
    <3>1. Ahead(read, n) \/ (n \in Nat /\ n > Len(history))
      BY <1>9, <2>2
    <3>2. CASE Ahead(read, n)
      BY <1>3, <2>1, <3>2 DEF AheadOk
    <3>3. CASE n \in Nat /\ n > Len(history)
      BY <1>2, <1>3, <1>4, <3>3
    <3> QED
      BY <3>1, <3>2, <3>3
  <2>3. Rising(t.delivered) /\ Rising(t.pending)
        /\ \A a \in 1..Len(t.delivered), b \in 1..Len(t.pending) :
             t.pending[b].number # 0 => t.delivered[a].number < t.pending[b].number
    BY <1>3, <2>1 DEF AheadOk
  <2> QED
    BY <2>2, <2>3 DEF OrderOk, AheadOk, Rising
<1>10. (t \in ReadRecords)'
  BY <1>3 DEF ReadRecords, Items, Clients, Ints
<1> QED
  BY <1>3, <1>5, <1>7, <1>8, <1>9, <1>10 DEF ReadRight

\* A callback that appends a point leaves everything else where it was.
LEMMA AppendReads ==
  ASSUME IInv, WriteInv, ReadRight(read), read.phase = "callback",
         NEW point \in Points, AppendPoint(point), ~BufferFull, NEW t, t = read
  PROVE  ReadRight(t)'
<1>1. /\ history' = Append(history, point) /\ buffer' = Append(buffer, Len(history) + 1)
      /\ files' = files /\ index' = index /\ damage' = damage /\ torn' = torn
  BY DEF AppendPoint
<1>2. /\ Len(buffer) \in Nat /\ Len(history) \in Nat /\ Len(index) \in Nat /\ read.next \in Nat
      /\ buffer \in Seq(DOMAIN history) /\ DueOk(read)
  BY BufferKnown, ReadFields DEF IInv, ReadRight
<1>3. /\ Len(buffer') = Len(buffer) + 1 /\ buffer'[Len(buffer) + 1] = Len(history) + 1
      /\ \A j \in 1..Len(buffer) : buffer'[j] = buffer[j]
  BY <1>1, <1>2
<1>4. ASSUME NEW j, NEW n PROVE InBuffer(j, n) => InBuffer(j, n)'
  BY <1>2, <1>3 DEF InBuffer
<1>5. ASSUME NEW j, NEW n, InBuffer(j, n)' PROVE InBuffer(j, n) \/ n = Len(history) + 1
  <2>1. j \in 1..Len(buffer') /\ buffer'[j] = n
    BY <1>5 DEF InBuffer
  <2>2. j \in 1..Len(buffer) \/ j = Len(buffer) + 1
    BY <1>2, <1>3, <2>1
  <2> QED
    BY <1>3, <2>1, <2>2 DEF InBuffer
<1>6. ASSUME NEW i, NEW n PROVE InBlock(i, n)' <=> InBlock(i, n)
  BY <1>1 DEF InBlock, Placed, EntryIn, Entry
<1>7. ASSUME NEW n PROVE Ahead(t, n) => Ahead(t, n)'
  BY <1>4, <1>6 DEF Ahead
<1>8. ASSUME NEW n PROVE Ahead(t, n)' => Ahead(t, n) \/ n = Len(history) + 1
  BY <1>5, <1>6 DEF Ahead
<1>9. t = [read EXCEPT !.due = read.due]
  BY ReadFields DEF ReadRecords
<1>10. \A n \in read.due : In(read.delivered, n) \/ In(read.pending, n) \/ Ahead(t, n)'
  BY <1>2, <1>7 DEF DueOk
<1>11. \A n : Ahead(t, n)' => Ahead(read, n) \/ (n \in Nat /\ n > Len(history))
  BY <1>2, <1>8
<1>12. Len(index') \in Nat /\ Len(index) <= Len(index')
  BY <1>1, <1>2
<1> QED
  BY <1>1, <1>9, <1>10, <1>11, <1>12, StillRight

\* The points of the blocks after a flush.
LEMMA WriteBlocks ==
  ASSUME IInv, NEW d \in Segments, Grown(d, buffer, TRUE), NEW m, m = Len(index) + 1
  PROVE  /\ \A i, n : InBlock(i, n) => InBlock(i, n)'
         /\ \A j, n : InBuffer(j, n) => InBlock(m, n)'
         /\ AllPlaced => \A i, n : InBlock(i, n)' => InBlock(i, n) \/ (i = m /\ \E j : InBuffer(j, n))
<1>1. PICK l : l = Len(files[d]) + 1
  OBVIOUS
<1>2. /\ \A i, id, k : Placed(i, id, k) => PlacedNext(i, id, k)
      /\ PlacedNext(m, d, l)
      /\ AllPlaced => \A i, id, k : PlacedNext(i, id, k) =>
           Placed(i, id, k) \/ (i = m /\ id = d /\ k = l)
  BY <1>1, PlacedGrows
<1>3. /\ files'[d][l].numbers = buffer /\ files'[d][l].whole
      /\ \A i, id, k : Placed(i, id, k) => files'[id][k] = files[id][k]
  BY <1>1 DEF Grown, Placed
<1>4. ASSUME NEW i, NEW n, InBlock(i, n) PROVE InBlock(i, n)'
  <2>1. PICK id, k : /\ Placed(i, id, k) /\ files[id][k].whole
                     /\ \E a \in 1..Len(files[id][k].numbers) : files[id][k].numbers[a] = n
    BY <1>4 DEF InBlock
  <2>2. Placed(i, id, k)' /\ files'[id][k] = files[id][k]
    BY <1>2, <1>3, <2>1, PlacedNextIs
  <2> QED
    BY <2>1, <2>2 DEF InBlock
<1>5. ASSUME NEW j, NEW n, InBuffer(j, n) PROVE InBlock(m, n)'
  <2>1. Placed(m, d, l)'
    BY <1>2, PlacedNextIs
  <2>2. \E a \in 1..Len(files'[d][l].numbers) : files'[d][l].numbers[a] = n
    BY <1>3, <1>5 DEF InBuffer
  <2> QED
    BY <1>3, <2>1, <2>2 DEF InBlock
<1>6. ASSUME AllPlaced, NEW i, NEW n, InBlock(i, n)'
      PROVE  InBlock(i, n) \/ (i = m /\ \E j : InBuffer(j, n))
  <2>1. PICK id, k : /\ Placed(i, id, k)' /\ files'[id][k].whole
                     /\ \E a \in 1..Len(files'[id][k].numbers) : files'[id][k].numbers[a] = n
    BY <1>6 DEF InBlock
  <2>2. PlacedNext(i, id, k)
    BY <2>1, PlacedNextIs
  <2>3. CASE Placed(i, id, k)
    <3>1. files'[id][k] = files[id][k]
      BY <1>3, <2>3
    <3> QED
      BY <2>1, <2>3, <3>1 DEF InBlock
  <2>4. CASE i = m /\ id = d /\ k = l
    <3>1. \E a \in 1..Len(buffer) : buffer[a] = n
      BY <1>3, <2>1, <2>4
    <3> QED
      BY <2>4, <3>1 DEF InBuffer
  <2> QED
    BY <1>2, <1>6, <2>2, <2>3, <2>4
<1> QED
  BY <1>4, <1>5, <1>6

\* A callback that flushes moves the buffer into a block, which the loop over the blocks
\* still comes to, while the loop over the buffer owes no more of it.
LEMMA FlushReads ==
  ASSUME IInv, WriteInv, ReadRight(read), read.phase = "callback",
         WriteBlock(buffer, TRUE), IsNumbers(buffer), NEW t, t = ReadAfterFlush,
         NEW point \in Points, history' \in {history, Append(history, point)}, damage' = damage,
         \A j \in 1..Len(buffer') : buffer'[j] \in Nat /\ buffer'[j] > Len(history)
  PROVE  ReadRight(t)'
<1>1. PICK d \in Segments : Grown(d, buffer, TRUE)
  BY WriteGrows
<1>2. PICK m : m = Len(index) + 1
  OBVIOUS
<1>3. /\ Len(index) \in Nat /\ Len(index') = m /\ m \in Nat /\ Len(index) <= m /\ read.next \in Nat \ {0}
      /\ PlaceOk(read) /\ DueOk(read) /\ read \in ReadRecords /\ read.loop \in {"blocks", "buffer"}
      /\ torn # Corrupt => torn' # Corrupt
  <2>1. torn # Corrupt => torn' # Corrupt
    BY TornKept
  <2> QED
    BY <1>1, <1>2, <2>1, ReadFields DEF Grown, ReadRight
<1>4. /\ \A i, n : InBlock(i, n) => InBlock(i, n)'
      /\ \A j, n : InBuffer(j, n) => InBlock(m, n)'
      /\ AllPlaced => \A i, n : InBlock(i, n)' => InBlock(i, n) \/ (i = m /\ \E j : InBuffer(j, n))
  BY <1>1, <1>2, WriteBlocks
<1>5. ASSUME NEW j, NEW n, InBuffer(j, n)' PROVE n \in Nat /\ n > Len(history)
  BY <1>5 DEF InBuffer
<1>6. CASE read.loop = "blocks"
  <2>1. t = [read EXCEPT !.due = read.due] /\ t = read
    BY <1>3, <1>6 DEF ReadAfterFlush, ReadRecords
  <2>2. ASSUME NEW n, Ahead(t, n) PROVE Ahead(t, n)'
    <3>1. CASE \E i : i >= t.next /\ InBlock(i, n)
      BY <1>4, <1>6, <2>1, <3>1 DEF Ahead
    <3>2. CASE \E j : InBuffer(j, n)
      <4>1. InBlock(m, n)'
        BY <1>4, <3>2
      <4>2. m >= t.next
        BY <1>2, <1>3, <1>6, <2>1 DEF PlaceOk
      <4> QED
        BY <1>6, <2>1, <4>1, <4>2 DEF Ahead
    <3> QED
      BY <1>6, <2>1, <2>2, <3>1, <3>2 DEF Ahead
  <2>3. \A n \in read.due : In(read.delivered, n) \/ In(read.pending, n) \/ Ahead(t, n)'
    BY <1>3, <2>1, <2>2 DEF DueOk
  <2>4. ASSUME damage # "unlinked", NEW n, Ahead(t, n)'
        PROVE  Ahead(read, n) \/ (n \in Nat /\ n > Len(history))
    <3>1. AllPlaced
      BY <2>4 DEF WriteInv, OrderInv
    <3>2. CASE \E j : InBuffer(j, n)'
      BY <1>5, <3>2
    <3>3. CASE \E i : i >= t.next /\ InBlock(i, n)'
      BY <1>4, <1>6, <2>1, <3>1, <3>3 DEF Ahead
    <3> QED
      BY <1>6, <2>1, <2>4, <3>2, <3>3 DEF Ahead
  <2>5. read.loop = "buffer" \/ damage # "unlinked" =>
          \A n : Ahead(t, n)' => Ahead(read, n) \/ (n \in Nat /\ n > Len(history))
    BY <1>6, <2>4
  <2> QED
    BY <1>3, <2>1, <2>3, <2>5, StillRight
<1>7. CASE read.loop = "buffer"
  <2> DEFINE last == read.delivered[Len(read.delivered)].number
             due == {n \in read.due : n <= last}
  <2>1. t = [read EXCEPT !.due = due]
    BY <1>3, <1>7 DEF ReadAfterFlush, Last
  <2>2. t.loop = "buffer" /\ t.next = read.next
    BY <1>3, <1>7, <2>1 DEF ReadRecords
  <2>3. ASSUME NEW n \in due PROVE In(read.delivered, n)
    <3>1. Len(read.pending) = 0
      BY <1>3, <1>7 DEF PlaceOk
    <3>2. In(read.delivered, n) \/ Ahead(read, n)
      BY <1>3, <3>1 DEF DueOk, In
    <3>3. ASSUME Ahead(read, n) PROVE FALSE
      <4>1. last < n /\ n <= last
        BY <1>3, <1>7, <3>3 DEF PlaceOk
      <4>2. n \in 1..Len(history)
        BY <1>3 DEF DueOk
      <4>3. Len(history) \in Nat
        BY BufferKnown
      <4>4. last \in 0..Len(history)
        <5>1. Len(read.delivered) \in 1..Len(read.delivered)
          BY <1>3, ReadFields DEF PlaceOk
        <5> QED
          BY <4>3, <5>1, ReadFields DEF Genuine, Right
      <4> HIDE DEF last
      <4> QED
        BY <4>1, <4>2, <4>3, <4>4
    <3> QED
      BY <3>2, <3>3
  <2>4. ASSUME NEW n, Ahead(t, n)' PROVE n \in Nat /\ n > Len(history)
    BY <1>5, <2>2, <2>4 DEF Ahead
  <2>5. due \in SUBSET read.due
    OBVIOUS
  <2> HIDE DEF due
  <2>6. \A n \in due : In(read.delivered, n) \/ In(read.pending, n) \/ Ahead(t, n)'
    BY <2>3
  <2>7. \A n : Ahead(t, n)' => Ahead(read, n) \/ (n \in Nat /\ n > Len(history))
    BY <2>4
  <2> QED
    BY <1>3, <2>1, <2>5, <2>6, <2>7, StillRight
<1> QED
  BY <1>3, <1>6, <1>7

-----------------------------------------------------------------------------
(* The reads of every behaviour *)

\* What a callback can write.
LEMMA WritingReads ==
  ASSUME IInv, WriteInv, ReadRight(read), read.phase = "callback", NEW t, t = read',
         (\E point \in Points : AppendPoint(point)) \/ Flush
  PROVE  ReadRight(t)'
<1>1. CASE \E point \in Points : AppendPoint(point)
  <2>1. PICK point \in Points : AppendPoint(point)
    BY <1>1
  <2>2. history' = Append(history, point) /\ damage' = damage
    BY <2>1 DEF AppendPoint
  <2>3. CASE BufferFull
    <3>1. WriteBlock(buffer, TRUE) /\ buffer' = <<Len(history) + 1>> /\ t = ReadAfterFlush
      BY <2>1, <2>3 DEF AppendPoint
    <3>2. IsNumbers(buffer)
      <4>1. /\ Len(buffer) >= Capacity /\ Len(buffer) <= Capacity /\ Capacity \in Nat \ {0}
            /\ buffer \in Seq(DOMAIN history)
        BY <2>3, QueryAssumption DEF BufferFull, IInv
      <4> QED
        BY <4>1 DEF IsNumbers
    <3>3. \A j \in 1..Len(buffer') : buffer'[j] \in Nat /\ buffer'[j] > Len(history)
      <4>1. Len(buffer') = 1 /\ buffer'[1] = Len(history) + 1 /\ Len(history) \in Nat
        BY <3>1, BufferKnown
      <4>2. \A j \in 1..Len(buffer') : j = 1
        BY <4>1
      <4> QED
        BY <4>1, <4>2
    <3> QED
      BY <2>2, <3>1, <3>2, <3>3, FlushReads
  <2>4. CASE ~BufferFull
    <3>1. t = read
      BY <2>1, <2>4 DEF AppendPoint
    <3> QED
      BY <2>1, <2>4, <3>1, AppendReads
  <2> QED
    BY <2>3, <2>4
<1>2. CASE Flush
  <2>1. /\ WriteBlock(buffer, TRUE) /\ buffer' = <<>> /\ t = ReadAfterFlush /\ buffer # <<>>
        /\ history' = history /\ damage' = damage
    BY <1>2 DEF Flush
  <2>2. IsNumbers(buffer)
    BY <2>1, BufferNumbers
  <2>3. PICK point : point \in Points
    <3>1. Len(buffer) \in Nat /\ Len(buffer) # 0 /\ \A j \in 1..Len(buffer) : buffer[j] \in 1..Len(history)
      BY <2>1, BufferKnown DEF IInv
    <3>2. buffer[1] \in 1..Len(history)
      BY <3>1
    <3>3. history[buffer[1]] \in Points
      BY <3>2 DEF IInv
    <3> QED
      BY <3>3
  <2>4. \A j \in 1..Len(buffer') : buffer'[j] \in Nat /\ buffer'[j] > Len(history)
    BY <2>1
  <2> QED
    BY <2>1, <2>2, <2>3, <2>4, FlushReads
<1> QED
  BY <1>1, <1>2

\* Every step keeps the invariant of the read.
LEMMA StepReads ==
  ASSUME IInv, WriteInv, ReadInv, [Next]_vars
  PROVE  ReadInv'
<1>1. PICK t : t = read'
  OBVIOUS
<1>2. ASSUME UNCHANGED store, ReadRight(t) PROVE ReadInv'
  <2>1. ReadRight(t)'
    BY <1>2, ReadRightKept
  <2>2. ReadRight(read)'
    BY <1>1, <2>1, ReadRightNext
  <2> QED
    BY <2>2 DEF ReadInv
<1>3. CASE \E client \in Clients, range \in ReadRanges : StartRead(client, range[1], range[2])
  <2>1. PICK client \in Clients, range \in ReadRanges : StartRead(client, range[1], range[2])
    BY <1>3
  <2>2. UNCHANGED store
    BY <2>1 DEF StartRead
  <2>3. ReadRight(t)
    BY <1>1, <2>1, StartRight
  <2> QED
    BY <1>2, <2>2, <2>3
<1>4. CASE \/ ReadBlock \/ DeliverDecoded \/ BlocksDone \/ ReadBuffer \/ BufferDone
           \/ CallbackContinues \/ CallbackStops
  <2>1. UNCHANGED store /\ read.phase # "none"
    BY <1>4 DEF ReadBlock, DeliverDecoded, BlocksDone, ReadBuffer, BufferDone,
                CallbackContinues, CallbackStops, InLoop
  <2>2. ReadRight(read)
    BY <2>1 DEF ReadInv
  <2>3. ReadRight(t)
    BY <1>1, <1>4, <2>2, BlockRight, DecodedDelivered, BlocksDoneRight, BufferRight,
       BufferDoneRight, CallbackRight
  <2> QED
    BY <1>2, <2>1, <2>3
<1>5. CASE EndRead
  <2>1. read'.phase = "none"
    BY <1>5 DEF EndRead, NoRead
  <2> QED
    BY <2>1 DEF ReadInv
<1>6. CASE (\E point \in Points : AppendPoint(point)) \/ Flush
  <2>1. MayCall
    BY <1>6 DEF AppendPoint, Flush
  <2>2. CASE read.phase = "none"
    <3>1. read' = read
      BY <1>6, <2>2 DEF AppendPoint, Flush, ReadAfterFlush
    <3> QED
      BY <2>2, <3>1 DEF ReadInv
  <2>3. CASE read.phase = "callback"
    <3>1. ReadRight(read)
      BY <2>3 DEF ReadInv
    <3>2. ReadRight(t)'
      BY <1>1, <1>6, <2>3, <3>1, WritingReads
    <3>3. ReadRight(read)'
      BY <1>1, <3>2, ReadRightNext
    <3> QED
      BY <3>3 DEF ReadInv
  <2> QED
    BY <2>1, <2>2, <2>3 DEF MayCall
<1>7. CASE CrashInBlock \/ DeletionFails
  <2>1. read' = read /\ read.phase = "none"
    BY <1>7 DEF CrashInBlock, DeletionFails
  <2> QED
    BY <2>1 DEF ReadInv
<1>8. CASE UNCHANGED vars
  <2>1. UNCHANGED store /\ read' = read
    BY <1>8 DEF vars
  <2>2. CASE read.phase = "none"
    BY <2>1, <2>2 DEF ReadInv
  <2>3. CASE ReadRight(read)
    <3>1. ReadRight(t)
      BY <1>1, <2>1, <2>3
    <3> QED
      BY <1>2, <2>1, <3>1
  <2> QED
    BY <2>2, <2>3 DEF ReadInv
<1> QED
  BY <1>3, <1>4, <1>5, <1>6, <1>7, <1>8 DEF Next

\* Whatever is appended, flushed, crashed or unlinked, and whatever the callback of a read
\* writes, the blocks stay in the order of the appends (WriteInv), and what a read has
\* delivered, has decoded and has not come to yet covers all that was due, in that order,
\* and is nothing else but the points of a block that was cut short and completed by the
\* bytes of later ones (ReadInv).
THEOREM ReadInvariant == Spec => [](WriteInv /\ ReadInv)
<1>1. Init => WriteInv /\ ReadInv
  <2>1. Init => ReadInv
    BY DEF Init, NoRead, ReadInv
  <2> QED
    BY <2>1, InitWrite
<1>2. IInv /\ (WriteInv /\ ReadInv) /\ [Next]_vars => (WriteInv /\ ReadInv)'
  BY StepWrites, StepReads
<1> QED
  BY <1>1, <1>2, QueryInvariant, PTL DEF Spec

\* What the invariant says of a read that is over.
LEMMA ReadImplies == ReadInv => ReadOnceInOrder /\ OkMeansEverything
<1> SUFFICES ASSUME ReadInv PROVE ReadOnceInOrder /\ OkMeansEverything
  OBVIOUS
<1>1. CASE read.phase = "none"
  BY <1>1 DEF ReadOnceInOrder, OkMeansEverything
<1>2. CASE ReadRight(read)
  <2>1. read.delivered \in Seq(Items) /\ DOMAIN read.delivered = 1..Len(read.delivered) /\ Genuine(read)
    BY <1>2, ReadFields
  <2>2. ReadOnceInOrder
    BY <1>2, <2>1 DEF ReadRight, ReadOnceInOrder, OrderOk, Rising, Genuine, Right
  <2>3. OkMeansEverything
    <3>1. ASSUME read.phase = "done", read.result = "ok", ~(read.client = "app" /\ read.stopped),
                 NEW n \in read.due
          PROVE  n \in {read.delivered[i].number : i \in DOMAIN read.delivered}
      <4>1. In(read.delivered, n)
        BY <1>2, <3>1 DEF ReadRight, EndOk
      <4> QED
        BY <2>1, <4>1 DEF In
    <3> QED
      BY <3>1 DEF OkMeansEverything
  <2> QED
    BY <2>2, <2>3
<1> QED
  BY <1>1, <1>2 DEF ReadInv

\* ReadOnceInOrder: tsedge_read_range hands out each point once, in the order of the appends
\* and as it was appended, also when its callback appends and flushes, unless a file was
\* unlinked behind the index; what it hands out beside these points comes from a block that
\* a crash cut short and that later blocks have completed.
THEOREM ReadsOnceInOrder == Spec => []ReadOnceInOrder
BY ReadInvariant, ReadImplies, PTL

\* OkMeansEverything: TSEDGE_OK from a read, an export or the binding means that every point
\* of the range that could be read when the call began was handed out, unless the application
\* stopped the read, or flushed from the callback of a buffered point.
THEOREM OkIsEverything == Spec => []OkMeansEverything
BY ReadInvariant, ReadImplies, PTL

-----------------------------------------------------------------------------
(* The statistics *)

\* Two sets of timestamps of which the smaller one holds the bounds of the other one.
LEMMA SameBounds ==
  ASSUME NEW T, T \subseteq Ints, NEW S, S \subseteq T,
         \A y \in T : (\E x \in S : x <= y) /\ (\E x \in S : y <= x)
  PROVE  (S = {} <=> T = {}) /\ (T # {} => Min(S) = Min(T) /\ Max(S) = Max(T))
<1>1. S = {} <=> T = {}
  OBVIOUS
<1>2. ASSUME T # {} PROVE Min(S) = Min(T) /\ Max(S) = Max(T)
  <2>0. Ints \subseteq Int
    BY Halves DEF Ints
  <2>1. S # {} /\ S \subseteq Ints /\ Ints \subseteq Int
    BY <1>1, <1>2, <2>0
  <2>2. PICK a, b, c, d : a = Min(S) /\ b = Min(T) /\ c = Max(S) /\ d = Max(T)
    OBVIOUS
  <2>3. a \in S /\ (\A y \in S : a <= y) /\ c \in S /\ (\A y \in S : c >= y)
    BY <2>1, <2>2, LeastTime, GreatestTime
  <2>4. b \in T /\ (\A y \in T : b <= y) /\ d \in T /\ (\A y \in T : d >= y)
    BY <1>2, <2>2, LeastTime, GreatestTime
  <2>5. a \in Int /\ b \in Int /\ c \in Int /\ d \in Int
    BY <2>1, <2>3, <2>4
  <2>6. PICK x \in S : x <= b
    BY <2>4
  <2>7. PICK y \in S : d <= y
    BY <2>4
  <2>8. x \in Int /\ y \in Int /\ a <= x /\ c >= y /\ b <= a /\ d >= c
    BY <2>1, <2>3, <2>4
  <2>9. a = b /\ c = d
    BY ONLY <2>5, <2>6, <2>7, <2>8
  <2> QED
    BY <2>2, <2>9
<1> QED
  BY <1>1, <1>2

\* What an entry says of the numbers of its block.
Sums(entry, numbers) ==
  /\ numbers \in Seq(DOMAIN history) /\ Len(numbers) = entry.count
  /\ \A a \in 1..Len(numbers) : /\ Timestamp(numbers[a]) \in Ints
                                /\ entry.min <= Timestamp(numbers[a]) /\ Timestamp(numbers[a]) <= entry.max
  /\ \E a \in 1..Len(numbers) : entry.min = Timestamp(numbers[a])
  /\ \E a \in 1..Len(numbers) : entry.max = Timestamp(numbers[a])

\* An entry has the count and the bounds of its block.
LEMMA EntrySums ==
  ASSUME IInv, WriteInv, damage = "none", NEW i \in 1..Len(index)
  PROVE  Sums(index[i], NumbersOf(index[i]))
<1>1. PICK id, k : Placed(i, id, k)
  BY DEF WriteInv, OrderInv, AllPlaced
<1>2. PICK block : block = files[id][k]
  OBVIOUS
<1>3. BlockOk(block) /\ block.whole /\ history \in Seq(Points)
  <2>1. id \in Segments /\ k \in 1..Len(files[id])
    BY <1>1 DEF Placed
  <2> QED
    BY <1>2, <2>1, FileParts DEF BlocksTo, WriteInv, WholeInv
<1>4. /\ HasBlock(index[i]) /\ BlockAt(index[i]) = block
      /\ index[i].min = block.header.min /\ index[i].max = block.header.max
      /\ index[i].count = block.header.count
  BY <1>1, <1>2, PlacedBlock
<1>5. NumbersOf(index[i]) = block.numbers
  BY <1>3, <1>4 DEF NumbersOf
<1>6. block.numbers \in Seq(DOMAIN history) /\ Len(block.numbers) = index[i].count
  BY <1>3, <1>4, BlockStreams DEF BlockOk, IsNumbers
<1>7. Sums(index[i], block.numbers)
  BY <1>3, <1>4, <1>6, HeaderBounds DEF Sums
<1> QED
  BY <1>5, <1>7

\* The counts of the entries add up, and their bounds hold all timestamps.
LEMMA StatsRight == IInv /\ WriteInv => StatsMatchPoints
<1> SUFFICES ASSUME IInv, WriteInv, damage = "none"
             PROVE  LET points == Readable
                        stats == Stats
                        times == {Timestamp(n) : n \in Range(points)}
                    IN /\ stats.points = Len(points)
                       /\ stats.range = IF times = {} THEN <<>> ELSE <<Min(times), Max(times)>>
  BY DEF StatsMatchPoints
<1>1. PICK q : q = [i \in DOMAIN index |-> NumbersOf(index[i])]
  OBVIOUS
<1>2. /\ DOMAIN index = 1..Len(index) /\ Len(index) \in Nat /\ buffer \in Seq(DOMAIN history)
      /\ Len(buffer) \in Nat /\ history \in Seq(Points) /\ DOMAIN history = 1..Len(history)
      /\ Len(history) \in Nat
  BY DEF IInv
<1>3. Readable = FlattenSeq(q) \o buffer
  BY <1>1 DEF Readable, NumbersOf
<1>4. \A i \in 1..Len(index) : Sums(index[i], q[i])
  BY <1>1, <1>2, EntrySums
<1>5. q \in Seq(Seq(DOMAIN history)) /\ Len(q) = Len(index) /\ DOMAIN q = DOMAIN index
  BY <1>1, <1>2, <1>4 DEF Sums
<1>6. /\ FlattenSeq(q) \in Seq(DOMAIN history)
      /\ Range(FlattenSeq(q)) = UNION {Range(q[i]) : i \in 1..Len(q)}
  BY <1>5, FlattenRange
<1>7. Len(FlattenSeq(q)) = SumFunction([i \in DOMAIN index |-> index[i].count])
  <2>1. q \in Seq(Seq(Nat))
    <3>1. \A i \in 1..Len(index) : q[i] \in Seq(Nat)
      <4>1. DOMAIN history \subseteq Nat
        BY <1>2
      <4> QED
        BY <1>4, <4>1, SeqWider DEF Sums
    <3>2. q = [i \in 1..Len(index) |-> q[i]]
      BY <1>1, <1>2
    <3> QED
      BY <1>2, <3>1, <3>2
  <2>2. Len(FlattenSeq(q)) = SumFunction(Lengths(q))
    BY <2>1, Pieces
  <2>3. Lengths(q) = [i \in DOMAIN index |-> index[i].count]
    BY <1>2, <1>4, <1>5 DEF Lengths, Sums
  <2> QED
    BY <2>2, <2>3
<1>8. Len(Readable) = Len(buffer) + SumFunction([i \in DOMAIN index |-> index[i].count])
  <2>1. Len(Readable) = Len(FlattenSeq(q)) + Len(buffer) /\ Len(FlattenSeq(q)) \in Nat
    BY <1>2, <1>3, <1>6, ConcatProperties
  <2> QED
    BY <1>2, <1>7, <2>1
<1>9. /\ \A i \in 1..Len(index) : \A a \in 1..Len(q[i]) : q[i][a] \in Range(Readable)
      /\ \A j \in 1..Len(buffer) : buffer[j] \in Range(Readable)
      /\ \A n \in Range(Readable) : \/ \E i \in 1..Len(index) : \E a \in 1..Len(q[i]) : n = q[i][a]
                                    \/ \E j \in 1..Len(buffer) : n = buffer[j]
  <2>1. Range(Readable) = Range(FlattenSeq(q)) \union Range(buffer)
    BY <1>2, <1>3, <1>6, RangeConcat
  <2>2. ASSUME NEW i \in 1..Len(index) PROVE DOMAIN q[i] = 1..Len(q[i])
    BY <1>4 DEF Sums
  <2>3. \A i \in 1..Len(index) : Range(q[i]) = {q[i][a] : a \in 1..Len(q[i])}
    BY <2>2 DEF Range
  <2>4. Range(buffer) = {buffer[j] : j \in 1..Len(buffer)}
    BY <1>2 DEF Range
  <2>5. \A n : n \in Range(FlattenSeq(q)) <=> \E i \in 1..Len(index) : n \in Range(q[i])
    BY <1>5, <1>6
  <2>6. ASSUME NEW i \in 1..Len(index), NEW a \in 1..Len(q[i]) PROVE q[i][a] \in Range(Readable)
    <3>1. q[i][a] \in Range(q[i])
      BY <2>3
    <3> QED
      BY <2>1, <2>5, <3>1
  <2>7. ASSUME NEW j \in 1..Len(buffer) PROVE buffer[j] \in Range(Readable)
    <3>1. buffer[j] \in Range(buffer)
      BY <2>4
    <3> QED
      BY <2>1, <3>1
  <2>8. ASSUME NEW n \in Range(Readable)
        PROVE  \/ \E i \in 1..Len(index) : \E a \in 1..Len(q[i]) : n = q[i][a]
               \/ \E j \in 1..Len(buffer) : n = buffer[j]
    <3>1. CASE n \in Range(buffer)
      BY <2>4, <3>1
    <3>2. CASE n \in Range(FlattenSeq(q))
      <4>1. PICK i \in 1..Len(index) : n \in Range(q[i])
        BY <2>5, <3>2
      <4>2. \E a \in 1..Len(q[i]) : n = q[i][a]
        BY <2>3, <4>1
      <4> QED
        BY <4>2
    <3> QED
      BY <2>1, <3>1, <3>2
  <2> QED
    BY <2>6, <2>7, <2>8
<1> DEFINE S == (UNION {{index[i].min, index[i].max} : i \in DOMAIN index})
                  \union {Timestamp(buffer[i]) : i \in DOMAIN buffer}
           T == {Timestamp(n) : n \in Range(Readable)}
<1>10. \A j \in 1..Len(buffer) : Timestamp(buffer[j]) \in Ints
  <2>1. \A n \in DOMAIN history : history[n] \in Ints \X Words
    <3>1. Points \subseteq Ints \X Words
      BY QueryAssumption DEF Ints, Words
    <3> QED
      BY <1>2, <3>1
  <2>2. \A j \in 1..Len(buffer) : buffer[j] \in DOMAIN history
    BY <1>2
  <2> QED
    BY <2>1, <2>2 DEF Timestamp
<1>11. /\ \A n \in Range(Readable) : Timestamp(n) \in T
       /\ \A y \in T : \E n \in Range(Readable) : y = Timestamp(n)
  OBVIOUS
<1>12. DOMAIN buffer = 1..Len(buffer)
  BY <1>2
<1>13. /\ \A i \in 1..Len(index) : index[i].min \in S /\ index[i].max \in S
       /\ \A j \in 1..Len(buffer) : Timestamp(buffer[j]) \in S
       /\ \A x \in S : \/ \E i \in 1..Len(index) : x = index[i].min \/ x = index[i].max
                       \/ \E j \in 1..Len(buffer) : x = Timestamp(buffer[j])
  <2>1. S = (UNION {{index[i].min, index[i].max} : i \in 1..Len(index)})
              \union {Timestamp(buffer[i]) : i \in 1..Len(buffer)}
    BY <1>2, <1>12
  <2> HIDE DEF S
  <2>2. ASSUME NEW i \in 1..Len(index) PROVE index[i].min \in S /\ index[i].max \in S
    BY <2>1
  <2>3. ASSUME NEW j \in 1..Len(buffer) PROVE Timestamp(buffer[j]) \in S
    BY <2>1
  <2>4. ASSUME NEW x \in S
        PROVE  \/ \E i \in 1..Len(index) : x = index[i].min \/ x = index[i].max
               \/ \E j \in 1..Len(buffer) : x = Timestamp(buffer[j])
    BY <2>1
  <2> QED
    BY <2>2, <2>3, <2>4
<1> HIDE DEF S, T
<1>14. /\ T \subseteq Ints /\ S \subseteq T
       /\ \A y \in T : (\E x \in S : x <= y) /\ (\E x \in S : y <= x)
  <2>1. ASSUME NEW n \in Range(Readable)
        PROVE  /\ Timestamp(n) \in Ints
               /\ (\E x \in S : x <= Timestamp(n)) /\ (\E x \in S : Timestamp(n) <= x)
    <3>1. CASE \E j \in 1..Len(buffer) : n = buffer[j]
      <4>1. Timestamp(n) \in S /\ Timestamp(n) \in Ints
        BY <1>10, <1>13, <3>1
      <4>2. Ints \subseteq Int
        BY Halves DEF Ints
      <4>3. Timestamp(n) \in Int
        BY <4>1, <4>2
      <4>4. \A x \in Int : x <= x
        OBVIOUS
      <4>5. Timestamp(n) <= Timestamp(n)
        BY ONLY <4>3, <4>4
      <4> QED
        BY <4>1, <4>5
    <3>2. CASE \E i \in 1..Len(index) : \E a \in 1..Len(q[i]) : n = q[i][a]
      <4>1. PICK i \in 1..Len(index) : \E a \in 1..Len(q[i]) : n = q[i][a]
        BY <3>2
      <4>2. index[i].min <= Timestamp(n) /\ Timestamp(n) <= index[i].max /\ Timestamp(n) \in Ints
        BY <1>4, <4>1 DEF Sums
      <4> QED
        BY <1>13, <4>2
    <3> QED
      BY <1>9, <3>1, <3>2
  <2>2. ASSUME NEW i \in 1..Len(index) PROVE index[i].min \in T /\ index[i].max \in T
    <3>1. PICK a \in 1..Len(q[i]) : index[i].min = Timestamp(q[i][a])
      BY <1>4 DEF Sums
    <3>2. PICK b \in 1..Len(q[i]) : index[i].max = Timestamp(q[i][b])
      BY <1>4 DEF Sums
    <3>3. q[i][a] \in Range(Readable) /\ q[i][b] \in Range(Readable)
      BY <1>9
    <3> QED
      BY <1>11, <3>1, <3>2, <3>3
  <2>3. ASSUME NEW j \in 1..Len(buffer) PROVE Timestamp(buffer[j]) \in T
    BY <1>9, <1>11
  <2>4. S \subseteq T
    BY <1>13, <2>2, <2>3
  <2> QED
    BY <1>11, <2>1, <2>4
<1>15. Stats = [points |-> Len(buffer) + SumFunction([i \in DOMAIN index |-> index[i].count]),
                blocks |-> Len(index),
                range  |-> IF S = {} THEN <<>> ELSE <<Min(S), Max(S)>>]
  BY DEF Stats, S
<1>16. (S = {} <=> T = {}) /\ (T # {} => Min(S) = Min(T) /\ Max(S) = Max(T))
  BY <1>14, SameBounds
<1>17. Stats.points = Len(Readable)
  BY <1>8, <1>15
<1>18. Stats.range = IF T = {} THEN <<>> ELSE <<Min(T), Max(T)>>
  BY <1>15, <1>16
<1> QED
  BY <1>17, <1>18 DEF T

\* StatsMatchPoints: what tsedge_get_series_stats adds up from the index and the buffer is the
\* number and the range of the points that can be read, as long as no crash and no deletion
\* has damaged a file.
THEOREM StatsAreRight == Spec => []StatsMatchPoints
BY QueryInvariant, ReadInvariant, StatsRight, PTL

-----------------------------------------------------------------------------
(* Accumulators *)

\* What an accumulator holds: numbers or a NaN.
Quantities == Int \union {NaN}

Accumulators == [count : Nat, min : Quantities, max : Quantities, sum : Quantities]

\* acc is what a loop over the values gives.
Adds(acc, values) ==
  /\ acc \in Accumulators /\ values \in Seq(Quantities) /\ acc.count = Len(values)
  /\ (\E i \in 1..Len(values) : values[i] = NaN) => acc.sum = NaN
  /\ (\A i \in 1..Len(values) : values[i] \in Int) =>
       /\ acc.sum = SumFunction(values)
       /\ Len(values) # 0 =>
            /\ acc.min \in Int /\ acc.max \in Int
            /\ \E i \in 1..Len(values) : acc.min = values[i]
            /\ \E i \in 1..Len(values) : acc.max = values[i]
            /\ \A i \in 1..Len(values) : acc.min <= values[i] /\ values[i] <= acc.max

\* Nothing, and one value.
LEMMA AddsNone == Adds(Zero, <<>>)
<1>1. Zero \in Accumulators /\ Zero.count = 0 /\ Zero.sum = 0
  BY DEF Zero, Accumulators, Quantities
<1>2. <<>> \in Seq(Quantities) /\ Len(<<>>) = 0
  OBVIOUS
<1> QED
  BY <1>1, <1>2, SumOfIntegers DEF Adds

\* A value as a number.
LEMMA NumberIs == \A w \in Words : Number(w) \in Quantities
<1>1. Ints \subseteq Int
  BY Halves DEF Ints
<1> QED
  BY <1>1, CastBack DEF Number, Quantities

\* The statistics of one value.
LEMMA AddsSingle == \A w \in Words : Adds(Single(w), <<Number(w)>>) /\ Single(w).count = 1
<1> TAKE w \in Words
<1>1. PICK x \in Quantities : x = Number(w)
  BY NumberIs
<1>2. Single(w) = [count |-> 1, min |-> x, max |-> x, sum |-> x]
  BY <1>1 DEF Single
<1>3. PICK acc : acc = Single(w)
  OBVIOUS
<1>4. /\ acc \in Accumulators /\ acc.count = 1 /\ acc.min = x /\ acc.max = x /\ acc.sum = x
  BY <1>2, <1>3 DEF Accumulators
<1>5. PICK v : v = <<x>>
  OBVIOUS
<1>6. v \in Seq(Quantities) /\ Len(v) = 1 /\ v[1] = x /\ \A i \in 1..1 : i = 1
  BY <1>5
<1>7. x \in Int => SumFunction(v) = x
  <2> HAVE x \in Int
  <2>1. Append(<<>>, x) = v /\ <<>> \in Seq(Int)
    BY <1>5
  <2>2. SumFunction(Append(<<>>, x)) = SumFunction(<<>>) + x /\ SumFunction(<<>>) = 0
    BY <2>1, SumOfIntegers
  <2> QED
    BY <2>1, <2>2
<1>8. x \in Int => x <= x
  OBVIOUS
<1>9. 1 \in 1..1
  OBVIOUS
<1>10. Adds(acc, v)
  BY <1>4, <1>6, <1>7, <1>8, <1>9 DEF Adds
<1> QED
  BY <1>1, <1>3, <1>4, <1>5, <1>10

\* The parts of a combination.
LEMMA CombineIs ==
  ASSUME NEW a \in Accumulators, NEW b \in Accumulators
  PROVE  /\ Combine(a, b) \in Accumulators
         /\ Combine(a, b).count = a.count + b.count
         /\ Combine(a, b).sum = Plus(a.sum, b.sum)
         /\ a.count = 0 => Combine(a, b).min = b.min /\ Combine(a, b).max = b.max
         /\ a.count # 0 => /\ Combine(a, b).min = IF Less(b.min, a.min) THEN b.min ELSE a.min
                           /\ Combine(a, b).max = IF Less(a.max, b.max) THEN b.max ELSE a.max
<1>1. PICK n \in Nat, x \in Quantities, y \in Quantities, s \in Quantities :
        n = a.count /\ x = a.min /\ y = a.max /\ s = a.sum
  BY DEF Accumulators
<1>2. PICK m \in Nat, u \in Quantities, v \in Quantities, t \in Quantities :
        m = b.count /\ u = b.min /\ v = b.max /\ t = b.sum
  BY DEF Accumulators
<1>3. a = [count |-> n, min |-> x, max |-> y, sum |-> s]
  BY <1>1 DEF Accumulators
<1> DEFINE base == IF n = 0 THEN [a EXCEPT !.min = u, !.max = v] ELSE a
<1>4. Combine(a, b) = [count |-> n + m,
                       min   |-> IF Less(u, base.min) THEN u ELSE base.min,
                       max   |-> IF Less(base.max, v) THEN v ELSE base.max,
                       sum   |-> Plus(s, t)]
  BY <1>1, <1>2 DEF Combine
<1>5. /\ n = 0 => base.min = u /\ base.max = v
      /\ n # 0 => base.min = x /\ base.max = y
  BY <1>1, <1>3
<1> HIDE DEF base
<1>6. base.min \in Quantities /\ base.max \in Quantities
  BY <1>5
<1>7. Plus(s, t) \in Quantities
  BY DEF Plus, Quantities
<1>8. n + m \in Nat
  OBVIOUS
<1>9. Combine(a, b) \in Accumulators
  BY <1>4, <1>6, <1>7, <1>8 DEF Accumulators
<1>10. PICK c : c = Combine(a, b)
  OBVIOUS
<1>11. /\ c.count = n + m /\ c.sum = Plus(s, t)
       /\ c.min = (IF Less(u, base.min) THEN u ELSE base.min)
       /\ c.max = (IF Less(base.max, v) THEN v ELSE base.max)
  BY <1>4, <1>10
<1>12. /\ n = 0 => c.min = u /\ c.max = v
       /\ n # 0 => /\ c.min = (IF Less(u, x) THEN u ELSE x)
                   /\ c.max = (IF Less(y, v) THEN v ELSE y)
  BY <1>5, <1>11
<1> QED
  BY <1>1, <1>2, <1>9, <1>10, <1>11, <1>12

\* What two loops give, combined, is what one loop over both gives.
LEMMA CombineAdds ==
  ASSUME NEW a, NEW b, NEW s, NEW t, Adds(a, s), Adds(b, t), Len(t) # 0
  PROVE  Adds(Combine(a, b), s \o t)
<1>1. /\ a \in Accumulators /\ b \in Accumulators /\ s \in Seq(Quantities) /\ t \in Seq(Quantities)
      /\ a.count = Len(s) /\ b.count = Len(t)
  BY DEF Adds
<1>2. PICK m \in Nat, n \in Nat : m = Len(s) /\ n = Len(t)
  BY <1>1
<1>3. PICK w : w = s \o t
  OBVIOUS
<1>4. /\ w \in Seq(Quantities) /\ Len(w) = m + n
      /\ \A i \in 1..m : w[i] = s[i]
      /\ \A i \in 1..n : w[m + i] = t[i]
  BY <1>1, <1>2, <1>3, ConcatElements, ConcatProperties
<1>5. PICK c : c = Combine(a, b)
  OBVIOUS
<1>6. /\ c \in Accumulators /\ c.count = m + n /\ c.sum = Plus(a.sum, b.sum)
      /\ m = 0 => c.min = b.min /\ c.max = b.max
      /\ m # 0 => /\ c.min = IF Less(b.min, a.min) THEN b.min ELSE a.min
                  /\ c.max = IF Less(a.max, b.max) THEN b.max ELSE a.max
  BY <1>1, <1>2, <1>5, CombineIs
<1>7. \A i \in 1..(m + n) : (i \in 1..m /\ w[i] = s[i]) \/ (\E j \in 1..n : i = m + j /\ w[i] = t[j])
  <2> TAKE i \in 1..(m + n)
  <2>1. CASE i <= m
    BY <1>4, <2>1
  <2>2. CASE i > m
    <3>1. i - m \in 1..n /\ m + (i - m) = i
      BY <2>2
    <3> QED
      BY <1>4, <3>1
  <2> QED
    BY <2>1, <2>2
<1>8. /\ \A i \in 1..m : i \in 1..(m + n) /\ w[i] = s[i]
      /\ \A j \in 1..n : m + j \in 1..(m + n) /\ w[m + j] = t[j]
  BY <1>4
<1>9. NaN \notin Int
  BY QueryAssumption
<1>10. (\E i \in 1..(m + n) : w[i] = NaN) => c.sum = NaN
  <2> HAVE \E i \in 1..(m + n) : w[i] = NaN
  <2>1. (\E i \in 1..m : s[i] = NaN) \/ (\E j \in 1..n : t[j] = NaN)
    BY <1>7
  <2>2. a.sum = NaN \/ b.sum = NaN
    BY <1>2, <2>1 DEF Adds
  <2> QED
    BY <1>6, <2>2 DEF Plus
<1>11. ASSUME \A i \in 1..(m + n) : w[i] \in Int
       PROVE  /\ c.sum = SumFunction(w) /\ c.min \in Int /\ c.max \in Int
              /\ \E i \in 1..(m + n) : c.min = w[i]
              /\ \E i \in 1..(m + n) : c.max = w[i]
              /\ \A i \in 1..(m + n) : c.min <= w[i] /\ w[i] <= c.max
  <2>1. /\ \A i \in 1..m : s[i] \in Int
        /\ \A j \in 1..n : t[j] \in Int
    BY <1>8, <1>11
  <2>2. s \in Seq(Int) /\ t \in Seq(Int)
    BY <1>1, <1>2, <2>1
  <2>3. /\ a.sum = SumFunction(s) /\ b.sum = SumFunction(t)
        /\ SumFunction(s) \in Int /\ SumFunction(t) \in Int
    BY <1>2, <2>1, <2>2, SumOfIntegers DEF Adds
  <2>4. c.sum = SumFunction(w)
    <3>1. c.sum = a.sum + b.sum
      BY <1>6, <1>9, <2>3 DEF Plus
    <3> QED
      BY <1>3, <2>2, <2>3, <3>1, SumConcat
  <2>5. /\ b.min \in Int /\ b.max \in Int
        /\ \E j \in 1..n : b.min = t[j]
        /\ \E j \in 1..n : b.max = t[j]
        /\ \A j \in 1..n : b.min <= t[j] /\ t[j] <= b.max
    BY <1>2, <2>1 DEF Adds
  <2>6. /\ \E i \in 1..(m + n) : b.min = w[i]
        /\ \E i \in 1..(m + n) : b.max = w[i]
    BY <1>8, <2>5
  <2>7. CASE m = 0
    <3>1. \A i \in 1..(m + n) : \E j \in 1..n : w[i] = t[j]
      BY <1>7, <2>7
    <3>2. c.min = b.min /\ c.max = b.max
      BY <1>6, <2>7
    <3> QED
      BY <2>4, <2>5, <2>6, <3>1, <3>2
  <2>8. CASE m # 0
    <3>1. /\ a.min \in Int /\ a.max \in Int
          /\ \E i \in 1..m : a.min = s[i]
          /\ \E i \in 1..m : a.max = s[i]
          /\ \A i \in 1..m : a.min <= s[i] /\ s[i] <= a.max
      BY <1>2, <2>1, <2>8 DEF Adds
    <3>2. PICK x \in Int, y \in Int, u \in Int, v \in Int : x = a.min /\ y = a.max /\ u = b.min /\ v = b.max
      BY <2>5, <3>1
    <3>3. /\ c.min = IF u < x THEN u ELSE x
          /\ c.max = IF y < v THEN v ELSE y
      BY <1>6, <1>9, <2>8, <3>2 DEF Less
    <3>4. c.min \in Int /\ c.max \in Int /\ c.min <= x /\ c.min <= u /\ y <= c.max /\ v <= c.max
      BY <3>3
    <3>5. \A i \in 1..(m + n) : c.min <= w[i] /\ w[i] <= c.max
      <4> TAKE i \in 1..(m + n)
      <4>1. (x <= w[i] /\ w[i] <= y) \/ (u <= w[i] /\ w[i] <= v)
        BY <1>7, <2>5, <3>1, <3>2
      <4>2. w[i] \in Int
        BY <1>11
      <4> QED
        BY <3>4, <4>1, <4>2
    <3>6. /\ \E i \in 1..(m + n) : a.min = w[i]
          /\ \E i \in 1..(m + n) : a.max = w[i]
      BY <1>8, <3>1
    <3>7. (c.min = x \/ c.min = u) /\ (c.max = y \/ c.max = v)
      BY <3>3
    <3> QED
      BY <2>4, <2>6, <3>2, <3>4, <3>5, <3>6, <3>7
  <2> QED
    BY <2>7, <2>8
<1> QED
  BY <1>3, <1>4, <1>5, <1>6, <1>10, <1>11 DEF Adds

\* One more value.
LEMMA AddsOne ==
  ASSUME NEW a, NEW s, Adds(a, s), NEW w \in Words
  PROVE  Adds(Combine(a, Single(w)), Append(s, Number(w)))
<1>1. Adds(Single(w), <<Number(w)>>) /\ Len(<<Number(w)>>) = 1
  BY AddsSingle
<1>2. Adds(Combine(a, Single(w)), s \o <<Number(w)>>)
  BY <1>1, CombineAdds
<1>3. s \in Seq(Quantities) /\ Number(w) \in Quantities
  BY NumberIs DEF Adds
<1>4. Append(s, Number(w)) = s \o <<Number(w)>>
  BY <1>3, AppendAsConcat
<1> QED
  BY <1>2, <1>4

-----------------------------------------------------------------------------
(* The numbers in a range, one by one *)

\* Two rows of timestamps that agree up to the n-th one, and a row of n timestamps.
Agree(u, v, n) == \A i \in 1..n : u[i] = v[i]

IsRow(u, n) == u = [i \in 1..n |-> u[i]]

HitsRowsOf(times, from, to, t, n) == \A k \in 0..n : t[k] = HitsRow(times, from, to, t, k)

\* What is found up to a place depends on the timestamps up to it.
LEMMA HitsTablesAgree ==
  ASSUME NEW n \in Nat, NEW u, NEW v, Agree(u, v, n), NEW from, NEW to,
         NEW s, HitsRowsOf(u, from, to, s, n), NEW t, HitsRowsOf(v, from, to, t, n)
  PROVE  s[n] = t[n]
<1> DEFINE G == {k \in Nat : k <= n => s[k] = t[k]}
<1>1. 0 \in G
  <2>1. 0 \in 0..n
    OBVIOUS
  <2>2. s[0] = HitsRow(u, from, to, s, 0) /\ t[0] = HitsRow(v, from, to, t, 0)
    BY <2>1 DEF HitsRowsOf
  <2>3. s[0] = <<>> /\ t[0] = <<>>
    BY <2>2 DEF HitsRow
  <2> QED
    BY <2>3
<1>2. ASSUME NEW k \in Nat, k \in G PROVE k + 1 \in G
  <2> SUFFICES ASSUME k + 1 <= n PROVE s[k + 1] = t[k + 1]
    OBVIOUS
  <2>1. k + 1 \in 0..n /\ k + 1 \in 1..n /\ k + 1 # 0 /\ (k + 1) - 1 = k
    OBVIOUS
  <2>2. s[k] = t[k] /\ u[k + 1] = v[k + 1]
    BY <1>2, <2>1 DEF Agree
  <2>3. s[k + 1] = HitsRow(u, from, to, s, k + 1) /\ t[k + 1] = HitsRow(v, from, to, t, k + 1)
    BY <2>1 DEF HitsRowsOf
  <2> QED
    BY <2>1, <2>2, <2>3 DEF HitsRow
<1> HIDE DEF G
<1>3. Nat \subseteq G
  BY <1>1, <1>2, NatSetInduction
<1> QED
  BY <1>3 DEF G

\* Hits is the last row of a table.
LEMMA HitsRows ==
  ASSUME NEW n \in Nat, NEW times, Len(times) = n, NEW from, NEW to
  PROVE  \E t : Hits(times, from, to) = t[n] /\ HitsRowsOf(times, from, to, t, n)
<1> DEFINE t == CHOOSE t : HitsTable(times, from, to, t, n)
<1>1. HitsTable(times, from, to, t, n)
  BY HitsTableExists
<1>2. Hits(times, from, to) = t[n]
  BY DEF Hits, HitsTable, HitsRow
<1> HIDE DEF t
<1>3. HitsRowsOf(times, from, to, t, n)
  BY <1>1 DEF HitsTable, HitsRowsOf
<1> QED
  BY <1>2, <1>3

\* One more timestamp.
LEMMA HitsAppend ==
  ASSUME NEW n \in Nat, NEW u, IsRow(u, n), NEW v, IsRow(v, n + 1), Agree(u, v, n),
         NEW from, NEW to
  PROVE  Hits(v, from, to) = IF Within(v[n + 1], from, to) THEN Append(Hits(u, from, to), n + 1)
                             ELSE Hits(u, from, to)
<1>1. Len(u) = n
  BY DEF IsRow
<1>2. PICK m \in Nat : m = n + 1
  OBVIOUS
<1>3. Len(v) = m
  BY <1>2 DEF IsRow
<1>4. PICK s : Hits(u, from, to) = s[n] /\ HitsRowsOf(u, from, to, s, n)
  BY ONLY n \in Nat, <1>1, HitsRows
<1>5. PICK t : Hits(v, from, to) = t[m] /\ HitsRowsOf(v, from, to, t, m)
  BY ONLY m \in Nat, <1>3, HitsRows
<1>6. HitsRowsOf(v, from, to, t, n)
  <2>1. 0..n \subseteq 0..m
    BY <1>2
  <2> QED
    BY <1>5, <2>1 DEF HitsRowsOf
<1>7. s[n] = t[n]
  BY <1>4, <1>6, HitsTablesAgree
<1>8. m \in 0..m /\ m # 0 /\ m - 1 = n
  BY <1>2
<1>9. t[m] = HitsRow(v, from, to, t, m)
  BY <1>5, <1>8 DEF HitsRowsOf
<1> QED
  BY <1>2, <1>4, <1>5, <1>7, <1>8, <1>9 DEF HitsRow, Within

\* The numbers in a range.
LEMMA InRangeType ==
  ASSUME NEW numbers \in Seq(Nat), NEW from, NEW to
  PROVE  /\ InRange(numbers, from, to) \in Seq(Nat)
         /\ InRange(<<>>, from, to) = <<>>
<1>1. ASSUME NEW s \in Seq(Nat)
      PROVE  InRange(s, from, to) \in Seq(Nat) /\ Len(InRange(s, from, to)) <= Len(s)
  <2>1. PICK m \in Nat : m = Len(s) /\ DOMAIN s = 1..m /\ \A i \in 1..m : s[i] \in Nat
    OBVIOUS
  <2>2. PICK times : times = [i \in 1..m |-> Timestamp(s[i])]
    OBVIOUS
  <2>3. PICK h : h = Hits(times, from, to)
    OBVIOUS
  <2>4. h \in Seq(1..m) /\ Ascending(h)
    <3>1. times = [i \in 1..m |-> times[i]]
      BY <2>2
    <3>2. RightHits(times, from, to, Hits(times, from, to), m)
      BY <3>1, HitsOf
    <3>3. RightHits(times, from, to, h, m)
      BY <2>3, <3>2
    <3> QED
      BY <3>3 DEF RightHits
  <2>5. InRange(s, from, to) = [a \in DOMAIN h |-> s[h[a]]]
    BY <2>1, <2>2, <2>3 DEF InRange
  <2>6. PICK l \in Nat : l = Len(h) /\ DOMAIN h = 1..l
    BY <2>4
  <2>7. \A a \in 1..l : s[h[a]] \in Nat
    BY <2>1, <2>4, <2>6
  <2>8. InRange(s, from, to) \in Seq(Nat) /\ Len(InRange(s, from, to)) = l
    BY <2>5, <2>6, <2>7
  <2>9. l <= m
    <3> DEFINE G == {k \in Nat : k <= l /\ k > 0 => k <= h[k]}
    <3>1. \A k \in 1..l : h[k] \in 1..m
      BY <2>4, <2>6
    <3>2. 0 \in G
      OBVIOUS
    <3>3. ASSUME NEW k \in Nat, k \in G PROVE k + 1 \in G
      <4> SUFFICES ASSUME k + 1 <= l PROVE k + 1 <= h[k + 1]
        OBVIOUS
      <4>1. k + 1 \in 1..l /\ h[k + 1] \in 1..m
        BY <3>1
      <4>2. CASE k = 0
        BY <4>1, <4>2
      <4>3. CASE k # 0
        <5>1. k \in 1..l /\ h[k] \in 1..m /\ k <= h[k] /\ k < k + 1
          BY <3>1, <3>3, <4>3
        <5>2. h[k] < h[k + 1]
          BY <2>4, <2>6, <4>1, <5>1 DEF Ascending
        <5> QED
          BY <4>1, <5>1, <5>2
      <4> QED
        BY <4>2, <4>3
    <3> HIDE DEF G
    <3>4. Nat \subseteq G
      BY <3>2, <3>3, NatSetInduction
    <3>5. CASE l = 0
      BY <2>1, <3>5
    <3>6. CASE l # 0
      <4>1. l \in G /\ l \in 1..l
        BY <3>4, <3>6
      <4>2. l <= h[l] /\ h[l] \in 1..m
        BY <3>1, <4>1 DEF G
      <4> QED
        BY <4>2
    <3> QED
      BY <3>5, <3>6
  <2> QED
    BY <2>1, <2>8, <2>9
<1>2. InRange(<<>>, from, to) = <<>>
  <2>1. <<>> \in Seq(Nat) /\ Len(<<>>) = 0
    OBVIOUS
  <2>2. PICK r \in Seq(Nat) : r = InRange(<<>>, from, to) /\ Len(r) <= 0
    BY <1>1, <2>1
  <2>3. r = <<>>
    BY <2>2
  <2> QED
    BY <2>2, <2>3
<1> QED
  BY <1>1, <1>2

\* One more number.
LEMMA InRangeAppend ==
  ASSUME NEW numbers \in Seq(Nat), NEW x \in Nat, NEW from, NEW to
  PROVE  InRange(Append(numbers, x), from, to) =
           IF Within(Timestamp(x), from, to) THEN Append(InRange(numbers, from, to), x)
           ELSE InRange(numbers, from, to)
<1>1. PICK m \in Nat : m = Len(numbers) /\ DOMAIN numbers = 1..m /\ \A i \in 1..m : numbers[i] \in Nat
  OBVIOUS
<1>2. PICK more : more = Append(numbers, x)
  OBVIOUS
<1>3. /\ more \in Seq(Nat) /\ Len(more) = m + 1 /\ DOMAIN more = 1..(m + 1)
      /\ more[m + 1] = x /\ \A i \in 1..m : more[i] = numbers[i]
  <2>1. more \in Seq(Nat) /\ Len(more) = m + 1 /\ more[m + 1] = x /\ \A i \in 1..m : more[i] = numbers[i]
    BY <1>1, <1>2, AppendProperties
  <2> QED
    BY <2>1
<1>4. PICK u : u = [i \in 1..m |-> Timestamp(numbers[i])]
  OBVIOUS
<1>5. PICK v : v = [i \in 1..(m + 1) |-> Timestamp(more[i])]
  OBVIOUS
<1>6. /\ u = [i \in 1..m |-> u[i]] /\ v = [i \in 1..(m + 1) |-> v[i]]
      /\ v[m + 1] = Timestamp(x) /\ \A i \in 1..m : u[i] = v[i]
  BY <1>3, <1>4, <1>5
<1>7. PICK h : h = Hits(u, from, to)
  OBVIOUS
<1>8. PICK g : g = Hits(v, from, to)
  OBVIOUS
<1>9. g = IF Within(Timestamp(x), from, to) THEN Append(h, m + 1) ELSE h
  <2>1. Hits(v, from, to) = IF Within(v[m + 1], from, to) THEN Append(Hits(u, from, to), m + 1)
                            ELSE Hits(u, from, to)
    <3>1. IsRow(u, m) /\ IsRow(v, m + 1) /\ Agree(u, v, m)
      BY <1>6 DEF IsRow, Agree
    <3> QED
      BY <3>1, HitsAppend
  <2> QED
    BY <1>6, <1>7, <1>8, <2>1
<1>10. h \in Seq(1..m)
  <2>1. RightHits(u, from, to, Hits(u, from, to), m)
    BY <1>6, HitsOf
  <2>2. RightHits(u, from, to, h, m)
    BY <1>7, <2>1
  <2> QED
    BY <2>2 DEF RightHits
<1>11. PICK l \in Nat : l = Len(h) /\ DOMAIN h = 1..l /\ \A a \in 1..l : h[a] \in 1..m
  BY <1>10
<1>12. PICK r : r = InRange(numbers, from, to)
  OBVIOUS
<1>13. r = [a \in 1..l |-> numbers[h[a]]]
  BY <1>1, <1>4, <1>7, <1>11, <1>12 DEF InRange
<1>14. InRange(more, from, to) = [a \in DOMAIN g |-> more[g[a]]]
  BY <1>3, <1>5, <1>8 DEF InRange
<1>15. CASE ~Within(Timestamp(x), from, to)
  <2>1. g = h
    BY <1>9, <1>15
  <2>2. InRange(more, from, to) = [a \in 1..l |-> more[h[a]]]
    BY <1>11, <1>14, <2>1
  <2>3. \A a \in 1..l : more[h[a]] = numbers[h[a]]
    BY <1>3, <1>11
  <2>4. [a \in 1..l |-> more[h[a]]] = [a \in 1..l |-> numbers[h[a]]]
    BY <2>3
  <2> QED
    BY <1>2, <1>12, <1>13, <1>15, <2>2, <2>4
<1>16. CASE Within(Timestamp(x), from, to)
  <2>1. g = Append(h, m + 1)
    BY <1>9, <1>16
  <2>2. h \in Seq(1..(m + 1)) /\ m + 1 \in 1..(m + 1)
    <3>1. 1..m \subseteq 1..(m + 1) /\ m + 1 \in 1..(m + 1)
      OBVIOUS
    <3> QED
      BY <1>10, <3>1, SeqWider
  <2>3. /\ Len(g) = l + 1 /\ DOMAIN g = 1..(l + 1) /\ g[l + 1] = m + 1 /\ \A a \in 1..l : g[a] = h[a]
    <3>1. g \in Seq(1..(m + 1)) /\ Len(g) = l + 1 /\ g[l + 1] = m + 1 /\ \A a \in 1..l : g[a] = h[a]
      BY <1>11, <2>1, <2>2, AppendProperties
    <3> QED
      BY <3>1
  <2>4. InRange(more, from, to) = [a \in 1..(l + 1) |-> more[g[a]]]
    BY <1>14, <2>3
  <2>5. /\ \A a \in 1..l : more[g[a]] = numbers[h[a]] /\ numbers[h[a]] \in Nat
        /\ more[g[l + 1]] = x
    BY <1>1, <1>3, <1>11, <2>3
  <2>6. r \in Seq(Nat) /\ Len(r) = l /\ \A a \in 1..l : r[a] = numbers[h[a]]
    BY <1>13, <2>5
  <2>7. PICK w : w = Append(r, x)
    OBVIOUS
  <2>8. w \in Seq(Nat) /\ Len(w) = l + 1 /\ w[l + 1] = x /\ \A a \in 1..l : w[a] = r[a]
    BY <2>6, <2>7, AppendProperties
  <2>9. PICK z : z = InRange(more, from, to)
    OBVIOUS
  <2>10. /\ z = [a \in 1..(l + 1) |-> more[g[a]]]
         /\ z[l + 1] = x /\ \A a \in 1..l : z[a] = numbers[h[a]]
    BY <2>4, <2>5, <2>9
  <2>11. \A a \in 1..(l + 1) : z[a] = w[a]
    <3> TAKE a \in 1..(l + 1)
    <3>1. CASE a = l + 1
      BY <2>8, <2>10, <3>1
    <3>2. CASE a # l + 1
      <4>1. a \in 1..l
        BY <3>2
      <4> QED
        BY <2>6, <2>8, <2>10, <4>1
    <3> QED
      BY <3>1, <3>2
  <2>12. z \in Seq(Nat) /\ Len(z) = l + 1
    <3>1. \A a \in 1..(l + 1) : w[a] \in Nat
      BY <2>8
    <3>2. PICK n \in Nat : n = l + 1
      OBVIOUS
    <3>3. z = [a \in 1..n |-> more[g[a]]] /\ \A a \in 1..n : more[g[a]] \in Nat
      <4>1. \A a \in 1..n : z[a] = more[g[a]]
        BY ONLY <2>10, <3>2
      <4>2. \A a \in 1..n : z[a] \in Nat
        BY ONLY <2>11, <3>1, <3>2
      <4> QED
        BY ONLY <2>10, <3>2, <4>1, <4>2
    <3>4. [a \in 1..n |-> more[g[a]]] \in Seq(Nat) /\ Len([a \in 1..n |-> more[g[a]]]) = n
      BY ONLY <3>3, n \in Nat
    <3> QED
      BY ONLY <3>2, <3>3, <3>4
  <2>13. z = w
    BY <2>8, <2>11, <2>12, SeqEqual
  <2> QED
    BY <1>2, <1>12, <1>16, <2>7, <2>9, <2>13
<1> QED
  BY <1>15, <1>16

\* The numbers of two sequences that are in a range.
LEMMA InRangeConcat ==
  ASSUME NEW s \in Seq(Nat), NEW t \in Seq(Nat), NEW from, NEW to
  PROVE  InRange(s \o t, from, to) = InRange(s, from, to) \o InRange(t, from, to)
<1>1. PICK n \in Nat : n = Len(t)
  OBVIOUS
<1> DEFINE G == {k \in Nat : k <= n =>
                   InRange(s \o Upto(t, k), from, to) = InRange(s, from, to) \o InRange(Upto(t, k), from, to)}
<1>2. /\ Upto(t, 0) = <<>> /\ Upto(t, n) = t /\ \A k \in 0..n : Upto(t, k) \in Seq(Nat)
      /\ \A k \in Nat : k < n => t[k + 1] \in Nat /\ Upto(t, k + 1) = Append(Upto(t, k), t[k + 1])
  BY <1>1, UptoNext
<1>3. 0 \in G
  <2>1. InRange(s, from, to) \in Seq(Nat) /\ InRange(<<>>, from, to) = <<>>
    BY InRangeType
  <2>2. s \o <<>> = s /\ InRange(s, from, to) \o <<>> = InRange(s, from, to)
    BY <2>1
  <2> QED
    BY <1>2, <2>1, <2>2
<1>4. ASSUME NEW k \in Nat, k \in G PROVE k + 1 \in G
  <2> SUFFICES ASSUME k + 1 <= n
               PROVE  InRange(s \o Upto(t, k + 1), from, to) =
                        InRange(s, from, to) \o InRange(Upto(t, k + 1), from, to)
    OBVIOUS
  <2>1. PICK u, x : u = Upto(t, k) /\ x = t[k + 1]
    OBVIOUS
  <2>2. k \in 0..n /\ k < n
    OBVIOUS
  <2>3. u \in Seq(Nat) /\ x \in Nat /\ Upto(t, k + 1) = Append(u, x)
    BY <1>2, <2>1, <2>2
  <2>4. InRange(s \o u, from, to) = InRange(s, from, to) \o InRange(u, from, to)
    BY <1>4, <2>1, <2>2
  <2> HIDE DEF G
  <2>5. s \o Append(u, x) = Append(s \o u, x) /\ s \o u \in Seq(Nat)
    <3>1. u \in Seq(Nat) /\ x \in Nat
      BY <2>3
    <3>2. s \o Append(u, x) = Append(s \o u, x)
      BY ONLY <3>1, s \in Seq(Nat), ConcatAppend
    <3>3. s \o u \in Seq(Nat)
      BY ONLY <3>1, s \in Seq(Nat), ConcatProperties
    <3> QED
      BY ONLY <3>2, <3>3
  <2>6. PICK a \in Seq(Nat), b \in Seq(Nat) : a = InRange(s, from, to) /\ b = InRange(u, from, to)
    <3>1. InRange(s, from, to) \in Seq(Nat)
      BY InRangeType
    <3>2. InRange(u, from, to) \in Seq(Nat)
      BY <2>3, InRangeType
    <3> QED
      BY <3>1, <3>2
  <2>7. a \o Append(b, x) = Append(a \o b, x)
    <3>1. x \in Nat
      BY <2>3
    <3> QED
      BY ONLY <3>1, a \in Seq(Nat), b \in Seq(Nat), ConcatAppend
  <2>8. InRange(Append(s \o u, x), from, to) =
          IF Within(Timestamp(x), from, to) THEN Append(InRange(s \o u, from, to), x)
          ELSE InRange(s \o u, from, to)
    <3>1. \A r \in Seq(Nat), y \in Nat : InRange(Append(r, y), from, to) =
            IF Within(Timestamp(y), from, to) THEN Append(InRange(r, from, to), y)
            ELSE InRange(r, from, to)
      BY InRangeAppend
    <3> QED
      BY <2>3, <2>5, <3>1
  <2>9. InRange(Append(u, x), from, to) =
          IF Within(Timestamp(x), from, to) THEN Append(b, x) ELSE b
    <3>1. u \in Seq(Nat) /\ x \in Nat
      BY <2>3
    <3>2. InRange(Append(u, x), from, to) =
            IF Within(Timestamp(x), from, to) THEN Append(InRange(u, from, to), x) ELSE InRange(u, from, to)
      BY ONLY <3>1, InRangeAppend
    <3> QED
      BY ONLY <2>6, <3>2
  <2>10. InRange(s \o u, from, to) = a \o b
    BY <2>4, <2>6
  <2>11. InRange(Append(s \o u, x), from, to) = a \o InRange(Append(u, x), from, to)
    <3>1. CASE Within(Timestamp(x), from, to)
      BY ONLY <2>7, <2>8, <2>9, <2>10, <3>1
    <3>2. CASE ~Within(Timestamp(x), from, to)
      BY ONLY <2>8, <2>9, <2>10, <3>2
    <3> QED
      BY <3>1, <3>2
  <2> QED
    BY <2>3, <2>5, <2>6, <2>11
<1> HIDE DEF G
<1>5. Nat \subseteq G
  BY <1>3, <1>4, NatSetInduction
<1>6. n \in G /\ n <= n
  BY <1>5
<1>7. InRange(s \o Upto(t, n), from, to) = InRange(s, from, to) \o InRange(Upto(t, n), from, to)
  BY <1>6 DEF G
<1> QED
  BY <1>2, <1>7

\* All of some numbers are in the range, or none.
LEMMA InRangeAll ==
  ASSUME NEW s \in Seq(Nat), NEW from, NEW to
  PROVE  /\ (\A i \in 1..Len(s) : Within(Timestamp(s[i]), from, to)) => InRange(s, from, to) = s
         /\ (\A i \in 1..Len(s) : ~Within(Timestamp(s[i]), from, to)) => InRange(s, from, to) = <<>>
<1>1. PICK n \in Nat : n = Len(s)
  OBVIOUS
<1>2. /\ Upto(s, 0) = <<>> /\ Upto(s, n) = s /\ \A k \in 0..n : Upto(s, k) \in Seq(Nat)
      /\ \A k \in Nat : k < n => s[k + 1] \in Nat /\ Upto(s, k + 1) = Append(Upto(s, k), s[k + 1])
  BY <1>1, UptoNext
<1>3. InRange(<<>>, from, to) = <<>>
  BY InRangeType
<1>4. ASSUME NEW k \in Nat, k < n
      PROVE  InRange(Upto(s, k + 1), from, to) =
               IF Within(Timestamp(s[k + 1]), from, to) THEN Append(InRange(Upto(s, k), from, to), s[k + 1])
               ELSE InRange(Upto(s, k), from, to)
  <2>1. k \in 0..n
    BY <1>4
  <2>2. PICK u \in Seq(Nat), x \in Nat : u = Upto(s, k) /\ x = s[k + 1] /\ Upto(s, k + 1) = Append(u, x)
    BY <1>2, <1>4, <2>1
  <2>3. InRange(Append(u, x), from, to) =
          IF Within(Timestamp(x), from, to) THEN Append(InRange(u, from, to), x) ELSE InRange(u, from, to)
    BY ONLY u \in Seq(Nat), x \in Nat, InRangeAppend
  <2> QED
    BY <2>2, <2>3
<1>5. ASSUME \A i \in 1..n : Within(Timestamp(s[i]), from, to) PROVE InRange(s, from, to) = s
  <2> DEFINE G == {k \in Nat : k <= n => InRange(Upto(s, k), from, to) = Upto(s, k)}
  <2>1. 0 \in G
    BY <1>2, <1>3
  <2>2. ASSUME NEW k \in Nat, k \in G PROVE k + 1 \in G
    <3> SUFFICES ASSUME k + 1 <= n PROVE InRange(Upto(s, k + 1), from, to) = Upto(s, k + 1)
      OBVIOUS
    <3>1. k < n /\ k + 1 \in 1..n
      OBVIOUS
    <3>2. InRange(Upto(s, k), from, to) = Upto(s, k)
      BY <2>2, <3>1
    <3> HIDE DEF G
    <3> QED
      BY <1>2, <1>4, <1>5, <3>1, <3>2
  <2> HIDE DEF G
  <2>3. Nat \subseteq G
    BY <2>1, <2>2, NatSetInduction
  <2> QED
    BY <1>2, <2>3 DEF G
<1>6. ASSUME \A i \in 1..n : ~Within(Timestamp(s[i]), from, to) PROVE InRange(s, from, to) = <<>>
  <2> DEFINE G == {k \in Nat : k <= n => InRange(Upto(s, k), from, to) = <<>>}
  <2>1. 0 \in G
    BY <1>2, <1>3
  <2>2. ASSUME NEW k \in Nat, k \in G PROVE k + 1 \in G
    <3> SUFFICES ASSUME k + 1 <= n PROVE InRange(Upto(s, k + 1), from, to) = <<>>
      OBVIOUS
    <3>1. k < n /\ k + 1 \in 1..n
      OBVIOUS
    <3>2. InRange(Upto(s, k), from, to) = <<>>
      BY <2>2, <3>1
    <3> HIDE DEF G
    <3> QED
      BY <1>4, <1>6, <3>1, <3>2
  <2> HIDE DEF G
  <2>3. Nat \subseteq G
    BY <2>1, <2>2, NatSetInduction
  <2> QED
    BY <1>2, <2>3 DEF G
<1> QED
  BY <1>1, <1>5, <1>6

-----------------------------------------------------------------------------
(* The loop of the writer over the values of a block *)

StatisticsRow(pts, t, n) ==
  IF n = 0 THEN Zero ELSE Combine(t[n - 1], Single(pts[n][2]))

StatisticsTable(pts, t, n) == t = [m \in 0..n |-> StatisticsRow(pts, t, m)]

\* One more row for the table.
LEMMA StatisticsTableGrows ==
  ASSUME NEW pts, NEW n \in Nat, NEW t, StatisticsTable(pts, t, n)
  PROVE  \E u : StatisticsTable(pts, u, n + 1)
<1> DEFINE last == StatisticsRow(pts, t, n + 1)
           u == [k \in 0..(n + 1) |-> IF k = n + 1 THEN last ELSE t[k]]
<1>1. \A k \in 0..n : t[k] = StatisticsRow(pts, t, k)
  BY DEF StatisticsTable
<1> HIDE DEF last
<1>2. /\ \A k \in 0..(n + 1) : u[k] = IF k = n + 1 THEN last ELSE t[k]
      /\ u = [k \in 0..(n + 1) |-> u[k]]
  OBVIOUS
<1> HIDE DEF u
<1>3. ASSUME NEW k \in 0..(n + 1) PROVE u[k] = StatisticsRow(pts, u, k)
  <2>1. u[k] = StatisticsRow(pts, t, k)
    <3>1. CASE k = n + 1
      BY <1>2, <3>1 DEF last
    <3>2. CASE k # n + 1
      <4>1. k \in 0..n
        BY <3>2
      <4> QED
        BY <1>1, <1>2, <3>2, <4>1
    <3> QED
      BY <3>1, <3>2
  <2>2. CASE k = 0
    BY <2>1, <2>2 DEF StatisticsRow
  <2>3. CASE k # 0
    <3>1. k - 1 \in 0..(n + 1) /\ k - 1 # n + 1
      BY <2>3
    <3>2. u[k - 1] = t[k - 1]
      BY <1>2, <3>1
    <3> QED
      BY <2>1, <2>3, <3>2 DEF StatisticsRow
  <2> QED
    BY <2>2, <2>3
<1> QED
  BY <1>2, <1>3 DEF StatisticsTable

\* There is a table of every length.
LEMMA StatisticsTableExists ==
  ASSUME NEW pts
  PROVE  \A n \in Nat : \E t : StatisticsTable(pts, t, n)
<1> DEFINE G == {n \in Nat : \E t : StatisticsTable(pts, t, n)}
<1>1. 0 \in G
  <2>1. StatisticsTable(pts, [k \in 0..0 |-> Zero], 0)
    BY DEF StatisticsTable, StatisticsRow
  <2> QED
    BY <2>1
<1>2. ASSUME NEW n \in Nat, n \in G PROVE n + 1 \in G
  BY <1>2, StatisticsTableGrows
<1> HIDE DEF G
<1>3. Nat \subseteq G
  BY <1>1, <1>2, NatSetInduction
<1> QED
  BY <1>3 DEF G

\* The rows lead from the first one to what the loop gives.
LEMMA StatisticsRows ==
  ASSUME NEW pts, NEW l \in Nat, Len(pts) = l
  PROVE  \E t : /\ Statistics(pts) = t[l]
                /\ \A k \in 0..l : t[k] = StatisticsRow(pts, t, k)
<1> DEFINE t == CHOOSE t : StatisticsTable(pts, t, l)
<1>1. StatisticsTable(pts, t, l)
  BY StatisticsTableExists
<1>2. Statistics(pts) = t[l]
  BY DEF Statistics, StatisticsTable, StatisticsRow
<1> HIDE DEF t
<1>3. \A k \in 0..l : t[k] = StatisticsRow(pts, t, k)
  BY <1>1 DEF StatisticsTable
<1> QED
  BY <1>2, <1>3

-----------------------------------------------------------------------------
(* The loop over the points in a range *)

AddingRow(acc, pts, from, to, t, n) ==
  IF n = 0 THEN acc
  ELSE IF pts[n][1] >= from /\ pts[n][1] <= to THEN Combine(t[n - 1], Single(pts[n][2]))
  ELSE t[n - 1]

AddingTable(acc, pts, from, to, t, n) == t = [m \in 0..n |-> AddingRow(acc, pts, from, to, t, m)]

\* One more row for the table.
LEMMA AddingTableGrows ==
  ASSUME NEW acc, NEW pts, NEW from, NEW to, NEW n \in Nat, NEW t, AddingTable(acc, pts, from, to, t, n)
  PROVE  \E u : AddingTable(acc, pts, from, to, u, n + 1)
<1> DEFINE last == AddingRow(acc, pts, from, to, t, n + 1)
           u == [k \in 0..(n + 1) |-> IF k = n + 1 THEN last ELSE t[k]]
<1>1. \A k \in 0..n : t[k] = AddingRow(acc, pts, from, to, t, k)
  BY DEF AddingTable
<1> HIDE DEF last
<1>2. /\ \A k \in 0..(n + 1) : u[k] = IF k = n + 1 THEN last ELSE t[k]
      /\ u = [k \in 0..(n + 1) |-> u[k]]
  OBVIOUS
<1> HIDE DEF u
<1>3. ASSUME NEW k \in 0..(n + 1) PROVE u[k] = AddingRow(acc, pts, from, to, u, k)
  <2>1. u[k] = AddingRow(acc, pts, from, to, t, k)
    <3>1. CASE k = n + 1
      BY <1>2, <3>1 DEF last
    <3>2. CASE k # n + 1
      <4>1. k \in 0..n
        BY <3>2
      <4> QED
        BY <1>1, <1>2, <3>2, <4>1
    <3> QED
      BY <3>1, <3>2
  <2>2. CASE k = 0
    BY <2>1, <2>2 DEF AddingRow
  <2>3. CASE k # 0
    <3>1. k - 1 \in 0..(n + 1) /\ k - 1 # n + 1
      BY <2>3
    <3>2. u[k - 1] = t[k - 1]
      BY <1>2, <3>1
    <3> QED
      BY <2>1, <2>3, <3>2 DEF AddingRow
  <2> QED
    BY <2>2, <2>3
<1> QED
  BY <1>2, <1>3 DEF AddingTable

\* There is a table of every length.
LEMMA AddingTableExists ==
  ASSUME NEW acc, NEW pts, NEW from, NEW to
  PROVE  \A n \in Nat : \E t : AddingTable(acc, pts, from, to, t, n)
<1> DEFINE G == {n \in Nat : \E t : AddingTable(acc, pts, from, to, t, n)}
<1>1. 0 \in G
  <2>1. AddingTable(acc, pts, from, to, [k \in 0..0 |-> acc], 0)
    BY DEF AddingTable, AddingRow
  <2> QED
    BY <2>1
<1>2. ASSUME NEW n \in Nat, n \in G PROVE n + 1 \in G
  BY <1>2, AddingTableGrows
<1> HIDE DEF G
<1>3. Nat \subseteq G
  BY <1>1, <1>2, NatSetInduction
<1> QED
  BY <1>3 DEF G

\* The rows lead from the first one to what the loop gives.
LEMMA AddingRows ==
  ASSUME NEW acc, NEW pts, NEW from, NEW to, NEW l \in Nat, Len(pts) = l
  PROVE  \E t : /\ AddRange(acc, pts, from, to) = t[l]
                /\ \A k \in 0..l : t[k] = AddingRow(acc, pts, from, to, t, k)
<1> DEFINE t == CHOOSE t : AddingTable(acc, pts, from, to, t, l)
<1>1. AddingTable(acc, pts, from, to, t, l)
  BY AddingTableExists
<1>2. AddRange(acc, pts, from, to) = t[l]
  BY DEF AddRange, AddingTable, AddingRow
<1> HIDE DEF t
<1>3. \A k \in 0..l : t[k] = AddingRow(acc, pts, from, to, t, k)
  BY <1>1 DEF AddingTable
<1> QED
  BY <1>2, <1>3

-----------------------------------------------------------------------------
(* The rounds of the loop over the index *)

AggregatingRow(entries, from, to, t, n) ==
  IF n = 0 THEN [rc |-> "ok", acc |-> Zero]
  ELSE AggregateBlock(t[n - 1], entries[n], from, to)

AggregatingTable(entries, from, to, t, n) == t = [m \in 0..n |-> AggregatingRow(entries, from, to, t, m)]

\* One more row for the table.
LEMMA AggregatingTableGrows ==
  ASSUME NEW entries, NEW from, NEW to, NEW n \in Nat, NEW t, AggregatingTable(entries, from, to, t, n)
  PROVE  \E u : AggregatingTable(entries, from, to, u, n + 1)
<1> DEFINE last == AggregatingRow(entries, from, to, t, n + 1)
           u == [k \in 0..(n + 1) |-> IF k = n + 1 THEN last ELSE t[k]]
<1>1. \A k \in 0..n : t[k] = AggregatingRow(entries, from, to, t, k)
  BY DEF AggregatingTable
<1> HIDE DEF last
<1>2. /\ \A k \in 0..(n + 1) : u[k] = IF k = n + 1 THEN last ELSE t[k]
      /\ u = [k \in 0..(n + 1) |-> u[k]]
  OBVIOUS
<1> HIDE DEF u
<1>3. ASSUME NEW k \in 0..(n + 1) PROVE u[k] = AggregatingRow(entries, from, to, u, k)
  <2>1. u[k] = AggregatingRow(entries, from, to, t, k)
    <3>1. CASE k = n + 1
      BY <1>2, <3>1 DEF last
    <3>2. CASE k # n + 1
      <4>1. k \in 0..n
        BY <3>2
      <4> QED
        BY <1>1, <1>2, <3>2, <4>1
    <3> QED
      BY <3>1, <3>2
  <2>2. CASE k = 0
    BY <2>1, <2>2 DEF AggregatingRow
  <2>3. CASE k # 0
    <3>1. k - 1 \in 0..(n + 1) /\ k - 1 # n + 1
      BY <2>3
    <3>2. u[k - 1] = t[k - 1]
      BY <1>2, <3>1
    <3> QED
      BY <2>1, <2>3, <3>2 DEF AggregatingRow
  <2> QED
    BY <2>2, <2>3
<1> QED
  BY <1>2, <1>3 DEF AggregatingTable

\* There is a table of every length.
LEMMA AggregatingTableExists ==
  ASSUME NEW entries, NEW from, NEW to
  PROVE  \A n \in Nat : \E t : AggregatingTable(entries, from, to, t, n)
<1> DEFINE G == {n \in Nat : \E t : AggregatingTable(entries, from, to, t, n)}
<1>1. 0 \in G
  <2>1. AggregatingTable(entries, from, to, [k \in 0..0 |-> [rc |-> "ok", acc |-> Zero]], 0)
    BY DEF AggregatingTable, AggregatingRow
  <2> QED
    BY <2>1
<1>2. ASSUME NEW n \in Nat, n \in G PROVE n + 1 \in G
  BY <1>2, AggregatingTableGrows
<1> HIDE DEF G
<1>3. Nat \subseteq G
  BY <1>1, <1>2, NatSetInduction
<1> QED
  BY <1>3 DEF G

\* The rows lead from the first one to what the loop gives.
LEMMA AggregatingRows ==
  ASSUME NEW from, NEW to, NEW l \in Nat, Len(index) = l
  PROVE  \E t : /\ AggregateBlocks(from, to) = t[l]
                /\ \A k \in 0..l : t[k] = AggregatingRow(index, from, to, t, k)
<1> DEFINE t == CHOOSE t : AggregatingTable(index, from, to, t, l)
<1>1. AggregatingTable(index, from, to, t, l)
  BY AggregatingTableExists
<1>2. AggregateBlocks(from, to) = t[l]
  BY DEF AggregateBlocks, AggregatingTable, AggregatingRow
<1> HIDE DEF t
<1>3. \A k \in 0..l : t[k] = AggregatingRow(index, from, to, t, k)
  BY <1>1 DEF AggregatingTable
<1> QED
  BY <1>2, <1>3

-----------------------------------------------------------------------------
(* What accumulators say of numbered points *)

QuantitiesOf(numbers) == [i \in DOMAIN numbers |-> Number(Value(numbers[i]))]

\* acc is what a loop over the points with these numbers gives.
Tells(acc, numbers) == numbers \in Seq(DOMAIN history) /\ Adds(acc, QuantitiesOf(numbers))

\* The parts of a point.
LEMMA PointParts ==
  ASSUME history \in Seq(Points), NEW n \in DOMAIN history
  PROVE  /\ n \in Nat /\ Timestamp(n) \in Ints /\ Timestamp(n) \in Int /\ Value(n) \in Words
         /\ history[n] = <<Timestamp(n), Value(n)>>
<1>1. history[n] \in Points /\ n \in Nat
  OBVIOUS
<1>2. Points \subseteq Ints \X Words
  BY QueryAssumption DEF Ints, Words
<1>3. history[n] \in Ints \X Words
  BY <1>1, <1>2
<1>4. Ints \subseteq Int
  BY Halves DEF Ints
<1>5. PICK a \in Ints, b \in Words : history[n] = <<a, b>>
  BY <1>3
<1>6. Timestamp(n) = a /\ Value(n) = b
  BY <1>5 DEF Timestamp, Value
<1> QED
  BY <1>1, <1>4, <1>5, <1>6

\* Numbers of points are numbers.
LEMMA KnownNumbers ==
  ASSUME history \in Seq(Points), NEW s \in Seq(DOMAIN history)
  PROVE  s \in Seq(Nat)
<1>1. DOMAIN history \subseteq Nat
  OBVIOUS
<1> QED
  BY <1>1, SeqWider

\* The values of numbered points.
LEMMA QuantitiesAre ==
  ASSUME history \in Seq(Points), NEW s \in Seq(DOMAIN history)
  PROVE  /\ QuantitiesOf(s) \in Seq(Quantities) /\ Len(QuantitiesOf(s)) = Len(s)
         /\ \A i \in 1..Len(s) : QuantitiesOf(s)[i] = Number(Value(s[i]))
<1>1. PICK n \in Nat : n = Len(s) /\ DOMAIN s = 1..n /\ \A i \in 1..n : s[i] \in DOMAIN history
  OBVIOUS
<1>2. \A i \in 1..n : Number(Value(s[i])) \in Quantities
  BY <1>1, PointParts, NumberIs
<1>3. QuantitiesOf(s) = [i \in 1..n |-> Number(Value(s[i]))]
  BY <1>1 DEF QuantitiesOf
<1> QED
  BY <1>1, <1>2, <1>3

\* The values of one more point, and of two sequences of points.
LEMMA QuantitiesAppend ==
  ASSUME history \in Seq(Points), NEW s \in Seq(DOMAIN history), NEW n \in DOMAIN history
  PROVE  QuantitiesOf(Append(s, n)) = Append(QuantitiesOf(s), Number(Value(n)))
<1> DEFINE T == DOMAIN history
<1>1. PICK m \in Nat : m = Len(s)
  OBVIOUS
<1>2. PICK u, v, r, x : /\ u = QuantitiesOf(s) /\ x = Number(Value(n))
                        /\ v = QuantitiesOf(Append(s, n)) /\ r = Append(u, x)
  OBVIOUS
<1>3. PICK p : p = Append(s, n)
  OBVIOUS
<1>4. p \in Seq(T) /\ Len(p) = m + 1 /\ p[m + 1] = n /\ \A i \in 1..m : p[i] = s[i]
  BY <1>1, <1>3, AppendProperties
<1>5. /\ u \in Seq(Quantities) /\ Len(u) = m /\ \A i \in 1..m : u[i] = Number(Value(s[i]))
  BY <1>1, <1>2, QuantitiesAre
<1>6. /\ v \in Seq(Quantities) /\ Len(v) = m + 1 /\ \A i \in 1..(m + 1) : v[i] = Number(Value(p[i]))
  BY <1>2, <1>3, <1>4, QuantitiesAre
<1>7. x \in Quantities
  BY <1>2, PointParts, NumberIs
<1>8. r \in Seq(Quantities) /\ Len(r) = m + 1 /\ r[m + 1] = x /\ \A i \in 1..m : r[i] = u[i]
  BY <1>2, <1>5, <1>7, AppendProperties
<1>9. \A i \in 1..(m + 1) : v[i] = r[i]
  <2> TAKE i \in 1..(m + 1)
  <2>1. CASE i = m + 1
    BY <1>2, <1>4, <1>6, <1>8, <2>1
  <2>2. CASE i # m + 1
    <3>1. i \in 1..m
      BY <2>2
    <3> QED
      BY <1>4, <1>5, <1>6, <1>8, <3>1
  <2> QED
    BY <2>1, <2>2
<1>10. v = r
  BY <1>6, <1>8, <1>9, SeqEqual
<1> QED
  BY <1>2, <1>10

\* The values of two sequences of points.
LEMMA QuantitiesConcat ==
  ASSUME history \in Seq(Points), NEW s \in Seq(DOMAIN history), NEW t \in Seq(DOMAIN history)
  PROVE  QuantitiesOf(s \o t) = QuantitiesOf(s) \o QuantitiesOf(t)
<1> DEFINE T == DOMAIN history
<1>1. PICK m \in Nat, n \in Nat : m = Len(s) /\ n = Len(t)
  OBVIOUS
<1>2. PICK p : p = s \o t
  OBVIOUS
<1>3. /\ p \in Seq(T) /\ Len(p) = m + n /\ \A i \in 1..m : p[i] = s[i]
      /\ \A j \in 1..n : p[m + j] = t[j]
  BY <1>1, <1>2, ConcatProperties, ConcatElements
<1>4. PICK u : u = QuantitiesOf(s)
  OBVIOUS
<1>5. PICK v : v = QuantitiesOf(t)
  OBVIOUS
<1>6. PICK w : w = QuantitiesOf(p)
  OBVIOUS
<1>7. u \in Seq(Quantities) /\ Len(u) = m /\ \A i \in 1..m : u[i] = Number(Value(s[i]))
  BY <1>1, <1>4, QuantitiesAre
<1>8. v \in Seq(Quantities) /\ Len(v) = n /\ \A i \in 1..n : v[i] = Number(Value(t[i]))
  BY <1>1, <1>5, QuantitiesAre
<1>9. w \in Seq(Quantities) /\ Len(w) = m + n /\ \A i \in 1..(m + n) : w[i] = Number(Value(p[i]))
  BY <1>3, <1>6, QuantitiesAre
<1>10. PICK r : r = u \o v
  OBVIOUS
<1>11. /\ r \in Seq(Quantities) /\ Len(r) = m + n /\ \A i \in 1..m : r[i] = u[i]
       /\ \A j \in 1..n : r[m + j] = v[j]
  <2>1. u \in Seq(Quantities) /\ v \in Seq(Quantities)
    BY <1>7, <1>8
  <2>2. r \in Seq(Quantities) /\ Len(r) = Len(u) + Len(v)
    BY <1>10, <2>1, ConcatProperties
  <2>3. /\ \A i \in 1..Len(u) : i \in 1..Len(u \o v) /\ (u \o v)[i] = u[i]
        /\ \A i \in 1..Len(v) : Len(u) + i \in 1..Len(u \o v) /\ (u \o v)[Len(u) + i] = v[i]
    BY ONLY <2>1, ConcatElements
  <2> QED
    BY <1>7, <1>8, <1>10, <2>2, <2>3
<1>12. \A i \in 1..(m + n) : w[i] = r[i]
  <2> TAKE i \in 1..(m + n)
  <2>1. CASE i <= m
    <3>1. i \in 1..m
      BY <2>1
    <3> QED
      BY <1>3, <1>7, <1>9, <1>11, <3>1
  <2>2. CASE i > m
    <3>1. PICK j \in 1..n : i = m + j
      <4>1. i - m \in 1..n /\ i = m + (i - m)
        BY <2>2
      <4> QED
        BY <4>1
    <3> QED
      BY <1>3, <1>8, <1>9, <1>11, <3>1
  <2> QED
    BY <2>1, <2>2
<1>13. w = r
  BY <1>9, <1>11, <1>12, SeqEqual
<1> QED
  BY <1>2, <1>4, <1>5, <1>6, <1>10, <1>13

\* No point, one more point, and the points of two loops.
LEMMA TellsNone == Tells(Zero, <<>>)
<1>1. QuantitiesOf(<<>>) = <<>>
  BY DEF QuantitiesOf
<1>2. <<>> \in Seq(DOMAIN history)
  OBVIOUS
<1> QED
  BY <1>1, <1>2, AddsNone DEF Tells

\* One more point.
LEMMA TellsOne ==
  ASSUME history \in Seq(Points), NEW acc, NEW s, Tells(acc, s), NEW n \in DOMAIN history
  PROVE  Tells(Combine(acc, Single(Value(n))), Append(s, n))
<1>1. s \in Seq(DOMAIN history) /\ Adds(acc, QuantitiesOf(s)) /\ Value(n) \in Words
  BY PointParts DEF Tells
<1>2. Adds(Combine(acc, Single(Value(n))), Append(QuantitiesOf(s), Number(Value(n))))
  BY <1>1, AddsOne
<1>3. QuantitiesOf(Append(s, n)) = Append(QuantitiesOf(s), Number(Value(n)))
  BY <1>1, QuantitiesAppend
<1>4. Append(s, n) \in Seq(DOMAIN history)
  BY <1>1, AppendProperties
<1> QED
  BY <1>2, <1>3, <1>4 DEF Tells

\* The statistics of more points.
LEMMA TellsBoth ==
  ASSUME history \in Seq(Points), NEW a, NEW s, Tells(a, s), NEW b, NEW t, Tells(b, t), Len(t) # 0
  PROVE  Tells(Combine(a, b), s \o t)
<1>1. /\ s \in Seq(DOMAIN history) /\ Adds(a, QuantitiesOf(s))
      /\ t \in Seq(DOMAIN history) /\ Adds(b, QuantitiesOf(t))
  BY DEF Tells
<1>2. Len(QuantitiesOf(t)) # 0
  BY <1>1, QuantitiesAre
<1>3. Adds(Combine(a, b), QuantitiesOf(s) \o QuantitiesOf(t))
  BY <1>1, <1>2, CombineAdds
<1>4. QuantitiesOf(s \o t) = QuantitiesOf(s) \o QuantitiesOf(t)
  BY <1>1, QuantitiesConcat
<1>5. s \o t \in Seq(DOMAIN history)
  BY <1>1, ConcatProperties
<1> QED
  BY <1>3, <1>4, <1>5 DEF Tells

\* The points of numbers that are known.
LEMMA KnownPoints ==
  ASSUME history \in Seq(Points), NEW numbers \in Seq(DOMAIN history)
  PROVE  /\ Len(PointsOf(numbers)) = Len(numbers)
         /\ \A i \in 1..Len(numbers) :
              /\ numbers[i] \in DOMAIN history /\ PointsOf(numbers)[i] = history[numbers[i]]
              /\ PointsOf(numbers)[i][1] = Timestamp(numbers[i])
              /\ PointsOf(numbers)[i][2] = Value(numbers[i])
<1>1. PICK n \in Nat : n = Len(numbers) /\ DOMAIN numbers = 1..n /\ \A i \in 1..n : numbers[i] \in DOMAIN history
  OBVIOUS
<1>2. PointsOf(numbers) = [i \in 1..n |-> history[numbers[i]]]
  BY <1>1 DEF PointsOf
<1> QED
  BY <1>1, <1>2 DEF Timestamp, Value

\* The numbers in a range are known.
LEMMA InRangeKnown ==
  ASSUME history \in Seq(Points), NEW s \in Seq(DOMAIN history), NEW from, NEW to
  PROVE  InRange(s, from, to) \in Seq(DOMAIN history)
<1>1. s \in Seq(Nat)
  BY KnownNumbers
<1>2. PICK r \in Seq(Nat) : r = InRange(s, from, to)
  BY <1>1, InRangeType
<1>3. Range(r) = {n \in Range(s) : Within(Timestamp(n), from, to)}
  BY <1>1, <1>2, InRangeAre
<1>4. Range(s) \subseteq DOMAIN history
  BY DEF Range
<1>5. \A i \in 1..Len(r) : r[i] \in Range(r)
  BY DEF Range
<1>6. \A i \in 1..Len(r) : r[i] \in DOMAIN history
  BY <1>3, <1>4, <1>5
<1> DEFINE T == DOMAIN history
<1>7. r = [i \in 1..Len(r) |-> r[i]] /\ Len(r) \in Nat
  OBVIOUS
<1> HIDE DEF T
<1>8. \A i \in 1..Len(r) : r[i] \in T
  BY <1>6 DEF T
<1>9. r \in Seq(T)
  BY <1>7, <1>8
<1> QED
  BY <1>2, <1>9 DEF T

\* The statistics that the writer puts into a header.
LEMMA StatisticsTell ==
  ASSUME history \in Seq(Points), NEW numbers \in Seq(DOMAIN history)
  PROVE  Tells(Statistics(PointsOf(numbers)), numbers)
<1> DEFINE T == DOMAIN history
<1>1. PICK n \in Nat : n = Len(numbers)
  OBVIOUS
<1>2. PICK p : p = PointsOf(numbers)
  OBVIOUS
<1>3. /\ Len(p) = n
      /\ \A i \in 1..n : numbers[i] \in DOMAIN history /\ p[i][2] = Value(numbers[i])
  BY <1>1, <1>2, KnownPoints
<1>4. PICK t : Statistics(p) = t[n] /\ \A k \in 0..n : t[k] = StatisticsRow(p, t, k)
  BY <1>3, StatisticsRows
<1>5. /\ Upto(numbers, 0) = <<>> /\ Upto(numbers, n) = numbers
      /\ \A k \in Nat : k < n => Upto(numbers, k + 1) = Append(Upto(numbers, k), numbers[k + 1])
  BY <1>1, UptoNext
<1> DEFINE G == {k \in Nat : k <= n => Tells(t[k], Upto(numbers, k))}
<1>6. 0 \in G
  <2>1. 0 \in 0..n
    OBVIOUS
  <2>2. t[0] = Zero
    BY <1>4, <2>1 DEF StatisticsRow
  <2> QED
    BY <1>5, <2>2, TellsNone
<1>7. ASSUME NEW k \in Nat, k \in G PROVE k + 1 \in G
  <2> SUFFICES ASSUME k + 1 <= n PROVE Tells(t[k + 1], Upto(numbers, k + 1))
    OBVIOUS
  <2>1. k < n /\ k + 1 \in 0..n /\ k + 1 \in 1..n /\ k + 1 # 0 /\ (k + 1) - 1 = k
    OBVIOUS
  <2>2. Tells(t[k], Upto(numbers, k))
    BY <1>7, <2>1
  <2> HIDE DEF G
  <2>3. t[k + 1] = Combine(t[k], Single(Value(numbers[k + 1])))
    <3>1. t[k + 1] = StatisticsRow(p, t, k + 1)
      BY <1>4, <2>1
    <3>2. p[k + 1][2] = Value(numbers[k + 1])
      BY <1>3, <2>1
    <3> QED
      BY <2>1, <3>1, <3>2 DEF StatisticsRow
  <2>4. numbers[k + 1] \in DOMAIN history
    BY <1>3, <2>1
  <2>5. Tells(Combine(t[k], Single(Value(numbers[k + 1]))), Append(Upto(numbers, k), numbers[k + 1]))
    BY <2>2, <2>4, TellsOne
  <2> QED
    BY <1>5, <2>1, <2>3, <2>5
<1> HIDE DEF G
<1>8. Nat \subseteq G
  BY <1>6, <1>7, NatSetInduction
<1>9. Tells(t[n], Upto(numbers, n))
  BY <1>8 DEF G
<1> QED
  BY <1>2, <1>4, <1>5, <1>9

\* The points in a range are added to what was there.
LEMMA AddRangeTells ==
  ASSUME history \in Seq(Points), NEW acc, NEW s, Tells(acc, s),
         NEW numbers \in Seq(DOMAIN history), NEW from, NEW to
  PROVE  Tells(AddRange(acc, PointsOf(numbers), from, to), s \o InRange(numbers, from, to))
<1> DEFINE T == DOMAIN history
<1>1. PICK n \in Nat : n = Len(numbers)
  OBVIOUS
<1>2. PICK p : p = PointsOf(numbers)
  OBVIOUS
<1>3. /\ Len(p) = n
      /\ \A i \in 1..n : /\ numbers[i] \in DOMAIN history /\ p[i][2] = Value(numbers[i])
                         /\ p[i][1] = Timestamp(numbers[i])
  BY <1>1, <1>2, KnownPoints
<1>4. PICK t : AddRange(acc, p, from, to) = t[n] /\ \A k \in 0..n : t[k] = AddingRow(acc, p, from, to, t, k)
  BY <1>3, AddingRows
<1>5. /\ Upto(numbers, 0) = <<>> /\ Upto(numbers, n) = numbers
      /\ \A k \in 0..n : Upto(numbers, k) \in Seq(T)
      /\ \A k \in Nat : k < n => Upto(numbers, k + 1) = Append(Upto(numbers, k), numbers[k + 1])
  BY <1>1, UptoNext
<1>6. s \in Seq(T)
  BY DEF Tells
<1> DEFINE G == {k \in Nat : k <= n => Tells(t[k], s \o InRange(Upto(numbers, k), from, to))}
<1>7. 0 \in G
  <2>1. 0 \in 0..n
    OBVIOUS
  <2>2. t[0] = acc
    BY <1>4, <2>1 DEF AddingRow
  <2>3. InRange(<<>>, from, to) = <<>> /\ s \o <<>> = s
    <3>1. <<>> \in Seq(Nat)
      OBVIOUS
    <3>2. InRange(<<>>, from, to) = <<>>
      BY <3>1, InRangeType
    <3> QED
      BY <1>6, <3>2
  <2> QED
    BY <1>5, <2>2, <2>3
<1>8. ASSUME NEW k \in Nat, k \in G PROVE k + 1 \in G
  <2> SUFFICES ASSUME k + 1 <= n PROVE Tells(t[k + 1], s \o InRange(Upto(numbers, k + 1), from, to))
    OBVIOUS
  <2>1. k < n /\ k \in 0..n /\ k + 1 \in 0..n /\ k + 1 \in 1..n /\ k + 1 # 0 /\ (k + 1) - 1 = k
    OBVIOUS
  <2>2. Tells(t[k], s \o InRange(Upto(numbers, k), from, to))
    BY <1>8, <2>1
  <2> HIDE DEF G
  <2>3. PICK u, x : u = Upto(numbers, k) /\ x = numbers[k + 1]
    OBVIOUS
  <2>4. u \in Seq(T) /\ x \in T /\ Upto(numbers, k + 1) = Append(u, x)
    BY <1>3, <1>5, <2>1, <2>3
  <2>5. u \in Seq(Nat) /\ x \in Nat
    BY <2>4, KnownNumbers, PointParts
  <2>6. InRange(Append(u, x), from, to) =
          IF Within(Timestamp(x), from, to) THEN Append(InRange(u, from, to), x) ELSE InRange(u, from, to)
    BY <2>5, InRangeAppend
  <2>7. t[k + 1] = IF Within(Timestamp(x), from, to) THEN Combine(t[k], Single(Value(x))) ELSE t[k]
    <3>1. t[k + 1] = AddingRow(acc, p, from, to, t, k + 1)
      BY <1>4, <2>1
    <3>2. p[k + 1][2] = Value(x) /\ p[k + 1][1] = Timestamp(x)
      BY <1>3, <2>1, <2>3
    <3> QED
      BY <2>1, <3>1, <3>2 DEF AddingRow, Within
  <2>8. CASE Within(Timestamp(x), from, to)
    <3>1. InRange(u, from, to) \in Seq(T)
      BY <2>4, InRangeKnown
    <3>2. Tells(Combine(t[k], Single(Value(x))), Append(s \o InRange(u, from, to), x))
      BY <2>2, <2>3, <2>4, TellsOne
    <3>3. s \o Append(InRange(u, from, to), x) = Append(s \o InRange(u, from, to), x)
      <4> HIDE DEF T
      <4> QED
        BY <1>6, <2>4, <3>1, ConcatAppend
    <3> QED
      BY <2>4, <2>6, <2>7, <2>8, <3>2, <3>3
  <2>9. CASE ~Within(Timestamp(x), from, to)
    BY <2>2, <2>3, <2>4, <2>6, <2>7, <2>9
  <2> QED
    BY <2>8, <2>9
<1> HIDE DEF G
<1>9. Nat \subseteq G
  BY <1>7, <1>8, NatSetInduction
<1>10. Tells(t[n], s \o InRange(Upto(numbers, n), from, to))
  BY <1>9 DEF G
<1> QED
  BY <1>2, <1>4, <1>5, <1>10

-----------------------------------------------------------------------------
(* The blocks that a range meets *)

\* Where the block of an entry is.
LEMMA FoundPlace ==
  ASSUME IInv, AllListed, NEW i \in 1..Len(index), HasBlock(index[i])
  PROVE  \E id, k, j : /\ Placed(j, id, k) /\ BlockAt(index[i]) = files[id][k] /\ BlockOk(files[id][k])
                       /\ index[j].segment = index[i].segment /\ index[j].offset = index[i].offset
<1>1. index[i] \in Entries
  BY DEF IInv
<1>2. PICK id \in Segments : id = index[i].segment
  BY <1>1 DEF Entries
<1>3. PICK k : k = (CHOOSE l \in Found(index[i]) : TRUE) /\ k \in Found(index[i])
  BY DEF HasBlock
<1>4. k \in DOMAIN files[id] /\ Offset(files[id], k) = index[i].offset
  BY <1>2, <1>3 DEF Found
<1>5. k \in 1..Len(files[id]) /\ BlockOk(files[id][k])
  BY <1>4, FileParts DEF BlocksTo
<1>6. BlockAt(index[i]) = files[id][k]
  BY <1>2, <1>3 DEF BlockAt
<1>7. PICK j : Placed(j, id, k)
  BY <1>5 DEF AllListed
<1>8. index[j].segment = id /\ index[j].offset = Offset(files[id], k)
  BY <1>7 DEF Placed, EntryIn, Entry
<1> QED
  BY <1>2, <1>4, <1>5, <1>6, <1>7, <1>8

\* An entry that meets an undamaged range is the entry of a whole block.
LEMMA MetBlock ==
  ASSUME IInv, AllListed, NEW i \in 1..Len(index), NEW from, NEW to, ~Damaged(from, to),
         Intersects(index[i], from, to)
  PROVE  \E id, k : Placed(i, id, k) /\ BlockOk(files[id][k]) /\ files[id][k].whole
<1>1. DOMAIN index = 1..Len(index)
  BY DEF IInv
<1>2. /\ HasBlock(index[i]) /\ BlockAt(index[i]).whole
      /\ \A j \in 1..Len(index) :
           index[j].segment = index[i].segment /\ index[j].offset = index[i].offset => j = i
  BY <1>1 DEF Damaged
<1>3. PICK id, k, j : /\ Placed(j, id, k) /\ BlockAt(index[i]) = files[id][k] /\ BlockOk(files[id][k])
                      /\ index[j].segment = index[i].segment /\ index[j].offset = index[i].offset
  BY <1>2, FoundPlace
<1>4. j = i
  BY <1>2, <1>3 DEF Placed
<1> QED
  BY <1>2, <1>3, <1>4

\* What an entry that misses the range leads to is outside of the range.
LEMMA MissedBlock ==
  ASSUME IInv, AllListed, NEW i \in 1..Len(index), NEW from \in Int, NEW to \in Int, ~Damaged(from, to),
         ~Intersects(index[i], from, to)
  PROVE  \A a \in 1..Len(NumbersOf(index[i])) : ~Within(Timestamp(NumbersOf(index[i])[a]), from, to)
<1>1. CASE ~(HasBlock(index[i]) /\ BlockAt(index[i]).whole)
  BY <1>1 DEF NumbersOf
<1>2. CASE HasBlock(index[i]) /\ BlockAt(index[i]).whole
  <2>1. PICK id, k, j : /\ Placed(j, id, k) /\ BlockAt(index[i]) = files[id][k] /\ BlockOk(files[id][k])
                        /\ index[j].segment = index[i].segment /\ index[j].offset = index[i].offset
    BY <1>2, FoundPlace
  <2>2. PICK block : block = files[id][k]
    OBVIOUS
  <2>3. NumbersOf(index[i]) = block.numbers /\ BlockOk(block) /\ history \in Seq(Points)
    BY <1>2, <2>1, <2>2 DEF NumbersOf, IInv
  <2>4. index[j].min = block.header.min /\ index[j].max = block.header.max
    BY <2>1, <2>2, PlacedBlock
  <2>5. ASSUME NEW a \in 1..Len(block.numbers), Within(Timestamp(block.numbers[a]), from, to) PROVE FALSE
    <3>1. /\ Timestamp(block.numbers[a]) \in Ints
          /\ block.header.min <= Timestamp(block.numbers[a])
          /\ Timestamp(block.numbers[a]) <= block.header.max
          /\ block.header.min \in Ints /\ block.header.max \in Ints
      BY <2>3, HeaderBounds, BlockStreams
    <3>2. Ints \subseteq Int
      BY Halves DEF Ints
    <3>3. PICK x \in Int, y \in Int, z \in Int :
            x = block.header.min /\ y = Timestamp(block.numbers[a]) /\ z = block.header.max
      BY <3>1, <3>2
    <3>4. x <= y /\ y <= z /\ y >= from /\ y <= to
      BY <2>5, <3>1, <3>3 DEF Within
    <3>5. z >= from /\ x <= to
      BY <3>4
    <3>6. Intersects(index[j], from, to)
      BY <2>4, <3>3, <3>5 DEF Intersects
    <3>7. j # i /\ j \in DOMAIN index /\ i \in DOMAIN index
      BY <2>1, <3>6 DEF Placed, IInv
    <3> QED
      BY <2>1, <3>6, <3>7 DEF Damaged
  <2> QED
    BY <2>3, <2>5
<1> QED
  BY <1>1, <1>2

\* The numbers of an entry are known.
LEMMA EntryNumbers ==
  ASSUME IInv, AllListed, NEW i \in 1..Len(index)
  PROVE  NumbersOf(index[i]) \in Seq(DOMAIN history)
<1>1. CASE ~(HasBlock(index[i]) /\ BlockAt(index[i]).whole)
  <2>1. NumbersOf(index[i]) = <<>>
    BY <1>1 DEF NumbersOf
  <2>2. <<>> \in Seq(DOMAIN history)
    OBVIOUS
  <2> QED
    BY ONLY <2>1, <2>2
<1>2. CASE HasBlock(index[i]) /\ BlockAt(index[i]).whole
  <2>1. PICK id, k, j : /\ Placed(j, id, k) /\ BlockAt(index[i]) = files[id][k] /\ BlockOk(files[id][k])
                        /\ index[j].segment = index[i].segment /\ index[j].offset = index[i].offset
    BY <1>2, FoundPlace
  <2> QED
    BY <1>2, <2>1 DEF NumbersOf, BlockOk, IsNumbers
<1> QED
  BY <1>1, <1>2

\* The numbers of the first k entries.
Numbered == [i \in DOMAIN index |-> NumbersOf(index[i])]

Listed(k) == FlattenSeq(Upto(Numbered, k))

\* What the first entries list, entry by entry.
LEMMA ListedNumbers ==
  ASSUME IInv, AllListed
  PROVE  /\ Numbered \in Seq(Seq(DOMAIN history)) /\ Len(Numbered) = Len(index) /\ Len(index) \in Nat
         /\ Listed(0) = <<>>
         /\ Readable = Listed(Len(index)) \o buffer
         /\ \A k \in 0..Len(index) : Listed(k) \in Seq(DOMAIN history)
         /\ \A k \in Nat : k < Len(index) => Listed(k + 1) = Listed(k) \o NumbersOf(index[k + 1])
<1> DEFINE T == DOMAIN history
<1>1. PICK n \in Nat : n = Len(index) /\ DOMAIN index = 1..n
  BY DEF IInv
<1>2. PICK q : q = Numbered
  OBVIOUS
<1>3. q = [i \in 1..n |-> NumbersOf(index[i])]
  BY <1>1, <1>2 DEF Numbered
<1>4. \A i \in 1..n : NumbersOf(index[i]) \in Seq(T)
  BY <1>1, EntryNumbers
<1> HIDE DEF T
<1>5. q \in Seq(Seq(T)) /\ Len(q) = n /\ \A i \in 1..n : q[i] = NumbersOf(index[i])
  BY <1>3, <1>4
<1> DEFINE S == Seq(T)
<1> HIDE DEF S
<1>6. q \in Seq(S)
  BY <1>5 DEF S
<1>7. /\ Upto(q, 0) = <<>> /\ Upto(q, n) = q
      /\ \A k \in 0..n : Upto(q, k) \in Seq(S)
      /\ \A k \in Nat : k < n => q[k + 1] \in S /\ Upto(q, k + 1) = Append(Upto(q, k), q[k + 1])
  BY <1>5, <1>6, UptoNext
<1>8. Listed(0) = <<>>
  BY <1>2, <1>7, FlattenEmpty DEF Listed
<1>9. Readable = Listed(n) \o buffer
  <2>1. Readable = FlattenSeq(q) \o buffer
    BY <1>2 DEF Readable, Numbered, NumbersOf
  <2> QED
    BY <1>2, <1>7, <2>1 DEF Listed
<1>10. ASSUME NEW k \in 0..n PROVE Listed(k) \in Seq(T)
  <2>1. Upto(q, k) \in Seq(Seq(T))
    BY <1>7 DEF S
  <2> QED
    BY <1>2, <2>1, FlattenRange DEF Listed
<1>11. ASSUME NEW k \in Nat, k < n PROVE Listed(k + 1) = Listed(k) \o NumbersOf(index[k + 1])
  <2>1. k \in 0..n /\ k + 1 \in 1..n
    BY <1>11
  <2>2. PICK u, x : u = Upto(q, k) /\ x = q[k + 1]
    OBVIOUS
  <2>3. Upto(q, k + 1) = Append(u, x) /\ u \in Seq(S) /\ x \in S
    BY <1>7, <1>11, <2>1, <2>2
  <2>4. u \in Seq(Seq(T)) /\ x \in Seq(T)
    BY <2>3 DEF S
  <2>5. FlattenSeq(Append(u, x)) = FlattenSeq(u) \o x
    BY <2>4, FlattenAppend
  <2>6. x = NumbersOf(index[k + 1])
    BY <1>5, <2>1, <2>2
  <2> QED
    BY <1>2, <2>2, <2>3, <2>5, <2>6 DEF Listed
<1> QED
  BY <1>1, <1>2, <1>5, <1>8, <1>9, <1>10, <1>11 DEF T

\* What a whole block says of its points, in its header and in its streams.
LEMMA WholeBlock ==
  ASSUME history \in Seq(Points), NEW block, BlockOk(block), block.whole
  PROVE  /\ Tells(block.header.stats, block.numbers)
         /\ Decode(block) = PointsOf(block.numbers) /\ PointsOf(block.numbers) # Corrupt
<1>1. PICK numbers : numbers = block.numbers
  OBVIOUS
<1>2. IsNumbers(numbers) /\ numbers \in Seq(DOMAIN history)
  BY <1>1 DEF BlockOk, IsNumbers
<1>3. PICK p : p = PointsOf(numbers)
  OBVIOUS
<1>4. Decode(block) = p
  BY <1>1, <1>3, BlockDecodes
<1>5. p # Corrupt
  <2>1. p \in Seq(Ints \X Words)
    BY <1>2, <1>3, NumberedPoints
  <2>2. Ints \X Words \subseteq Int \X Int
    BY Halves DEF Ints, Words
  <2>3. p \in Seq(Int \X Int)
    BY <2>1, <2>2, SeqWider
  <2> QED
    BY <2>3, NotCorrupt
<1>6. block.header.stats = Statistics(p)
  <2>1. PICK s : s = Statistics(p)
    OBVIOUS
  <2>2. Header(p).stats = s
    BY <2>1 DEF Header
  <2>3. block.header = Header(p)
    BY <1>1, <1>3, BlockStreams
  <2> QED
    BY ONLY <2>1, <2>2, <2>3
<1>7. Tells(block.header.stats, numbers)
  BY <1>2, <1>3, <1>6, StatisticsTell
<1> QED
  BY <1>1, <1>3, <1>4, <1>5, <1>7

-----------------------------------------------------------------------------
(* The loop over the index *)

\* The state of an aggregate that has told of these points.
Told(state, numbers) == \E acc : state = [rc |-> "ok", acc |-> acc] /\ Tells(acc, numbers)

\* One block.
LEMMA BlockTells ==
  ASSUME IInv, AllListed, NEW i \in 1..Len(index), NEW from \in Int, NEW to \in Int, ~Damaged(from, to),
         NEW state, NEW s, Told(state, s)
  PROVE  Told(AggregateBlock(state, index[i], from, to), s \o InRange(NumbersOf(index[i]), from, to))
<1>1. PICK acc : state = [rc |-> "ok", acc |-> acc] /\ Tells(acc, s)
  BY DEF Told
<1>2. history \in Seq(Points) /\ s \in Seq(DOMAIN history)
  BY <1>1 DEF IInv, Tells
<1>3. state.rc = "ok" /\ state.acc = acc /\ \A a : [state EXCEPT !.acc = a] = [rc |-> "ok", acc |-> a]
  BY <1>1
<1>4. PICK numbers \in Seq(DOMAIN history) : numbers = NumbersOf(index[i])
  BY EntryNumbers
<1>5. numbers \in Seq(Nat)
  BY <1>2, <1>4, KnownNumbers
<1>6. CASE ~Intersects(index[i], from, to)
  <2>1. \A a \in 1..Len(numbers) : ~Within(Timestamp(numbers[a]), from, to)
    BY <1>4, <1>6, MissedBlock
  <2>2. InRange(numbers, from, to) = <<>>
    BY <1>5, <2>1, InRangeAll
  <2>3. s \o <<>> = s
    BY <1>2
  <2>4. AggregateBlock(state, index[i], from, to) = state
    BY <1>6 DEF AggregateBlock
  <2> QED
    BY <1>4, <2>2, <2>3, <2>4
<1>7. CASE Intersects(index[i], from, to)
  <2>1. PICK id, k : Placed(i, id, k) /\ BlockOk(files[id][k]) /\ files[id][k].whole
    BY <1>7, MetBlock
  <2>2. PICK block : block = files[id][k]
    OBVIOUS
  <2>3. HasBlock(index[i]) /\ BlockAt(index[i]) = block /\ ~NoFile(index[i])
    BY <2>1, <2>2, PlacedBlock
  <2>4. BlockOk(block) /\ block.whole /\ numbers = block.numbers /\ IsNumbers(numbers)
    BY <1>4, <2>1, <2>2, <2>3 DEF NumbersOf, BlockOk
  <2>5. Len(numbers) # 0
    BY <2>4 DEF IsNumbers
  <2>6. AggregateBlock(state, index[i], from, to) = AggregateStored(state, index[i], from, to)
    BY <1>3, <1>7, <2>3 DEF AggregateBlock
  <2>7. CASE Covered(block.header, from, to)
    <3>1. \A a \in 1..Len(numbers) : Within(Timestamp(numbers[a]), from, to)
      <4>1. /\ block.header.min \in Ints /\ block.header.max \in Ints
            /\ \A a \in 1..Len(numbers) :
                 /\ Timestamp(numbers[a]) \in Ints /\ block.header.min <= Timestamp(numbers[a])
                 /\ Timestamp(numbers[a]) <= block.header.max
        BY <1>2, <2>4, HeaderBounds, BlockStreams
      <4>2. Ints \subseteq Int
        BY Halves DEF Ints
      <4>3. PICK x \in Int, y \in Int : x = block.header.min /\ y = block.header.max
        BY <4>1, <4>2
      <4>4. x >= from /\ y <= to
        BY <2>7, <4>3 DEF Covered
      <4> TAKE a \in 1..Len(numbers)
      <4>5. PICK z \in Int : z = Timestamp(numbers[a]) /\ x <= z /\ z <= y
        BY <4>1, <4>2, <4>3
      <4>6. z >= from /\ z <= to
        BY <4>4, <4>5
      <4> QED
        BY <4>5, <4>6 DEF Within
    <3>2. InRange(numbers, from, to) = numbers
      BY <1>5, <3>1, InRangeAll
    <3>4. Tells(block.header.stats, numbers)
      BY <1>2, <2>4, WholeBlock
    <3>5. Tells(Combine(acc, block.header.stats), s \o numbers)
      BY <1>1, <1>2, <2>5, <3>4, TellsBoth
    <3>6. AggregateStored(state, index[i], from, to) = [rc |-> "ok", acc |-> Combine(acc, block.header.stats)]
      BY <1>3, <2>3, <2>7 DEF AggregateStored
    <3> QED
      BY <1>4, <2>6, <3>2, <3>5, <3>6 DEF Told
  <2>8. CASE ~Covered(block.header, from, to)
    <3>1. PICK p : p = PointsOf(numbers)
      OBVIOUS
    <3>2. Decode(block) = p /\ p # Corrupt
      BY <1>2, <2>4, <3>1, WholeBlock
    <3>4. AggregateStored(state, index[i], from, to) = AggregateDecoded(state, p, from, to)
      BY <2>3, <2>8, <3>2 DEF AggregateStored
    <3>5. AggregateDecoded(state, p, from, to) = [rc |-> "ok", acc |-> AddRange(acc, p, from, to)]
      BY <1>3, <3>2 DEF AggregateDecoded
    <3>6. Tells(AddRange(acc, p, from, to), s \o InRange(numbers, from, to))
      BY <1>1, <1>2, <3>1, AddRangeTells
    <3> QED
      BY <1>4, <2>6, <3>4, <3>5, <3>6 DEF Told
  <2> QED
    BY <2>7, <2>8
<1> QED
  BY <1>6, <1>7

\* All blocks.
LEMMA BlocksTell ==
  ASSUME IInv, AllListed, NEW from \in Int, NEW to \in Int, ~Damaged(from, to)
  PROVE  Told(AggregateBlocks(from, to), InRange(Listed(Len(index)), from, to))
<1> DEFINE T == DOMAIN history
<1>1. PICK n \in Nat : n = Len(index)
  BY ListedNumbers
<1>2. /\ Listed(0) = <<>>
      /\ \A k \in 0..n : Listed(k) \in Seq(T)
      /\ \A k \in Nat : k < n => Listed(k + 1) = Listed(k) \o NumbersOf(index[k + 1])
  BY <1>1, ListedNumbers
<1>3. PICK t : /\ AggregateBlocks(from, to) = t[n]
               /\ \A k \in 0..n : t[k] = AggregatingRow(index, from, to, t, k)
  BY <1>1, AggregatingRows
<1>4. history \in Seq(Points)
  BY DEF IInv
<1> DEFINE G == {k \in Nat : k <= n => Told(t[k], InRange(Listed(k), from, to))}
<1>5. 0 \in G
  <2>1. 0 \in 0..n
    OBVIOUS
  <2>2. t[0] = [rc |-> "ok", acc |-> Zero]
    BY <1>3, <2>1 DEF AggregatingRow
  <2>3. InRange(<<>>, from, to) = <<>>
    <3>1. <<>> \in Seq(Nat)
      OBVIOUS
    <3> QED
      BY <3>1, InRangeType
  <2> QED
    BY <1>2, <2>2, <2>3, TellsNone DEF Told
<1>6. ASSUME NEW k \in Nat, k \in G PROVE k + 1 \in G
  <2> SUFFICES ASSUME k + 1 <= n PROVE Told(t[k + 1], InRange(Listed(k + 1), from, to))
    OBVIOUS
  <2>1. k < n /\ k \in 0..n /\ k + 1 \in 0..n /\ k + 1 \in 1..n /\ k + 1 # 0 /\ (k + 1) - 1 = k
    OBVIOUS
  <2>2. Told(t[k], InRange(Listed(k), from, to))
    BY <1>6, <2>1
  <2> HIDE DEF G
  <2>3. t[k + 1] = AggregateBlock(t[k], index[k + 1], from, to)
    BY <1>3, <2>1 DEF AggregatingRow
  <2>4. Told(t[k + 1], InRange(Listed(k), from, to) \o InRange(NumbersOf(index[k + 1]), from, to))
    BY <1>1, <2>1, <2>2, <2>3, BlockTells
  <2>5. Listed(k) \in Seq(Nat) /\ NumbersOf(index[k + 1]) \in Seq(Nat)
    BY <1>1, <1>2, <1>4, <2>1, KnownNumbers, EntryNumbers
  <2>6. InRange(Listed(k) \o NumbersOf(index[k + 1]), from, to) =
          InRange(Listed(k), from, to) \o InRange(NumbersOf(index[k + 1]), from, to)
    BY <2>5, InRangeConcat
  <2> QED
    BY <1>2, <2>1, <2>4, <2>6
<1> HIDE DEF G
<1>7. Nat \subseteq G
  BY <1>5, <1>6, NatSetInduction
<1>8. Told(t[n], InRange(Listed(n), from, to))
  BY <1>7 DEF G
<1> QED
  BY <1>1, <1>3, <1>8

\* The blocks and the buffer.
LEMMA AggregateTells ==
  ASSUME IInv, AllListed, NEW from \in Int, NEW to \in Int, ~Damaged(from, to)
  PROVE  Told(Aggregate(from, to), InRange(Readable, from, to))
<1>1. PICK n \in Nat : n = Len(index)
  BY ListedNumbers
<1>2. history \in Seq(Points) /\ buffer \in Seq(DOMAIN history)
  BY DEF IInv
<1>3. PICK s : s = InRange(Listed(n), from, to)
  OBVIOUS
<1>4. PICK acc : AggregateBlocks(from, to) = [rc |-> "ok", acc |-> acc] /\ Tells(acc, s)
  BY <1>1, <1>3, BlocksTell DEF Told
<1>5. BufferedPoints = PointsOf(buffer)
  BY DEF BufferedPoints, PointsOf
<1>6. Aggregate(from, to) = [rc |-> "ok", acc |-> AddRange(acc, PointsOf(buffer), from, to)]
  BY <1>4, <1>5 DEF Aggregate, AggregateBuffered
<1>7. Tells(AddRange(acc, PointsOf(buffer), from, to), s \o InRange(buffer, from, to))
  BY <1>2, <1>4, AddRangeTells
<1>8. InRange(Readable, from, to) = s \o InRange(buffer, from, to)
  <2>1. Readable = Listed(n) \o buffer /\ Listed(n) \in Seq(DOMAIN history)
    BY <1>1, ListedNumbers
  <2>2. Listed(n) \in Seq(Nat) /\ buffer \in Seq(Nat)
    BY <1>2, <2>1, KnownNumbers
  <2>3. InRange(Listed(n) \o buffer, from, to) = InRange(Listed(n), from, to) \o InRange(buffer, from, to)
    BY <2>2, InRangeConcat
  <2> QED
    BY <1>3, <2>1, <2>3
<1> QED
  BY <1>6, <1>7, <1>8 DEF Told

-----------------------------------------------------------------------------
(* AggregateMatchesPoints *)

\* Values that are no NaN are 64-bit integers, as numbers.
LEMMA NumberInts == \A w \in Words : Number(w) = NaN \/ Number(w) \in Ints
BY CastBack DEF Number

\* What an accumulator tells of some points is what a query may say of them.
LEMMA TellsDescribes ==
  ASSUME history \in Seq(Points), NEW acc, NEW s, Tells(acc, s)
  PROVE  Describes(acc, s)
<1>1. s \in Seq(DOMAIN history) /\ Adds(acc, QuantitiesOf(s))
  BY DEF Tells
<1>2. PICK v : v = QuantitiesOf(s)
  OBVIOUS
<1>3. PICK n \in Nat : n = Len(s) /\ \A i \in 1..n : s[i] \in DOMAIN history
  BY <1>1
<1>4. v \in Seq(Quantities) /\ Len(v) = n /\ \A i \in 1..n : v[i] = Number(Value(s[i]))
  BY <1>1, <1>2, <1>3, QuantitiesAre
<1>5. \A i \in 1..n : v[i] = NaN \/ v[i] \in Ints
  BY <1>3, <1>4, PointParts, NumberInts
<1>6. PICK r : r = Range(v)
  OBVIOUS
<1>7. (\A i \in 1..n : v[i] \in r) /\ (\A x \in r : \E i \in 1..n : x = v[i])
  <2>1. DOMAIN v = 1..n
    BY <1>4
  <2> QED
    BY <1>6, <2>1 DEF Range
<1>8. /\ acc \in Accumulators /\ acc.count = n
      /\ (\E i \in 1..n : v[i] = NaN) => acc.sum = NaN
      /\ (\A i \in 1..n : v[i] \in Int) =>
           /\ acc.sum = SumFunction(v)
           /\ n # 0 =>
                /\ acc.min \in Int /\ acc.max \in Int
                /\ \E i \in 1..n : acc.min = v[i]
                /\ \E i \in 1..n : acc.max = v[i]
                /\ \A i \in 1..n : acc.min <= v[i] /\ v[i] <= acc.max
  BY <1>1, <1>2, <1>4 DEF Adds
<1>9. Ints \subseteq Int
  BY Halves DEF Ints
<1>10. NaN \in r => acc.sum = NaN
  BY <1>7, <1>8
<1>11. ASSUME NaN \notin r PROVE r \subseteq Ints /\ \A i \in 1..n : v[i] \in Int
  <2>1. \A i \in 1..n : v[i] \in Ints
    BY <1>5, <1>7, <1>11
  <2> QED
    BY <1>7, <1>9, <2>1
<1>12. ASSUME NaN \notin r, s # <<>> PROVE acc.min = Min(r) /\ acc.max = Max(r)
  <2>1. n # 0
    BY <1>1, <1>3, <1>12
  <2>2. r \subseteq Ints /\ r # {}
    <3>1. 1 \in 1..n
      BY <2>1
    <3> QED
      BY <1>7, <1>11, <1>12, <3>1
  <2>3. PICK a, b : a = acc.min /\ b = acc.max
    OBVIOUS
  <2>4. a \in r /\ b \in r /\ \A x \in r : a <= x /\ x <= b
    BY <1>7, <1>8, <1>11, <1>12, <2>1, <2>3
  <2>5. PICK c : c = Min(r)
    OBVIOUS
  <2>6. PICK d : d = Max(r)
    OBVIOUS
  <2>7. c \in r /\ \A x \in r : c <= x
    BY <2>2, <2>5, LeastTime
  <2>8. d \in r /\ \A x \in r : d >= x
    BY <2>2, <2>6, GreatestTime
  <2>9. a \in Int /\ b \in Int /\ c \in Int /\ d \in Int
    BY <1>9, <2>2, <2>4, <2>7, <2>8
  <2>10. a <= c /\ c <= a /\ b >= d /\ d >= b
    BY <2>4, <2>7, <2>8, <2>9
  <2>11. a = c /\ b = d
    BY ONLY <2>9, <2>10
  <2> QED
    BY <2>3, <2>5, <2>6, <2>11
<1>13. v = [i \in DOMAIN s |-> Number(Value(s[i]))]
  BY <1>2 DEF QuantitiesOf
<1>14. (NaN \notin r => acc.sum = SumFunction(v)) /\ acc.count = Len(s)
  BY <1>3, <1>8, <1>11
<1> QED
  BY <1>6, <1>10, <1>12, <1>13, <1>14 DEF Describes

\* Every aggregate of a state with these invariants is right.
LEMMA AggregateRight == IInv /\ WriteInv => AggregateMatchesPoints
<1> SUFFICES ASSUME IInv, WriteInv, NEW from \in Bounds, NEW to \in Bounds, ~Damaged(from, to)
             PROVE  \E got \in {Aggregate(from, to)} :
                      got.rc = "ok" /\ Describes(got.acc, InRange(Readable, from, to))
  BY DEF AggregateMatchesPoints
<1>1. AllListed /\ history \in Seq(Points)
  BY DEF WriteInv, StoreInv, IInv
<1>2. from \in Int /\ to \in Int
  <2>1. Ints \subseteq Int
    BY Halves DEF Ints
  <2> QED
    BY <2>1, QueryAssumption DEF Ints
<1>3. Told(Aggregate(from, to), InRange(Readable, from, to))
  BY <1>1, <1>2, AggregateTells
<1>4. PICK acc : /\ Aggregate(from, to) = [rc |-> "ok", acc |-> acc]
                 /\ Tells(acc, InRange(Readable, from, to))
  BY <1>3 DEF Told
<1>5. Describes(acc, InRange(Readable, from, to))
  BY <1>1, <1>4, TellsDescribes
<1>6. PICK got : got = Aggregate(from, to)
  OBVIOUS
<1>7. got.rc = "ok" /\ got.acc = acc
  BY <1>4, <1>6
<1> QED
  BY <1>5, <1>6, <1>7

\* AggregateMatchesPoints: when no block of the range is listed twice, cut short or without
\* its file, tsedge_aggregate succeeds, and its count, minimum, maximum and sum are those of
\* the points of the range, whichever of them it took from headers and whichever it decoded.
THEOREM AggregatesAreRight == Spec => []AggregateMatchesPoints
BY QueryInvariant, ReadInvariant, AggregateRight, PTL

-----------------------------------------------------------------------------
(* The arithmetic of the windows *)

\* A number that fits stays what it is.
LEMMA Int64Exact == \A n \in Ints : Int64(n) = n
BY CastBack DEF Int64

-----------------------------------------------------------------------------
(* The windows of a query *)

\* The ends of the window with this index, counted from 0, as WindowsMatchPoints has them.
WindowStart(k, start, size) == start + k * size

WindowEnd(k, start, end, size) == Min({WindowStart(k, start, size) + size, end})

\* The arguments of a call that is not rejected and has something to do.
WindowQuery(count, start, end, size) ==
  /\ start \in Ints /\ end \in Ints /\ size \in 1..MaxInt
  /\ start < end /\ end - start <= MaxInt
  /\ count = (end - start + size - 1) \div size

\* What the lemmas below use of them.
LEMMA QueryParts ==
  ASSUME NEW count, NEW start, NEW end, NEW size, WindowQuery(count, start, end, size)
  PROVE  /\ start \in Int /\ end \in Int /\ size \in Nat \ {0} /\ start < end
         /\ MaxInt \in Nat /\ Ints \subseteq Int /\ end - start \in 1..MaxInt /\ 0..MaxInt \subseteq Ints
         /\ count \in Nat \ {0}
         /\ end - start <= count * size /\ (count - 1) * size < end - start
<1>1. PICK h \in Nat \ {0} : MaxInt = h - 1 /\ MinInt = -h
  BY Halves
<1>2. start \in Int /\ end \in Int /\ size \in Nat \ {0} /\ start < end /\ end - start <= MaxInt
  BY <1>1 DEF WindowQuery, Ints
<1>3. PICK d \in Nat : d = end - start /\ d # 0
  BY <1>2
<1>4. PICK c : c = Portions(d, size)
  OBVIOUS
<1>5. /\ c \in Nat /\ c = (d + size - 1) \div size
      /\ d <= c * size /\ (c # 0 => (c - 1) * size < d) /\ (c = 0 <=> d = 0)
  BY <1>2, <1>4, Counting
<1>6. count = c
  BY <1>3, <1>5 DEF WindowQuery
<1>7. MaxInt \in Nat /\ Ints \subseteq Int /\ 0..MaxInt \subseteq Ints
  BY <1>1 DEF Ints
<1>8. d \in 1..MaxInt
  BY <1>2, <1>3, <1>7
<1> QED
  BY <1>2, <1>3, <1>5, <1>6, <1>7, <1>8

\* A window begins inside the range, and nothing wraps around on the way to it.
LEMMA WindowIn ==
  ASSUME NEW count, NEW start, NEW end, NEW size, WindowQuery(count, start, end, size),
         NEW k \in 0..(count - 1)
  PROVE  /\ k * size \in Ints /\ k * size \in Nat /\ k * size < end - start
         /\ WindowStart(k, start, size) \in Ints /\ WindowStart(k, start, size) \in Int
         /\ start <= WindowStart(k, start, size) /\ WindowStart(k, start, size) < end
         /\ WindowEnd(k, start, end, size) =
              IF WindowStart(k, start, size) + size <= end THEN WindowStart(k, start, size) + size ELSE end
         /\ WindowEnd(k, start, end, size) \in Ints
<1>1. /\ start \in Int /\ end \in Int /\ size \in Nat \ {0} /\ start < end
      /\ MaxInt \in Nat /\ end - start \in 1..MaxInt /\ 0..MaxInt \subseteq Ints
      /\ count \in Nat \ {0} /\ (count - 1) * size < end - start
  BY QueryParts
<1>2. k \in Nat /\ k <= count - 1 /\ count - 1 \in Int
  BY <1>1
<1>3. k * size \in Int /\ (count - 1) * size \in Int /\ k * size <= (count - 1) * size
  BY <1>1, <1>2, Multiples
<1>4. PICK m \in Nat : m = k * size
  BY <1>1, <1>2
<1>5. m < end - start /\ m \in 0..MaxInt
  BY <1>1, <1>3, <1>4
<1>6. PICK f \in Int : f = start + m /\ f = WindowStart(k, start, size)
  BY <1>1, <1>4 DEF WindowStart
<1>7. start <= f /\ f < end
  BY <1>1, <1>5, <1>6
<1>8. start \in Ints /\ end \in Ints
  BY DEF WindowQuery
<1>9. \A x \in Int : start <= x /\ x <= end => x \in Ints
  BY <1>1, <1>8, Halves DEF Ints
<1>10. f \in Ints
  BY <1>1, <1>7, <1>9
<1>11. PICK g \in Int : g = f + size
  BY <1>1
<1>12. WindowEnd(k, start, end, size) = IF g <= end THEN g ELSE end
  <2>1. Min({g, end}) = IF g <= end THEN g ELSE end
    BY <1>1, LesserOf
  <2> QED
    BY <1>6, <1>11, <2>1 DEF WindowEnd
<1>13. g <= end => g \in Ints
  <2>1. start <= g
    BY <1>1, <1>7, <1>11
  <2> QED
    BY <1>9, <2>1
<1> QED
  BY <1>1, <1>4, <1>5, <1>6, <1>7, <1>8, <1>10, <1>11, <1>12, <1>13

-----------------------------------------------------------------------------
(* The loop of a windowed aggregate over the points of a block or of the buffer *)

WindowingRow(windows, pts, start, end, size, t, n) ==
  IF n = 0 THEN windows ELSE AddToWindow(t[n - 1], pts[n], start, end, size)

WindowingTable(windows, pts, start, end, size, t, n) == t = [m \in 0..n |-> WindowingRow(windows, pts, start, end, size, t, m)]

\* One more row for the table.
LEMMA WindowingTableGrows ==
  ASSUME NEW windows, NEW pts, NEW start, NEW end, NEW size, NEW n \in Nat, NEW t, WindowingTable(windows, pts, start, end, size, t, n)
  PROVE  \E u : WindowingTable(windows, pts, start, end, size, u, n + 1)
<1> DEFINE last == WindowingRow(windows, pts, start, end, size, t, n + 1)
           u == [k \in 0..(n + 1) |-> IF k = n + 1 THEN last ELSE t[k]]
<1>1. \A k \in 0..n : t[k] = WindowingRow(windows, pts, start, end, size, t, k)
  BY DEF WindowingTable
<1> HIDE DEF last
<1>2. /\ \A k \in 0..(n + 1) : u[k] = IF k = n + 1 THEN last ELSE t[k]
      /\ u = [k \in 0..(n + 1) |-> u[k]]
  OBVIOUS
<1> HIDE DEF u
<1>3. ASSUME NEW k \in 0..(n + 1) PROVE u[k] = WindowingRow(windows, pts, start, end, size, u, k)
  <2>1. u[k] = WindowingRow(windows, pts, start, end, size, t, k)
    <3>1. CASE k = n + 1
      BY <1>2, <3>1 DEF last
    <3>2. CASE k # n + 1
      <4>1. k \in 0..n
        BY <3>2
      <4> QED
        BY <1>1, <1>2, <3>2, <4>1
    <3> QED
      BY <3>1, <3>2
  <2>2. CASE k = 0
    BY <2>1, <2>2 DEF WindowingRow
  <2>3. CASE k # 0
    <3>1. k - 1 \in 0..(n + 1) /\ k - 1 # n + 1
      BY <2>3
    <3>2. u[k - 1] = t[k - 1]
      BY <1>2, <3>1
    <3> QED
      BY <2>1, <2>3, <3>2 DEF WindowingRow
  <2> QED
    BY <2>2, <2>3
<1> QED
  BY <1>2, <1>3 DEF WindowingTable

\* There is a table of every length.
LEMMA WindowingTableExists ==
  ASSUME NEW windows, NEW pts, NEW start, NEW end, NEW size
  PROVE  \A n \in Nat : \E t : WindowingTable(windows, pts, start, end, size, t, n)
<1> DEFINE G == {n \in Nat : \E t : WindowingTable(windows, pts, start, end, size, t, n)}
<1>1. 0 \in G
  <2>1. WindowingTable(windows, pts, start, end, size, [k \in 0..0 |-> windows], 0)
    BY DEF WindowingTable, WindowingRow
  <2> QED
    BY <2>1
<1>2. ASSUME NEW n \in Nat, n \in G PROVE n + 1 \in G
  BY <1>2, WindowingTableGrows
<1> HIDE DEF G
<1>3. Nat \subseteq G
  BY <1>1, <1>2, NatSetInduction
<1> QED
  BY <1>3 DEF G

\* The rows lead from the first one to what the loop gives.
LEMMA WindowingRows ==
  ASSUME NEW windows, NEW pts, NEW start, NEW end, NEW size, NEW l \in Nat, Len(pts) = l
  PROVE  \E t : /\ AddAll(windows, pts, start, end, size) = t[l]
                /\ \A k \in 0..l : t[k] = WindowingRow(windows, pts, start, end, size, t, k)
<1> DEFINE t == CHOOSE t : WindowingTable(windows, pts, start, end, size, t, l)
<1>1. WindowingTable(windows, pts, start, end, size, t, l)
  BY WindowingTableExists
<1>2. AddAll(windows, pts, start, end, size) = t[l]
  BY DEF AddAll, WindowingTable, WindowingRow
<1> HIDE DEF t
<1>3. \A k \in 0..l : t[k] = WindowingRow(windows, pts, start, end, size, t, k)
  BY <1>1 DEF WindowingTable
<1> QED
  BY <1>2, <1>3

-----------------------------------------------------------------------------
(* The loop of a windowed aggregate over the index *)

FillingRow(entries, count, start, end, size, t, n) ==
  IF n = 0 THEN [rc |-> "ok", windows |-> [k \in 1..count |-> Zero]]
  ELSE WindowBlock(t[n - 1], entries[n], start, end, size)

FillingTable(entries, count, start, end, size, t, n) == t = [m \in 0..n |-> FillingRow(entries, count, start, end, size, t, m)]

\* One more row for the table.
LEMMA FillingTableGrows ==
  ASSUME NEW entries, NEW count, NEW start, NEW end, NEW size, NEW n \in Nat, NEW t, FillingTable(entries, count, start, end, size, t, n)
  PROVE  \E u : FillingTable(entries, count, start, end, size, u, n + 1)
<1> DEFINE last == FillingRow(entries, count, start, end, size, t, n + 1)
           u == [k \in 0..(n + 1) |-> IF k = n + 1 THEN last ELSE t[k]]
<1>1. \A k \in 0..n : t[k] = FillingRow(entries, count, start, end, size, t, k)
  BY DEF FillingTable
<1> HIDE DEF last
<1>2. /\ \A k \in 0..(n + 1) : u[k] = IF k = n + 1 THEN last ELSE t[k]
      /\ u = [k \in 0..(n + 1) |-> u[k]]
  OBVIOUS
<1> HIDE DEF u
<1>3. ASSUME NEW k \in 0..(n + 1) PROVE u[k] = FillingRow(entries, count, start, end, size, u, k)
  <2>1. u[k] = FillingRow(entries, count, start, end, size, t, k)
    <3>1. CASE k = n + 1
      BY <1>2, <3>1 DEF last
    <3>2. CASE k # n + 1
      <4>1. k \in 0..n
        BY <3>2
      <4> QED
        BY <1>1, <1>2, <3>2, <4>1
    <3> QED
      BY <3>1, <3>2
  <2>2. CASE k = 0
    BY <2>1, <2>2 DEF FillingRow
  <2>3. CASE k # 0
    <3>1. k - 1 \in 0..(n + 1) /\ k - 1 # n + 1
      BY <2>3
    <3>2. u[k - 1] = t[k - 1]
      BY <1>2, <3>1
    <3> QED
      BY <2>1, <2>3, <3>2 DEF FillingRow
  <2> QED
    BY <2>2, <2>3
<1> QED
  BY <1>2, <1>3 DEF FillingTable

\* There is a table of every length.
LEMMA FillingTableExists ==
  ASSUME NEW entries, NEW count, NEW start, NEW end, NEW size
  PROVE  \A n \in Nat : \E t : FillingTable(entries, count, start, end, size, t, n)
<1> DEFINE G == {n \in Nat : \E t : FillingTable(entries, count, start, end, size, t, n)}
<1>1. 0 \in G
  <2>1. FillingTable(entries, count, start, end, size, [k \in 0..0 |-> [rc |-> "ok", windows |-> [j \in 1..count |-> Zero]]], 0)
    BY DEF FillingTable, FillingRow
  <2> QED
    BY <2>1
<1>2. ASSUME NEW n \in Nat, n \in G PROVE n + 1 \in G
  BY <1>2, FillingTableGrows
<1> HIDE DEF G
<1>3. Nat \subseteq G
  BY <1>1, <1>2, NatSetInduction
<1> QED
  BY <1>3 DEF G

\* The rows lead from the first one to what the loop gives.
LEMMA FillingRows ==
  ASSUME NEW count, NEW start, NEW end, NEW size, NEW l \in Nat, Len(index) = l
  PROVE  \E t : /\ WindowBlocks(count, start, end, size) = t[l]
                /\ \A k \in 0..l : t[k] = FillingRow(index, count, start, end, size, t, k)
<1> DEFINE t == CHOOSE t : FillingTable(index, count, start, end, size, t, l)
<1>1. FillingTable(index, count, start, end, size, t, l)
  BY FillingTableExists
<1>2. WindowBlocks(count, start, end, size) = t[l]
  BY DEF WindowBlocks, FillingTable, FillingRow
<1> HIDE DEF t
<1>3. \A k \in 0..l : t[k] = FillingRow(index, count, start, end, size, t, k)
  BY <1>1 DEF FillingTable
<1> QED
  BY <1>2, <1>3

-----------------------------------------------------------------------------
(* Points and windows *)

\* A timestamp inside the range is inside the window that window_index_for_timestamp gives
\* and inside no other, and one outside the range is inside none.
LEMMA TheWindow ==
  ASSUME NEW count, NEW start, NEW end, NEW size, WindowQuery(count, start, end, size),
         NEW time \in Ints
  PROVE  /\ time >= start /\ time < end =>
              /\ WindowIndex(time, start, size) \in 1..count
              /\ \A k \in 0..(count - 1) :
                   Within(time, WindowStart(k, start, size), WindowEnd(k, start, end, size) - 1)
                     <=> k + 1 = WindowIndex(time, start, size)
         /\ ~(time >= start /\ time < end) =>
              \A k \in 0..(count - 1) :
                ~Within(time, WindowStart(k, start, size), WindowEnd(k, start, end, size) - 1)
<1>1. /\ start \in Int /\ end \in Int /\ size \in Nat \ {0} /\ start < end
      /\ MaxInt \in Nat /\ Ints \subseteq Int /\ end - start \in 1..MaxInt /\ 0..MaxInt \subseteq Ints
      /\ count \in Nat \ {0} /\ end - start <= count * size
  BY QueryParts
<1>2. time \in Int
  BY <1>1
<1>3. ASSUME NEW k \in 0..(count - 1)
      PROVE  \E f, e \in Int :
               /\ f = WindowStart(k, start, size) /\ e = WindowEnd(k, start, end, size)
               /\ k * size \in Nat /\ f = start + k * size /\ start <= f
               /\ e = IF f + size <= end THEN f + size ELSE end
  <2>1. /\ k * size \in Nat /\ WindowStart(k, start, size) \in Int /\ start <= WindowStart(k, start, size)
        /\ WindowEnd(k, start, end, size) =
              IF WindowStart(k, start, size) + size <= end THEN WindowStart(k, start, size) + size ELSE end
        /\ WindowEnd(k, start, end, size) \in Ints
    BY WindowIn
  <2>2. WindowEnd(k, start, end, size) \in Int
    BY <1>1, <2>1
  <2>3. WindowStart(k, start, size) = start + k * size
    BY DEF WindowStart
  <2> QED
    BY <2>1, <2>2, <2>3
<1>4. ASSUME time >= start, time < end
      PROVE  /\ WindowIndex(time, start, size) \in 1..count
             /\ \A k \in 0..(count - 1) :
                  Within(time, WindowStart(k, start, size), WindowEnd(k, start, end, size) - 1)
                    <=> k + 1 = WindowIndex(time, start, size)
  <2>1. PICK x \in Nat : x = time - start /\ x < end - start /\ x <= MaxInt
    BY <1>1, <1>2, <1>4
  <2>2. Int64(time - start) = x
    <3>1. x \in Ints
      BY <1>1, <2>1
    <3> QED
      BY <2>1, <3>1, Int64Exact
  <2>3. PICK q \in Nat : /\ q = x \div size /\ q * size <= x /\ x < q * size + size
                         /\ \A p \in Nat : p * size <= x /\ x < p * size + size => q = p
    BY <1>1, Quotient
  <2>4. WindowIndex(time, start, size) = 1 + q
    BY <2>2, <2>3 DEF WindowIndex
  <2>5. q < count
    <3> SUFFICES ASSUME count <= q PROVE FALSE
      BY <1>1
    <3>1. count * size \in Int /\ q * size \in Int /\ count * size <= q * size
      BY <1>1, Multiples
    <3>2. PICK a \in Int, b \in Int : a = count * size /\ b = q * size
      BY <3>1
    <3> QED
      BY <1>1, <2>1, <2>3, <3>1, <3>2
  <2>6. ASSUME NEW k \in 0..(count - 1)
        PROVE  Within(time, WindowStart(k, start, size), WindowEnd(k, start, end, size) - 1) <=> k = q
    <3>1. PICK f \in Int, e \in Int :
               /\ f = WindowStart(k, start, size) /\ e = WindowEnd(k, start, end, size)
               /\ k * size \in Nat /\ f = start + k * size /\ start <= f
               /\ e = IF f + size <= end THEN f + size ELSE end
      BY <1>3
    <3>2. PICK m \in Nat : m = k * size
      BY <3>1
    <3>3. f = start + m
      BY <3>1, <3>2
    <3>4. time >= f /\ time <= e - 1 <=> m <= x /\ x < m + size
      <4>1. time = start + x
        BY <1>1, <1>2, <2>1
      <4> QED
        BY <1>1, <1>4, <2>1, <3>1, <3>3, <4>1
    <3>5. m <= x /\ x < m + size <=> k = q
      <4>1. m <= x /\ x < m + size => q = k
        BY <2>3, <3>2
      <4>2. k = q => m <= x /\ x < m + size
        BY <2>3, <3>2
      <4> QED
        BY <4>1, <4>2
    <3> QED
      BY <3>1, <3>4, <3>5 DEF Within
  <2>7. 1 + q \in 1..count /\ \A k \in 0..(count - 1) : k = q <=> k + 1 = 1 + q
    BY <1>1, <2>5
  <2> QED
    BY <2>4, <2>6, <2>7
<1>5. ASSUME ~(time >= start /\ time < end), NEW k \in 0..(count - 1)
      PROVE  ~Within(time, WindowStart(k, start, size), WindowEnd(k, start, end, size) - 1)
  <2>1. PICK f \in Int, e \in Int :
             /\ f = WindowStart(k, start, size) /\ e = WindowEnd(k, start, end, size)
             /\ start <= f /\ e = IF f + size <= end THEN f + size ELSE end
    BY <1>3
  <2>2. e <= end
    BY <1>1, <2>1
  <2>3. ~(time >= f /\ time <= e - 1)
    BY <1>1, <1>2, <1>5, <2>1, <2>2
  <2> QED
    BY <2>1, <2>3 DEF Within
<1> QED
  BY <1>4, <1>5

\* The points in window k of a query, in the order given.
InWindow(s, k, start, end, size) ==
  InRange(s, WindowStart(k - 1, start, size), WindowEnd(k - 1, start, end, size) - 1)

\* The windows tell of their points.
Windowed(windows, s, count, start, end, size) ==
  /\ windows = [k \in 1..count |-> windows[k]]
  /\ s \in Seq(DOMAIN history)
  /\ \A k \in 1..count : Tells(windows[k], InWindow(s, k, start, end, size))

\* Which window a timestamp is in.
LEMMA InItsWindow ==
  ASSUME NEW count, NEW start, NEW end, NEW size, WindowQuery(count, start, end, size),
         NEW time \in Ints, NEW k \in 1..count
  PROVE  /\ WindowStart(k - 1, start, size) \in Int /\ WindowEnd(k - 1, start, end, size) - 1 \in Int
         /\ Within(time, WindowStart(k - 1, start, size), WindowEnd(k - 1, start, end, size) - 1)
              <=> time >= start /\ time < end /\ k = WindowIndex(time, start, size)
         /\ time >= start /\ time < end => WindowIndex(time, start, size) \in 1..count
<1>1. count \in Nat
  BY QueryParts
<1>2. k - 1 \in 0..(count - 1) /\ (k - 1) + 1 = k
  BY <1>1
<1>3. PICK j \in 0..(count - 1) : j = k - 1 /\ j + 1 = k
  BY <1>2
<1>4. /\ time >= start /\ time < end =>
              /\ WindowIndex(time, start, size) \in 1..count
              /\ Within(time, WindowStart(j, start, size), WindowEnd(j, start, end, size) - 1)
                     <=> j + 1 = WindowIndex(time, start, size)
      /\ ~(time >= start /\ time < end) =>
              ~Within(time, WindowStart(j, start, size), WindowEnd(j, start, end, size) - 1)
  BY TheWindow
<1>5. WindowStart(j, start, size) \in Int /\ WindowEnd(j, start, end, size) \in Ints
  BY WindowIn
<1>6. Ints \subseteq Int
  BY Halves DEF Ints
<1>7. WindowEnd(j, start, end, size) - 1 \in Int
  <2>1. PICK e \in Ints : e = WindowEnd(j, start, end, size)
    BY <1>5
  <2>2. e \in Int
    BY <1>6
  <2>3. e - 1 \in Int
    BY <2>2
  <2> QED
    BY <2>1, <2>3
<1>8. /\ WindowStart(j, start, size) \in Int /\ WindowEnd(j, start, end, size) - 1 \in Int
      /\ Within(time, WindowStart(j, start, size), WindowEnd(j, start, end, size) - 1)
           <=> time >= start /\ time < end /\ j + 1 = WindowIndex(time, start, size)
      /\ time >= start /\ time < end => WindowIndex(time, start, size) \in 1..count
  BY <1>4, <1>5, <1>7
<1> QED
  BY ONLY <1>3, <1>8

-----------------------------------------------------------------------------
(* The loops of a windowed aggregate *)

\* Before the first point.
LEMMA WindowsBegin ==
  ASSUME NEW count, NEW start, NEW end, NEW size
  PROVE  Windowed([k \in 1..count |-> Zero], <<>>, count, start, end, size)
<1>1. ASSUME NEW k \in 1..count PROVE InWindow(<<>>, k, start, end, size) = <<>>
  <2>1. <<>> \in Seq(Nat)
    OBVIOUS
  <2>2. \A a, b : InRange(<<>>, a, b) = <<>>
    BY <2>1, InRangeType
  <2> QED
    BY <2>2 DEF InWindow
<1>2. <<>> \in Seq(DOMAIN history)
  OBVIOUS
<1>3. PICK w : w = [k \in 1..count |-> Zero]
  OBVIOUS
<1>4. w = [k \in 1..count |-> w[k]] /\ \A k \in 1..count : w[k] = Zero
  BY <1>3
<1>5. Windowed(w, <<>>, count, start, end, size)
  BY <1>1, <1>2, <1>4, TellsNone DEF Windowed
<1> QED
  BY <1>3, <1>5

\* One more point.
LEMMA PointWindowed ==
  ASSUME history \in Seq(Points),
         NEW count, NEW start, NEW end, NEW size, WindowQuery(count, start, end, size),
         NEW windows, NEW s, Windowed(windows, s, count, start, end, size), NEW n \in DOMAIN history
  PROVE  Windowed(AddToWindow(windows, history[n], start, end, size), Append(s, n), count, start, end, size)
<1> DEFINE T == DOMAIN history
<1>1. /\ n \in Nat /\ history[n][1] = Timestamp(n) /\ history[n][2] = Value(n)
      /\ Timestamp(n) \in Ints /\ Timestamp(n) \in Int
  BY PointParts DEF Timestamp, Value
<1>2. /\ windows = [k \in 1..count |-> windows[k]] /\ s \in Seq(T)
      /\ \A k \in 1..count : Tells(windows[k], InWindow(s, k, start, end, size))
  BY DEF Windowed
<1>3. s \in Seq(Nat)
  BY <1>2, KnownNumbers
<1>4. Append(s, n) \in Seq(T)
  BY <1>2
<1>5. PICK time \in Ints : time = Timestamp(n)
  BY <1>1
<1>6. PICK inside : inside = (time >= start /\ time < end)
  OBVIOUS
<1>7. PICK at : at = WindowIndex(time, start, size)
  OBVIOUS
<1>8. inside => at \in 1..count
  <2>1. 1 \in 1..count
    BY QueryParts
  <2> QED
    BY <1>6, <1>7, <2>1, InItsWindow
<1>9. ASSUME NEW k \in 1..count
      PROVE  InWindow(Append(s, n), k, start, end, size) =
               IF inside /\ k = at THEN Append(InWindow(s, k, start, end, size), n)
               ELSE InWindow(s, k, start, end, size)
  <2>1. PICK a, b : a = WindowStart(k - 1, start, size) /\ b = WindowEnd(k - 1, start, end, size) - 1
    OBVIOUS
  <2>2. Within(time, WindowStart(k - 1, start, size), WindowEnd(k - 1, start, end, size) - 1)
          <=> time >= start /\ time < end /\ k = WindowIndex(time, start, size)
    BY InItsWindow
  <2>3. Within(time, a, b) <=> inside /\ k = at
    BY ONLY <1>6, <1>7, <2>1, <2>2
  <2>4. InRange(Append(s, n), a, b) =
          IF Within(Timestamp(n), a, b) THEN Append(InRange(s, a, b), n) ELSE InRange(s, a, b)
    BY <1>1, <1>3, InRangeAppend
  <2> QED
    BY <1>5, <2>1, <2>3, <2>4 DEF InWindow
<1>10. PICK w : w = AddToWindow(windows, history[n], start, end, size)
  OBVIOUS
<1>11. CASE ~inside
  <2>1. w = windows
    BY <1>1, <1>5, <1>6, <1>10, <1>11 DEF AddToWindow
  <2>2. \A k \in 1..count : Tells(w[k], InWindow(Append(s, n), k, start, end, size))
    BY <1>2, <1>9, <1>11, <2>1
  <2> QED
    BY <1>2, <1>4, <1>10, <2>1, <2>2 DEF Windowed
<1>12. CASE inside
  <2>1. w = [windows EXCEPT ![at] = Combine(windows[at], Single(Value(n)))]
    BY <1>1, <1>5, <1>6, <1>7, <1>10, <1>12 DEF AddToWindow
  <2>2. PICK c : c = Combine(windows[at], Single(Value(n)))
    OBVIOUS
  <2>3. /\ w = [k \in 1..count |-> w[k]]
        /\ w[at] = c /\ \A k \in 1..count : k # at => w[k] = windows[k]
    BY <1>2, <1>8, <1>12, <2>1, <2>2
  <2>4. Tells(c, Append(InWindow(s, at, start, end, size), n))
    BY <1>2, <1>8, <1>12, <2>2, TellsOne
  <2>5. ASSUME NEW k \in 1..count PROVE Tells(w[k], InWindow(Append(s, n), k, start, end, size))
    <3>1. CASE k = at
      BY <1>9, <1>12, <2>3, <2>4, <3>1
    <3>2. CASE k # at
      BY <1>2, <1>9, <2>3, <3>2
    <3> QED
      BY <3>1, <3>2
  <2> QED
    BY <1>4, <1>10, <2>3, <2>5 DEF Windowed
<1> QED
  BY <1>11, <1>12

\* All points of a block or of the buffer.
LEMMA PointsWindowed ==
  ASSUME history \in Seq(Points),
         NEW count, NEW start, NEW end, NEW size, WindowQuery(count, start, end, size),
         NEW windows, NEW s, Windowed(windows, s, count, start, end, size),
         NEW numbers \in Seq(DOMAIN history)
  PROVE  Windowed(AddAll(windows, PointsOf(numbers), start, end, size), s \o numbers, count, start, end, size)
<1> DEFINE T == DOMAIN history
<1>1. PICK n \in Nat : n = Len(numbers)
  OBVIOUS
<1>2. PICK p : p = PointsOf(numbers)
  OBVIOUS
<1>3. Len(p) = n /\ \A i \in 1..n : numbers[i] \in T /\ p[i] = history[numbers[i]]
  BY <1>1, <1>2, KnownPoints
<1>4. PICK t : /\ AddAll(windows, p, start, end, size) = t[n]
               /\ \A k \in 0..n : t[k] = WindowingRow(windows, p, start, end, size, t, k)
  BY <1>3, WindowingRows
<1>5. /\ Upto(numbers, 0) = <<>> /\ Upto(numbers, n) = numbers
      /\ \A k \in 0..n : Upto(numbers, k) \in Seq(T)
      /\ \A k \in Nat : k < n => Upto(numbers, k + 1) = Append(Upto(numbers, k), numbers[k + 1])
  BY <1>1, UptoNext
<1>6. s \in Seq(T)
  BY DEF Windowed
<1> DEFINE G == {k \in Nat : k <= n => Windowed(t[k], s \o Upto(numbers, k), count, start, end, size)}
<1>7. 0 \in G
  <2>1. 0 \in 0..n
    OBVIOUS
  <2>2. t[0] = windows
    BY <1>4, <2>1 DEF WindowingRow
  <2>3. s \o <<>> = s
    BY <1>6
  <2> QED
    BY <1>5, <2>2, <2>3
<1>8. ASSUME NEW k \in Nat, k \in G PROVE k + 1 \in G
  <2> SUFFICES ASSUME k + 1 <= n PROVE Windowed(t[k + 1], s \o Upto(numbers, k + 1), count, start, end, size)
    OBVIOUS
  <2>1. k < n /\ k \in 0..n /\ k + 1 \in 0..n /\ k + 1 \in 1..n /\ k + 1 # 0 /\ (k + 1) - 1 = k
    OBVIOUS
  <2>2. Windowed(t[k], s \o Upto(numbers, k), count, start, end, size)
    BY <1>8, <2>1
  <2> HIDE DEF G
  <2>3. PICK u, x : u = Upto(numbers, k) /\ x = numbers[k + 1]
    OBVIOUS
  <2>4. u \in Seq(T) /\ x \in T /\ Upto(numbers, k + 1) = Append(u, x)
    BY <1>3, <1>5, <2>1, <2>3
  <2>5. t[k + 1] = AddToWindow(t[k], history[x], start, end, size)
    <3>1. t[k + 1] = WindowingRow(windows, p, start, end, size, t, k + 1)
      BY <1>4, <2>1
    <3>2. p[k + 1] = history[x]
      BY <1>3, <2>1, <2>3
    <3> QED
      BY <2>1, <3>1, <3>2 DEF WindowingRow
  <2>6. Windowed(AddToWindow(t[k], history[x], start, end, size), Append(s \o u, x), count, start, end, size)
    BY <2>2, <2>3, <2>4, PointWindowed
  <2> HIDE DEF T
  <2>7. s \o Append(u, x) = Append(s \o u, x)
    BY <1>6, <2>4, ConcatAppend
  <2> QED
    BY <2>4, <2>5, <2>6, <2>7
<1> HIDE DEF G
<1>9. Nat \subseteq G
  BY <1>7, <1>8, NatSetInduction
<1>10. n \in G
  BY <1>9
<1>11. Windowed(t[n], s \o Upto(numbers, n), count, start, end, size)
  BY <1>10 DEF G
<1> QED
  BY <1>2, <1>4, <1>5, <1>11

\* The points of two sequences in a window.
LEMMA InWindowConcat ==
  ASSUME NEW s \in Seq(Nat), NEW t \in Seq(Nat), NEW k, NEW start, NEW end, NEW size
  PROVE  InWindow(s \o t, k, start, end, size) =
           InWindow(s, k, start, end, size) \o InWindow(t, k, start, end, size)
BY InRangeConcat DEF InWindow

\* Where points are: all of them in this window, or none of them in it.
WhollyIn(numbers, k, start, end, size) ==
  \A a \in 1..Len(numbers) :
    /\ Timestamp(numbers[a]) >= start /\ Timestamp(numbers[a]) < end
    /\ WindowIndex(Timestamp(numbers[a]), start, size) = k

NowhereIn(numbers, k, start, end, size) ==
  \A a \in 1..Len(numbers) :
    Timestamp(numbers[a]) >= start /\ Timestamp(numbers[a]) < end
      => WindowIndex(Timestamp(numbers[a]), start, size) # k

\* A window has all of some points, or none of them.
LEMMA WindowHasAll ==
  ASSUME history \in Seq(Points),
         NEW count, NEW start, NEW end, NEW size, WindowQuery(count, start, end, size),
         NEW numbers \in Seq(DOMAIN history), NEW k \in 1..count
  PROVE  /\ WhollyIn(numbers, k, start, end, size) => InWindow(numbers, k, start, end, size) = numbers
         /\ NowhereIn(numbers, k, start, end, size) => InWindow(numbers, k, start, end, size) = <<>>
<1>1. numbers \in Seq(Nat)
  BY KnownNumbers
<1>2. ASSUME NEW a \in 1..Len(numbers) PROVE Timestamp(numbers[a]) \in Ints
  <2>1. numbers[a] \in DOMAIN history
    OBVIOUS
  <2> QED
    BY <2>1, PointParts
<1>3. PICK f, e : f = WindowStart(k - 1, start, size) /\ e = WindowEnd(k - 1, start, end, size) - 1
  OBVIOUS
<1>4. ASSUME NEW time \in Ints
      PROVE  Within(time, f, e) <=> time >= start /\ time < end /\ k = WindowIndex(time, start, size)
  <2>1. Within(time, WindowStart(k - 1, start, size), WindowEnd(k - 1, start, end, size) - 1)
          <=> time >= start /\ time < end /\ k = WindowIndex(time, start, size)
    BY InItsWindow
  <2> QED
    BY ONLY <1>3, <2>1
<1>5. /\ (\A a \in 1..Len(numbers) : Within(Timestamp(numbers[a]), f, e)) => InRange(numbers, f, e) = numbers
      /\ (\A a \in 1..Len(numbers) : ~Within(Timestamp(numbers[a]), f, e)) => InRange(numbers, f, e) = <<>>
  BY <1>1, InRangeAll
<1>6. InWindow(numbers, k, start, end, size) = InRange(numbers, f, e)
  BY <1>3 DEF InWindow
<1> QED
  BY <1>2, <1>4, <1>5, <1>6 DEF WhollyIn, NowhereIn

\* Points outside of the range change nothing.
LEMMA NoneWindowed ==
  ASSUME history \in Seq(Points),
         NEW count, NEW start, NEW end, NEW size, WindowQuery(count, start, end, size),
         NEW windows, NEW s, Windowed(windows, s, count, start, end, size),
         NEW numbers \in Seq(DOMAIN history),
         \A a \in 1..Len(numbers) : ~(Timestamp(numbers[a]) >= start /\ Timestamp(numbers[a]) < end)
  PROVE  Windowed(windows, s \o numbers, count, start, end, size)
<1>1. /\ windows = [k \in 1..count |-> windows[k]] /\ s \in Seq(DOMAIN history)
      /\ \A k \in 1..count : Tells(windows[k], InWindow(s, k, start, end, size))
  BY DEF Windowed
<1>2. s \in Seq(Nat) /\ numbers \in Seq(Nat)
  BY <1>1, KnownNumbers
<1>3. s \o numbers \in Seq(DOMAIN history)
  BY <1>1
<1>4. ASSUME NEW k \in 1..count
      PROVE  InWindow(s \o numbers, k, start, end, size) = InWindow(s, k, start, end, size)
  <2>1. InWindow(numbers, k, start, end, size) = <<>>
    <3>1. NowhereIn(numbers, k, start, end, size)
      <4>1. \A a \in 1..Len(numbers) :
              Timestamp(numbers[a]) >= start /\ Timestamp(numbers[a]) < end
                => WindowIndex(Timestamp(numbers[a]), start, size) # k
        OBVIOUS
      <4> QED
        BY ONLY <4>1 DEF NowhereIn
    <3> QED
      BY <3>1, WindowHasAll
  <2>2. InWindow(s, k, start, end, size) \in Seq(DOMAIN history)
    BY <1>1 DEF Tells
  <2>3. InWindow(s, k, start, end, size) \o <<>> = InWindow(s, k, start, end, size)
    BY <2>2
  <2>4. InWindow(s \o numbers, k, start, end, size) =
          InWindow(s, k, start, end, size) \o InWindow(numbers, k, start, end, size)
    BY <1>2, InWindowConcat
  <2> QED
    BY <2>1, <2>3, <2>4
<1> QED
  BY <1>1, <1>3, <1>4 DEF Windowed

\* The statistics of points that are all in one window.
LEMMA AllWindowed ==
  ASSUME history \in Seq(Points),
         NEW count, NEW start, NEW end, NEW size, WindowQuery(count, start, end, size),
         NEW windows, NEW s, Windowed(windows, s, count, start, end, size),
         NEW numbers \in Seq(DOMAIN history), Len(numbers) # 0, NEW stats, Tells(stats, numbers),
         NEW at \in 1..count, WhollyIn(numbers, at, start, end, size)
  PROVE  Windowed([windows EXCEPT ![at] = Combine(windows[at], stats)], s \o numbers, count, start, end, size)
<1>1. /\ windows = [k \in 1..count |-> windows[k]] /\ s \in Seq(DOMAIN history)
      /\ \A k \in 1..count : Tells(windows[k], InWindow(s, k, start, end, size))
  BY DEF Windowed
<1>2. s \in Seq(Nat) /\ numbers \in Seq(Nat)
  BY <1>1, KnownNumbers
<1>3. s \o numbers \in Seq(DOMAIN history)
  BY <1>1
<1>4. PICK c : c = Combine(windows[at], stats)
  OBVIOUS
<1>5. PICK w : w = [windows EXCEPT ![at] = c]
  OBVIOUS
<1>6. w = [k \in 1..count |-> w[k]] /\ w[at] = c /\ \A k \in 1..count : k # at => w[k] = windows[k]
  BY <1>1, <1>5
<1>7. ASSUME NEW k \in 1..count PROVE Tells(w[k], InWindow(s \o numbers, k, start, end, size))
  <2>1. InWindow(s \o numbers, k, start, end, size) =
          InWindow(s, k, start, end, size) \o InWindow(numbers, k, start, end, size)
    BY <1>2, InWindowConcat
  <2>2. CASE k = at
    <3>1. InWindow(numbers, k, start, end, size) = numbers
      BY <2>2, WindowHasAll
    <3>2. Tells(c, InWindow(s, k, start, end, size) \o numbers)
      BY <1>1, <1>4, <2>2, TellsBoth
    <3> QED
      BY <1>6, <2>1, <2>2, <3>1, <3>2
  <2>3. CASE k # at
    <3>1. InWindow(numbers, k, start, end, size) = <<>>
      <4>1. NowhereIn(numbers, k, start, end, size)
        BY <2>3 DEF NowhereIn, WhollyIn
      <4> QED
        BY <4>1, WindowHasAll
    <3>2. InWindow(s, k, start, end, size) \in Seq(DOMAIN history)
      BY <1>1 DEF Tells
    <3>3. InWindow(s, k, start, end, size) \o <<>> = InWindow(s, k, start, end, size)
      BY <3>2
    <3> QED
      BY <1>1, <1>6, <2>1, <2>3, <3>1, <3>3
  <2> QED
    BY <2>2, <2>3
<1> QED
  BY <1>3, <1>4, <1>5, <1>6, <1>7 DEF Windowed

\* The state of a windowed aggregate that has told of these points.
Filled(state, s, count, start, end, size) ==
  \E windows : /\ state = [rc |-> "ok", windows |-> windows]
               /\ Windowed(windows, s, count, start, end, size)

\* The bounds of a block that falls into one window hold all its points there.
LEMMA SameWindowHolds ==
  ASSUME history \in Seq(Points),
         NEW count, NEW start, NEW end, NEW size, WindowQuery(count, start, end, size),
         NEW block, BlockOk(block), NEW entry, entry.min = block.header.min, entry.max = block.header.max,
         SameWindow(entry, start, end, size)
  PROVE  /\ WindowIndex(entry.min, start, size) \in 1..count
         /\ WhollyIn(block.numbers, WindowIndex(entry.min, start, size), start, end, size)
<1>1. PICK x \in Ints, y \in Ints : x = entry.min /\ y = entry.max
  BY BlockStreams
<1>2. PICK numbers : numbers = block.numbers
  OBVIOUS
<1>3. \A a \in 1..Len(numbers) :
        Timestamp(numbers[a]) \in Ints /\ x <= Timestamp(numbers[a]) /\ Timestamp(numbers[a]) <= y
  BY <1>1, <1>2, HeaderBounds
<1>4. Ints \subseteq Int /\ start \in Int /\ end \in Int
  BY QueryParts
<1>5. x >= start /\ y < end /\ WindowIndex(x, start, size) = WindowIndex(y, start, size)
  BY <1>1 DEF SameWindow
<1>6. CASE Len(numbers) = 0
  <2>1. Len(numbers) # 0
    BY <1>2 DEF BlockOk, IsNumbers
  <2> QED
    BY <1>6, <2>1
<1>7. CASE Len(numbers) # 0
  <2>1. Len(numbers) \in Nat
    BY <1>2 DEF BlockOk, IsNumbers
  <2>2. PICK z \in Ints : x <= z /\ z <= y
    <3>1. 1 \in 1..Len(numbers)
      BY <1>7, <2>1
    <3> QED
      BY <1>3, <3>1
  <2>3. x < end /\ y >= start
    BY <1>4, <1>5, <2>2
  <2>4. PICK at : at = WindowIndex(x, start, size)
    OBVIOUS
  <2>5. 1 \in 1..count
    BY QueryParts
  <2>6. at \in 1..count
    BY <1>5, <2>3, <2>4, <2>5, InItsWindow
  <2>7. PICK f \in Int, e \in Int : /\ f = WindowStart(at - 1, start, size)
                                    /\ e = WindowEnd(at - 1, start, end, size) - 1
    BY <1>1, <2>6, InItsWindow
  <2>8. ASSUME NEW time \in Ints
        PROVE  Within(time, f, e) <=> time >= start /\ time < end /\ at = WindowIndex(time, start, size)
    <3>1. Within(time, WindowStart(at - 1, start, size), WindowEnd(at - 1, start, end, size) - 1)
            <=> time >= start /\ time < end /\ at = WindowIndex(time, start, size)
      BY <2>6, InItsWindow
    <3> QED
      BY ONLY <2>7, <3>1
  <2>9. Within(x, f, e) /\ Within(y, f, e)
    BY <1>5, <2>3, <2>4, <2>8
  <2>10. ASSUME NEW a \in 1..Len(numbers)
         PROVE  /\ Timestamp(numbers[a]) >= start /\ Timestamp(numbers[a]) < end
                /\ WindowIndex(Timestamp(numbers[a]), start, size) = at
    <3>1. PICK time \in Ints : time = Timestamp(numbers[a]) /\ x <= time /\ time <= y
      BY <1>3
    <3>2. Within(time, f, e)
      BY <1>4, <2>7, <2>9, <3>1 DEF Within
    <3> QED
      BY <2>8, <3>1, <3>2
  <2>11. WhollyIn(numbers, at, start, end, size)
    BY <2>10 DEF WhollyIn
  <2> QED
    BY <1>1, <1>2, <2>4, <2>6, <2>11
<1> QED
  BY <1>6, <1>7

\* One block.
LEMMA BlockFills ==
  ASSUME IInv, AllListed, NEW i \in 1..Len(index),
         NEW count, NEW start, NEW end, NEW size, WindowQuery(count, start, end, size),
         ~Damaged(start, end - 1), NEW state, NEW s, Filled(state, s, count, start, end, size)
  PROVE  Filled(WindowBlock(state, index[i], start, end, size), s \o NumbersOf(index[i]), count, start, end, size)
<1>1. PICK windows : /\ state = [rc |-> "ok", windows |-> windows]
                     /\ Windowed(windows, s, count, start, end, size)
  BY DEF Filled
<1>2. history \in Seq(Points) /\ index[i] \in Entries
  BY DEF IInv
<1>3. state.rc = "ok" /\ state.windows = windows /\ \A a : [state EXCEPT !.windows = a] = [rc |-> "ok", windows |-> a]
  BY <1>1
<1>4. PICK numbers \in Seq(DOMAIN history) : numbers = NumbersOf(index[i])
  BY EntryNumbers
<1>5. start \in Int /\ end \in Int /\ end - 1 \in Int
  <2>1. start \in Int /\ end \in Int
    BY QueryParts
  <2> QED
    BY <2>1
<1>6. PICK x \in Int, y \in Int : x = index[i].min /\ y = index[i].max
  <2>1. index[i].min \in Ints /\ index[i].max \in Ints
    BY <1>2 DEF Entries, Ints
  <2> QED
    BY <2>1, QueryParts
<1>7. Intersects(index[i], start, end - 1) <=> ~(y < start \/ x >= end)
  BY <1>5, <1>6 DEF Intersects
<1>8. CASE ~Intersects(index[i], start, end - 1)
  <2>1. \A a \in 1..Len(numbers) : ~Within(Timestamp(numbers[a]), start, end - 1)
    BY <1>4, <1>5, <1>8, MissedBlock
  <2>2. \A a \in 1..Len(numbers) : ~(Timestamp(numbers[a]) >= start /\ Timestamp(numbers[a]) < end)
    <3> TAKE a \in 1..Len(numbers)
    <3>1. numbers[a] \in DOMAIN history
      BY <1>4
    <3>2. PICK time \in Int : time = Timestamp(numbers[a])
      BY <1>2, <3>1, PointParts
    <3>3. ~(time >= start /\ time <= end - 1)
      BY <2>1, <3>2 DEF Within
    <3>4. ~(time >= start /\ time < end)
      BY <1>5, <3>3
    <3> QED
      BY <3>2, <3>4
  <2>3. Windowed(windows, s \o numbers, count, start, end, size)
    BY <1>1, <1>2, <2>2, NoneWindowed
  <2>4. WindowBlock(state, index[i], start, end, size) = state
    BY <1>6, <1>7, <1>8 DEF WindowBlock
  <2> QED
    BY <1>1, <1>4, <2>3, <2>4 DEF Filled
<1>9. CASE Intersects(index[i], start, end - 1)
  <2>1. PICK id, k : Placed(i, id, k) /\ BlockOk(files[id][k]) /\ files[id][k].whole
    BY <1>9, MetBlock
  <2>2. PICK block : block = files[id][k]
    OBVIOUS
  <2>3. /\ HasBlock(index[i]) /\ BlockAt(index[i]) = block
        /\ index[i].min = block.header.min /\ index[i].max = block.header.max
    BY <2>1, <2>2, PlacedBlock
  <2>4. BlockOk(block) /\ block.whole /\ numbers = block.numbers /\ IsNumbers(numbers)
    BY <1>4, <2>1, <2>2, <2>3 DEF NumbersOf, BlockOk
  <2>5. Len(numbers) # 0
    BY <2>4 DEF IsNumbers
  <2>6. WindowBlock(state, index[i], start, end, size) = WindowStored(state, index[i], start, end, size)
    BY <1>3, <1>6, <1>7, <1>9 DEF WindowBlock
  <2>7. CASE SameWindow(index[i], start, end, size)
    <3>1. PICK at : at = WindowIndex(index[i].min, start, size)
      OBVIOUS
    <3>2. at \in 1..count /\ WhollyIn(numbers, at, start, end, size)
      BY <1>2, <2>3, <2>4, <2>7, <3>1, SameWindowHolds
    <3>3. PICK stats : stats = block.header.stats
      OBVIOUS
    <3>4. Tells(stats, numbers)
      BY <1>2, <2>4, <3>3, WholeBlock
    <3>5. PICK w : w = [windows EXCEPT ![at] = Combine(windows[at], stats)]
      OBVIOUS
    <3>6. Windowed(w, s \o numbers, count, start, end, size)
      BY <1>1, <1>2, <2>5, <3>2, <3>4, <3>5, AllWindowed
    <3>7. WindowStored(state, index[i], start, end, size) = [rc |-> "ok", windows |-> w]
      <4>1. WindowStored(state, index[i], start, end, size) =
              [state EXCEPT !.windows[WindowIndex(index[i].min, start, size)] = Combine(@, BlockAt(index[i]).header.stats)]
        BY <2>3, <2>7 DEF WindowStored
      <4>2. [state EXCEPT !.windows[WindowIndex(index[i].min, start, size)] = Combine(@, BlockAt(index[i]).header.stats)]
              = [state EXCEPT !.windows = w]
        BY <1>3, <2>3, <3>1, <3>3, <3>5
      <4> QED
        BY <1>3, <4>1, <4>2
    <3> QED
      BY <1>4, <2>6, <3>6, <3>7 DEF Filled
  <2>8. CASE ~SameWindow(index[i], start, end, size)
    <3>1. PICK p : p = PointsOf(numbers)
      OBVIOUS
    <3>2. Decode(block) = p /\ p # Corrupt
      BY <1>2, <2>4, <3>1, WholeBlock
    <3>3. WindowStored(state, index[i], start, end, size) = WindowDecoded(state, p, start, end, size)
      BY <2>3, <2>8, <3>2 DEF WindowStored
    <3>4. PICK w : w = AddAll(windows, p, start, end, size)
      OBVIOUS
    <3>5. WindowDecoded(state, p, start, end, size) = [rc |-> "ok", windows |-> w]
      BY <1>3, <3>2, <3>4 DEF WindowDecoded
    <3>6. Windowed(w, s \o numbers, count, start, end, size)
      BY <1>1, <1>2, <3>1, <3>4, PointsWindowed
    <3> QED
      BY <1>4, <2>6, <3>3, <3>5, <3>6 DEF Filled
  <2> QED
    BY <2>7, <2>8
<1> QED
  BY <1>8, <1>9

\* All blocks.
LEMMA BlocksFill ==
  ASSUME IInv, AllListed,
         NEW count, NEW start, NEW end, NEW size, WindowQuery(count, start, end, size),
         ~Damaged(start, end - 1)
  PROVE  Filled(WindowBlocks(count, start, end, size), Listed(Len(index)), count, start, end, size)
<1> DEFINE T == DOMAIN history
<1>1. PICK n \in Nat : n = Len(index)
  BY ListedNumbers
<1>2. /\ Listed(0) = <<>>
      /\ \A k \in 0..n : Listed(k) \in Seq(T)
      /\ \A k \in Nat : k < n => Listed(k + 1) = Listed(k) \o NumbersOf(index[k + 1])
  BY <1>1, ListedNumbers
<1>3. PICK t : /\ WindowBlocks(count, start, end, size) = t[n]
               /\ \A k \in 0..n : t[k] = FillingRow(index, count, start, end, size, t, k)
  BY <1>1, FillingRows
<1> DEFINE G == {k \in Nat : k <= n => Filled(t[k], Listed(k), count, start, end, size)}
<1>4. 0 \in G
  <2>1. 0 \in 0..n
    OBVIOUS
  <2>2. PICK w : w = [k \in 1..count |-> Zero]
    OBVIOUS
  <2>3. t[0] = [rc |-> "ok", windows |-> w]
    BY <1>3, <2>1, <2>2 DEF FillingRow
  <2>4. Windowed(w, <<>>, count, start, end, size)
    BY <2>2, WindowsBegin
  <2> QED
    BY <1>2, <2>3, <2>4 DEF Filled
<1>5. ASSUME NEW k \in Nat, k \in G PROVE k + 1 \in G
  <2> SUFFICES ASSUME k + 1 <= n PROVE Filled(t[k + 1], Listed(k + 1), count, start, end, size)
    OBVIOUS
  <2>1. k < n /\ k \in 0..n /\ k + 1 \in 0..n /\ k + 1 \in 1..n /\ k + 1 # 0 /\ (k + 1) - 1 = k
    OBVIOUS
  <2>2. Filled(t[k], Listed(k), count, start, end, size)
    BY <1>5, <2>1
  <2> HIDE DEF G
  <2>3. t[k + 1] = WindowBlock(t[k], index[k + 1], start, end, size)
    BY <1>3, <2>1 DEF FillingRow
  <2>4. Filled(WindowBlock(t[k], index[k + 1], start, end, size), Listed(k) \o NumbersOf(index[k + 1]),
               count, start, end, size)
    BY <1>1, <2>1, <2>2, BlockFills
  <2> QED
    BY <1>2, <2>1, <2>3, <2>4
<1> HIDE DEF G
<1>6. Nat \subseteq G
  BY <1>4, <1>5, NatSetInduction
<1>7. n \in G
  BY <1>6
<1>8. Filled(t[n], Listed(n), count, start, end, size)
  BY <1>7 DEF G
<1> QED
  BY <1>1, <1>3, <1>8

\* The blocks and the buffer.
LEMMA WindowsFilled ==
  ASSUME IInv, AllListed,
         NEW count, NEW start, NEW end, NEW size, WindowQuery(count, start, end, size),
         ~Damaged(start, end - 1)
  PROVE  \E windows : /\ Windowed(windows, Readable, count, start, end, size)
                      /\ WindowBuffered(WindowBlocks(count, start, end, size), start, end, size)
                           = Output(windows, start, end, size)
<1>1. PICK s : s = Listed(Len(index))
  OBVIOUS
<1>2. PICK w : /\ WindowBlocks(count, start, end, size) = [rc |-> "ok", windows |-> w]
               /\ Windowed(w, s, count, start, end, size)
  BY <1>1, BlocksFill DEF Filled
<1>3. history \in Seq(Points) /\ buffer \in Seq(DOMAIN history)
  BY DEF IInv
<1>4. BufferedPoints = PointsOf(buffer)
  BY DEF BufferedPoints, PointsOf
<1>5. PICK v : v = AddAll(w, PointsOf(buffer), start, end, size)
  OBVIOUS
<1>6. Windowed(v, s \o buffer, count, start, end, size)
  BY <1>2, <1>3, <1>5, PointsWindowed
<1>7. Readable = s \o buffer
  BY <1>1, ListedNumbers
<1>8. WindowBuffered(WindowBlocks(count, start, end, size), start, end, size) = Output(v, start, end, size)
  BY <1>2, <1>4, <1>5 DEF WindowBuffered
<1> QED
  BY <1>6, <1>7, <1>8

-----------------------------------------------------------------------------
(* WindowsMatchPoints *)

\* The ends of a window as the code computes them.
LEMMA SpanIs ==
  ASSUME NEW count, NEW start, NEW end, NEW size, WindowQuery(count, start, end, size),
         NEW k \in 0..(count - 1)
  PROVE  WindowSpan(k + 1, start, end, size) = <<WindowStart(k, start, size), WindowEnd(k, start, end, size)>>
<1>1. /\ start \in Int /\ end \in Int /\ size \in Nat \ {0}
      /\ MaxInt \in Nat /\ 0..MaxInt \subseteq Ints /\ end - start \in 1..MaxInt
  BY QueryParts
<1>2. PICK m \in Nat, f \in Int : /\ m = k * size /\ m \in Ints /\ f = WindowStart(k, start, size)
                                  /\ f \in Ints /\ start <= f /\ f < end
                                  /\ WindowEnd(k, start, end, size) = IF f + size <= end THEN f + size ELSE end
                                  /\ WindowEnd(k, start, end, size) \in Ints
  BY WindowIn
<1>3. f = start + m
  BY <1>2 DEF WindowStart
<1>4. ((k + 1) - 1) * size = m
  BY <1>2
<1>5. Int64(((k + 1) - 1) * size) = m /\ Int64(start + m) = f
  BY <1>2, <1>3, <1>4, Int64Exact
<1>6. PICK r \in 0..MaxInt : r = end - f
  BY <1>1, <1>2
<1>7. r \in Ints
  BY <1>1, <1>6
<1>8. Int64(end - f) = r
  BY <1>6, <1>7, Int64Exact
<1>9. r < size <=> ~(f + size <= end)
  BY <1>1, <1>2, <1>6
<1>10. f + size <= end => Int64(f + size) = f + size
  BY <1>2, Int64Exact
<1>11. r = size => f + size = end
  BY <1>1, <1>2, <1>6
<1>12. WindowSpan(k + 1, start, end, size) = <<f, IF r < size THEN end ELSE Int64(f + size)>>
  BY <1>5, <1>8 DEF WindowSpan
<1>13. CASE r < size
  BY <1>2, <1>9, <1>12, <1>13
<1>14. CASE ~(r < size)
  <2>1. f + size <= end
    BY <1>9, <1>14
  <2>2. Int64(f + size) = f + size
    BY <1>10, <2>1
  <2>3. WindowEnd(k, start, end, size) = f + size
    BY <1>2, <2>1
  <2> QED
    BY ONLY <1>2, <1>12, <1>14, <2>2, <2>3
<1> QED
  BY <1>13, <1>14

\* The arguments that are not rejected, as WindowsMatchPoints has them.
Accepted(start, end, size) ==
  /\ size > 0 /\ 0 <= end - start /\ end - start <= MaxInt
  /\ (end - start + size - 1) \div size <= MaxWindows

\* validate_window_range rejects the others, and counts the windows of these.
LEMMA CountIs ==
  ASSUME NEW start \in Ints, NEW end \in Ints, NEW size \in 0..MaxInt
  PROVE  WindowCount(start, end, size) =
           IF Accepted(start, end, size) THEN (end - start + size - 1) \div size ELSE -1
<1>1. Ints \subseteq Int /\ MaxInt \in Nat /\ 0..MaxInt \subseteq Ints
  BY Halves DEF Ints
<1>2. start \in Int /\ end \in Int /\ size \in Nat
  BY <1>1
<1>3. CASE size <= 0
  BY <1>2, <1>3 DEF WindowCount, Accepted
<1>4. CASE start > end
  <2>1. ~(0 <= end - start)
    BY <1>2, <1>4
  <2> QED
    BY <1>4, <2>1 DEF WindowCount, Accepted
<1>5. CASE start < 0 /\ end > MaxInt + start
  <2>1. ~(end - start <= MaxInt)
    BY <1>1, <1>2, <1>5
  <2> QED
    BY <1>5, <2>1 DEF WindowCount, Accepted
<1>6. CASE size > 0 /\ start <= end /\ ~(start < 0 /\ end > MaxInt + start)
  <2>1. PICK d \in 0..MaxInt : d = end - start
    <3>1. end <= MaxInt
      BY DEF Ints
    <3>2. end - start \in 0..MaxInt
      BY <1>1, <1>2, <1>6, <3>1
    <3> QED
      BY <3>2
  <2>2. d \in Nat /\ d \in Ints
    BY <1>1, <2>1
  <2>3. Int64(end - start) = d
    BY <2>1, <2>2, Int64Exact
  <2>4. size \in Nat \ {0}
    BY <1>2, <1>6
  <2>5. PICK c : c = Portions(d, size)
    OBVIOUS
  <2>6. c \in Nat /\ c = (d + size - 1) \div size /\ (c = 0 <=> d = 0)
    BY <2>2, <2>4, <2>5, Counting
  <2>7. (end - start + size - 1) \div size = c
    BY <2>1, <2>6
  <2>8. WindowCount(start, end, size) = IF start < end /\ c > MaxWindows THEN -1 ELSE c
    <3>1. ~(size <= 0) /\ ~(start > end)
      BY <1>2, <1>6
    <3> QED
      BY <1>6, <2>3, <2>5, <3>1 DEF WindowCount, Portions
  <2>9. MaxWindows \in Nat
    BY QueryAssumption
  <2>10. start < end /\ c > MaxWindows <=> ~(c <= MaxWindows)
    BY <1>2, <2>1, <2>6, <2>9
  <2>11. Accepted(start, end, size) <=> c <= MaxWindows
    BY <1>1, <1>6, <2>1, <2>7 DEF Accepted
  <2> QED
    BY <2>7, <2>8, <2>10, <2>11
<1> QED
  BY <1>2, <1>3, <1>4, <1>5, <1>6

\* What is given out, and of which windows.
LEMMA OutputIs ==
  ASSUME history \in Seq(Points),
         NEW count, NEW start, NEW end, NEW size, WindowQuery(count, start, end, size),
         NEW windows, NEW s, Windowed(windows, s, count, start, end, size),
         NEW got, got = Output(windows, start, end, size)
  PROVE  /\ got.rc = "ok"
         /\ \A w \in got.windows : \E k \in 0..(count - 1) :
              /\ w.span = <<WindowStart(k, start, size), WindowEnd(k, start, end, size)>>
              /\ InRange(s, WindowStart(k, start, size), WindowEnd(k, start, end, size) - 1) # <<>>
              /\ Describes(w.acc, InRange(s, WindowStart(k, start, size), WindowEnd(k, start, end, size) - 1))
         /\ \A k \in 0..(count - 1) :
              InRange(s, WindowStart(k, start, size), WindowEnd(k, start, end, size) - 1) # <<>> =>
                \E w \in got.windows :
                  w.span = <<WindowStart(k, start, size), WindowEnd(k, start, end, size)>>
<1>1. /\ windows = [k \in 1..count |-> windows[k]]
      /\ \A k \in 1..count : Tells(windows[k], InWindow(s, k, start, end, size))
  BY DEF Windowed
<1>2. count \in Nat
  BY QueryParts
<1>3. DOMAIN windows = 1..count
  BY <1>1
<1>4. ASSUME NEW k \in 0..(count - 1)
      PROVE  /\ k + 1 \in 1..count
             /\ Tells(windows[k + 1], InRange(s, WindowStart(k, start, size), WindowEnd(k, start, end, size) - 1))
             /\ windows[k + 1].count > 0
                  <=> InRange(s, WindowStart(k, start, size), WindowEnd(k, start, end, size) - 1) # <<>>
  <2>1. k + 1 \in 1..count /\ (k + 1) - 1 = k
    BY <1>2
  <2>2. PICK r : r = InRange(s, WindowStart(k, start, size), WindowEnd(k, start, end, size) - 1)
    OBVIOUS
  <2>3. InWindow(s, k + 1, start, end, size) = r
    BY <2>1, <2>2 DEF InWindow
  <2>4. Tells(windows[k + 1], r)
    BY <1>1, <2>1, <2>3
  <2>5. r \in Seq(DOMAIN history) /\ windows[k + 1].count = Len(r)
    <3>1. r \in Seq(DOMAIN history) /\ Adds(windows[k + 1], QuantitiesOf(r))
      BY <2>4 DEF Tells
    <3>2. windows[k + 1].count = Len(QuantitiesOf(r))
      BY <3>1 DEF Adds
    <3> QED
      BY <3>1, <3>2, QuantitiesAre
  <2>6. Len(r) > 0 <=> r # <<>>
    BY <2>5
  <2> QED
    BY <2>1, <2>2, <2>4, <2>5, <2>6
<1>5. got.rc = "ok" /\ got.windows = {[span |-> WindowSpan(k, start, end, size), acc |-> windows[k]] :
                                        k \in {j \in DOMAIN windows : windows[j].count > 0}}
  BY DEF Output
<1>6. ASSUME NEW w \in got.windows
      PROVE  \E k \in 0..(count - 1) :
              /\ w.span = <<WindowStart(k, start, size), WindowEnd(k, start, end, size)>>
              /\ InRange(s, WindowStart(k, start, size), WindowEnd(k, start, end, size) - 1) # <<>>
              /\ Describes(w.acc, InRange(s, WindowStart(k, start, size), WindowEnd(k, start, end, size) - 1))
  <2>1. PICK j \in 1..count : /\ windows[j].count > 0
                              /\ w = [span |-> WindowSpan(j, start, end, size), acc |-> windows[j]]
    BY <1>3, <1>5
  <2>2. PICK k \in 0..(count - 1) : j = k + 1
    <3>1. j - 1 \in 0..(count - 1) /\ j = (j - 1) + 1
      BY <1>2
    <3> QED
      BY <3>1
  <2>3. w.span = WindowSpan(j, start, end, size) /\ w.acc = windows[j]
    BY <2>1
  <2>4. w.span = <<WindowStart(k, start, size), WindowEnd(k, start, end, size)>>
    BY <2>2, <2>3, SpanIs
  <2>5. PICK r : r = InRange(s, WindowStart(k, start, size), WindowEnd(k, start, end, size) - 1)
    OBVIOUS
  <2>6. Tells(w.acc, r) /\ r # <<>>
    BY <1>4, <2>1, <2>2, <2>3, <2>5
  <2>7. Describes(w.acc, r)
    BY <2>6, TellsDescribes
  <2> QED
    BY <2>4, <2>5, <2>6, <2>7
<1>7. ASSUME NEW k \in 0..(count - 1),
             InRange(s, WindowStart(k, start, size), WindowEnd(k, start, end, size) - 1) # <<>>
      PROVE  \E w \in got.windows :
               w.span = <<WindowStart(k, start, size), WindowEnd(k, start, end, size)>>
  <2>1. k + 1 \in 1..count /\ windows[k + 1].count > 0
    BY <1>4, <1>7
  <2>2. PICK w : w = [span |-> WindowSpan(k + 1, start, end, size), acc |-> windows[k + 1]]
    OBVIOUS
  <2>3. w \in got.windows
    BY <1>3, <1>5, <2>1, <2>2
  <2>4. w.span = <<WindowStart(k, start, size), WindowEnd(k, start, end, size)>>
    BY <2>2, SpanIs
  <2> QED
    BY <2>3, <2>4
<1> QED
  BY <1>5, <1>6, <1>7

\* Every windowed aggregate of a state with these invariants is right.
LEMMA WindowsRight == IInv /\ WriteInv => WindowsMatchPoints
<1> SUFFICES ASSUME IInv, WriteInv, NEW start \in Bounds, NEW end \in Bounds, NEW size \in WindowSizes
             PROVE  LET count == (end - start + size - 1) \div size
                        first(k) == start + k * size
                        last(k) == Min({first(k) + size, end})
                        inWindow(k) == InRange(Readable, first(k), last(k) - 1)
                        valid == size > 0 /\ 0 <= end - start /\ end - start <= MaxInt /\ count <= MaxWindows
                    IN \E got \in {AggregateWindowed(start, end, size)} :
                         /\ valid <=> got.rc # "invalid"
                         /\ valid /\ start < end /\ ~Damaged(start, end - 1) =>
                              /\ got.rc = "ok"
                              /\ {w.span : w \in got.windows} =
                                   {<<first(k), last(k)>> : k \in {i \in 0..count - 1 : inWindow(i) # <<>>}}
                              /\ \A w \in got.windows :
                                   Describes(w.acc, InRange(Readable, w.span[1], w.span[2] - 1))
  BY DEF WindowsMatchPoints
<1>1. AllListed /\ history \in Seq(Points)
  BY DEF WriteInv, StoreInv, IInv
<1>2. start \in Ints /\ end \in Ints /\ size \in 0..MaxInt
  BY QueryAssumption DEF Ints
<1>3. Ints \subseteq Int /\ MaxInt \in Nat
  BY Halves DEF Ints
<1>4. PICK count : count = (end - start + size - 1) \div size
  OBVIOUS
<1>5. PICK got : got = AggregateWindowed(start, end, size)
  OBVIOUS
<1>6. WindowCount(start, end, size) = IF Accepted(start, end, size) THEN count ELSE -1
  BY <1>2, <1>4, CountIs
<1>7. ASSUME Accepted(start, end, size) PROVE count \in Nat /\ (count = 0 <=> start = end) /\ start <= end
  <2>1. PICK d \in Nat : d = end - start
    BY <1>2, <1>3, <1>7 DEF Accepted
  <2>2. size \in Nat \ {0}
    BY <1>2, <1>3, <1>7 DEF Accepted
  <2>3. PICK c : c = Portions(d, size)
    OBVIOUS
  <2>4. c \in Nat /\ c = (d + size - 1) \div size /\ (c = 0 <=> d = 0)
    BY <2>1, <2>2, <2>3, Counting
  <2>5. count = c
    BY <1>4, <2>1, <2>4
  <2>6. (d = 0 <=> start = end) /\ start <= end
    BY <1>2, <1>3, <2>1
  <2> QED
    BY <2>4, <2>5, <2>6
<1>8. Accepted(start, end, size) <=> got.rc # "invalid"
  <2>1. CASE ~Accepted(start, end, size)
    <3>1. got = [rc |-> "invalid", windows |-> {}]
      BY <1>5, <1>6, <2>1 DEF AggregateWindowed, FillWindows
    <3> QED
      BY <2>1, <3>1
  <2>2. CASE Accepted(start, end, size) /\ count = 0
    <3>1. got = [rc |-> "ok", windows |-> {}]
      BY <1>5, <1>6, <2>2 DEF AggregateWindowed, FillWindows
    <3> QED
      BY <2>2, <3>1
  <2>3. CASE Accepted(start, end, size) /\ count # 0
    <3>1. count # -1
      BY <1>7, <2>3
    <3>2. PICK state : state = WindowBlocks(count, start, end, size)
      OBVIOUS
    <3>3. got = WindowBuffered(state, start, end, size)
      BY <1>5, <1>6, <2>3, <3>1, <3>2 DEF AggregateWindowed, FillWindows
    <3>4. got.rc = "ok" \/ got.rc = "error"
      BY <3>3 DEF WindowBuffered, Output
    <3> QED
      BY <2>3, <3>4
  <2> QED
    BY <2>1, <2>2, <2>3
<1>9. ASSUME Accepted(start, end, size), start < end, ~Damaged(start, end - 1)
      PROVE  /\ WindowQuery(count, start, end, size) /\ got.rc = "ok"
             /\ \A w \in got.windows : \E k \in 0..(count - 1) :
                  /\ w.span = <<WindowStart(k, start, size), WindowEnd(k, start, end, size)>>
                  /\ InRange(Readable, WindowStart(k, start, size), WindowEnd(k, start, end, size) - 1) # <<>>
                  /\ Describes(w.acc, InRange(Readable, WindowStart(k, start, size), WindowEnd(k, start, end, size) - 1))
             /\ \A k \in 0..(count - 1) :
                  InRange(Readable, WindowStart(k, start, size), WindowEnd(k, start, end, size) - 1) # <<>> =>
                    \E w \in got.windows :
                      w.span = <<WindowStart(k, start, size), WindowEnd(k, start, end, size)>>
  <2>1. WindowQuery(count, start, end, size)
    BY <1>2, <1>3, <1>4, <1>9 DEF WindowQuery, Accepted
  <2>2. PICK windows : /\ Windowed(windows, Readable, count, start, end, size)
                       /\ WindowBuffered(WindowBlocks(count, start, end, size), start, end, size)
                            = Output(windows, start, end, size)
    BY <1>1, <1>9, <2>1, WindowsFilled
  <2>3. count # -1 /\ count # 0
    <3>1. start # end
      BY <1>2, <1>3, <1>9
    <3> QED
      BY <1>7, <1>9, <3>1
  <2>4. got = Output(windows, start, end, size)
    BY <1>5, <1>6, <1>9, <2>2, <2>3 DEF AggregateWindowed, FillWindows
  <2> QED
    BY <1>1, <2>1, <2>2, <2>4, OutputIs
<1> DEFINE first(k) == start + k * size
           last(k) == Min({first(k) + size, end})
           inWindow(k) == InRange(Readable, first(k), last(k) - 1)
           valid == size > 0 /\ 0 <= end - start /\ end - start <= MaxInt /\ count <= MaxWindows
<1>10. \A k : first(k) = WindowStart(k, start, size) /\ last(k) = WindowEnd(k, start, end, size)
  BY DEF WindowStart, WindowEnd
<1>11. valid <=> Accepted(start, end, size)
  BY <1>4 DEF Accepted
<1>12. \A k : inWindow(k) = InRange(Readable, WindowStart(k, start, size), WindowEnd(k, start, end, size) - 1)
  BY <1>10
<1> HIDE DEF first, last, inWindow, valid
<1>13. ASSUME valid, start < end, ~Damaged(start, end - 1)
       PROVE  /\ got.rc = "ok"
              /\ {w.span : w \in got.windows} =
                   {<<first(k), last(k)>> : k \in {i \in 0..(count - 1) : inWindow(i) # <<>>}}
              /\ \A w \in got.windows : Describes(w.acc, InRange(Readable, w.span[1], w.span[2] - 1))
  <2>1. /\ got.rc = "ok"
        /\ \A w \in got.windows : \E k \in 0..(count - 1) :
             w.span = <<first(k), last(k)>> /\ inWindow(k) # <<>> /\ Describes(w.acc, inWindow(k))
        /\ \A k \in 0..(count - 1) :
             inWindow(k) # <<>> => \E w \in got.windows : w.span = <<first(k), last(k)>>
    BY <1>9, <1>10, <1>11, <1>12, <1>13
  <2>2. \A w \in got.windows : Describes(w.acc, InRange(Readable, w.span[1], w.span[2] - 1))
    <3> TAKE w \in got.windows
    <3>1. PICK k \in 0..(count - 1) : w.span = <<first(k), last(k)>> /\ Describes(w.acc, inWindow(k))
      BY <2>1
    <3>2. w.span[1] = first(k) /\ w.span[2] = last(k)
      BY <3>1
    <3>3. inWindow(k) = InRange(Readable, first(k), last(k) - 1)
      BY DEF inWindow
    <3> QED
      BY <3>1, <3>2, <3>3
  <2>3. {w.span : w \in got.windows} =
          {<<first(k), last(k)>> : k \in {i \in 0..(count - 1) : inWindow(i) # <<>>}}
    BY <2>1
  <2> QED
    BY <2>1, <2>2, <2>3
<1>14. (valid <=> got.rc # "invalid") /\ got \in {AggregateWindowed(start, end, size)}
  BY <1>5, <1>8, <1>11
<1> QED
  BY <1>4, <1>13, <1>14 DEF first, last, inWindow, valid

\* WindowsMatchPoints: when no block of the range is listed twice, cut short or without its
\* file, tsedge_aggregate_windowed gives out exactly the windows with points in them, each
\* with its ends, and tells of each the count, minimum, maximum and sum of its points; it
\* rejects exactly the ranges above INT64_MAX and those with too many windows.
THEOREM WindowsAreRight == Spec => []WindowsMatchPoints
BY QueryInvariant, ReadInvariant, WindowsRight, PTL
=============================================================================
