----------------------- MODULE TsedgeSequences_proof -----------------------
(***************************************************************************)
(* Lemmas about numbers, sequences and sums: induction, concatenation,     *)
(* what FlattenSeq, SumFunction, Min and Max of the library compute, and   *)
(* numbers as rows of digits, which the operators of TsedgeNumbers make.   *)
(***************************************************************************)
EXTENDS TsedgeNumbers, FiniteSets, FiniteSetsExt, SequenceTheorems, FiniteSetTheorems, WellFoundedInduction, TLAPS

\* A set of natural numbers that is not empty has a least element.
LEMMA NatMin ==
  ASSUME NEW T \in SUBSET Nat, T # {}
  PROVE  \E x \in T : \A y \in T : x <= y
<1> DEFINE R == OpToRel(<, Nat)
<1>1. IsWellFoundedOn(R, Nat)
  BY NatLessThanWellFounded
<1>2. \A x, y \in Nat : y < x => <<y, x>> \in R
  BY DEF OpToRel
<1> HIDE DEF R
<1>3. PICK x \in T : \A y \in T : ~(<<y, x>> \in R)
  BY <1>1, WFMin
<1>4. \A y \in T : ~(y < x)
  BY <1>2, <1>3
<1> QED
  BY <1>4

\* Induction, for a set of numbers: no operator parameter is needed.
LEMMA NatSetInduction ==
  ASSUME NEW G, 0 \in G, \A k \in Nat : k \in G => k + 1 \in G
  PROVE  Nat \subseteq G
<1> DEFINE Bad == Nat \ G
<1>1. SUFFICES ASSUME Bad # {} PROVE FALSE
  OBVIOUS
<1>2. PICK k \in Bad : \A y \in Bad : k <= y
  <2>1. Bad \in SUBSET Nat
    OBVIOUS
  <2> HIDE DEF Bad
  <2> QED
    BY <1>1, <2>1, NatMin
<1>3. k \in Nat /\ k # 0 /\ k - 1 \in Nat
  BY <1>2
<1>4. k - 1 \in G
  BY <1>2, <1>3
<1> QED
  BY <1>2, <1>3, <1>4

-----------------------------------------------------------------------------
(* Concatenation *)

\* Where the elements of a concatenation come from.
LEMMA ConcatElements ==
  ASSUME NEW S, NEW u \in Seq(S), NEW v \in Seq(S)
  PROVE  /\ \A i \in 1..Len(u) : i \in 1..Len(u \o v) /\ (u \o v)[i] = u[i]
         /\ \A i \in 1..Len(v) : Len(u) + i \in 1..Len(u \o v) /\ (u \o v)[Len(u) + i] = v[i]
         /\ \A i \in 1..Len(u \o v) :
              (i \in 1..Len(u) /\ (u \o v)[i] = u[i])
                \/ (\E j \in 1..Len(v) : (u \o v)[i] = v[j])
<1>1. /\ Len(u) \in Nat /\ Len(v) \in Nat
      /\ Len(u \o v) = Len(u) + Len(v)
      /\ \A i \in 1 .. Len(u) + Len(v) : (u \o v)[i] = IF i <= Len(u) THEN u[i] ELSE v[i - Len(u)]
  BY ConcatProperties
<1>2. \A i \in 1..Len(u) : i \in 1..Len(u \o v) /\ (u \o v)[i] = u[i]
  BY <1>1
<1>3. \A i \in 1..Len(v) : Len(u) + i \in 1..Len(u \o v) /\ (u \o v)[Len(u) + i] = v[i]
  <2> TAKE i \in 1..Len(v)
  <2>1. Len(u) + i \in 1..(Len(u) + Len(v)) /\ ~(Len(u) + i <= Len(u)) /\ (Len(u) + i) - Len(u) = i
    BY <1>1
  <2> QED
    BY <1>1, <2>1
<1>4. ASSUME NEW i \in 1..Len(u \o v)
      PROVE  (i \in 1..Len(u) /\ (u \o v)[i] = u[i]) \/ (\E j \in 1..Len(v) : (u \o v)[i] = v[j])
  <2>1. CASE i <= Len(u)
    BY <1>1, <2>1
  <2>2. CASE ~(i <= Len(u))
    <3>1. i - Len(u) \in 1..Len(v) /\ (u \o v)[i] = v[i - Len(u)]
      BY <1>1, <2>2
    <3> QED
      BY <3>1
  <2> QED
    BY <2>1, <2>2
<1> QED
  BY <1>2, <1>3, <1>4

\* Append is concatenation with a sequence of one item.
LEMMA AppendAsConcat ==
  ASSUME NEW S, NEW u \in Seq(S), NEW x \in S
  PROVE  Append(u, x) = u \o <<x>> /\ <<x>> \in Seq(S) /\ Len(<<x>>) = 1 /\ <<x>>[1] = x
BY AppendProperties, ConcatProperties

\* The points of two runs are the points of either.
LEMMA RangeConcat ==
  ASSUME NEW S, NEW u \in Seq(S), NEW v \in Seq(S)
  PROVE  Range(u \o v) = Range(u) \union Range(v)
<1> DEFINE w == u \o v
<1>1. /\ \A i \in 1..Len(u) : i \in 1..Len(w) /\ w[i] = u[i]
      /\ \A i \in 1..Len(v) : Len(u) + i \in 1..Len(w) /\ w[Len(u) + i] = v[i]
      /\ \A i \in 1..Len(w) :
           (i \in 1..Len(u) /\ w[i] = u[i]) \/ (\E j \in 1..Len(v) : w[i] = v[j])
  BY ConcatElements
<1>2. w \in Seq(S)
  BY ConcatProperties
<1> HIDE DEF w
<1>3. DOMAIN u = 1..Len(u) /\ DOMAIN v = 1..Len(v) /\ DOMAIN w = 1..Len(w)
  BY <1>2, LenProperties
<1>4. /\ \A x : x \in Range(u) <=> \E i \in 1..Len(u) : x = u[i]
      /\ \A x : x \in Range(v) <=> \E i \in 1..Len(v) : x = v[i]
      /\ \A x : x \in Range(w) <=> \E i \in 1..Len(w) : x = w[i]
  BY <1>3 DEF Range
<1>5. ASSUME NEW x \in Range(w) PROVE x \in Range(u) \union Range(v)
  BY <1>1, <1>4, <1>5
<1>6. ASSUME NEW x \in Range(u) \union Range(v) PROVE x \in Range(w)
  BY <1>1, <1>4, <1>6
<1>7. Range(w) = Range(u) \union Range(v)
  BY <1>5, <1>6
<1> QED
  BY <1>7 DEF w

\* The empty sequence has no points.
LEMMA RangeEmpty == Range(<<>>) = {}
BY DEF Range

\* A batch is its chunk and what is left of it.
LEMMA RangeSplit ==
  ASSUME NEW S, NEW q \in Seq(S), NEW k \in 0..Len(q)
  PROVE  Range(q) = Range(SubSeq(q, 1, k)) \union Range(SubSeq(q, k + 1, Len(q)))
<1>1. \A j \in 1..k : q[j] \in S
  OBVIOUS
<1>2. \A j \in (k + 1)..Len(q) : q[j] \in S
  OBVIOUS
<1>3. SubSeq(q, 1, k) \in Seq(S) /\ SubSeq(q, k + 1, Len(q)) \in Seq(S)
  BY <1>1, <1>2, SubSeqProperties
<1> DEFINE a == SubSeq(q, 1, k)
           b == SubSeq(q, k + 1, Len(q))
<1>4. a \o b = q
  <2>1. 1 \in 1..(Len(q) + 1) /\ k \in (1 - 1)..Len(q) /\ Len(q) \in k..Len(q)
    OBVIOUS
  <2>2. a \o b = SubSeq(q, 1, Len(q))
    BY <2>1, ConcatAdjacentSubSeq
  <2> QED
    BY <2>2, SubSeqFull
<1> HIDE DEF a, b
<1>5. a \in Seq(S) /\ b \in Seq(S)
  BY <1>3 DEF a, b
<1>6. Range(a \o b) = Range(a) \union Range(b)
  BY <1>5, RangeConcat
<1> QED
  BY <1>4, <1>6 DEF a, b

-----------------------------------------------------------------------------
(* FlattenSeq *)

\* The table of the prefixes' concatenations, which FlattenSeq builds.
FlattenTable(q, f, k) ==
  f = [i \in 1..k |-> IF i = 1 THEN q[i] ELSE f[i - 1] \o q[i]]

\* One more row for the table.
LEMMA FlattenTableGrows ==
  ASSUME NEW q, NEW k \in Nat, NEW f, FlattenTable(q, f, k)
  PROVE  \E g : FlattenTable(q, g, k + 1)
<1> DEFINE last == IF k = 0 THEN q[1] ELSE f[k] \o q[k + 1]
           g == [i \in 1..(k + 1) |-> IF i = k + 1 THEN last ELSE f[i]]
<1>1. \A i \in 1..k : f[i] = IF i = 1 THEN q[i] ELSE f[i - 1] \o q[i]
  BY DEF FlattenTable
<1> HIDE DEF last
<1>2. /\ \A i \in 1..(k + 1) : g[i] = IF i = k + 1 THEN last ELSE f[i]
      /\ g = [i \in 1..(k + 1) |-> g[i]]
  OBVIOUS
<1> HIDE DEF g
<1>3. ASSUME NEW i \in 1..(k + 1) PROVE g[i] = IF i = 1 THEN q[i] ELSE g[i - 1] \o q[i]
  <2>1. CASE i = k + 1
    <3>1. CASE k = 0
      BY <1>2, <2>1, <3>1 DEF last
    <3>2. CASE k # 0
      <4>1. k \in 1..(k + 1) /\ k # k + 1 /\ i - 1 = k /\ i # 1 /\ k + 1 \in 1..(k + 1)
        BY <2>1, <3>2
      <4>2. g[k] = f[k] /\ g[i] = last
        BY <1>2, <2>1, <4>1
      <4> QED
        BY <2>1, <3>2, <4>1, <4>2 DEF last
    <3> QED
      BY <3>1, <3>2
  <2>2. CASE i # k + 1
    <3>1. i \in 1..k /\ (i # 1 => i - 1 \in 1..(k + 1) /\ i - 1 # k + 1)
      BY <2>2
    <3>2. g[i] = f[i] /\ (i # 1 => g[i - 1] = f[i - 1])
      BY <1>2, <2>2, <3>1
    <3> QED
      BY <1>1, <3>1, <3>2
  <2> QED
    BY <2>1, <2>2
<1>4. FlattenTable(q, g, k + 1)
  BY <1>2, <1>3 DEF FlattenTable
<1> QED
  BY <1>4

\* The recursion of FlattenSeq has a solution, for every length.
LEMMA FlattenTableExists ==
  ASSUME NEW q
  PROVE  \A k \in Nat : \E f : FlattenTable(q, f, k)
<1> DEFINE G == {k \in Nat : \E f : FlattenTable(q, f, k)}
<1>1. 0 \in G
  <2>1. FlattenTable(q, [i \in 1..0 |-> 0], 0)
    BY DEF FlattenTable
  <2> QED
    BY <2>1
<1>2. ASSUME NEW k \in Nat, k \in G PROVE k + 1 \in G
  BY <1>2, FlattenTableGrows
<1> HIDE DEF G
<1>3. Nat \subseteq G
  BY <1>1, <1>2, NatSetInduction
<1> QED
  BY <1>3 DEF G

\* FlattenSeq is the last row of its table.
LEMMA FlattenIs ==
  ASSUME NEW q, Len(q) \in Nat \ {0}
  PROVE  \E f : FlattenTable(q, f, Len(q)) /\ FlattenSeq(q) = f[Len(q)]
<1> DEFINE f == CHOOSE f : FlattenTable(q, f, Len(q))
<1>1. FlattenTable(q, f, Len(q))
  BY FlattenTableExists
<1>2. FlattenSeq(q) = f[Len(q)]
  BY DEF FlattenSeq, FlattenTable
<1> HIDE DEF f
<1> QED
  BY <1>1, <1>2

\* Two tables agree where both have rows.
LEMMA FlattenTablesAgree ==
  ASSUME NEW q, NEW r, NEW k \in Nat, NEW l \in Nat, NEW f, NEW g,
         FlattenTable(q, f, k), FlattenTable(r, g, l), k <= l,
         \A i \in 1..k : q[i] = r[i]
  PROVE  \A i \in 1..k : f[i] = g[i]
<1> DEFINE G == {i \in Nat : i + 1 <= k => f[i + 1] = g[i + 1]}
<1>1. /\ \A i \in 1..k : f[i] = IF i = 1 THEN q[i] ELSE f[i - 1] \o q[i]
      /\ \A i \in 1..l : g[i] = IF i = 1 THEN r[i] ELSE g[i - 1] \o r[i]
  BY DEF FlattenTable
<1>2. 0 \in G
  BY <1>1
<1>3. ASSUME NEW i \in Nat, i \in G PROVE i + 1 \in G
  <2>1. SUFFICES ASSUME i + 2 <= k PROVE f[i + 2] = g[i + 2]
    OBVIOUS
  <2> DEFINE j == i + 2
  <2>2. j \in 1..k /\ j \in 1..l /\ j # 1 /\ j - 1 = i + 1 /\ i + 1 <= k
    BY <2>1
  <2>3. f[i + 1] = g[i + 1]
    BY <1>3, <2>2
  <2> HIDE DEF j, G
  <2>4. f[j] = f[j - 1] \o q[j] /\ g[j] = g[j - 1] \o r[j] /\ q[j] = r[j]
    BY <1>1, <2>2
  <2> QED
    BY <2>2, <2>3, <2>4 DEF j
<1> HIDE DEF G
<1>4. Nat \subseteq G
  BY <1>2, <1>3, NatSetInduction
<1>5. ASSUME NEW i \in 1..k PROVE f[i] = g[i]
  <2>1. i - 1 \in G /\ (i - 1) + 1 = i /\ i <= k
    BY <1>4
  <2> QED
    BY <2>1 DEF G
<1> QED
  BY <1>5

\* The last row of the table of a sequence that has one entry more.
LEMMA FlattenLast ==
  ASSUME NEW q, NEW w, NEW n \in Nat, n # 0, Len(q) = n, Len(w) = n + 1,
         \A i \in 1..n : w[i] = q[i]
  PROVE  FlattenSeq(w) = FlattenSeq(q) \o w[n + 1]
<1>1. PICK g : FlattenTable(w, g, n + 1) /\ FlattenSeq(w) = g[n + 1]
  BY FlattenIs
<1>2. PICK f : FlattenTable(q, f, n) /\ FlattenSeq(q) = f[n]
  BY FlattenIs
<1>3. \A i \in 1..(n + 1) : g[i] = IF i = 1 THEN w[i] ELSE g[i - 1] \o w[i]
  BY <1>1 DEF FlattenTable
<1>4. f[n] = g[n]
  <2> DEFINE l == n + 1
  <2>1. l \in Nat /\ n \in Nat /\ n <= l /\ (\A i \in 1..n : q[i] = w[i]) /\ n \in 1..n
    OBVIOUS
  <2>2. FlattenTable(q, f, n) /\ FlattenTable(w, g, l)
    BY <1>1, <1>2
  <2> HIDE DEF l
  <2>3. \A i \in 1..n : f[i] = g[i]
    BY ONLY <2>1, <2>2, FlattenTablesAgree
  <2> QED
    BY <2>1, <2>3
<1>5. n \in 1..n /\ n + 1 \in 1..(n + 1) /\ n + 1 # 1 /\ (n + 1) - 1 = n
  OBVIOUS
<1>6. g[n + 1] = g[(n + 1) - 1] \o w[n + 1]
  BY <1>3, <1>5
<1> QED
  BY <1>1, <1>2, <1>4, <1>5, <1>6

\* FlattenSeq of one sequence more is that sequence after the rest.
LEMMA FlattenAppend ==
  ASSUME NEW S, NEW q \in Seq(Seq(S)), NEW x \in Seq(S)
  PROVE  FlattenSeq(Append(q, x)) = FlattenSeq(q) \o x
<1> DEFINE w == Append(q, x)
           n == Len(q)
<1>1. /\ n \in Nat /\ Len(w) = n + 1 /\ w[n + 1] = x
      /\ \A i \in 1..n : w[i] = q[i]
  BY AppendProperties
<1> HIDE DEF w
<1>2. CASE n = 0
  <2>1. q = <<>>
    BY <1>2
  <2>2. FlattenSeq(q) = <<>>
    BY <2>1 DEF FlattenSeq
  <2>3. PICK g : FlattenTable(w, g, 1) /\ FlattenSeq(w) = g[1]
    BY <1>1, <1>2, FlattenIs
  <2>4. g[1] = w[1]
    BY <2>3 DEF FlattenTable
  <2>5. <<>> \o x = x
    BY ConcatEmptySeq
  <2> QED
    BY <1>1, <1>2, <2>2, <2>3, <2>4, <2>5 DEF w
<1>3. CASE n # 0
  BY <1>1, <1>3, FlattenLast DEF w
<1> QED
  BY <1>2, <1>3

\* FlattenSeq of no sequence at all.
LEMMA FlattenEmpty == FlattenSeq(<<>>) = <<>>
BY DEF FlattenSeq

\* FlattenSeq keeps the type, and holds what its sequences hold.
LEMMA FlattenRange ==
  ASSUME NEW S, NEW q \in Seq(Seq(S))
  PROVE  /\ FlattenSeq(q) \in Seq(S)
         /\ Range(FlattenSeq(q)) = UNION {Range(q[i]) : i \in 1..Len(q)}
<1> DEFINE n == Len(q)
<1>1. n \in Nat /\ \A i \in 1..n : q[i] \in Seq(S)
  OBVIOUS
<1>2. CASE n = 0
  <2>1. q = <<>> /\ FlattenSeq(q) = <<>>
    BY <1>2, FlattenEmpty
  <2>2. UNION {Range(q[i]) : i \in 1..Len(q)} = {}
    BY <1>2
  <2>3. FlattenSeq(q) \in Seq(S) /\ Range(FlattenSeq(q)) = {}
    BY <2>1, RangeEmpty, EmptySeq
  <2> QED
    BY <2>2, <2>3
<1>3. CASE n # 0
  <2>1. PICK f : FlattenTable(q, f, n) /\ FlattenSeq(q) = f[n]
    BY <1>1, <1>3, FlattenIs
  <2> DEFINE G == {k \in Nat : k + 1 <= n =>
                     /\ f[k + 1] \in Seq(S)
                     /\ Range(f[k + 1]) = UNION {Range(q[i]) : i \in 1..(k + 1)}}
  <2> HIDE DEF n
  <2>2. \A i \in 1..n : f[i] = IF i = 1 THEN q[i] ELSE f[i - 1] \o q[i]
    BY <2>1 DEF FlattenTable
  <2>3. 0 \in G
    <3>1. 1 \in 1..n
      BY <1>1, <1>3
    <3>2. f[1] = q[1] /\ q[1] \in Seq(S)
      BY <1>1, <2>2, <3>1
    <3>3. UNION {Range(q[i]) : i \in 1..1} = Range(q[1])
      <4>1. 1..1 = {1}
        OBVIOUS
      <4> QED
        BY <4>1
    <3> QED
      BY <3>2, <3>3
  <2>4. ASSUME NEW k \in Nat, k \in G PROVE k + 1 \in G
    <3>1. k + 1 \in Nat /\ (k + 1) + 1 = k + 2
      OBVIOUS
    <3>2. ASSUME k + 2 <= n
          PROVE  /\ f[k + 2] \in Seq(S)
                 /\ Range(f[k + 2]) = UNION {Range(q[i]) : i \in 1..(k + 2)}
      <4> DEFINE j == k + 2
                 u == f[k + 1]
                 v == q[j]
      <4>1. j \in 1..n /\ j # 1 /\ j - 1 = k + 1 /\ k + 1 <= n
        BY <1>1, <3>2
      <4>2. u \in Seq(S) /\ Range(u) = UNION {Range(q[i]) : i \in 1..(k + 1)}
        BY <2>4, <4>1
      <4>3. 1..j = 1..(k + 1) \union {j}
        OBVIOUS
      <4> HIDE DEF u, G, j, v
      <4>4. v \in Seq(S)
        BY <1>1, <4>1 DEF v
      <4>5. f[j] = u \o v
        <5>1. f[j] = f[j - 1] \o q[j]
          BY <2>2, <4>1
        <5> QED
          BY <4>1, <5>1 DEF u, v
      <4>6. Range(u \o v) = Range(u) \union Range(v) /\ u \o v \in Seq(S)
        BY <4>2, <4>4, RangeConcat, ConcatProperties
      <4>7. (UNION {Range(q[i]) : i \in 1..(k + 1)}) \union Range(v) = UNION {Range(q[i]) : i \in 1..j}
        BY <4>3 DEF v
      <4> QED
        BY <4>2, <4>5, <4>6, <4>7 DEF j
    <3> HIDE DEF G
    <3> QED
      BY <3>1, <3>2 DEF G
  <2> HIDE DEF G
  <2>5. Nat \subseteq G
    BY <2>3, <2>4, NatSetInduction
  <2>6. n - 1 \in Nat /\ (n - 1) + 1 = n /\ n <= n
    BY <1>1, <1>3
  <2>7. n - 1 \in G
    BY <2>5, <2>6
  <2>8. f[n] \in Seq(S) /\ Range(f[n]) = UNION {Range(q[i]) : i \in 1..n}
    BY <2>6, <2>7 DEF G
  <2> QED
    BY <2>1, <2>8 DEF n
<1> QED
  BY <1>2, <1>3

-----------------------------------------------------------------------------
(* Sums *)

Chosen(T) == CHOOSE x \in T : TRUE

\* The table of the sums of f over sets, which SumFunction makes; only the rows of the
\* sets with at most k elements need be right.
SumRow(f, g, T) == IF T = {} THEN 0 ELSE f[Chosen(T)] + g[T \ {Chosen(T)}]

SumTable(f, g, k) ==
  \A T \in SUBSET DOMAIN f : Cardinality(T) <= k => g[T] = SumRow(f, g, T)

\* A set without one of its elements.
LEMMA Without ==
  ASSUME NEW T, IsFiniteSet(T), NEW x \in T
  PROVE  /\ IsFiniteSet(T \ {x}) /\ Cardinality(T) \in Nat \ {0}
         /\ Cardinality(T \ {x}) = Cardinality(T) - 1
<1>1. IsFiniteSet(T \ {x}) /\ Cardinality(T \ {x}) = Cardinality(T) - 1 /\ Cardinality(T) \in Nat
  BY FS_RemoveElement, FS_CardinalityType
<1>2. Cardinality(T \ {x}) \in Nat
  BY <1>1, FS_CardinalityType
<1> QED
  BY <1>1, <1>2

\* What Chosen picks is an element.
LEMMA AnyIn == ASSUME NEW T, T # {} PROVE Chosen(T) \in T
BY DEF Chosen

\* The recursion has a solution.
LEMMA SumTableExists ==
  ASSUME NEW f, IsFiniteSet(DOMAIN f)
  PROVE  \A k \in Nat : \E g : g = [T \in SUBSET DOMAIN f |-> g[T]] /\ SumTable(f, g, k)
<1> DEFINE D == DOMAIN f
           G == {k \in Nat : \E g : g = [T \in SUBSET D |-> g[T]] /\ SumTable(f, g, k)}
<1>1. \A T \in SUBSET D : IsFiniteSet(T) /\ Cardinality(T) \in Nat /\ (Cardinality(T) = 0 <=> T = {})
  BY FS_Subset, FS_CardinalityType, FS_EmptySet
<1>2. 0 \in G
  <2> DEFINE g == [T \in SUBSET D |-> 0]
  <2>1. \A T \in SUBSET D : Cardinality(T) <= 0 => g[T] = SumRow(f, g, T)
    <3> SUFFICES ASSUME NEW T \in SUBSET D, Cardinality(T) <= 0 PROVE g[T] = SumRow(f, g, T)
      OBVIOUS
    <3>1. T = {}
      BY <1>1
    <3> QED
      BY <3>1 DEF SumRow
  <2> QED
    BY <2>1 DEF SumTable
<1>3. ASSUME NEW k \in Nat, k \in G PROVE k + 1 \in G
  <2>1. PICK g : g = [T \in SUBSET D |-> g[T]] /\ SumTable(f, g, k)
    BY <1>3
  <2> DEFINE h == [T \in SUBSET D |-> IF Cardinality(T) <= k THEN g[T] ELSE SumRow(f, g, T)]
  <2>2. ASSUME NEW T \in SUBSET D, Cardinality(T) <= k + 1 PROVE h[T] = SumRow(f, h, T)
    <3>1. h[T] = SumRow(f, g, T)
      BY <2>1 DEF SumTable
    <3>2. CASE T = {}
      BY <3>1, <3>2 DEF SumRow
    <3>3. CASE T # {}
      <4> DEFINE U == T \ {Chosen(T)}
      <4>1. U \in SUBSET D /\ Cardinality(U) = Cardinality(T) - 1 /\ Cardinality(T) \in Nat
        BY <3>3, <1>1, AnyIn, Without
      <4>2. Cardinality(U) <= k
        BY <4>1, <2>2
      <4>3. h[U] = g[U]
        BY <4>1, <4>2
      <4> HIDE DEF h
      <4> QED
        BY <3>1, <3>3, <4>3 DEF SumRow
    <3> QED
      BY <3>2, <3>3
  <2>3. h = [T \in SUBSET D |-> h[T]]
    OBVIOUS
  <2> HIDE DEF h
  <2>4. SumTable(f, h, k + 1)
    BY <2>2 DEF SumTable
  <2> QED
    BY <2>3, <2>4
<1> HIDE DEF G
<1>4. Nat \subseteq G
  BY <1>2, <1>3, NatSetInduction
<1> QED
  BY <1>4 DEF G

\* SumFunction is the last row of a complete table.
LEMMA SumIs ==
  ASSUME NEW f, IsFiniteSet(DOMAIN f)
  PROVE  \E g : SumFunction(f) = g[DOMAIN f] /\ \A T \in SUBSET DOMAIN f : g[T] = SumRow(f, g, T)
<1> DEFINE D == DOMAIN f
           Solves(g) == g = [T \in SUBSET D |-> SumRow(f, g, T)]
           t == CHOOSE g : Solves(g)
<1>1. Cardinality(D) \in Nat /\ \A T \in SUBSET D : Cardinality(T) <= Cardinality(D)
  BY FS_CardinalityType, FS_Subset
<1>2. PICK g : g = [T \in SUBSET D |-> g[T]] /\ SumTable(f, g, Cardinality(D))
  BY <1>1, SumTableExists
<1>3. Solves(g)
  <2>1. \A T \in SUBSET D : g[T] = SumRow(f, g, T)
    BY <1>1, <1>2 DEF SumTable
  <2> QED
    BY <1>2, <2>1
<1>4. Solves(t)
  BY <1>3
<1>5. SumFunction(f) = t[D]
  BY DEF SumFunction, SumFunctionOnSet, FoldFunctionOnSet, MapThenFoldSet, SumRow, Chosen
<1> HIDE DEF t
<1>6. \A T \in SUBSET D : t[T] = SumRow(f, t, T)
  BY <1>4
<1> QED
  BY <1>5, <1>6

\* A complete table of sums.
IsTable(f, g) == \A T \in SUBSET DOMAIN f : g[T] = SumRow(f, g, T)

Numbers(f) == IsFiniteSet(DOMAIN f) /\ \A x \in DOMAIN f : f[x] \in Nat

Integers(f) == IsFiniteSet(DOMAIN f) /\ \A x \in DOMAIN f : f[x] \in Int

\* The rows are numbers.
LEMMA RowsAreNumbers ==
  ASSUME NEW f, NEW g, Numbers(f), IsTable(f, g)
  PROVE  \A T \in SUBSET DOMAIN f : g[T] \in Nat
<1> DEFINE D == DOMAIN f
           G == {k \in Nat : \A T \in SUBSET D : Cardinality(T) = k => g[T] \in Nat}
<1>1. \A T \in SUBSET D : IsFiniteSet(T) /\ Cardinality(T) \in Nat /\ (Cardinality(T) = 0 <=> T = {})
  BY FS_Subset, FS_CardinalityType, FS_EmptySet DEF Numbers
<1>2. 0 \in G
  BY <1>1 DEF IsTable, SumRow
<1>3. ASSUME NEW k \in Nat, k \in G PROVE k + 1 \in G
  <2> SUFFICES ASSUME NEW T \in SUBSET D, Cardinality(T) = k + 1 PROVE g[T] \in Nat
    OBVIOUS
  <2>1. T # {}
    BY <1>1
  <2> DEFINE U == T \ {Chosen(T)}
  <2>2. U \in SUBSET D /\ Cardinality(U) = k /\ Chosen(T) \in D
    BY <2>1, <1>1, AnyIn, Without
  <2>3. g[U] \in Nat
    BY <2>2, <1>3
  <2>4. g[T] = f[Chosen(T)] + g[U]
    BY <2>1 DEF IsTable, SumRow
  <2> QED
    BY <2>2, <2>3, <2>4 DEF Numbers
<1> HIDE DEF G
<1>4. Nat \subseteq G
  BY <1>2, <1>3, NatSetInduction
<1> QED
  BY <1>1, <1>4 DEF G

\* The rows are integers.
LEMMA RowsAreIntegers ==
  ASSUME NEW f, NEW g, Integers(f), IsTable(f, g)
  PROVE  \A T \in SUBSET DOMAIN f : g[T] \in Int
<1> DEFINE D == DOMAIN f
           G == {k \in Nat : \A T \in SUBSET D : Cardinality(T) = k => g[T] \in Int}
<1>1. \A T \in SUBSET D : IsFiniteSet(T) /\ Cardinality(T) \in Nat /\ (Cardinality(T) = 0 <=> T = {})
  BY FS_Subset, FS_CardinalityType, FS_EmptySet DEF Integers
<1>2. 0 \in G
  <2>1. ASSUME NEW T \in SUBSET D, Cardinality(T) = 0 PROVE g[T] = 0
    BY <1>1, <2>1 DEF IsTable, SumRow
  <2>2. 0 \in Int
    OBVIOUS
  <2> QED
    BY <2>1, <2>2
<1>3. ASSUME NEW k \in Nat, k \in G PROVE k + 1 \in G
  <2> SUFFICES ASSUME NEW T \in SUBSET D, Cardinality(T) = k + 1 PROVE g[T] \in Int
    OBVIOUS
  <2>1. T # {}
    BY <1>1
  <2> DEFINE U == T \ {Chosen(T)}
  <2>2. U \in SUBSET D /\ Cardinality(U) = k /\ Chosen(T) \in D
    BY <2>1, <1>1, AnyIn, Without
  <2>3. g[U] \in Int
    BY <2>2, <1>3
  <2>4. g[T] = f[Chosen(T)] + g[U]
    BY <2>1 DEF IsTable, SumRow
  <2> QED
    BY <2>2, <2>3, <2>4 DEF Integers
<1> HIDE DEF G
<1>4. Nat \subseteq G
  BY <1>2, <1>3, NatSetInduction
<1> QED
  BY <1>1, <1>4 DEF G

\* Two functions that agree on a set have the same sum over it.
LEMMA RowsAgree ==
  ASSUME NEW f, NEW g, NEW u, NEW v, IsFiniteSet(DOMAIN f), IsTable(f, g), IsTable(u, v),
         NEW A \in SUBSET DOMAIN f, A \subseteq DOMAIN u, \A x \in A : f[x] = u[x]
  PROVE  g[A] = v[A]
<1> DEFINE G == {k \in Nat : \A T \in SUBSET A : Cardinality(T) = k => g[T] = v[T]}
<1>1. \A T \in SUBSET A : IsFiniteSet(T) /\ Cardinality(T) \in Nat /\ (Cardinality(T) = 0 <=> T = {})
  BY FS_Subset, FS_CardinalityType, FS_EmptySet
<1>2. 0 \in G
  BY <1>1 DEF IsTable, SumRow
<1>3. ASSUME NEW k \in Nat, k \in G PROVE k + 1 \in G
  <2> SUFFICES ASSUME NEW T \in SUBSET A, Cardinality(T) = k + 1 PROVE g[T] = v[T]
    OBVIOUS
  <2>1. T # {}
    BY <1>1
  <2> DEFINE U == T \ {Chosen(T)}
  <2>2. U \in SUBSET A /\ Cardinality(U) = k /\ Chosen(T) \in A
    BY <2>1, <1>1, AnyIn, Without
  <2>3. g[U] = v[U]
    BY <2>2, <1>3
  <2>4. T \in SUBSET DOMAIN f /\ T \in SUBSET DOMAIN u
    OBVIOUS
  <2>5. g[T] = f[Chosen(T)] + g[U] /\ v[T] = u[Chosen(T)] + v[U]
    BY <2>1, <2>4 DEF IsTable, SumRow
  <2>6. f[Chosen(T)] = u[Chosen(T)]
    BY <2>2
  <2> HIDE DEF U
  <2> QED
    BY <2>3, <2>5, <2>6
<1> HIDE DEF G
<1>4. Nat \subseteq G
  BY <1>2, <1>3, NatSetInduction
<1> QED
  BY <1>1, <1>4 DEF G

\* The order of the terms does not matter.
LEMMA RowWithout ==
  ASSUME NEW f, NEW g, Integers(f), IsTable(f, g)
  PROVE  \A T \in SUBSET DOMAIN f : \A x \in T : g[T] = f[x] + g[T \ {x}]
<1> DEFINE D == DOMAIN f
           G == {k \in Nat : \A T \in SUBSET D : Cardinality(T) = k =>
                               \A x \in T : g[T] = f[x] + g[T \ {x}]}
<1>1. \A T \in SUBSET D : IsFiniteSet(T) /\ Cardinality(T) \in Nat /\ (Cardinality(T) = 0 <=> T = {})
  BY FS_Subset, FS_CardinalityType, FS_EmptySet DEF Integers
<1>2. 0 \in G
  BY <1>1
<1>3. ASSUME NEW k \in Nat, k \in G PROVE k + 1 \in G
  <2> SUFFICES ASSUME NEW T \in SUBSET D, Cardinality(T) = k + 1, NEW x \in T
               PROVE  g[T] = f[x] + g[T \ {x}]
    OBVIOUS
  <2> DEFINE y == Chosen(T)
  <2>1. y \in T /\ g[T] = f[y] + g[T \ {y}]
    BY AnyIn DEF IsTable, SumRow
  <2> HIDE DEF y
  <2>2. CASE x = y
    BY <2>1, <2>2
  <2>3. CASE x # y
    <3> DEFINE Ty == T \ {y}
               Tx == T \ {x}
               R == T \ {x, y}
    <3>1. Ty \in SUBSET D /\ Tx \in SUBSET D /\ R \in SUBSET D /\ Ty \ {x} = R /\ Tx \ {y} = R
          /\ x \in Ty /\ y \in Tx
      BY <2>1, <2>3
    <3>2. Cardinality(Ty) = k /\ Cardinality(Tx) = k
      BY <2>1, <1>1, Without
    <3> HIDE DEF Ty, Tx, R
    <3>3. g[Ty] = f[x] + g[R] /\ g[Tx] = f[y] + g[R]
      BY <3>1, <3>2, <1>3
    <3>4. f[x] \in Int /\ f[y] \in Int /\ g[R] \in Int
      BY <2>1, <3>1, RowsAreIntegers DEF Integers
    <3>5. g[T] = f[y] + g[Ty]
      BY <2>1 DEF Ty
    <3>6. \A a, b, c \in Int : a + (b + c) = b + (a + c)
      OBVIOUS
    <3>7. g[T] = f[x] + g[Tx]
      BY <3>3, <3>4, <3>5, <3>6
    <3> QED
      BY <3>7 DEF Tx
  <2> QED
    BY <2>2, <2>3
<1> HIDE DEF G
<1>4. Nat \subseteq G
  BY <1>2, <1>3, NatSetInduction
<1> QED
  BY <1>1, <1>4 DEF G

\* A sum of numbers is a number.
LEMMA SumNat ==
  ASSUME NEW f, Numbers(f)
  PROVE  SumFunction(f) \in Nat
<1>1. PICK g : SumFunction(f) = g[DOMAIN f] /\ IsTable(f, g)
  BY SumIs DEF Numbers, IsTable
<1> QED
  BY <1>1, RowsAreNumbers

\* A sum of integers is an integer.
LEMMA SumInt ==
  ASSUME NEW f, Integers(f)
  PROVE  SumFunction(f) \in Int
<1>1. PICK g : SumFunction(f) = g[DOMAIN f] /\ IsTable(f, g)
  BY SumIs DEF Integers, IsTable
<1> QED
  BY <1>1, RowsAreIntegers

\* A sum of integers without one of its terms.
LEMMA SumLessOne ==
  ASSUME NEW f, Integers(f), NEW x \in DOMAIN f, NEW u, DOMAIN u = DOMAIN f \ {x},
         \A y \in DOMAIN u : u[y] = f[y]
  PROVE  SumFunction(f) = f[x] + SumFunction(u) /\ Integers(u) /\ SumFunction(u) \in Int
<1>1. Integers(u)
  BY FS_Subset DEF Integers
<1>2. PICK g : SumFunction(f) = g[DOMAIN f] /\ IsTable(f, g)
  BY SumIs DEF Integers, IsTable
<1>3. PICK v : SumFunction(u) = v[DOMAIN u] /\ IsTable(u, v)
  BY <1>1, SumIs DEF Integers, IsTable
<1>4. g[DOMAIN u] = v[DOMAIN u]
  BY <1>2, <1>3, RowsAgree DEF Integers
<1>5. g[DOMAIN f] = f[x] + g[DOMAIN f \ {x}]
  BY <1>2, RowWithout
<1> QED
  BY <1>1, <1>2, <1>3, <1>4, <1>5, SumInt

\* A sum of numbers without one of its terms.
LEMMA SumWithout ==
  ASSUME NEW f, Numbers(f), NEW x \in DOMAIN f, NEW u, DOMAIN u = DOMAIN f \ {x},
         \A y \in DOMAIN u : u[y] = f[y]
  PROVE  SumFunction(f) = f[x] + SumFunction(u) /\ Numbers(u) /\ SumFunction(u) \in Nat
<1>1. Numbers(u)
  BY FS_Subset DEF Numbers
<1>2. Integers(f)
  BY DEF Numbers, Integers
<1>3. SumFunction(f) = f[x] + SumFunction(u)
  BY <1>2, SumLessOne
<1> QED
  BY <1>1, <1>3, SumNat

\* A sum in which one term changes.
LEMMA SumChanged ==
  ASSUME NEW f, Numbers(f), NEW u, Numbers(u), DOMAIN u = DOMAIN f, NEW x \in DOMAIN f,
         \A y \in DOMAIN f : y # x => u[y] = f[y]
  PROVE  SumFunction(u) + f[x] = SumFunction(f) + u[x]
<1> DEFINE r == [y \in DOMAIN f \ {x} |-> f[y]]
<1>1. DOMAIN r = DOMAIN f \ {x} /\ \A y \in DOMAIN r : r[y] = f[y] /\ r[y] = u[y]
  OBVIOUS
<1> HIDE DEF r
<1>2. SumFunction(f) = f[x] + SumFunction(r) /\ SumFunction(r) \in Nat
  BY <1>1, SumWithout
<1>3. SumFunction(u) = u[x] + SumFunction(r)
  BY <1>1, SumWithout
<1>4. f[x] \in Nat /\ u[x] \in Nat
  BY DEF Numbers
<1>5. \A a, b, c \in Nat : (a + c) + b = (b + c) + a
  OBVIOUS
<1> QED
  BY <1>2, <1>3, <1>4, <1>5

-----------------------------------------------------------------------------
(* How often a sequence holds a value *)

Copies(q, n) == Cardinality({i \in 1..Len(q) : q[i] = n})

\* A count is a natural number, and 0 just when the sequence does not hold the value.
LEMMA CopiesType ==
  ASSUME NEW S, NEW q \in Seq(S), NEW n
  PROVE  /\ IsFiniteSet({i \in 1..Len(q) : q[i] = n})
         /\ Copies(q, n) \in Nat
         /\ Copies(q, n) = 0 <=> \A i \in 1..Len(q) : q[i] # n
<1> DEFINE at == {i \in 1..Len(q) : q[i] = n}
<1>1. 1 \in Int /\ Len(q) \in Int
  OBVIOUS
<1>2. IsFiniteSet(1..Len(q))
  BY <1>1, FS_Interval
<1>3. IsFiniteSet(at)
  <2>1. at \in SUBSET (1..Len(q))
    OBVIOUS
  <2> HIDE DEF at
  <2> QED
    BY <1>2, <2>1, FS_Subset
<1>4. at = {} <=> \A i \in 1..Len(q) : q[i] # n
  OBVIOUS
<1>5. Copies(q, n) = Cardinality(at)
  BY DEF Copies
<1> HIDE DEF at
<1>6. Cardinality(at) \in Nat /\ (Cardinality(at) = 0 <=> at = {})
  BY <1>3, FS_CardinalityType, FS_EmptySet
<1> QED
  BY <1>3, <1>4, <1>5, <1>6 DEF at

\* The empty sequence holds nothing.
LEMMA CopiesEmpty == \A n : Copies(<<>>, n) = 0
<1> TAKE n
<1>1. <<>> \in Seq(Nat) /\ \A i \in 1..Len(<<>>) : <<>>[i] # n
  OBVIOUS
<1> QED
  BY <1>1, CopiesType

\* A sequence that holds nothing twice holds every value once at most.
LEMMA CopiesOnce ==
  ASSUME NEW S, NEW q \in Seq(S), NEW n, \A i, j \in 1..Len(q) : q[i] = q[j] => i = j
  PROVE  Copies(q, n) <= 1
<1> DEFINE at == {i \in 1..Len(q) : q[i] = n}
<1>1. at = {} \/ \E i \in at : at = {i}
  OBVIOUS
<1>2. Copies(q, n) = Cardinality(at)
  BY DEF Copies
<1> HIDE DEF at
<1>3. Cardinality(at) = 0 \/ Cardinality(at) = 1
  BY <1>1, FS_EmptySet, FS_Singleton
<1> QED
  BY <1>2, <1>3

\* Two sequences one after the other hold what either holds.
LEMMA CopiesConcat ==
  ASSUME NEW S, NEW u \in Seq(S), NEW v \in Seq(S), NEW n
  PROVE  Copies(u \o v, n) = Copies(u, n) + Copies(v, n)
<1> DEFINE w == u \o v
           k == Len(u)
           U == {i \in 1..Len(u) : u[i] = n}
           V == {i \in 1..Len(v) : v[i] = n}
           W == {i \in 1..Len(w) : w[i] = n}
           V1 == {i \in W : ~(i <= k)}
           shift == [i \in V |-> k + i]
<1>1. /\ k \in Nat /\ Len(v) \in Nat
      /\ Len(w) = k + Len(v)
      /\ \A i \in 1 .. k + Len(v) : w[i] = IF i <= k THEN u[i] ELSE v[i - k]
  BY ConcatProperties
<1>2. IsFiniteSet(U) /\ IsFiniteSet(V) /\ Cardinality(U) \in Nat /\ Cardinality(V) \in Nat
  BY CopiesType DEF Copies
<1>3. Copies(u, n) = Cardinality(U) /\ Copies(v, n) = Cardinality(V) /\ Copies(w, n) = Cardinality(W)
  BY DEF Copies
<1> HIDE DEF w, k
<1>4. ASSUME NEW i PROVE i \in U <=> i \in W /\ i <= k
  BY <1>1 DEF k
<1>5. ASSUME NEW i \in V PROVE k + i \in V1
  <2>1. k + i \in 1 .. k + Len(v) /\ ~(k + i <= k) /\ (k + i) - k = i
    BY <1>1
  <2> QED
    BY <1>1, <2>1
<1>6. ASSUME NEW i \in V1 PROVE i - k \in V /\ k + (i - k) = i
  <2>1. i \in 1 .. k + Len(v) /\ ~(i <= k)
    BY <1>1
  <2>2. i - k \in 1..Len(v) /\ k + (i - k) = i
    BY <1>1, <2>1
  <2> QED
    BY <1>1, <2>1, <2>2
<1>7. W = U \union V1 /\ U \intersect V1 = {}
  BY <1>4
<1>8. \A i \in V : i \in Nat
  OBVIOUS
<1> HIDE DEF U, V, W, V1
<1>9. ExistsBijection(V, V1)
  <2>1. shift \in [V -> V1]
    BY <1>5
  <2>2. \A i, j \in V : shift[i] = shift[j] => i = j
    BY <1>1, <1>8
  <2>3. \A y \in V1 : \E i \in V : shift[i] = y
    BY <1>6
  <2>4. shift \in Injection(V, V1)
    BY <2>1, <2>2 DEF Injection, IsInjective
  <2>5. shift \in Surjection(V, V1)
    BY <2>1, <2>3 DEF Surjection
  <2> QED
    BY <2>4, <2>5 DEF ExistsBijection, Bijection
<1>10. IsFiniteSet(V1) /\ Cardinality(V1) = Cardinality(V)
  BY <1>2, <1>9, FS_Bijection
<1>11. Cardinality(U \union V1) = Cardinality(U) + Cardinality(V1) - Cardinality({})
  BY <1>2, <1>7, <1>10, FS_Union
<1> QED
  BY <1>2, <1>3, <1>7, <1>10, <1>11, FS_EmptySet DEF w

\* A sequence cut in two holds what the parts hold.
LEMMA CopiesSplit ==
  ASSUME NEW S, NEW q \in Seq(S), NEW k \in 0..Len(q), NEW n
  PROVE  /\ SubSeq(q, 1, k) \in Seq(S) /\ SubSeq(q, k + 1, Len(q)) \in Seq(S)
         /\ SubSeq(q, 1, k) \o SubSeq(q, k + 1, Len(q)) = q
         /\ Copies(q, n) = Copies(SubSeq(q, 1, k), n) + Copies(SubSeq(q, k + 1, Len(q)), n)
<1> DEFINE a == SubSeq(q, 1, k)
           b == SubSeq(q, k + 1, Len(q))
<1>1. \A j \in 1..k : q[j] \in S
  OBVIOUS
<1>2. \A j \in (k + 1)..Len(q) : q[j] \in S
  OBVIOUS
<1>3. a \in Seq(S) /\ b \in Seq(S)
  BY <1>1, <1>2, SubSeqProperties
<1>4. a \o b = q
  <2>1. 1 \in 1..(Len(q) + 1) /\ k \in (1 - 1)..Len(q) /\ Len(q) \in k..Len(q)
    OBVIOUS
  <2>2. a \o b = SubSeq(q, 1, Len(q))
    BY <2>1, ConcatAdjacentSubSeq
  <2> QED
    BY <2>2, SubSeqFull
<1> HIDE DEF a, b
<1>5. Copies(a \o b, n) = Copies(a, n) + Copies(b, n)
  BY <1>3, CopiesConcat
<1> QED
  BY <1>3, <1>4, <1>5 DEF a, b

\* Concatenation is associative.
LEMMA ConcatThree ==
  ASSUME NEW S
  PROVE  \A u, v, w \in Seq(S) : (u \o v) \o w = u \o (v \o w)
BY ONLY ConcatAssociative, SMTT(60)

\* FlattenSeq of two runs of sequences is the one after the other.
LEMMA FlattenConcat ==
  ASSUME NEW S, NEW p \in Seq(Seq(S)), NEW q \in Seq(Seq(S))
  PROVE  FlattenSeq(p \o q) = FlattenSeq(p) \o FlattenSeq(q)
<1> DEFINE Splits(v) == FlattenSeq(p \o v) = FlattenSeq(p) \o FlattenSeq(v)
           G == {k \in Nat : \A v \in Seq(Seq(S)) : Len(v) = k => Splits(v)}
<1>1. FlattenSeq(p) \in Seq(S)
  BY FlattenRange
<1>2. 0 \in G
  <2> SUFFICES ASSUME NEW v \in Seq(Seq(S)), Len(v) = 0 PROVE Splits(v)
    OBVIOUS
  <2>1. v = <<>>
    OBVIOUS
  <2>2. p \o <<>> = p
    BY ConcatEmptySeq
  <2> DEFINE flat == FlattenSeq(p)
  <2>3. flat \in Seq(S)
    BY <1>1
  <2> HIDE DEF flat
  <2>4. flat \o <<>> = flat
    BY <2>3, ConcatEmptySeq
  <2> QED
    BY <2>1, <2>2, <2>4, FlattenEmpty DEF flat
<1>3. ASSUME NEW k \in Nat, k \in G PROVE k + 1 \in G
  <2> SUFFICES ASSUME NEW v \in Seq(Seq(S)), Len(v) = k + 1 PROVE Splits(v)
    OBVIOUS
  <2> DEFINE u == SubSeq(v, 1, k)
             x == v[k + 1]
  <2>1. u \in Seq(Seq(S)) /\ Len(u) = k /\ x \in Seq(S)
    <3>1. \A j \in 1..k : v[j] \in Seq(S)
      OBVIOUS
    <3> QED
      BY <3>1, SubSeqProperties
  <2>2. v = Append(u, x)
    <3>1. \A i \in 1..k : u[i] = v[i]
      <4>1. \A j \in 1..k : v[j] \in Seq(S)
        OBVIOUS
      <4> QED
        BY <4>1, SubSeqProperties
    <3> DEFINE w == Append(u, x)
    <3>2. w \in Seq(Seq(S)) /\ Len(w) = k + 1 /\ w[k + 1] = x /\ \A i \in 1..k : w[i] = u[i]
      BY <2>1, AppendProperties
    <3> HIDE DEF w, u
    <3>3. \A i \in 1..(k + 1) : w[i] = v[i]
      <4> TAKE i \in 1..(k + 1)
      <4>1. i \in 1..k \/ i = k + 1
        OBVIOUS
      <4> QED
        BY <3>1, <3>2, <4>1
    <3>4. w = v
      BY <3>2, <3>3, SeqEqual
    <3> QED
      BY <3>4 DEF w
  <2>3. Splits(u)
    BY <1>3, <2>1
  <2> HIDE DEF u, x
  <2> DEFINE flat == FlattenSeq(p)
             head == FlattenSeq(u)
  <2>4. flat \in Seq(S) /\ head \in Seq(S)
    BY <1>1, <2>1, FlattenRange
  <2>5. p \o Append(u, x) = Append(p \o u, x) /\ p \o u \in Seq(Seq(S))
    <3>1. Append(u, x) = u \o <<x>> /\ <<x>> \in Seq(Seq(S))
      BY <2>1, AppendAsConcat
    <3> DEFINE one == <<x>>
               pu == p \o u
    <3>2. one \in Seq(Seq(S))
      BY <3>1
    <3>3. pu \in Seq(Seq(S))
      BY <2>1, ConcatProperties
    <3> HIDE DEF one
    <3>4. pu \o one = p \o (u \o one)
      <4>1. p \in Seq(Seq(S)) /\ u \in Seq(Seq(S)) /\ one \in Seq(Seq(S))
        BY <2>1, <3>2
      <4> DEFINE T == Seq(S)
      <4> HIDE DEF T
      <4>2. \A a, b, c \in Seq(T) : (a \o b) \o c = a \o (b \o c)
        BY ONLY ConcatThree, SMTT(30)
      <4>3. p \in Seq(T) /\ u \in Seq(T) /\ one \in Seq(T)
        BY <4>1 DEF T
      <4>4. (p \o u) \o one = p \o (u \o one)
        BY ONLY <4>2, <4>3
      <4> QED
        BY ONLY <4>4
    <3> HIDE DEF pu
    <3>5. Append(pu, x) = pu \o <<x>>
      BY <2>1, <3>3, AppendAsConcat
    <3> QED
      BY <3>1, <3>3, <3>4, <3>5 DEF one, pu
  <2>6. FlattenSeq(p \o v) = FlattenSeq(p \o u) \o x
    <3> DEFINE pu == p \o u
    <3>1. pu \in Seq(Seq(S))
      BY <2>5
    <3>2. p \o v = Append(pu, x)
      BY <2>2, <2>5
    <3> HIDE DEF pu
    <3>3. FlattenSeq(Append(pu, x)) = FlattenSeq(pu) \o x
      BY <2>1, <3>1, FlattenAppend
    <3> QED
      BY <3>2, <3>3 DEF pu
  <2>7. FlattenSeq(v) = head \o x
    BY <2>1, <2>2, FlattenAppend
  <2>8. FlattenSeq(p \o u) = flat \o head
    BY <2>3
  <2> HIDE DEF flat, head
  <2>9. (flat \o head) \o x = flat \o (head \o x)
    <3>1. flat \in Seq(S) /\ head \in Seq(S) /\ x \in Seq(S)
      BY <2>1, <2>4
    <3>2. \A a, b, c \in Seq(S) : (a \o b) \o c = a \o (b \o c)
      BY ONLY ConcatThree, SMTT(30)
    <3> QED
      BY ONLY <3>1, <3>2
  <2> QED
    BY <2>6, <2>7, <2>8, <2>9 DEF flat
<1> HIDE DEF G
<1>4. Nat \subseteq G
  BY <1>2, <1>3, NatSetInduction
<1>5. Len(q) \in G
  BY <1>4
<1> QED
  BY <1>5 DEF G

\* FlattenSeq of one sequence is that sequence.
LEMMA FlattenOne ==
  ASSUME NEW S, NEW x \in Seq(S)
  PROVE  FlattenSeq(<<x>>) = x
<1>1. <<>> \in Seq(Seq(S)) /\ Append(<<>>, x) = <<x>>
  OBVIOUS
<1> DEFINE none == <<>>
<1>2. none \in Seq(Seq(S))
  BY <1>1
<1> HIDE DEF none
<1>3. FlattenSeq(Append(none, x)) = FlattenSeq(none) \o x
  BY <1>2, FlattenAppend
<1>4. <<>> \o x = x
  BY ConcatEmptySeq
<1> QED
  BY <1>1, <1>3, <1>4, FlattenEmpty DEF none

-----------------------------------------------------------------------------
(* Powers of two *)

\* The powers of two up to the k-th, which TwoTo makes.
TwoTable(t, k) == t = [n \in 0..k |-> IF n = 0 THEN 1 ELSE 2 * t[n - 1]]

\* One more row for the table.
LEMMA TwoTableGrows ==
  ASSUME NEW k \in Nat, NEW t, TwoTable(t, k)
  PROVE  \E u : TwoTable(u, k + 1)
<1> DEFINE last == 2 * t[k]
           u == [n \in 0..(k + 1) |-> IF n = k + 1 THEN last ELSE t[n]]
<1>1. \A n \in 0..k : t[n] = IF n = 0 THEN 1 ELSE 2 * t[n - 1]
  BY DEF TwoTable
<1> HIDE DEF last
<1>2. /\ \A n \in 0..(k + 1) : u[n] = IF n = k + 1 THEN last ELSE t[n]
      /\ u = [n \in 0..(k + 1) |-> u[n]]
  OBVIOUS
<1> HIDE DEF u
<1>3. ASSUME NEW n \in 0..(k + 1) PROVE u[n] = IF n = 0 THEN 1 ELSE 2 * u[n - 1]
  <2>1. CASE n = k + 1
    <3>1. k \in 0..(k + 1) /\ k # k + 1 /\ n - 1 = k /\ n # 0
      BY <2>1
    <3> QED
      BY <1>2, <2>1, <3>1 DEF last
  <2>2. CASE n # k + 1
    <3>1. n \in 0..k /\ (n # 0 => n - 1 \in 0..(k + 1) /\ n - 1 # k + 1)
      BY <2>2
    <3> QED
      BY <1>1, <1>2, <2>2, <3>1
  <2> QED
    BY <2>1, <2>2
<1> DEFINE v == [n \in 0..(k + 1) |-> IF n = 0 THEN 1 ELSE 2 * u[n - 1]]
<1>4. u = v
  <2>1. [n \in 0..(k + 1) |-> u[n]] = v
    BY ONLY <1>3
  <2> QED
    BY ONLY <1>2, <2>1
<1> QED
  BY ONLY <1>4 DEF TwoTable

\* The recursion has a solution.
LEMMA TwoTableExists == \A k \in Nat : \E t : TwoTable(t, k)
<1> DEFINE G == {k \in Nat : \E t : TwoTable(t, k)}
<1>1. 0 \in G
  <2>1. TwoTable([n \in 0..0 |-> 1], 0)
    BY DEF TwoTable
  <2> QED
    BY <2>1
<1>2. ASSUME NEW k \in Nat, k \in G PROVE k + 1 \in G
  BY <1>2, TwoTableGrows
<1> HIDE DEF G
<1>3. Nat \subseteq G
  BY <1>1, <1>2, NatSetInduction
<1> QED
  BY <1>3 DEF G

\* Two tables agree where both have rows.
LEMMA TwoTablesAgree ==
  ASSUME NEW k \in Nat, NEW l \in Nat, NEW t, NEW u, TwoTable(t, k), TwoTable(u, l), k <= l
  PROVE  t[k] = u[k]
<1> DEFINE G == {n \in Nat : n <= k => t[n] = u[n]}
<1>1. /\ \A n \in 0..k : t[n] = IF n = 0 THEN 1 ELSE 2 * t[n - 1]
      /\ \A n \in 0..l : u[n] = IF n = 0 THEN 1 ELSE 2 * u[n - 1]
  BY DEF TwoTable
<1>2. 0 \in G
  BY <1>1
<1>3. ASSUME NEW n \in Nat, n \in G PROVE n + 1 \in G
  <2>1. SUFFICES ASSUME n + 1 <= k PROVE t[n + 1] = u[n + 1]
    OBVIOUS
  <2>2. n + 1 \in 0..k /\ n + 1 \in 0..l /\ n + 1 # 0 /\ (n + 1) - 1 = n /\ n <= k
    BY <2>1
  <2>3. t[n] = u[n]
    BY <1>3, <2>2
  <2> QED
    BY <1>1, <2>2, <2>3
<1> HIDE DEF G
<1>4. Nat \subseteq G
  BY <1>2, <1>3, NatSetInduction
<1> QED
  BY <1>4 DEF G

\* The recursion of TwoTo has a solution, so TwoTo is one.
LEMMA TwoToIs == TwoTo[0] = 1 /\ \A n \in Nat : TwoTo[n + 1] = 2 * TwoTo[n]
<1> DEFINE f == [n \in Nat |-> (CHOOSE t : TwoTable(t, n))[n]]
           Row(g, n) == IF n = 0 THEN 1 ELSE 2 * g[n - 1]
<1>1. ASSUME NEW n \in Nat PROVE f[n] = Row(f, n)
  <2>1. PICK t : t = CHOOSE s : TwoTable(s, n)
    OBVIOUS
  <2>2. TwoTable(t, n) /\ f[n] = t[n]
    BY <2>1, TwoTableExists
  <2>3. t[n] = IF n = 0 THEN 1 ELSE 2 * t[n - 1]
    BY <2>2 DEF TwoTable
  <2>4. CASE n = 0
    BY <2>2, <2>3, <2>4
  <2>5. CASE n # 0
    <3>1. PICK m \in Nat : n = m + 1
      <4>1. n - 1 \in Nat /\ n = (n - 1) + 1
        BY <2>5
      <4> QED
        BY <4>1
    <3>2. PICK u : u = CHOOSE s : TwoTable(s, m)
      OBVIOUS
    <3>3. TwoTable(u, m) /\ f[m] = u[m]
      BY <3>2, TwoTableExists
    <3>4. m <= n
      BY <3>1
    <3>5. u[m] = t[m]
      BY <3>3, <2>2, <3>4, TwoTablesAgree
    <3>6. n - 1 = m
      BY <3>1
    <3> QED
      BY <2>2, <2>3, <2>5, <3>3, <3>5, <3>6
  <2> QED
    BY <2>4, <2>5
<1>2. f = [n \in Nat |-> f[n]]
  OBVIOUS
<1> HIDE DEF f
<1>3. f = [n \in Nat |-> IF n = 0 THEN 1 ELSE 2 * f[n - 1]]
  BY <1>1, <1>2
<1>4. TwoTo = [n \in Nat |-> IF n = 0 THEN 1 ELSE 2 * TwoTo[n - 1]]
  BY <1>3 DEF TwoTo
<1>5. TwoTo[0] = 1
  BY <1>4
<1>6. ASSUME NEW n \in Nat PROVE TwoTo[n + 1] = 2 * TwoTo[n]
  <2>1. n + 1 \in Nat /\ n + 1 # 0 /\ (n + 1) - 1 = n
    OBVIOUS
  <2>2. TwoTo[n + 1] = IF n + 1 = 0 THEN 1 ELSE 2 * TwoTo[(n + 1) - 1]
    BY <1>4, <2>1
  <2> QED
    BY <2>1, <2>2
<1> QED
  BY <1>5, <1>6

\* A power of two is a number.
LEMMA TwoToNat == \A n \in Nat : TwoTo[n] \in Nat \ {0}
<1> DEFINE G == {n \in Nat : TwoTo[n] \in Nat \ {0}}
<1>1. 0 \in G
  BY TwoToIs
<1>2. ASSUME NEW n \in Nat, n \in G PROVE n + 1 \in G
  <2>1. PICK x \in Nat \ {0} : x = TwoTo[n]
    BY <1>2
  <2>2. TwoTo[n + 1] = 2 * x
    BY <2>1, TwoToIs
  <2>3. 2 * x \in Nat \ {0}
    OBVIOUS
  <2> QED
    BY <2>2, <2>3
<1> HIDE DEF G
<1>3. Nat \subseteq G
  BY <1>1, <1>2, NatSetInduction
<1> QED
  BY <1>3 DEF G

\* Exponents add up.
LEMMA TwoToSum == \A m, n \in Nat : TwoTo[m + n] = TwoTo[m] * TwoTo[n]
<1> TAKE m \in Nat
<1> DEFINE G == {n \in Nat : TwoTo[m + n] = TwoTo[m] * TwoTo[n]}
<1>1. 0 \in G
  <2>1. m + 0 = m /\ TwoTo[m] \in Nat
    BY TwoToNat
  <2> QED
    BY <2>1, TwoToIs
<1>2. ASSUME NEW n \in Nat, n \in G PROVE n + 1 \in G
  <2>1. m + n \in Nat /\ m + (n + 1) = (m + n) + 1
    OBVIOUS
  <2>2. PICK x \in Nat, y \in Nat : x = TwoTo[m] /\ y = TwoTo[n]
    BY TwoToNat
  <2>3. TwoTo[m + n] = x * y
    BY <1>2, <2>2
  <2>4. TwoTo[(m + n) + 1] = 2 * (x * y) /\ TwoTo[n + 1] = 2 * y
    BY <2>1, <2>2, <2>3, TwoToIs
  <2>5. 2 * (x * y) = x * (2 * y)
    OBVIOUS
  <2>6. TwoTo[m + (n + 1)] = TwoTo[m] * TwoTo[n + 1]
    BY <2>1, <2>2, <2>4, <2>5
  <2> QED
    BY <2>6
<1> HIDE DEF G
<1>3. Nat \subseteq G
  BY <1>1, <1>2, NatSetInduction
<1> QED
  BY <1>3 DEF G

\* A greater exponent at least doubles the power.
LEMMA TwoToGrows == \A m, n \in Nat : m < n => 2 * TwoTo[m] <= TwoTo[n]
<1> TAKE m, n \in Nat
<1> HAVE m < n
<1>1. PICK d \in Nat : n = (m + 1) + d
  <2>1. n - (m + 1) \in Nat /\ n = (m + 1) + (n - (m + 1))
    OBVIOUS
  <2> QED
    BY <2>1
<1>2. PICK x \in Nat \ {0}, y \in Nat \ {0} : x = TwoTo[m] /\ y = TwoTo[d]
  BY TwoToNat
<1>3. TwoTo[m + 1] = 2 * x
  BY <1>2, TwoToIs
<1>4. m + 1 \in Nat
  OBVIOUS
<1>5. TwoTo[n] = (2 * x) * y
  BY <1>1, <1>2, <1>3, <1>4, TwoToSum
<1>6. 2 * x <= (2 * x) * y
  <2>1. \A a \in Nat, b \in Nat \ {0} : a <= a * b
    OBVIOUS
  <2>2. 2 * x \in Nat
    OBVIOUS
  <2> QED
    BY <2>1, <2>2
<1> QED
  BY <1>2, <1>5, <1>6

\* Quotient and remainder, and that they are the only ones.
LEMMA Division ==
  ASSUME NEW a \in Nat, NEW b \in Nat \ {0}
  PROVE  /\ a \div b \in Nat /\ a % b \in Nat /\ a % b < b
         /\ a = b * (a \div b) + (a % b)
<1>1. a \div b \in Int /\ a % b \in 0..(b - 1) /\ a = b * (a \div b) + (a % b)
  OBVIOUS
<1>2. \A q \in Int, r \in 0..(b - 1) : b * q + r >= 0 => q >= 0
  <2> TAKE q \in Int, r \in 0..(b - 1)
  <2>1. ASSUME q <= -1 PROVE b * q <= -b
    BY <2>1
  <2> QED
    BY <2>1
<1> QED
  BY <1>1, <1>2

\* Quotient and remainder of a number that is given by them.
LEMMA DivisionIs ==
  ASSUME NEW b \in Nat \ {0}, NEW q \in Int, NEW r \in 0..(b - 1)
  PROVE  (b * q + r) \div b = q /\ (b * q + r) % b = r
OBVIOUS

\* One digit more: p and r are the weight of the digit and the number of digits there are.
LEMMA DigitStep ==
  ASSUME NEW w \in Nat, NEW p \in Nat \ {0}, NEW r \in Nat \ {0}
  PROVE  w % (p * r) = (w % p) + ((w \div p) % r) * p
<1>1. PICK q \in Nat, s \in Nat : s < p /\ w = p * q + s /\ q = w \div p /\ s = w % p
  BY Division
<1>2. PICK u \in Nat, v \in Nat : v < r /\ q = r * u + v /\ v = q % r
  BY Division
<1>3. w = (p * r) * u + (p * v + s)
  <2>1. w = p * (r * u + v) + s
    BY <1>1, <1>2
  <2>2. p * (r * u + v) = (p * r) * u + p * v
    OBVIOUS
  <2> QED
    BY <2>1, <2>2
<1>4. p * v + s \in Nat /\ p * v + s < p * r /\ p * r \in Nat \ {0}
  <2>1. p * v <= p * (r - 1)
    BY <1>2
  <2>2. p * (r - 1) = p * r - p
    OBVIOUS
  <2>3. p * r \in Nat /\ p * r # 0 /\ p * v \in Nat
    OBVIOUS
  <2> QED
    BY <1>1, <2>1, <2>2, <2>3
<1>5. w % (p * r) = p * v + s
  <2>1. PICK b \in Nat \ {0}, x \in Nat : b = p * r /\ x = p * v + s
    BY <1>4
  <2>2. x \in 0..(b - 1) /\ w = b * u + x
    BY <1>3, <1>4, <2>1
  <2>3. w % b = x
    BY <2>2, DivisionIs
  <2> QED
    BY <2>1, <2>3
<1>6. v * p = p * v
  OBVIOUS
<1>7. s = w % p /\ v = (w \div p) % r
  BY <1>1, <1>2
<1>8. w % (p * r) = s + v * p
  <2>1. \A a, b, c \in Nat : c = a + b => c = b + a
    OBVIOUS
  <2>2. v * p \in Nat /\ p * v + s = s + v * p
    BY <1>6
  <2> QED
    BY <1>5, <2>2
<1> QED
  BY <1>7, <1>8

-----------------------------------------------------------------------------
(* Sums over 1..n *)

\* The sum of nothing.
LEMMA SumOfNone == \A f : DOMAIN f = {} => SumFunction(f) = 0
<1> TAKE f
<1> HAVE DOMAIN f = {}
<1>1. IsFiniteSet(DOMAIN f)
  BY FS_EmptySet
<1>2. PICK g : SumFunction(f) = g[DOMAIN f] /\ \A T \in SUBSET DOMAIN f : g[T] = SumRow(f, g, T)
  BY <1>1, SumIs
<1>3. SumRow(f, g, {}) = 0
  BY DEF SumRow
<1>4. g[{}] = SumRow(f, g, {})
  BY <1>2
<1> QED
  BY <1>2, <1>3, <1>4

\* A row of natural numbers.
NatRow(n) == [1..n -> Nat]

\* The sum of a row of numbers is a number.
LEMMA RowNumbers == \A n \in Nat : \A f \in NatRow(n) : Numbers(f) /\ DOMAIN f = 1..n /\ SumFunction(f) \in Nat
<1> TAKE n \in Nat
<1> TAKE f \in NatRow(n)
<1>1. IsFiniteSet(1..n)
  BY FS_Interval
<1>2. DOMAIN f = 1..n /\ \A i \in 1..n : f[i] \in Nat
  BY DEF NatRow
<1>3. Numbers(f)
  BY <1>1, <1>2 DEF Numbers
<1> QED
  BY <1>2, <1>3, SumNat

\* A sum with its last summand split off.
LEMMA SumLast ==
  ASSUME NEW n \in Nat, NEW f \in NatRow(n + 1), NEW u \in NatRow(n), \A i \in 1..n : u[i] = f[i]
  PROVE  SumFunction(f) = SumFunction(u) + f[n + 1]
<1>1. n + 1 \in Nat /\ n + 1 \in 1..(n + 1) /\ 1..n = (1..(n + 1)) \ {n + 1}
  OBVIOUS
<1>2. Numbers(f) /\ DOMAIN f = 1..(n + 1) /\ DOMAIN u = 1..n
  BY <1>1, RowNumbers
<1> DEFINE x == n + 1
<1>3. x \in DOMAIN f /\ DOMAIN u = DOMAIN f \ {x} /\ (\A y \in DOMAIN u : u[y] = f[y])
  BY <1>1, <1>2
<1> HIDE DEF x
<1>4. SumFunction(f) = f[x] + SumFunction(u) /\ SumFunction(u) \in Nat
  BY <1>2, <1>3, SumWithout
<1>5. f[x] \in Nat
  BY <1>1 DEF NatRow, x
<1> QED
  BY <1>4, <1>5 DEF x

-----------------------------------------------------------------------------
(* Digits *)

Digits(bits, n) == [1..n -> 0..(TwoTo[bits] - 1)]

\* The terms that Join adds up.
Terms(bits, d) == [i \in DOMAIN d |-> d[i] * TwoTo[bits * (i - 1)]]

\* The weighted digits are numbers.
LEMMA TermsRow ==
  ASSUME NEW bits \in Nat, NEW n \in Nat, NEW d \in NatRow(n)
  PROVE  Terms(bits, d) \in NatRow(n)
<1>1. ASSUME NEW i \in 1..n PROVE d[i] * TwoTo[bits * (i - 1)] \in Nat
  <2>1. i - 1 \in Nat
    OBVIOUS
  <2>2. \A a, b \in Nat : a * b \in Nat
    OBVIOUS
  <2>3. bits * (i - 1) \in Nat
    BY <2>1, <2>2
  <2>4. d[i] \in Nat /\ TwoTo[bits * (i - 1)] \in Nat
    BY <2>3, TwoToNat DEF NatRow
  <2> QED
    BY <2>2, <2>4
<1> QED
  BY <1>1 DEF Terms, NatRow

\* Digits make a number.
LEMMA JoinNat ==
  ASSUME NEW bits \in Nat, NEW n \in Nat, NEW d \in NatRow(n)
  PROVE  Join(bits, d) \in Nat /\ Join(bits, d) = SumFunction(Terms(bits, d))
<1>1. Join(bits, d) = SumFunction(Terms(bits, d))
  BY DEF Join, Terms
<1> QED
  BY <1>1, TermsRow, RowNumbers

\* No digits make zero.
LEMMA JoinNone ==
  ASSUME NEW bits, NEW d, DOMAIN d = {}
  PROVE  Join(bits, d) = 0
BY SumOfNone DEF Join

\* The last digit, with its weight, on top of the others.
LEMMA JoinLast ==
  ASSUME NEW bits \in Nat, NEW n \in Nat, NEW d \in NatRow(n + 1), NEW e \in NatRow(n),
         \A i \in 1..n : e[i] = d[i]
  PROVE  Join(bits, d) = Join(bits, e) + d[n + 1] * TwoTo[bits * n]
<1>1. n + 1 \in Nat /\ (n + 1) - 1 = n /\ n + 1 \in 1..(n + 1) /\ \A i \in 1..n : i \in 1..(n + 1)
  OBVIOUS
<1>2. Terms(bits, d) \in NatRow(n + 1) /\ Terms(bits, e) \in NatRow(n)
  BY <1>1, TermsRow
<1>3. DOMAIN d = 1..(n + 1) /\ DOMAIN e = 1..n
  BY DEF NatRow
<1>4. \A i \in 1..n : Terms(bits, e)[i] = Terms(bits, d)[i]
  BY <1>1, <1>3 DEF Terms
<1>5. SumFunction(Terms(bits, d)) = SumFunction(Terms(bits, e)) + Terms(bits, d)[n + 1]
  BY <1>2, <1>4, SumLast
<1>6. Terms(bits, d)[n + 1] = d[n + 1] * TwoTo[bits * n]
  BY <1>1, <1>3 DEF Terms
<1>7. Join(bits, d) = SumFunction(Terms(bits, d)) /\ Join(bits, e) = SumFunction(Terms(bits, e))
  BY <1>1, JoinNat
<1> QED
  BY <1>5, <1>6, <1>7

\* The weights of the digits.
LEMMA Weights ==
  ASSUME NEW bits \in Nat, NEW n \in Nat
  PROVE  /\ bits * n \in Nat /\ TwoTo[bits * n] \in Nat \ {0}
         /\ TwoTo[bits] \in Nat \ {0}
         /\ TwoTo[bits * (n + 1)] = TwoTo[bits * n] * TwoTo[bits]
<1>1. bits * n \in Nat /\ bits * (n + 1) = bits * n + bits
  OBVIOUS
<1> QED
  BY <1>1, TwoToNat, TwoToSum

\* Split yields digits.
LEMMA SplitDigits ==
  ASSUME NEW bits \in Nat, NEW n \in Nat, NEW w \in Nat
  PROVE  /\ Split(bits, n, w) \in Digits(bits, n) /\ Split(bits, n, w) \in NatRow(n)
         /\ \A i \in 1..n : Split(bits, n, w)[i] = (w \div TwoTo[bits * (i - 1)]) % TwoTo[bits]
<1>1. ASSUME NEW i \in 1..n
      PROVE  (w \div TwoTo[bits * (i - 1)]) % TwoTo[bits] \in 0..(TwoTo[bits] - 1)
  <2>1. i - 1 \in Nat
    OBVIOUS
  <2>2. PICK p \in Nat \ {0}, r \in Nat \ {0} : p = TwoTo[bits * (i - 1)] /\ r = TwoTo[bits]
    BY <2>1, Weights
  <2>3. w \div p \in Nat
    BY Division
  <2>4. (w \div p) % r \in 0..(r - 1)
    BY <2>3, Division
  <2> QED
    BY <2>2, <2>4
<1>2. TwoTo[bits] \in Nat \ {0}
  BY TwoToNat
<1>3. 0..(TwoTo[bits] - 1) \subseteq Nat
  BY <1>2
<1>4. Split(bits, n, w) \in Digits(bits, n)
  BY <1>1 DEF Split, Digits
<1>5. Split(bits, n, w) \in NatRow(n)
  BY <1>3, <1>4 DEF Digits, NatRow
<1> QED
  BY <1>4, <1>5 DEF Split

\* Joining the lowest n digits of a number gives its remainder.
LEMMA JoinSplit ==
  ASSUME NEW bits \in Nat, NEW w \in Nat
  PROVE  \A n \in Nat : Join(bits, Split(bits, n, w)) = w % TwoTo[bits * n]
<1> DEFINE G == {n \in Nat : Join(bits, Split(bits, n, w)) = w % TwoTo[bits * n]}
<1>1. 0 \in G
  <2>1. Join(bits, Split(bits, 0, w)) = 0
    BY JoinNone DEF Split
  <2>2. bits * 0 = 0 /\ w % 1 = 0
    <3>1. 1 * w + 0 = w /\ 0 \in 0..(1 - 1)
      OBVIOUS
    <3>2. (1 * w + 0) % 1 = 0
      BY <3>1, DivisionIs
    <3> QED
      BY <3>1, <3>2
  <2> QED
    BY <2>1, <2>2, TwoToIs
<1>2. ASSUME NEW n \in Nat, n \in G PROVE n + 1 \in G
  <2>1. n + 1 \in Nat /\ (n + 1) - 1 = n /\ n + 1 \in 1..(n + 1) /\ \A i \in 1..n : i \in 1..(n + 1)
    OBVIOUS
  <2>2. PICK d : d = Split(bits, n + 1, w)
    OBVIOUS
  <2>3. PICK e : e = Split(bits, n, w)
    OBVIOUS
  <2>4. d \in NatRow(n + 1) /\ e \in NatRow(n)
    BY <2>1, <2>2, <2>3, SplitDigits
  <2>5. /\ \A i \in 1..(n + 1) : d[i] = (w \div TwoTo[bits * (i - 1)]) % TwoTo[bits]
        /\ \A i \in 1..n : e[i] = (w \div TwoTo[bits * (i - 1)]) % TwoTo[bits]
    BY <2>1, <2>2, <2>3, SplitDigits
  <2>6. \A i \in 1..n : e[i] = d[i]
    BY <2>1, <2>5
  <2>7. Join(bits, d) = Join(bits, e) + d[n + 1] * TwoTo[bits * n]
    BY <2>4, <2>6, JoinLast
  <2>8. PICK p \in Nat \ {0}, r \in Nat \ {0} :
          p = TwoTo[bits * n] /\ r = TwoTo[bits] /\ TwoTo[bits * (n + 1)] = p * r
    <3>1. /\ TwoTo[bits * n] \in Nat \ {0} /\ TwoTo[bits] \in Nat \ {0}
          /\ TwoTo[bits * (n + 1)] = TwoTo[bits * n] * TwoTo[bits]
      BY Weights
    <3> QED
      BY <3>1
  <2>9. d[n + 1] = (w \div p) % r
    BY <2>1, <2>5, <2>8
  <2>10. Join(bits, e) = w % p
    BY <1>2, <2>3, <2>8
  <2>11. w % (p * r) = (w % p) + ((w \div p) % r) * p
    BY DigitStep
  <2>12. Join(bits, Split(bits, n + 1, w)) = w % TwoTo[bits * (n + 1)]
    BY <2>2, <2>7, <2>8, <2>9, <2>10, <2>11
  <2> QED
    BY <2>1, <2>12
<1> HIDE DEF G
<1>3. Nat \subseteq G
  BY <1>1, <1>2, NatSetInduction
<1> QED
  BY <1>3 DEF G

\* The first n digits of n + 1 digits.
LEMMA FirstDigits ==
  ASSUME NEW bits \in Nat, NEW n \in Nat, NEW d \in Digits(bits, n + 1)
  PROVE  LET e == [i \in 1..n |-> d[i]]
         IN /\ e \in Digits(bits, n) /\ e \in NatRow(n) /\ d \in NatRow(n + 1)
            /\ \A i \in 1..n : e[i] = d[i]
            /\ d[n + 1] \in Nat /\ d[n + 1] < TwoTo[bits]
<1>1. TwoTo[bits] \in Nat \ {0} /\ n + 1 \in 1..(n + 1) /\ \A i \in 1..n : i \in 1..(n + 1)
  BY TwoToNat
<1>2. \A i \in 1..(n + 1) : d[i] \in Nat /\ d[i] < TwoTo[bits] /\ d[i] \in 0..(TwoTo[bits] - 1)
  BY <1>1 DEF Digits
<1>3. d \in NatRow(n + 1)
  <2>1. 0..(TwoTo[bits] - 1) \subseteq Nat
    BY <1>1
  <2> QED
    BY <2>1 DEF NatRow, Digits
<1> QED
  BY <1>1, <1>2, <1>3 DEF Digits, NatRow

\* n digits make a number below the weight of the next digit.
LEMMA JoinBound ==
  ASSUME NEW bits \in Nat
  PROVE  \A n \in Nat : \A d \in Digits(bits, n) : Join(bits, d) \in Nat /\ Join(bits, d) < TwoTo[bits * n]
<1> DEFINE Ok(n) == \A d \in Digits(bits, n) : Join(bits, d) \in Nat /\ Join(bits, d) < TwoTo[bits * n]
           G == {n \in Nat : Ok(n)}
<1>1. 0 \in G
  <2>1. bits * 0 = 0 /\ TwoTo[0] = 1
    BY TwoToIs
  <2>2. \A d \in Digits(bits, 0) : DOMAIN d = {}
    BY DEF Digits
  <2>3. \A d \in Digits(bits, 0) : Join(bits, d) = 0
    BY <2>2, JoinNone
  <2> QED
    BY <2>1, <2>3
<1>2. ASSUME NEW n \in Nat, n \in G PROVE n + 1 \in G
  <2>1. ASSUME NEW d \in Digits(bits, n + 1)
        PROVE  Join(bits, d) \in Nat /\ Join(bits, d) < TwoTo[bits * (n + 1)]
    <3>1. PICK e : /\ e \in Digits(bits, n) /\ e \in NatRow(n) /\ d \in NatRow(n + 1)
                   /\ \A i \in 1..n : e[i] = d[i]
                   /\ d[n + 1] \in Nat /\ d[n + 1] < TwoTo[bits]
      BY <2>1, FirstDigits
    <3>2. Join(bits, d) = Join(bits, e) + d[n + 1] * TwoTo[bits * n]
      BY <3>1, JoinLast
    <3>3. PICK p \in Nat \ {0}, r \in Nat \ {0} :
            p = TwoTo[bits * n] /\ r = TwoTo[bits] /\ TwoTo[bits * (n + 1)] = p * r
      <4>1. /\ TwoTo[bits * n] \in Nat \ {0} /\ TwoTo[bits] \in Nat \ {0}
            /\ TwoTo[bits * (n + 1)] = TwoTo[bits * n] * TwoTo[bits]
        BY Weights
      <4> QED
        BY <4>1
    <3>4. PICK x \in Nat : x = d[n + 1] /\ x < r
      BY <3>1, <3>3
    <3>5. PICK y \in Nat : y = Join(bits, e) /\ y < p
      BY <1>2, <3>1, <3>3
    <3>6. y + x * p \in Nat /\ y + x * p < p * r
      <4>1. x * p <= (r - 1) * p
        BY <3>4
      <4>2. (r - 1) * p = p * r - p /\ p * r \in Nat /\ x * p \in Nat
        OBVIOUS
      <4> QED
        BY <3>5, <4>1, <4>2
    <3> QED
      BY <3>2, <3>3, <3>4, <3>5, <3>6
  <2>2. Ok(n + 1)
    BY <2>1
  <2> QED
    BY <2>2
<1> HIDE DEF Ok
<1> HIDE DEF G
<1>3. Nat \subseteq G
  BY <1>1, <1>2, NatSetInduction
<1> QED
  BY <1>3 DEF G, Ok

\* g is y with a multiple of a weight added, which is above that of the digit p.
Raised(g, y, c, p, r, q) == g = y + c * ((p * r) * q)

SameDigit(g, y, p, r) == (g \div p) % r = (y \div p) % r

\* A digit does not change when multiples of a higher weight are added.
LEMMA DigitBelow ==
  ASSUME NEW y \in Nat, NEW c \in Nat, NEW p \in Nat \ {0}, NEW r \in Nat \ {0}, NEW q \in Nat,
         NEW g, Raised(g, y, c, p, r, q)
  PROVE  SameDigit(g, y, p, r)
<1>1. PICK a \in Nat, s \in Nat : s < p /\ y = p * a + s /\ a = y \div p
  BY Division
<1>2. PICK u \in Nat, v \in Nat : v < r /\ a = r * u + v /\ v = a % r
  BY Division
<1>3. PICK m \in Nat : m = c * q
  OBVIOUS
<1>4. PICK z \in Nat : z = u + m
  OBVIOUS
<1>5. PICK b \in Nat : b = r * z + v
  OBVIOUS
<1>6. b = a + r * m
  <2>1. r * (u + m) = r * u + r * m
    OBVIOUS
  <2>2. PICK x \in Nat, t \in Nat : x = r * u /\ t = r * m
    OBVIOUS
  <2>3. r * z = x + t
    BY <1>4, <2>1, <2>2
  <2> QED
    BY <1>2, <1>5, <2>2, <2>3
<1>7. g = p * b + s
  <2>1. c * ((p * r) * q) = p * (r * (c * q))
    OBVIOUS
  <2>2. p * (a + r * m) = p * a + p * (r * m)
    OBVIOUS
  <2>3. PICK x \in Nat, t \in Nat : x = p * a /\ t = p * (r * m)
    OBVIOUS
  <2>4. c * ((p * r) * q) = t
    BY <1>3, <2>1, <2>3
  <2>5. p * b = x + t
    BY <1>6, <2>2, <2>3
  <2>6. g = x + s + t
    BY <1>1, <2>3, <2>4 DEF Raised
  <2> QED
    BY ONLY <2>5, <2>6, x \in Nat, t \in Nat, s \in Nat
<1>8. s \in 0..(p - 1) /\ v \in 0..(r - 1)
  BY <1>1, <1>2
<1>9. (p * b + s) \div p = b
  BY <1>8
<1>10. (r * z + v) % r = v
  BY <1>8
<1> QED
  BY <1>1, <1>2, <1>5, <1>7, <1>9, <1>10 DEF SameDigit

\* Joined digits can be split again.
LEMMA DigitOfJoin ==
  ASSUME NEW bits \in Nat
  PROVE  \A n \in Nat : \A d \in Digits(bits, n) : \A k \in 1..n :
           (Join(bits, d) \div TwoTo[bits * (k - 1)]) % TwoTo[bits] = d[k]
<1> DEFINE Ok(n) == \A d \in Digits(bits, n) : \A k \in 1..n :
                      (Join(bits, d) \div TwoTo[bits * (k - 1)]) % TwoTo[bits] = d[k]
           G == {n \in Nat : Ok(n)}
<1>1. 0 \in G
  OBVIOUS
<1>2. ASSUME NEW n \in Nat, n \in G PROVE n + 1 \in G
  <2>1. ASSUME NEW d \in Digits(bits, n + 1), NEW k \in 1..(n + 1)
        PROVE  (Join(bits, d) \div TwoTo[bits * (k - 1)]) % TwoTo[bits] = d[k]
    <3>1. PICK e : /\ e \in Digits(bits, n) /\ e \in NatRow(n) /\ d \in NatRow(n + 1)
                   /\ \A i \in 1..n : e[i] = d[i]
                   /\ d[n + 1] \in Nat /\ d[n + 1] < TwoTo[bits]
      BY <2>1, FirstDigits
    <3>2. Join(bits, d) = Join(bits, e) + d[n + 1] * TwoTo[bits * n]
      BY <3>1, JoinLast
    <3>3. PICK p \in Nat \ {0}, r \in Nat \ {0} : p = TwoTo[bits * n] /\ r = TwoTo[bits]
      <4>1. TwoTo[bits * n] \in Nat \ {0} /\ TwoTo[bits] \in Nat \ {0}
        BY Weights
      <4> QED
        BY <4>1
    <3>4. PICK x \in Nat : x = d[n + 1] /\ x < r
      BY <3>1, <3>3
    <3>5. Join(bits, e) \in Nat /\ Join(bits, e) < TwoTo[bits * n]
      BY <3>1, JoinBound
    <3>6. PICK y \in Nat : y = Join(bits, e) /\ y < p
      BY <3>3, <3>5
    <3>7. Join(bits, d) = y + x * p
      BY <3>2, <3>3, <3>4, <3>6
    <3>8. CASE k = n + 1
      <4>1. (p * x + y) \div p = x
        <5>1. y \in 0..(p - 1)
          BY <3>6
        <5> QED
          BY <5>1, DivisionIs
      <4>2. p * x + y = y + x * p
        OBVIOUS
      <4>3. x % r = x
        <5>1. x \in 0..(r - 1) /\ (r * 0 + x) % r = x
          BY <3>4, DivisionIs
        <5>2. r * 0 + x = x
          OBVIOUS
        <5> QED
          BY <5>1, <5>2
      <4>4. k - 1 = n
        BY <3>8
      <4> QED
        BY <3>3, <3>4, <3>7, <3>8, <4>1, <4>2, <4>3, <4>4
    <3>9. CASE k # n + 1
      <4>1. k \in 1..n /\ k - 1 \in Nat /\ n - k \in Nat
        BY <3>9
      <4>2. PICK t \in Nat \ {0}, q \in Nat \ {0} : t = TwoTo[bits * (k - 1)] /\ q = TwoTo[bits * (n - k)]
        <5>1. TwoTo[bits * (k - 1)] \in Nat \ {0} /\ TwoTo[bits * (n - k)] \in Nat \ {0}
          BY <4>1, Weights
        <5> QED
          BY <5>1
      <4>3. p = (t * r) * q
        <5>1. /\ bits * (k - 1) \in Nat /\ bits * (n - k) \in Nat
              /\ bits * (k - 1) + bits \in Nat
              /\ bits * n = (bits * (k - 1) + bits) + bits * (n - k)
          BY <4>1
        <5>2. TwoTo[bits * (k - 1) + bits] = t * r
          BY <3>3, <4>2, <5>1, TwoToSum
        <5> QED
          BY <3>3, <4>2, <5>1, <5>2, TwoToSum
      <4>4. SameDigit(Join(bits, d), y, t, r)
        <5>1. Raised(Join(bits, d), y, x, t, r, q)
          BY <3>7, <4>3 DEF Raised
        <5>2. y \in Nat /\ x \in Nat /\ t \in Nat \ {0} /\ r \in Nat \ {0} /\ q \in Nat
          OBVIOUS
        <5> QED
          BY ONLY <5>1, <5>2, DigitBelow
      <4>5. (Join(bits, e) \div TwoTo[bits * (k - 1)]) % TwoTo[bits] = e[k]
        BY <1>2, <3>1, <4>1
      <4>6. e[k] = d[k]
        BY <3>1, <4>1
      <4> QED
        BY <3>3, <3>6, <4>2, <4>4, <4>5, <4>6 DEF SameDigit
    <3> QED
      BY <3>8, <3>9
  <2>2. Ok(n + 1)
    BY <2>1
  <2> QED
    BY <2>2
<1> HIDE DEF Ok
<1> HIDE DEF G
<1>3. Nat \subseteq G
  BY <1>1, <1>2, NatSetInduction
<1> QED
  BY <1>3 DEF G, Ok

\* Joined digits split into themselves.
LEMMA SplitJoin ==
  ASSUME NEW bits \in Nat, NEW n \in Nat, NEW d \in Digits(bits, n)
  PROVE  Split(bits, n, Join(bits, d)) = d
<1>1. \A k \in 1..n : (Join(bits, d) \div TwoTo[bits * (k - 1)]) % TwoTo[bits] = d[k]
  BY DigitOfJoin
<1>2. d = [k \in 1..n |-> d[k]]
  BY DEF Digits
<1>3. [k \in 1..n |-> (Join(bits, d) \div TwoTo[bits * (k - 1)]) % TwoTo[bits]] = [k \in 1..n |-> d[k]]
  BY <1>1
<1> QED
  BY <1>2, <1>3 DEF Split

\* The lowest digit of a number, and the others, which come one place higher.
LEMMA JoinFirst ==
  ASSUME NEW bits \in Nat
  PROVE  \A n \in Nat : \A d \in NatRow(n + 1), e \in NatRow(n) :
           (\A i \in 1..n : e[i] = d[i + 1]) => Join(bits, d) = d[1] + TwoTo[bits] * Join(bits, e)
<1> DEFINE Ok(n) == \A d \in NatRow(n + 1), e \in NatRow(n) :
                      (\A i \in 1..n : e[i] = d[i + 1]) => Join(bits, d) = d[1] + TwoTo[bits] * Join(bits, e)
           G == {n \in Nat : Ok(n)}
<1>1. 0 \in G
  <2>1. ASSUME NEW d \in NatRow(1), NEW e \in NatRow(0) PROVE Join(bits, d) = d[1] + TwoTo[bits] * Join(bits, e)
    <3>1. DOMAIN e = {} /\ d[1] \in Nat
      BY <2>1 DEF NatRow
    <3>2. Join(bits, e) = 0
      BY <3>1, JoinNone
    <3>3. 0 + 1 = 1 /\ bits * 0 = 0 /\ 0 \in Nat /\ \A i \in 1..0 : e[i] = d[i]
      OBVIOUS
    <3>4. Join(bits, d) = Join(bits, e) + d[1] * TwoTo[bits * 0]
      BY <2>1, <3>3, JoinLast
    <3>5. PICK x \in Nat, r \in Nat : x = d[1] /\ r = TwoTo[bits]
      BY <3>1, TwoToNat
    <3>6. 0 + x * 1 = x + r * 0
      OBVIOUS
    <3> QED
      BY <3>2, <3>3, <3>4, <3>5, <3>6, TwoToIs
  <2> QED
    BY <2>1
<1>2. ASSUME NEW n \in Nat, n \in G PROVE n + 1 \in G
  <2>1. ASSUME NEW d \in NatRow((n + 1) + 1), NEW e \in NatRow(n + 1), \A i \in 1..(n + 1) : e[i] = d[i + 1]
        PROVE  Join(bits, d) = d[1] + TwoTo[bits] * Join(bits, e)
    <3> DEFINE m == n + 1
               f == [i \in 1..m |-> d[i]]
               g == [i \in 1..n |-> e[i]]
    <3>1. /\ m \in Nat /\ 1 \in 1..m /\ m + 1 \in 1..(m + 1) /\ m \in 1..m
          /\ \A i \in 1..m : i \in 1..(m + 1) /\ i + 1 \in 1..(m + 1)
          /\ \A i \in 1..n : i \in 1..m /\ i + 1 \in 1..m
      OBVIOUS
    <3>2. f \in NatRow(m) /\ g \in NatRow(n) /\ d \in NatRow(m + 1) /\ e \in NatRow(m)
      BY <2>1, <3>1 DEF NatRow
    <3>3. (\A i \in 1..m : f[i] = d[i]) /\ (\A i \in 1..n : g[i] = e[i])
      BY <3>1
    <3>4. \A i \in 1..n : g[i] = f[i + 1]
      BY <2>1, <3>1, <3>3
    <3> HIDE DEF f, g
    <3>5. f \in NatRow(n + 1)
      BY <3>2 DEF m
    <3>6. Join(bits, f) = f[1] + TwoTo[bits] * Join(bits, g)
      BY <1>2, <3>2, <3>4, <3>5
    <3>7. e[n + 1] = d[m + 1] /\ f[1] = d[1]
      BY <2>1, <3>1, <3>3
    <3>8. Join(bits, e) = Join(bits, g) + e[n + 1] * TwoTo[bits * n]
      BY <3>2, <3>3, JoinLast
    <3> HIDE DEF m
    <3>9. Join(bits, d) = Join(bits, f) + d[m + 1] * TwoTo[bits * m]
      BY <3>1, <3>2, <3>3, JoinLast
    <3>10. PICK p \in Nat \ {0}, r \in Nat \ {0} :
             p = TwoTo[bits * n] /\ r = TwoTo[bits] /\ TwoTo[bits * m] = p * r
      <4>1. /\ TwoTo[bits * n] \in Nat \ {0} /\ TwoTo[bits] \in Nat \ {0}
            /\ TwoTo[bits * (n + 1)] = TwoTo[bits * n] * TwoTo[bits]
        BY Weights
      <4> QED
        BY <4>1 DEF m
    <3>11. PICK x \in Nat, y \in Nat, z \in Nat : x = d[1] /\ y = d[m + 1] /\ z = Join(bits, g)
      <4>1. d[1] \in Nat /\ d[m + 1] \in Nat
        BY <3>1, <3>2 DEF NatRow
      <4>2. Join(bits, g) \in Nat
        BY <3>2, JoinNat
      <4> QED
        BY <4>1, <4>2
    <3>12. (x + r * z) + y * (p * r) = x + r * (z + y * p)
      <4>1. r * (z + y * p) = r * z + r * (y * p) /\ r * (y * p) = y * (p * r)
        OBVIOUS
      <4>2. r * z \in Nat /\ y * (p * r) \in Nat
        OBVIOUS
      <4> QED
        BY <4>1, <4>2
    <3> QED
      BY <3>6, <3>7, <3>8, <3>9, <3>10, <3>11, <3>12
  <2>2. Ok(n + 1)
    BY <2>1
  <2> QED
    BY <2>2
<1> HIDE DEF Ok
<1> HIDE DEF G
<1>3. Nat \subseteq G
  BY <1>1, <1>2, NatSetInduction
<1> QED
  BY <1>3 DEF G, Ok

-----------------------------------------------------------------------------
(* Multiples and quotients *)

\* Multiples in order.
LEMMA Multiples ==
  ASSUME NEW b \in Nat, NEW x \in Int, NEW y \in Int, x <= y
  PROVE  x * b \in Int /\ y * b \in Int /\ x * b <= y * b
<1>1. PICK u \in Nat : u = y - x
  OBVIOUS
<1>2. u * b \in Nat
  OBVIOUS
<1>3. y * b = x * b + u * b
  BY <1>1
<1> QED
  BY <1>2, <1>3

\* The quotient is the multiple below.
LEMMA Quotient ==
  ASSUME NEW x \in Nat, NEW b \in Nat \ {0}
  PROVE  /\ x \div b \in Nat /\ (x \div b) * b <= x /\ x < (x \div b) * b + b
         /\ \A q \in Nat : q * b <= x /\ x < q * b + b => x \div b = q
<1>1. PICK q \in Nat, r \in Nat : q = x \div b /\ r = x % b /\ r < b /\ x = b * q + r
  BY Division
<1>2. q * b = b * q
  OBVIOUS
<1>3. ASSUME NEW p \in Nat, p * b <= x, x < p * b + b PROVE x \div b = p
  <2>1. PICK m \in Nat : m = p * b /\ m = b * p
    OBVIOUS
  <2>2. PICK s \in 0..(b - 1) : s = x - m
    BY <1>3, <2>1
  <2>3. x = b * p + s
    BY <2>1, <2>2
  <2>4. (b * p + s) \div b = p
    BY DivisionIs
  <2> QED
    BY <2>3, <2>4
<1>4. PICK m \in Nat : m = q * b /\ m = b * q
  BY <1>2
<1>5. m <= x /\ x < m + b
  BY <1>1, <1>4
<1> QED
  BY <1>1, <1>3, <1>4, <1>5

-----------------------------------------------------------------------------
(* The least and the greatest element *)

\* The least element of a set of numbers, which the library's Min gives.
LEMMA MinIs ==
  ASSUME NEW S, S \subseteq Nat, NEW x \in S, \A y \in S : x <= y
  PROVE  Min(S) = x
<1>1. \A z \in S : (\A y \in S : z <= y) => z = x
  <2> TAKE z \in S
  <2> HAVE \A y \in S : z <= y
  <2>1. z <= x /\ x <= z /\ z \in Nat /\ x \in Nat
    OBVIOUS
  <2> QED
    BY <2>1
<1>2. Min(S) = CHOOSE z \in S : \A y \in S : z <= y
  BY DEF Min
<1>3. (CHOOSE z \in S : \A y \in S : z <= y) \in S /\ \A y \in S : (CHOOSE z \in S : \A y2 \in S : z <= y2) <= y
  OBVIOUS
<1> QED
  BY <1>1, <1>2, <1>3

\* The Min of the library finds the least of some numbers.
LEMMA MinExists ==
  ASSUME NEW S, S \subseteq Nat, S # {}
  PROVE  Min(S) \in S /\ \A y \in S : Min(S) <= y
<1>1. PICK x \in S : \A y \in S : x <= y
  BY NatMin
<1>2. Min(S) = x
  BY <1>1, MinIs
<1> QED
  BY <1>1, <1>2

\* The lesser of two integers.
LEMMA LesserOf ==
  ASSUME NEW a \in Int, NEW b \in Int
  PROVE  Min({a, b}) = IF a <= b THEN a ELSE b
<1>1. PICK m \in {a, b} : m = (IF a <= b THEN a ELSE b) /\ m <= a /\ m <= b /\ m \in Int
  OBVIOUS
<1>2. \A z \in {a, b} : (\A y \in {a, b} : z <= y) => z = m
  <2> TAKE z \in {a, b}
  <2> HAVE \A y \in {a, b} : z <= y
  <2>1. z <= m /\ m <= z /\ z \in Int
    BY <1>1
  <2> QED
    BY <1>1, <2>1
<1>3. Min({a, b}) = CHOOSE z \in {a, b} : \A y \in {a, b} : z <= y
  BY DEF Min
<1>4. PICK S : S = {a, b}
  OBVIOUS
<1>5. m \in S /\ \A y \in S : m <= y
  BY <1>1, <1>4
<1>6. (CHOOSE z \in S : \A y \in S : z <= y) \in S /\ \A y \in S : (CHOOSE z \in S : \A u \in S : z <= u) <= y
  BY ONLY <1>5
<1> QED
  BY <1>1, <1>2, <1>3, <1>4, <1>6

\* The same for two natural numbers.
LEMMA MinOfTwo ==
  ASSUME NEW a \in Nat, NEW b \in Nat
  PROVE  Min({a, b}) = IF a <= b THEN a ELSE b
<1>1. a \in Int /\ b \in Int
  OBVIOUS
<1> QED
  BY ONLY <1>1, LesserOf

\* The greater of two numbers.
LEMMA MaxOfTwo ==
  ASSUME NEW a \in Int, NEW b \in Int
  PROVE  Max({a, b}) = IF a <= b THEN b ELSE a
<1>1. Max({a, b}) = CHOOSE x \in {a, b} : \A y \in {a, b} : x >= y
  BY DEF Max
<1>2. CASE a <= b
  <2>1. b \in {a, b} /\ \A y \in {a, b} : b >= y
    BY <1>2
  <2>2. \A x \in {a, b} : (\A y \in {a, b} : x >= y) => x = b
    BY <1>2
  <2> QED
    BY <1>1, <1>2, <2>1, <2>2
<1>3. CASE ~(a <= b)
  <2>1. a \in {a, b} /\ \A y \in {a, b} : a >= y
    BY <1>3
  <2>2. \A x \in {a, b} : (\A y \in {a, b} : x >= y) => x = a
    BY <1>3
  <2> QED
    BY <1>1, <1>3, <2>1, <2>2
<1> QED
  BY <1>2, <1>3

\* The Max of the library finds the greatest of some numbers.
LEMMA MaxIn ==
  ASSUME NEW n \in Nat, NEW S, S \subseteq 0..n, S # {}
  PROVE  Max(S) \in S /\ \A y \in S : Max(S) >= y
<1> DEFINE T == {n - k : k \in S}
<1>1. T \in SUBSET Nat /\ T # {}
  <2>1. \A k \in S : n - k \in Nat
    OBVIOUS
  <2> QED
    BY <2>1
<1>2. PICK x \in T : \A y \in T : x <= y
  <2> HIDE DEF T
  <2> QED
    BY <1>1, NatMin
<1>3. PICK k \in S : x = n - k
  BY <1>2
<1>4. \A y \in S : k >= y
  <2> TAKE y \in S
  <2>1. n - y \in T
    OBVIOUS
  <2>2. x <= n - y
    BY <1>2, <2>1
  <2>3. k \in 0..n /\ y \in 0..n
    OBVIOUS
  <2> QED
    BY <1>3, <2>2, <2>3
<1>5. Max(S) = CHOOSE z \in S : \A y \in S : z >= y
  BY DEF Max
<1> HIDE DEF T
<1>6. /\ (CHOOSE z \in S : \A y \in S : z >= y) \in S
      /\ \A y \in S : (CHOOSE z \in S : \A u \in S : z >= u) >= y
  BY <1>4
<1> QED
  BY <1>5, <1>6

-----------------------------------------------------------------------------
(* Where the pieces of a concatenation are *)

\* f is the concatenation of the pieces in q, and piece i comes behind start[i] items.
IsJoined(q, f, start) ==
  /\ start \in [1..(Len(q) + 1) -> Nat]
  /\ start[1] = 0 /\ start[Len(q) + 1] = Len(f)
  /\ \A i \in 1..Len(q) : start[i + 1] = start[i] + Len(q[i]) /\ start[i + 1] <= Len(f)
  /\ \A i \in 1..Len(q) : \A j \in 1..Len(q[i]) : f[start[i] + j] = q[i][j]

\* One more piece at the end of a concatenation.
LEMMA JoinedGrows ==
  ASSUME NEW q \in Seq(Seq(Nat)), NEW x \in Seq(Nat), NEW f \in Seq(Nat), NEW start, IsJoined(q, f, start)
  PROVE  \E more : IsJoined(Append(q, x), f \o x, more)
<1> DEFINE n == Len(q)
           m == n + 1
           p == Append(q, x)
           g == f \o x
           more == [i \in 1..(m + 1) |-> IF i = m + 1 THEN Len(f) + Len(x) ELSE start[i]]
<1>1. n \in Nat /\ m \in Nat /\ Len(f) \in Nat /\ Len(x) \in Nat /\ Len(p) = m
  BY AppendProperties
<1>2. p[m] = x /\ \A i \in 1..n : p[i] = q[i]
  BY AppendProperties
<1>3. /\ Len(g) = Len(f) + Len(x)
      /\ \A i \in 1..Len(f) : g[i] = f[i]
      /\ \A i \in 1..Len(x) : g[Len(f) + i] = x[i]
  BY ConcatProperties, ConcatElements
<1>4. /\ start \in [1..m -> Nat] /\ start[1] = 0 /\ start[m] = Len(f)
      /\ \A i \in 1..n : start[i + 1] = start[i] + Len(q[i]) /\ start[i + 1] <= Len(f)
      /\ \A i \in 1..n : \A j \in 1..Len(q[i]) : f[start[i] + j] = q[i][j]
  BY DEF IsJoined
<1>5. /\ \A i \in 1..m : more[i] = start[i]
      /\ more[m + 1] = Len(f) + Len(x)
      /\ more = [i \in 1..(m + 1) |-> more[i]]
  BY <1>1
<1> HIDE DEF p, g, more, m
<1>6. \A i \in 1..n : i \in 1..m /\ i + 1 \in 1..m
  BY <1>1 DEF m
<1>7. more \in [1..(m + 1) -> Nat]
  <2>1. ASSUME NEW i \in 1..(m + 1) PROVE more[i] \in Nat
    <3>1. CASE i = m + 1
      BY <1>1, <1>5, <3>1
    <3>2. CASE i # m + 1
      <4>1. i \in 1..m
        BY <1>1, <3>2
      <4> QED
        BY <1>4, <1>5, <4>1
    <3> QED
      BY <3>1, <3>2
  <2> QED
    BY <1>5, <2>1
<1>8. more[1] = 0 /\ more[m + 1] = Len(g)
  <2>1. 1 \in 1..m
    BY <1>1 DEF m
  <2> QED
    BY <1>3, <1>4, <1>5, <2>1
<1>9. m \in 1..m /\ more[m] = Len(f)
  <2>1. m \in 1..m
    BY <1>1 DEF m
  <2> QED
    BY <1>4, <1>5, <2>1
<1>10. \A i \in 1..n : Len(q[i]) \in Nat /\ start[i] \in Nat /\ start[i + 1] \in Nat
  <2> TAKE i \in 1..n
  <2>1. q[i] \in Seq(Nat)
    OBVIOUS
  <2>2. Len(q[i]) \in Nat
    BY <2>1
  <2>3. i \in 1..m /\ i + 1 \in 1..m /\ start \in [1..m -> Nat]
    BY <1>4, <1>6
  <2>4. start[i] \in Nat /\ start[i + 1] \in Nat
    BY <2>3
  <2> QED
    BY <2>2, <2>4
<1>11. \A i \in 1..m : i = m \/ i \in 1..n
  <2> TAKE i \in 1..m
  <2> HIDE DEF n
  <2> QED
    BY <1>1 DEF m
<1>12. ASSUME NEW i \in 1..m
      PROVE  more[i + 1] = more[i] + Len(p[i]) /\ more[i + 1] <= Len(g)
  <2>1. CASE i = m
    <3>1. more[m + 1] = Len(f) + Len(x) /\ more[m] = Len(f) /\ Len(p[m]) = Len(x) /\ Len(g) = Len(f) + Len(x)
      BY <1>2, <1>3, <1>5, <1>9
    <3>2. Len(f) + Len(x) \in Nat
      BY <1>1
    <3> QED
      BY <2>1, <3>1, <3>2
  <2>2. CASE i # m
    <3>1. i \in 1..n /\ i \in 1..m /\ i + 1 \in 1..m
      BY <1>6, <1>11, <2>2
    <3>2. more[i + 1] = start[i + 1] /\ more[i] = start[i] /\ p[i] = q[i]
      BY <1>2, <1>5, <3>1
    <3>3. start[i + 1] = start[i] + Len(q[i]) /\ start[i + 1] <= Len(f) /\ start[i + 1] \in Nat
      BY <1>4, <1>10, <3>1
    <3>4. start[i + 1] <= Len(g)
      BY <1>1, <1>3, <3>3
    <3> QED
      BY <3>2, <3>3, <3>4
  <2> QED
    BY <2>1, <2>2
<1>13. ASSUME NEW i \in 1..m, NEW j \in 1..Len(p[i])
       PROVE  g[more[i] + j] = p[i][j]
  <2>1. CASE i = m
    <3>1. p[i] = x /\ more[i] = Len(f)
      BY <1>2, <1>9, <2>1
    <3> QED
      BY <1>3, <3>1
  <2>2. CASE i # m
    <3>1. i \in 1..n
      BY <1>11, <2>2
    <3>2. p[i] = q[i] /\ more[i] = start[i]
      BY <1>2, <1>5, <1>6, <3>1
    <3>3. j \in 1..Len(q[i]) /\ f[start[i] + j] = q[i][j]
      BY <1>4, <3>1, <3>2
    <3>4. start[i + 1] = start[i] + Len(q[i]) /\ start[i + 1] <= Len(f)
      BY <1>4, <3>1
    <3>5. PICK a \in Nat, l \in Nat, e \in Nat : a = start[i] /\ l = Len(q[i]) /\ e = start[i + 1]
      BY <1>10, <3>1
    <3>6. e = a + l /\ e <= Len(f) /\ j \in 1..l
      BY <3>3, <3>4, <3>5
    <3>7. a + j \in 1..Len(f)
      BY <1>1, <3>6
    <3>8. g[a + j] = f[a + j]
      BY <1>3, <3>7
    <3> QED
      BY <3>2, <3>3, <3>5, <3>8
  <2> QED
    BY <2>1, <2>2
<1>14. IsJoined(p, g, more)
  BY <1>1, <1>7, <1>8, <1>12, <1>13 DEF IsJoined
<1> QED
  BY <1>14 DEF p, g

\* The lengths of the pieces.
Lengths(q) == [i \in DOMAIN q |-> Len(q[i])]

\* Every piece has its place in the concatenation, which is as long as the pieces together.
LEMMA Pieces ==
  \A q \in Seq(Seq(Nat)) :
    /\ FlattenSeq(q) \in Seq(Nat)
    /\ Len(FlattenSeq(q)) = SumFunction(Lengths(q))
    /\ \E start : IsJoined(q, FlattenSeq(q), start)
<1> DEFINE Ok(q) == /\ FlattenSeq(q) \in Seq(Nat)
                    /\ Len(FlattenSeq(q)) = SumFunction(Lengths(q))
                    /\ \E start : IsJoined(q, FlattenSeq(q), start)
           G == {n \in Nat : \A q \in Seq(Seq(Nat)) : Len(q) = n => Ok(q)}
<1>1. 0 \in G
  <2>1. ASSUME NEW q \in Seq(Seq(Nat)), Len(q) = 0 PROVE Ok(q)
    <3>1. q = <<>> /\ DOMAIN q = {}
      BY <2>1
    <3>2. FlattenSeq(q) = <<>>
      BY <3>1, FlattenEmpty
    <3>3. SumFunction(Lengths(q)) = 0
      BY <3>1, SumOfNone DEF Lengths
    <3>4. IsJoined(q, <<>>, [i \in 1..1 |-> 0])
      BY <2>1 DEF IsJoined
    <3> QED
      BY <3>2, <3>3, <3>4
  <2> QED
    BY <2>1
<1>2. ASSUME NEW n \in Nat, n \in G PROVE n + 1 \in G
  <2>1. ASSUME NEW q \in Seq(Seq(Nat)), Len(q) = n + 1 PROVE Ok(q)
    <3> DEFINE r == [i \in 1..n |-> q[i]]
               x == q[n + 1]
    <3>1. /\ n + 1 \in 1..(n + 1) /\ \A i \in 1..n : i \in 1..(n + 1)
          /\ DOMAIN q = 1..(n + 1) /\ \A i \in 1..(n + 1) : q[i] \in Seq(Nat)
      BY <2>1
    <3>2. r \in Seq(Seq(Nat)) /\ Len(r) = n /\ x \in Seq(Nat) /\ DOMAIN r = 1..n
      BY <3>1
    <3>3. q = Append(r, x)
      <4>1. /\ Append(r, x) \in Seq(Seq(Nat)) /\ Len(Append(r, x)) = n + 1
            /\ Append(r, x)[n + 1] = x /\ \A i \in 1..n : Append(r, x)[i] = r[i]
        BY <3>2, AppendProperties
      <4>2. ASSUME NEW i \in 1..(n + 1) PROVE q[i] = Append(r, x)[i]
        <5>1. CASE i = n + 1
          BY <4>1, <5>1
        <5>2. CASE i # n + 1
          <6>1. i \in 1..n
            BY <5>2
          <6> QED
            BY <4>1, <6>1
        <5> QED
          BY <5>1, <5>2
      <4> HIDE DEF r, x
      <4> QED
        BY <2>1, <4>1, <4>2, SeqEqual
    <3>4. \A i \in 1..n : r[i] = q[i]
      OBVIOUS
    <3> HIDE DEF r
    <3>5. Ok(r)
      BY <1>2, <3>2
    <3>6. PICK start : IsJoined(r, FlattenSeq(r), start)
      BY <3>5
    <3>7. FlattenSeq(q) = FlattenSeq(r) \o x
      BY <3>2, <3>3, FlattenAppend
    <3>8. \E more : IsJoined(q, FlattenSeq(q), more)
      BY <3>2, <3>3, <3>5, <3>6, <3>7, JoinedGrows
    <3>9. FlattenSeq(q) \in Seq(Nat) /\ Len(FlattenSeq(q)) = Len(FlattenSeq(r)) + Len(x)
      <4> DEFINE u == FlattenSeq(r)
      <4>1. u \in Seq(Nat) /\ x \in Seq(Nat)
        BY <3>2, <3>5
      <4> HIDE DEF u, x
      <4>2. u \o x \in Seq(Nat) /\ Len(u \o x) = Len(u) + Len(x)
        BY <4>1, ConcatProperties
      <4> QED
        BY <3>7, <4>2 DEF u
    <3>10. SumFunction(Lengths(q)) = SumFunction(Lengths(r)) + Len(x)
      <4>1. Lengths(q) \in NatRow(n + 1)
        <5>1. \A i \in 1..(n + 1) : Len(q[i]) \in Nat
          BY <3>1
        <5> QED
          BY <3>1, <5>1 DEF Lengths, NatRow
      <4>2. Lengths(r) \in NatRow(n) /\ \A i \in 1..n : Lengths(r)[i] = Lengths(q)[i]
        <5>1. \A i \in 1..n : Len(r[i]) \in Nat
          BY <3>1, <3>4
        <5> QED
          BY <3>1, <3>2, <3>4, <5>1 DEF Lengths, NatRow
      <4>3. Lengths(q)[n + 1] = Len(x)
        BY <3>1 DEF Lengths
      <4> QED
        BY <4>1, <4>2, <4>3, SumLast
    <3> QED
      BY <3>5, <3>8, <3>9, <3>10
  <2> HIDE DEF Ok
  <2> QED
    BY <2>1
<1> HIDE DEF Ok
<1> HIDE DEF G
<1>3. Nat \subseteq G
  BY <1>1, <1>2, NatSetInduction
<1>4. ASSUME NEW q \in Seq(Seq(Nat)) PROVE Ok(q)
  <2>1. Len(q) \in G
    BY <1>3
  <2> QED
    BY <2>1 DEF G
<1> QED
  BY <1>4 DEF Ok

\* The first k items of a sequence, built by appending.
Taken(s, k) == [i \in 1..k |-> s[i]]

\* The first k + 1 elements are the first k and one more.
LEMMA TakenGrows ==
  ASSUME NEW S, NEW s \in Seq(S), NEW k \in Nat, k + 1 <= Len(s)
  PROVE  /\ Taken(s, k) \in Seq(S) /\ Len(Taken(s, k)) = k
         /\ Append(Taken(s, k), s[k + 1]) = Taken(s, k + 1)
<1>1. /\ k + 1 \in 1..(k + 1) /\ k + 1 \in 1..Len(s)
      /\ \A i \in 1..k : i \in 1..(k + 1) /\ i \in 1..Len(s)
      /\ \A i \in 1..(k + 1) : i \in 1..Len(s)
  OBVIOUS
<1>2. /\ Taken(s, k) \in Seq(S) /\ Len(Taken(s, k)) = k /\ \A i \in 1..k : Taken(s, k)[i] = s[i]
      /\ Taken(s, k + 1) \in Seq(S) /\ Len(Taken(s, k + 1)) = k + 1
      /\ \A i \in 1..(k + 1) : Taken(s, k + 1)[i] = s[i]
  BY <1>1 DEF Taken
<1>3. s[k + 1] \in S
  BY <1>1
<1> DEFINE a == Taken(s, k)
           b == Taken(s, k + 1)
           x == s[k + 1]
<1> HIDE DEF a, b, x
<1>4. a \in Seq(S) /\ b \in Seq(S) /\ Len(a) = k /\ Len(b) = k + 1 /\ x \in S
  BY <1>2, <1>3 DEF a, b, x
<1>5. /\ Append(a, x) \in Seq(S) /\ Len(Append(a, x)) = k + 1
      /\ Append(a, x)[k + 1] = x /\ \A i \in 1..k : Append(a, x)[i] = a[i]
  BY <1>4, AppendProperties
<1>6. ASSUME NEW i \in 1..(k + 1) PROVE Append(a, x)[i] = b[i]
  <2>1. CASE i = k + 1
    BY <1>1, <1>2, <1>5, <2>1 DEF b, x
  <2>2. CASE i # k + 1
    <3>1. i \in 1..k
      BY <2>2
    <3> QED
      BY <1>1, <1>2, <1>5, <3>1 DEF a, b
  <2> QED
    BY <2>1, <2>2
<1>7. Append(a, x) = b
  BY <1>4, <1>5, <1>6, SeqEqual
<1> QED
  BY <1>2, <1>7 DEF a, b, x

\* All elements are the sequence itself.
LEMMA TakenAll ==
  ASSUME NEW S, NEW s \in Seq(S)
  PROVE  Taken(s, Len(s)) = s
BY DEF Taken

\* The last of the first k elements is the k-th.
LEMMA LastTaken ==
  ASSUME NEW S, NEW s \in Seq(S), NEW k \in 1..Len(s)
  PROVE  /\ Taken(s, k) \in Seq(S) /\ Len(Taken(s, k)) = k /\ Last(Taken(s, k)) = s[k]
<1>1. \A i \in 1..k : s[i] \in S
  OBVIOUS
<1>2. Taken(s, k) \in Seq(S) /\ Len(Taken(s, k)) = k /\ Taken(s, k)[k] = s[k]
  BY <1>1 DEF Taken
<1> QED
  BY <1>2 DEF Last

\* A sequence over S is one over every superset of S.
LEMMA SeqWider ==
  ASSUME NEW S, NEW T, S \subseteq T, NEW s \in Seq(S)
  PROVE  s \in Seq(T)
<1>1. Len(s) \in Nat /\ s = [i \in 1..Len(s) |-> s[i]] /\ \A i \in 1..Len(s) : s[i] \in T
  OBVIOUS
<1> QED
  BY <1>1

\* Numbers one after the other.
LEMMA Concatenated ==
  ASSUME NEW u \in Seq(Nat), NEW v \in Seq(Nat)
  PROVE  /\ u \o v \in Seq(Nat) /\ Len(u \o v) = Len(u) + Len(v) /\ Len(u) \in Nat /\ Len(v) \in Nat
         /\ \A i \in 1..Len(u) : i \in 1..Len(u \o v) /\ (u \o v)[i] = u[i]
         /\ \A i \in 1..Len(v) : Len(u) + i \in 1..Len(u \o v) /\ (u \o v)[Len(u) + i] = v[i]
BY ConcatProperties, ConcatElements

\* data is the head and behind it the pieces of q: piece k comes start[k] bytes behind
\* the head.
IsStream(head, q, data, start) ==
  /\ data \in Seq(Nat) /\ Len(data) = Len(head) + SumFunction(Lengths(q))
  /\ \A i \in 1..Len(head) : data[i] = head[i]
  /\ start \in [1..(Len(q) + 1) -> Nat] /\ start[1] = 0 /\ Len(head) + start[Len(q) + 1] = Len(data)
  /\ \A k \in 1..Len(q) :
       /\ start[k + 1] = start[k] + Len(q[k])
       /\ Len(head) + start[k + 1] <= Len(data)
       /\ \A j \in 1..Len(q[k]) : data[Len(head) + start[k] + j] = q[k][j]

\* Where the pieces are in a stream that starts with a head.
LEMMA Streams ==
  ASSUME NEW head \in Seq(Nat), NEW q \in Seq(Seq(Nat))
  PROVE  \E start : IsStream(head, q, head \o FlattenSeq(q), start)
<1> DEFINE f == FlattenSeq(q)
           data == head \o f
<1>1. PICK m \in Nat, h \in Nat : m = Len(q) /\ h = Len(head)
  OBVIOUS
<1>7. f \in Seq(Nat) /\ Len(f) = SumFunction(Lengths(q)) /\ \E start : IsJoined(q, f, start)
  BY Pieces
<1> HIDE DEF f
<1>8. PICK start : IsJoined(q, f, start)
  BY <1>7
<1>9. /\ start \in [1..(m + 1) -> Nat] /\ start[1] = 0 /\ start[m + 1] = Len(f)
      /\ \A k \in 1..m : /\ start[k + 1] = start[k] + Len(q[k]) /\ start[k + 1] <= Len(f)
                         /\ \A j \in 1..Len(q[k]) : f[start[k] + j] = q[k][j]
  BY <1>1, <1>8 DEF IsJoined
<1>10. /\ data \in Seq(Nat) /\ Len(data) = h + Len(f) /\ Len(f) \in Nat
       /\ \A i \in 1..h : data[i] = head[i]
       /\ \A i \in 1..Len(f) : data[h + i] = f[i]
  <2>2. head \in Seq(Nat) /\ f \in Seq(Nat)
    BY <1>7
  <2>3. /\ data \in Seq(Nat) /\ Len(data) = Len(head) + Len(f) /\ Len(f) \in Nat
        /\ \A i \in 1..Len(head) : i \in 1..Len(data) /\ data[i] = head[i]
        /\ \A i \in 1..Len(f) : Len(head) + i \in 1..Len(data) /\ data[Len(head) + i] = f[i]
    BY ONLY <2>2, Concatenated
  <2> HIDE DEF data
  <2> QED
    BY <1>1, <2>3
<1> HIDE DEF data
<1>11. ASSUME NEW k \in 1..m
       PROVE  /\ start[k + 1] = start[k] + Len(q[k])
              /\ h + start[k + 1] <= Len(data)
              /\ \A j \in 1..Len(q[k]) : data[h + start[k] + j] = q[k][j]
  <2>1. /\ start[k + 1] = start[k] + Len(q[k]) /\ start[k + 1] <= Len(f)
        /\ \A j \in 1..Len(q[k]) : f[start[k] + j] = q[k][j]
    BY <1>9
  <2>2. PICK a \in Nat, b \in Nat, l \in Nat : a = start[k] /\ b = start[k + 1] /\ l = Len(q[k])
    <3>1. k \in 1..(m + 1) /\ k + 1 \in 1..(m + 1)
      OBVIOUS
    <3>2. q[k] \in Seq(Nat)
      BY <1>1
    <3>3. Len(q[k]) \in Nat
      BY <3>2
    <3> QED
      BY <1>9, <3>1, <3>3
  <2>3. b = a + l /\ b <= Len(f)
    BY <2>1, <2>2
  <2>4. h + b <= Len(data)
    BY <1>1, <1>10, <2>3
  <2>5. ASSUME NEW j \in 1..l PROVE data[h + a + j] = q[k][j]
    <3>1. a + j \in 1..Len(f) /\ h + (a + j) = h + a + j
      BY <1>1, <1>10, <2>3
    <3>2. data[h + (a + j)] = f[a + j]
      BY <1>10, <3>1
    <3> QED
      BY <2>1, <2>2, <3>1, <3>2
  <2> QED
    BY <2>1, <2>2, <2>4, <2>5
<1>12. h + start[m + 1] = Len(data) /\ Len(data) = h + SumFunction(Lengths(q))
  BY <1>7, <1>9, <1>10
<1>13. IsStream(head, q, data, start)
  BY <1>1, <1>9, <1>10, <1>11, <1>12 DEF IsStream
<1> QED
  BY <1>13 DEF data, f

-----------------------------------------------------------------------------
(* Sequences and their sums *)

\* The sum of a sequence of integers, and with one more.
LEMMA SumOfIntegers ==
  /\ SumFunction(<<>>) = 0
  /\ \A s \in Seq(Int) : SumFunction(s) \in Int
  /\ \A s \in Seq(Int), x \in Int : SumFunction(Append(s, x)) = SumFunction(s) + x
<1>1. SumFunction(<<>>) = 0
  <2>1. DOMAIN <<>> = {}
    OBVIOUS
  <2> QED
    BY <2>1, SumOfNone
<1>2. ASSUME NEW s \in Seq(Int) PROVE Integers(s)
  <2>1. PICK n \in Nat : n = Len(s) /\ DOMAIN s = 1..n
    OBVIOUS
  <2>2. IsFiniteSet(1..n)
    BY FS_Interval
  <2>3. \A i \in 1..n : s[i] \in Int
    BY <2>1
  <2> QED
    BY <2>1, <2>2, <2>3 DEF Integers
<1>3. \A s \in Seq(Int) : SumFunction(s) \in Int
  BY <1>2, SumInt
<1>4. ASSUME NEW s \in Seq(Int), NEW x \in Int PROVE SumFunction(Append(s, x)) = SumFunction(s) + x
  <2>1. PICK n \in Nat : n = Len(s) /\ DOMAIN s = 1..n
    OBVIOUS
  <2>2. PICK f : f = Append(s, x)
    OBVIOUS
  <2>3. /\ f \in Seq(Int) /\ Len(f) = n + 1 /\ DOMAIN f = 1..(n + 1)
        /\ f[n + 1] = x /\ \A i \in 1..n : f[i] = s[i]
    <3>1. f \in Seq(Int) /\ Len(f) = n + 1 /\ f[n + 1] = x /\ \A i \in 1..n : f[i] = s[i]
      BY <2>1, <2>2, AppendProperties
    <3> QED
      BY <3>1
  <2>4. Integers(f)
    BY <1>2, <2>3
  <2> DEFINE y == n + 1
  <2>5. y \in DOMAIN f /\ DOMAIN s = DOMAIN f \ {y} /\ \A i \in DOMAIN s : s[i] = f[i]
    BY <2>1, <2>3
  <2>6. f[y] = x
    BY <2>3
  <2> HIDE DEF y
  <2>7. SumFunction(f) = f[y] + SumFunction(s)
    BY <2>4, <2>5, SumLessOne
  <2>8. SumFunction(s) \in Int
    BY <1>3
  <2>9. f[y] + SumFunction(s) = SumFunction(s) + x
    BY <2>6, <2>8
  <2> QED
    BY <2>2, <2>7, <2>9
<1> QED
  BY <1>1, <1>3, <1>4

\* One more element behind two sequences.
LEMMA ConcatAppend ==
  ASSUME NEW S, NEW s \in Seq(S), NEW t \in Seq(S), NEW x \in S
  PROVE  s \o Append(t, x) = Append(s \o t, x)
<1>1. Append(t, x) = t \o <<x>> /\ <<x>> \in Seq(S)
  BY AppendAsConcat
<1>2. s \o (t \o <<x>>) = (s \o t) \o <<x>>
  BY ONLY <1>1, s \in Seq(S), t \in Seq(S), ConcatThree
<1>3. s \o t \in Seq(S)
  BY ConcatProperties
<1>4. Append(s \o t, x) = (s \o t) \o <<x>>
  BY ONLY <1>3, x \in S, AppendAsConcat
<1> QED
  BY <1>1, <1>2, <1>4

\* A sequence up to its k-th element.
Upto(s, k) == SubSeq(s, 1, k)

\* A sequence grows element by element.
LEMMA UptoNext ==
  ASSUME NEW S, NEW s \in Seq(S)
  PROVE  /\ Upto(s, 0) = <<>> /\ Upto(s, Len(s)) = s
         /\ \A k \in 0..Len(s) : Upto(s, k) \in Seq(S) /\ Len(Upto(s, k)) = k
         /\ \A k \in Nat : k < Len(s) => s[k + 1] \in S /\ Upto(s, k + 1) = Append(Upto(s, k), s[k + 1])
<1>1. PICK n \in Nat : n = Len(s)
  OBVIOUS
<1>2. ASSUME NEW k \in 0..n
      PROVE  /\ Upto(s, k) \in Seq(S) /\ Len(Upto(s, k)) = k
             /\ \A i \in 1..k : Upto(s, k)[i] = s[i]
  <2>1. \A i \in 1..k : s[i] \in S
    BY <1>1
  <2>2. Upto(s, k) = [i \in 1..k |-> s[i]]
    BY <1>1 DEF Upto
  <2> QED
    BY <2>1, <2>2
<1>3. Upto(s, 0) = <<>>
  <2>1. Upto(s, 0) \in Seq(S) /\ Len(Upto(s, 0)) = 0
    BY <1>2
  <2> QED
    BY <2>1
<1>4. Upto(s, n) = s
  <2>1. Upto(s, n) \in Seq(S) /\ Len(Upto(s, n)) = n /\ \A i \in 1..n : Upto(s, n)[i] = s[i]
    BY <1>2
  <2> QED
    BY <1>1, <2>1, SeqEqual
<1>5. ASSUME NEW k \in Nat, k < n PROVE s[k + 1] \in S /\ Upto(s, k + 1) = Append(Upto(s, k), s[k + 1])
  <2>1. k \in 0..n /\ k + 1 \in 0..n /\ k + 1 \in 1..n
    BY <1>5
  <2>2. s[k + 1] \in S
    BY <1>1, <2>1
  <2>3. PICK u, v : u = Upto(s, k) /\ v = Upto(s, k + 1)
    OBVIOUS
  <2>4. /\ u \in Seq(S) /\ Len(u) = k /\ \A i \in 1..k : u[i] = s[i]
        /\ v \in Seq(S) /\ Len(v) = k + 1 /\ \A i \in 1..(k + 1) : v[i] = s[i]
    BY <1>2, <2>1, <2>3
  <2>5. PICK w : w = Append(u, s[k + 1])
    OBVIOUS
  <2>6. w \in Seq(S) /\ Len(w) = k + 1 /\ w[k + 1] = s[k + 1] /\ \A i \in 1..k : w[i] = u[i]
    BY <2>2, <2>4, <2>5, AppendProperties
  <2>7. \A i \in 1..(k + 1) : v[i] = w[i]
    <3>1. ASSUME NEW i \in 1..(k + 1) PROVE v[i] = w[i]
      <4>1. CASE i = k + 1
        BY <2>4, <2>6, <4>1
      <4>2. CASE i # k + 1
        <5>1. i \in 1..k
          BY <4>2
        <5> QED
          BY <2>4, <2>6, <5>1
      <4> QED
        BY <4>1, <4>2
    <3> QED
      BY <3>1
  <2>8. v = w
    BY <2>4, <2>6, <2>7, SeqEqual
  <2> QED
    BY <2>2, <2>3, <2>5, <2>8
<1> QED
  BY <1>1, <1>2, <1>3, <1>4, <1>5

\* The sum of two sequences.
LEMMA SumConcat ==
  ASSUME NEW s \in Seq(Int), NEW t \in Seq(Int)
  PROVE  SumFunction(s \o t) = SumFunction(s) + SumFunction(t)
<1>1. PICK n \in Nat : n = Len(t)
  OBVIOUS
<1> DEFINE G == {k \in Nat : k <= n => SumFunction(s \o Upto(t, k)) = SumFunction(s) + SumFunction(Upto(t, k))}
<1>2. /\ Upto(t, 0) = <<>> /\ Upto(t, n) = t /\ \A k \in 0..n : Upto(t, k) \in Seq(Int)
      /\ \A k \in Nat : k < n => t[k + 1] \in Int /\ Upto(t, k + 1) = Append(Upto(t, k), t[k + 1])
  BY <1>1, UptoNext
<1>3. 0 \in G
  <2>1. s \o <<>> = s
    OBVIOUS
  <2>2. SumFunction(s) \in Int /\ SumFunction(<<>>) = 0
    BY SumOfIntegers
  <2>3. SumFunction(s) = SumFunction(s) + 0
    BY <2>2
  <2> QED
    BY <1>2, <2>1, <2>2, <2>3
<1>4. ASSUME NEW k \in Nat, k \in G PROVE k + 1 \in G
  <2> SUFFICES ASSUME k + 1 <= n
               PROVE SumFunction(s \o Upto(t, k + 1)) = SumFunction(s) + SumFunction(Upto(t, k + 1))
    OBVIOUS
  <2>1. PICK u, x : u = Upto(t, k) /\ x = t[k + 1]
    OBVIOUS
  <2>2. k \in 0..n /\ k < n
    OBVIOUS
  <2>3. u \in Seq(Int) /\ x \in Int /\ Upto(t, k + 1) = Append(u, x)
    BY <1>2, <2>1, <2>2
  <2>4. SumFunction(s \o u) = SumFunction(s) + SumFunction(u)
    BY <1>4, <2>1, <2>2
  <2>5. s \o Append(u, x) = Append(s \o u, x) /\ s \o u \in Seq(Int)
    <3>1. u \in Seq(Int) /\ x \in Int
      BY <2>3
    <3>2. s \o Append(u, x) = Append(s \o u, x)
      BY ONLY <3>1, s \in Seq(Int), ConcatAppend
    <3>3. s \o u \in Seq(Int)
      BY ONLY <3>1, s \in Seq(Int), ConcatProperties
    <3> QED
      BY ONLY <3>2, <3>3
  <2>6. /\ SumFunction(Append(s \o u, x)) = SumFunction(s \o u) + x
        /\ SumFunction(Append(u, x)) = SumFunction(u) + x
        /\ SumFunction(s) \in Int /\ SumFunction(u) \in Int
    BY <2>3, <2>5, SumOfIntegers
  <2>7. PICK a \in Int, b \in Int : a = SumFunction(s) /\ b = SumFunction(u)
    BY ONLY <2>6
  <2>8. (a + b) + x = a + (b + x)
    BY <2>3
  <2> QED
    BY <2>3, <2>4, <2>5, <2>6, <2>7, <2>8
<1> HIDE DEF G
<1>5. Nat \subseteq G
  BY <1>3, <1>4, NatSetInduction
<1> QED
  BY <1>2, <1>5 DEF G

\* The Min of the library finds the least integer of a set that has a lower bound.
LEMMA LeastOf ==
  ASSUME NEW m \in Int, NEW S, S \subseteq Int, S # {}, \A y \in S : m <= y
  PROVE  Min(S) \in S /\ \A y \in S : Min(S) <= y
<1> DEFINE T == {y - m : y \in S}
<1>2. T \in SUBSET Nat /\ T # {}
  <2>1. \A y \in S : y - m \in Nat
    OBVIOUS
  <2> QED
    BY <2>1
<1>3. PICK x \in T : \A y \in T : x <= y
  <2> HIDE DEF T
  <2> QED
    BY <1>2, NatMin
<1>4. PICK k \in S : x = k - m
  BY <1>3
<1>5. \A y \in S : k <= y
  <2> TAKE y \in S
  <2>1. y - m \in T
    OBVIOUS
  <2>2. k - m <= y - m
    BY <1>3, <1>4, <2>1
  <2>3. k \in Int /\ y \in Int
    OBVIOUS
  <2> QED
    BY <2>2, <2>3
<1>6. Min(S) = CHOOSE z \in S : \A y \in S : z <= y
  BY DEF Min
<1> HIDE DEF T
<1>7. /\ (CHOOSE z \in S : \A y \in S : z <= y) \in S
      /\ \A y \in S : (CHOOSE z \in S : \A u \in S : z <= u) <= y
  BY <1>5
<1> QED
  BY <1>6, <1>7

\* The Max of the library finds the greatest one of a set that has an upper bound.
LEMMA GreatestOf ==
  ASSUME NEW m \in Int, NEW S, S \subseteq Int, S # {}, \A y \in S : y <= m
  PROVE  Max(S) \in S /\ \A y \in S : Max(S) >= y
<1> DEFINE T == {m - y : y \in S}
<1>2. T \in SUBSET Nat /\ T # {}
  <2>1. \A y \in S : m - y \in Nat
    OBVIOUS
  <2> QED
    BY <2>1
<1>3. PICK x \in T : \A y \in T : x <= y
  <2> HIDE DEF T
  <2> QED
    BY <1>2, NatMin
<1>4. PICK k \in S : x = m - k
  BY <1>3
<1>5. \A y \in S : k >= y
  <2> TAKE y \in S
  <2>1. m - y \in T
    OBVIOUS
  <2>2. m - k <= m - y
    BY <1>3, <1>4, <2>1
  <2>3. k \in Int /\ y \in Int
    OBVIOUS
  <2> QED
    BY <2>2, <2>3
<1>6. Max(S) = CHOOSE z \in S : \A y \in S : z >= y
  BY DEF Max
<1> HIDE DEF T
<1>7. /\ (CHOOSE z \in S : \A y \in S : z >= y) \in S
      /\ \A y \in S : (CHOOSE z \in S : \A u \in S : z >= u) >= y
  BY <1>5
<1> QED
  BY <1>6, <1>7

\* The number of parts of length b that d units make, the last of which may be shorter.
Portions(d, b) == (d \div b) + (IF d % b = 0 THEN 0 ELSE 1)

\* That is a rounded quotient, and the last part begins inside the d units.
LEMMA Counting ==
  ASSUME NEW d \in Nat, NEW b \in Nat \ {0}, NEW c, c = Portions(d, b)
  PROVE  /\ c \in Nat /\ c = (d + b - 1) \div b
         /\ d <= c * b /\ (c # 0 => (c - 1) * b < d) /\ (c = 0 <=> d = 0)
<1>1. PICK q \in Nat, r \in Nat : q = d \div b /\ r = d % b /\ r < b /\ d = b * q + r
  BY Division
<1>2. PICK m \in Nat : m = q * b /\ m = b * q
  OBVIOUS
<1>3. (q + 1) * b = m + b /\ ((q + 1) - 1) * b = m /\ (q - 1) * b = m - b
  BY <1>2
<1>4. q # 0 => m >= b
  <2> HAVE q # 0
  <2>1. PICK u \in Nat : q = u + 1
    <3>1. q - 1 \in Nat /\ q = (q - 1) + 1
      OBVIOUS
    <3> QED
      BY <3>1
  <2>2. u * b \in Nat /\ m = u * b + b
    BY <1>2, <2>1
  <2> QED
    BY <2>2
<1>5. c \in Nat /\ d <= c * b /\ (c # 0 => (c - 1) * b < d) /\ (c = 0 <=> d = 0)
  <2>1. CASE r = 0
    <3>1. c = q /\ d = m
      BY <1>1, <1>2, <2>1 DEF Portions
    <3>2. c * b = m /\ (c - 1) * b = m - b
      BY <1>2, <1>3, <3>1
    <3>3. q = 0 => m = 0
      BY <1>2
    <3>4. q = 0 <=> m = 0
      BY <1>4, <3>3
    <3>5. PICK x, y : x = c * b /\ y = (c - 1) * b
      OBVIOUS
    <3>6. x = m /\ y < m
      BY <3>2, <3>5
    <3>7. c \in Nat /\ d <= x /\ y < d /\ (c = 0 <=> d = 0)
      BY <3>1, <3>4, <3>6
    <3> QED
      BY ONLY <3>5, <3>7
  <2>2. CASE r # 0
    <3>1. c = q + 1 /\ d = m + r
      BY <1>1, <1>2, <2>2 DEF Portions
    <3>2. c * b = m + b /\ (c - 1) * b = m
      BY <1>3, <3>1
    <3> QED
      BY <1>1, <2>2, <3>1, <3>2
  <2> QED
    BY <2>1, <2>2
<1>6. PICK n \in Nat : n = c * b
  BY <1>5
<1>7. n <= d + b - 1 /\ d + b - 1 < n + b
  <2>1. CASE c = 0
    <3>1. n = 0 /\ d = 0
      BY <1>5, <1>6, <2>1
    <3> QED
      BY <3>1
  <2>2. CASE c # 0
    <3>1. (c - 1) * b = n - b
      BY <1>5, <1>6
    <3> QED
      BY <1>5, <1>6, <2>2, <3>1
  <2> QED
    BY <2>1, <2>2
<1>8. PICK x \in Nat : x = d + b - 1
  OBVIOUS
<1>9. x \div b = c
  BY <1>5, <1>6, <1>7, <1>8, Quotient
<1> QED
  BY <1>5, <1>8, <1>9

\* The powers of two are in order.
LEMMA TwoToOrder == \A m, n \in Nat : m <= n => TwoTo[m] <= TwoTo[n]
<1> TAKE m, n \in Nat
<1> HAVE m <= n
<1>1. TwoTo[m] \in Nat /\ TwoTo[n] \in Nat
  BY TwoToNat
<1>2. CASE m = n
  BY <1>1, <1>2
<1>3. CASE m # n
  <2>1. 2 * TwoTo[m] <= TwoTo[n]
    BY <1>3, TwoToGrows
  <2> QED
    BY <1>1, <2>1
<1> QED
  BY <1>2, <1>3

\* A sequence of numbers that was cut.
Beginning(short, data) ==
  /\ short \in Seq(Nat) /\ data \in Seq(Nat) /\ Len(short) <= Len(data)
  /\ \A i \in 1..Len(short) : short[i] = data[i]

\* A sequence that was cut, or has a number too many.
LEMMA OtherLength ==
  ASSUME NEW data \in Seq(Nat)
  PROVE  /\ \A k \in 0..Len(data) - 1 :
              Beginning(SubSeq(data, 1, k), data) /\ Len(SubSeq(data, 1, k)) # Len(data)
         /\ Beginning(data, Append(data, 0)) /\ Len(data) # Len(Append(data, 0))
<1>1. ASSUME NEW k \in 0..Len(data) - 1
      PROVE  Beginning(SubSeq(data, 1, k), data) /\ Len(SubSeq(data, 1, k)) # Len(data)
  <2>1. PICK n \in Nat : n = Len(data)
    OBVIOUS
  <2>2. k \in 0..(n - 1)
    BY <2>1
  <2>3. SubSeq(data, 1, k) = [i \in 1..k |-> data[i]]
    <3>1. k - 1 + 1 = k
      BY <2>2
    <3>2. SubSeq(data, 1, k) = [i \in 1..(k - 1 + 1) |-> data[i + 1 - 1]]
      BY DEF SubSeq
    <3>3. \A i \in 1..k : data[i + 1 - 1] = data[i]
      <4> TAKE i \in 1..k
      <4>1. i + 1 - 1 = i
        OBVIOUS
      <4> QED
        BY <4>1
    <3> QED
      BY <3>1, <3>2, <3>3
  <2>4. \A i \in 1..k : data[i] \in Nat
    BY <2>1, <2>2
  <2>5. SubSeq(data, 1, k) \in Seq(Nat) /\ Len(SubSeq(data, 1, k)) = k
        /\ \A i \in 1..k : SubSeq(data, 1, k)[i] = data[i]
    BY <2>2, <2>3, <2>4
  <2> QED
    BY <2>1, <2>2, <2>5 DEF Beginning
<1>2. Beginning(data, Append(data, 0)) /\ Len(data) # Len(Append(data, 0))
  <2>1. PICK n \in Nat : n = Len(data)
    OBVIOUS
  <2>2. PICK more : more = Append(data, 0)
    OBVIOUS
  <2>3. more \in Seq(Nat) /\ Len(more) = n + 1 /\ \A i \in 1..n : more[i] = data[i]
    BY <2>1, <2>2, AppendProperties
  <2> QED
    BY <2>1, <2>2, <2>3 DEF Beginning
<1> QED
  BY <1>1, <1>2

\* A sequence with one item more.
LEMMA SeqGrows ==
  ASSUME NEW f, f \in Seq(Range(f)), NEW x
  PROVE  /\ Append(f, x) \in Seq(Range(Append(f, x))) /\ Len(f) \in Nat
         /\ Len(Append(f, x)) = Len(f) + 1
         /\ Append(f, x)[Len(f) + 1] = x /\ \A i \in 1..Len(f) : Append(f, x)[i] = f[i]
         /\ Last(Append(f, x)) = x
<1> DEFINE S == Range(f) \union {x}
           g == Append(f, x)
<1>1. PICK n \in Nat : n = Len(f)
  OBVIOUS
<1>2. f \in Seq(S)
  BY SeqWider
<1>3. g \in Seq(S) /\ Len(g) = n + 1 /\ g[n + 1] = x /\ \A i \in 1..n : g[i] = f[i]
  <2> HIDE DEF S
  <2>1. x \in S
    BY DEF S
  <2> QED
    BY <1>1, <1>2, <2>1, AppendProperties
<1> HIDE DEF g
<1>4. g \in Seq(Range(g))
  <2>1. \A i \in 1..Len(g) : g[i] \in Range(g)
    <3>1. DOMAIN g = 1..Len(g)
      BY <1>3
    <3> QED
      BY <3>1 DEF Range
  <2> HIDE DEF S
  <2>2. g = [i \in 1..Len(g) |-> g[i]] /\ Len(g) \in Nat
    BY <1>3
  <2> QED
    BY <2>1, <2>2
<1>5. Last(g) = x
  BY <1>1, <1>3 DEF Last
<1> QED
  BY <1>1, <1>3, <1>4, <1>5 DEF g
=============================================================================
