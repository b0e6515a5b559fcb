------------------------- MODULE TsedgeFiles_proof -------------------------
(***************************************************************************)
(* Lemmas about the operators of TsedgeFiles: what the sequential readers  *)
(* see of a file (Intact), what a write that stops leaves (PartialWrites), *)
(* what a log without fragments gives back (LoggedPoints), and what the    *)
(* recursive function Cells computes.                                      *)
(***************************************************************************)
EXTENDS TsedgeFiles, TsedgeSequences_proof

\* The first fragment is a fragment, and no other comes before it.
LEMMA FirstFragmentIsFirst ==
  ASSUME NEW S, NEW file \in Seq(S), Fragments(file) # {}
  PROVE  /\ FirstFragment(file) \in Fragments(file)
         /\ FirstFragment(file) \in 1..Len(file)
         /\ \A j \in Fragments(file) : FirstFragment(file) <= j
<1>1. Fragments(file) \in SUBSET Nat
  BY DEF Fragments
<1>2. \E i \in Fragments(file) : \A j \in Fragments(file) : i <= j
  BY <1>1, NatMin
<1>3. /\ FirstFragment(file) \in Fragments(file)
      /\ \A j \in Fragments(file) : FirstFragment(file) <= j
  BY <1>2 DEF FirstFragment
<1> QED
  BY <1>3 DEF Fragments

\* A sequential reader sees the whole items from the start of the file, and stops at
\* the end of the file or at an item that is not whole.
LEMMA IntactIsPrefix ==
  ASSUME NEW S, NEW file \in Seq(S)
  PROVE  /\ Intact(file) \in Seq(S)
         /\ Len(Intact(file)) \in Nat
         /\ Len(Intact(file)) <= Len(file)
         /\ \A i \in 1..Len(Intact(file)) : Intact(file)[i] = file[i] /\ IsWhole(file[i])
         /\ Len(Intact(file)) < Len(file) => ~IsWhole(file[Len(Intact(file)) + 1])
<1>1. CASE Fragments(file) = {}
  <2>1. Intact(file) = file
    BY <1>1 DEF Intact
  <2>2. \A i \in 1..Len(file) : IsWhole(file[i])
    BY <1>1 DEF Fragments
  <2> QED
    BY <2>1, <2>2
<1>2. CASE Fragments(file) # {}
  <2> DEFINE i == FirstFragment(file)
  <2>1. i \in 1..Len(file) /\ i \in Fragments(file) /\ \A j \in Fragments(file) : i <= j
    BY <1>2, FirstFragmentIsFirst
  <2>2. Intact(file) = SubSeq(file, 1, i - 1)
    BY <1>2 DEF Intact
  <2> HIDE DEF i
  <2>3. \A j \in 1..(i - 1) : file[j] \in S
    BY <2>1
  <2>4. /\ SubSeq(file, 1, i - 1) \in Seq(S)
        /\ Len(SubSeq(file, 1, i - 1)) = IF 1 <= i - 1 THEN i - 1 ELSE 0
        /\ \A j \in 1..(i - 1) : SubSeq(file, 1, i - 1)[j] = file[j]
    BY <2>1, <2>3, SubSeqProperties
  <2>5. Len(Intact(file)) = i - 1
    BY <2>1, <2>2, <2>4
  <2>6. ASSUME NEW j \in 1..(i - 1) PROVE IsWhole(file[j])
    <3>1. j \in 1..Len(file) /\ ~(i <= j)
      BY <2>1
    <3> QED
      BY <2>1, <3>1 DEF Fragments
  <2>7. ~IsWhole(file[i])
    BY <2>1 DEF Fragments
  <2>8. /\ Len(Intact(file)) \in Nat /\ Len(Intact(file)) <= Len(file)
        /\ Len(Intact(file)) + 1 = i
    BY <2>1, <2>5
  <2> QED
    BY <2>2, <2>4, <2>5, <2>6, <2>7, <2>8
<1> QED
  BY <1>1, <1>2

\* What a write that stops half-way leaves has items of the same type.
LEMMA PartialWritesType ==
  ASSUME NEW S, NEW items \in Seq(S),
         \A x \in S : x.points \in Seq(Nat),
         \A x \in S, g \in Nat : [x EXCEPT !.got = g] \in S,
         NEW part \in PartialWrites(items)
  PROVE  part \in Seq(S)
<1>1. \A k \in 0..Len(items) : SubSeq(items, 1, k) \in Seq(S)
  <2> TAKE k \in 0..Len(items)
  <2>1. \A j \in 1..k : items[j] \in S
    OBVIOUS
  <2> QED
    BY <2>1, SubSeqProperties
<1>2. CASE part \in {SubSeq(items, 1, k) : k \in 0..Len(items)}
  BY <1>1, <1>2
<1>3. CASE part \notin {SubSeq(items, 1, k) : k \in 0..Len(items)}
  <2>1. PICK k \in 1..Len(items) : \E g \in 0..Len(items[k].points) :
          part = Append(SubSeq(items, 1, k - 1), [items[k] EXCEPT !.got = g])
    BY <1>3 DEF PartialWrites
  <2>2. SubSeq(items, 1, k - 1) \in Seq(S)
    BY <1>1
  <2>3. items[k] \in S /\ Len(items[k].points) \in Nat
    OBVIOUS
  <2>4. \A g \in 0..Len(items[k].points) : [items[k] EXCEPT !.got = g] \in S
    BY <2>3
  <2> QED
    BY <2>1, <2>2, <2>4
<1> QED
  BY <1>2, <1>3

-----------------------------------------------------------------------------
(* Files without fragments *)

\* Without fragments a reader can use the whole file.
LEMMA NoFragments ==
  ASSUME NEW file, Fragments(file) = {}
  PROVE  Intact(file) = file
BY DEF Intact

\* No fragments means that every item is whole.
LEMMA NoFragmentsMeans ==
  ASSUME NEW file
  PROVE  Fragments(file) = {} <=> \A i \in 1..Len(file) : IsWhole(file[i])
BY DEF Fragments

\* WalRecord and Block build whole items.
LEMMA NewItemsAreWhole ==
  /\ \A s, pts : IsWhole(WalRecord(s, pts))
  /\ \A pts : IsWhole(Block(pts))
BY DEF IsWhole, WalRecord, Block, Size

\* Whole items appended to whole items: a WAL flush leaves no fragment.
LEMMA WholeConcat ==
  ASSUME NEW S, NEW u \in Seq(S), NEW v \in Seq(S), Fragments(u) = {}, Fragments(v) = {}
  PROVE  Fragments(u \o v) = {}
<1> DEFINE w == u \o v
<1>1. /\ \A i \in 1..Len(u) : i \in 1..Len(w) /\ w[i] = u[i]
      /\ \A i \in 1..Len(v) : Len(u) + i \in 1..Len(w) /\ w[Len(u) + i] = v[i]
      /\ \A i \in 1..Len(w) :
           (i \in 1..Len(u) /\ w[i] = u[i]) \/ (\E j \in 1..Len(v) : w[i] = v[j])
  BY ConcatElements
<1> HIDE DEF w
<1>2. \A i \in 1..Len(u) : IsWhole(u[i])
  BY NoFragmentsMeans
<1>3. \A i \in 1..Len(v) : IsWhole(v[i])
  BY NoFragmentsMeans
<1>4. \A i \in 1..Len(w) : IsWhole(w[i])
  BY <1>1, <1>2, <1>3
<1>5. Fragments(w) = {}
  BY <1>4, NoFragmentsMeans
<1> QED
  BY <1>5 DEF w

\* A whole item appended to whole items leaves no fragment.
LEMMA WholeAppend ==
  ASSUME NEW S, NEW u \in Seq(S), NEW x \in S, Fragments(u) = {}, IsWhole(x)
  PROVE  Fragments(Append(u, x)) = {}
<1>1. Append(u, x) = u \o <<x>> /\ <<x>> \in Seq(S) /\ Len(<<x>>) = 1 /\ <<x>>[1] = x
  BY AppendAsConcat
<1>2. Fragments(<<x>>) = {}
  <2>1. \A i \in 1..Len(<<x>>) : IsWhole(<<x>>[i])
    BY <1>1
  <2> QED
    BY <2>1, NoFragmentsMeans
<1> QED
  BY <1>1, <1>2, WholeConcat

-----------------------------------------------------------------------------
(* The points of a log and of a segment file *)

\* The points of series s in the records of w, whole or not.
InLog(w, s) == UNION {Range(w[i].points) : i \in {j \in 1..Len(w) : w[j].series = s}}

\* A point of s in a log is a point of one of its records for s.
LEMMA InLogMember ==
  ASSUME NEW w, NEW s, NEW n
  PROVE  n \in InLog(w, s) <=> \E i \in 1..Len(w) : w[i].series = s /\ n \in Range(w[i].points)
BY DEF InLog

\* Without fragments the replay finds every point of s in the log.
LEMMA InLogWhole ==
  ASSUME NEW w, NEW s, Fragments(w) = {}
  PROVE  LoggedPoints(w, s) = InLog(w, s)
BY NoFragments DEF LoggedPoints, InLog

\* A WAL flush adds the points of the WAL buffer to those of wal.log.
LEMMA InLogConcat ==
  ASSUME NEW S, NEW u \in Seq(S), NEW v \in Seq(S), NEW s
  PROVE  InLog(u \o v, s) = InLog(u, s) \union InLog(v, s)
<1> DEFINE w == u \o v
<1>1. /\ \A i \in 1..Len(u) : i \in 1..Len(w) /\ w[i] = u[i]
      /\ \A i \in 1..Len(v) : Len(u) + i \in 1..Len(w) /\ w[Len(u) + i] = v[i]
      /\ \A i \in 1..Len(w) :
           (i \in 1..Len(u) /\ w[i] = u[i]) \/ (\E j \in 1..Len(v) : w[i] = v[j])
  BY ConcatElements
<1> HIDE DEF w
<1>2. ASSUME NEW n, n \in InLog(w, s) PROVE n \in InLog(u, s) \union InLog(v, s)
  <2>1. PICK i \in 1..Len(w) : w[i].series = s /\ n \in Range(w[i].points)
    BY <1>2, InLogMember
  <2>2. CASE i \in 1..Len(u) /\ w[i] = u[i]
    BY <2>1, <2>2, InLogMember
  <2>3. CASE \E j \in 1..Len(v) : w[i] = v[j]
    BY <2>1, <2>3, InLogMember
  <2> QED
    BY <1>1, <2>2, <2>3
<1>3. ASSUME NEW n, n \in InLog(u, s) PROVE n \in InLog(w, s)
  <2>1. PICK i \in 1..Len(u) : u[i].series = s /\ n \in Range(u[i].points)
    BY <1>3, InLogMember
  <2> QED
    BY <1>1, <2>1, InLogMember
<1>4. ASSUME NEW n, n \in InLog(v, s) PROVE n \in InLog(w, s)
  <2>1. PICK i \in 1..Len(v) : v[i].series = s /\ n \in Range(v[i].points)
    BY <1>4, InLogMember
  <2>2. Len(u) + i \in 1..Len(w) /\ w[Len(u) + i] = v[i]
    BY <1>1
  <2> DEFINE j == Len(u) + i
  <2>3. j \in 1..Len(w) /\ w[j].series = s /\ n \in Range(w[j].points)
    BY <2>1, <2>2
  <2> HIDE DEF j
  <2> QED
    BY <2>3, InLogMember
<1>5. InLog(w, s) = InLog(u, s) \union InLog(v, s)
  BY <1>2, <1>3, <1>4
<1> QED
  BY <1>5 DEF w

\* An empty log has no points.
LEMMA InLogEmpty ==
  ASSUME NEW s
  PROVE  InLog(<<>>, s) = {}
<1>1. Len(<<>>) = 0
  OBVIOUS
<1> QED
  BY <1>1, InLogMember

\* One more record adds its points to the log of its series only.
LEMMA InLogAppend ==
  ASSUME NEW S, NEW u \in Seq(S), NEW x \in S, NEW s
  PROVE  InLog(Append(u, x), s) = InLog(u, s) \union (IF x.series = s THEN Range(x.points) ELSE {})
<1>1. Append(u, x) = u \o <<x>> /\ <<x>> \in Seq(S) /\ Len(<<x>>) = 1 /\ <<x>>[1] = x
  BY AppendAsConcat
<1>2. \A n : n \in InLog(<<x>>, s) <=> n \in (IF x.series = s THEN Range(x.points) ELSE {})
  BY <1>1, InLogMember
<1>3. InLog(<<x>>, s) = IF x.series = s THEN Range(x.points) ELSE {}
  BY <1>2
<1> DEFINE one == <<x>>
<1>4. one \in Seq(S)
  BY <1>1
<1> HIDE DEF one
<1>5. InLog(u \o one, s) = InLog(u, s) \union InLog(one, s)
  BY <1>4, InLogConcat
<1> QED
  BY <1>1, <1>3, <1>5 DEF one

\* A point of a segment file is a point of one of its blocks.
LEMMA PointsInMember ==
  ASSUME NEW w, NEW n
  PROVE  n \in PointsIn(w) <=> \E i \in 1..Len(w) : n \in Range(w[i].points)
BY DEF PointsIn

\* One more block adds its points to the segment file.
LEMMA PointsInAppend ==
  ASSUME NEW S, NEW u \in Seq(S), NEW x \in S
  PROVE  PointsIn(Append(u, x)) = PointsIn(u) \union Range(x.points)
<1>1. Append(u, x) = u \o <<x>> /\ <<x>> \in Seq(S) /\ Len(<<x>>) = 1 /\ <<x>>[1] = x
  BY AppendAsConcat
<1> DEFINE w == u \o <<x>>
<1>2. /\ \A i \in 1..Len(u) : i \in 1..Len(w) /\ w[i] = u[i]
      /\ \A i \in 1..1 : Len(u) + i \in 1..Len(w) /\ w[Len(u) + i] = <<x>>[i]
      /\ \A i \in 1..Len(w) :
           (i \in 1..Len(u) /\ w[i] = u[i]) \/ (\E j \in 1..1 : w[i] = <<x>>[j])
  BY <1>1, ConcatElements
<1> DEFINE last == Len(u) + 1
<1>3. /\ \A i \in 1..Len(u) : i \in 1..Len(w) /\ w[i] = u[i]
      /\ last \in 1..Len(w) /\ w[last] = x
      /\ \A i \in 1..Len(w) : (i \in 1..Len(u) /\ w[i] = u[i]) \/ w[i] = x
  BY <1>1, <1>2
<1> HIDE DEF w, last
<1>4. ASSUME NEW n, n \in PointsIn(w) PROVE n \in PointsIn(u) \union Range(x.points)
  BY <1>3, <1>4, PointsInMember
<1>5. ASSUME NEW n, n \in PointsIn(u) PROVE n \in PointsIn(w)
  BY <1>3, <1>5, PointsInMember
<1>6. ASSUME NEW n, n \in Range(x.points) PROVE n \in PointsIn(w)
  BY <1>3, <1>6, PointsInMember
<1>7. PointsIn(w) = PointsIn(u) \union Range(x.points)
  BY <1>4, <1>5, <1>6
<1> QED
  BY <1>1, <1>7 DEF w

-----------------------------------------------------------------------------
(* Files with fragments *)

\* An item of which g cells reached the file.
Cut(x, g) == [x EXCEPT !.got = g]

\* What a write that stops leaves is what was to be written, up to a last item
\* that may be cut short.
LEMMA PartialShape ==
  ASSUME NEW S, NEW items \in Seq(S), NEW part \in PartialWrites(items)
  PROVE  /\ Len(part) <= Len(items)
         /\ \A i \in 1..Len(part) :
              /\ i \in 1..Len(items)
              /\ \/ part[i] = items[i]
                 \/ /\ i = Len(part)
                    /\ \E g \in 0..Len(items[i].points) : part[i] = Cut(items[i], g)
<1>1. ASSUME NEW k \in 0..Len(items)
      PROVE  /\ SubSeq(items, 1, k) \in Seq(S) /\ Len(SubSeq(items, 1, k)) = k
             /\ \A i \in 1..k : SubSeq(items, 1, k)[i] = items[i]
  <2>1. \A j \in 1..k : items[j] \in S
    OBVIOUS
  <2> QED
    BY <2>1, SubSeqProperties
<1>2. CASE part \in {SubSeq(items, 1, k) : k \in 0..Len(items)}
  BY <1>1, <1>2
<1>3. CASE part \notin {SubSeq(items, 1, k) : k \in 0..Len(items)}
  <2>0. PICK k \in 1..Len(items) : \E g \in 0..Len(items[k].points) :
          part = Append(SubSeq(items, 1, k - 1), [items[k] EXCEPT !.got = g])
    BY <1>3 DEF PartialWrites
  <2>1. PICK g \in 0..Len(items[k].points) :
          part = Append(SubSeq(items, 1, k - 1), [items[k] EXCEPT !.got = g])
    BY <2>0
  <2> DEFINE head == SubSeq(items, 1, k - 1)
             cut == Cut(items[k], g)
  <2>2. k - 1 \in 0..Len(items)
    OBVIOUS
  <2>3. head \in Seq(S) /\ Len(head) = k - 1 /\ \A i \in 1..(k - 1) : head[i] = items[i]
    BY <1>1, <2>2
  <2> HIDE DEF head, cut
  <2>4. /\ Len(Append(head, cut)) = k /\ Append(head, cut)[k] = cut
        /\ \A i \in 1..(k - 1) : Append(head, cut)[i] = head[i]
    <3>1. head \in Seq(S \union {cut}) /\ cut \in S \union {cut}
      BY <2>3
    <3> HIDE DEF cut
    <3>2. /\ Len(Append(head, cut)) = Len(head) + 1
          /\ \A i \in 1..Len(head) : Append(head, cut)[i] = head[i]
          /\ Append(head, cut)[Len(head) + 1] = cut
      BY <3>1, AppendProperties
    <3> QED
      BY <2>3, <3>2
  <2>5. part = Append(head, cut)
    BY <2>1 DEF head, cut, Cut
  <2>6. Len(part) = k /\ part[k] = cut /\ \A i \in 1..(k - 1) : part[i] = items[i]
    BY <2>3, <2>4, <2>5
  <2>7. Len(part) <= Len(items) /\ \A i \in 1..Len(part) : i \in 1..Len(items)
    BY <2>6
  <2>8. ASSUME NEW i \in 1..Len(part)
        PROVE  \/ part[i] = items[i]
               \/ /\ i = Len(part)
                  /\ \E h \in 0..Len(items[i].points) : part[i] = Cut(items[i], h)
    <3>1. CASE i = k
      BY <2>6, <3>1 DEF cut
    <3>2. CASE i # k
      BY <2>6, <3>2
    <3> QED
      BY <3>1, <3>2
  <2> QED
    BY <2>7, <2>8
<1> QED
  BY <1>2, <1>3

\* What a write that stops leaves has no points that were not to be written.
LEMMA PartialPoints ==
  ASSUME NEW S, NEW items \in Seq(S), NEW part \in PartialWrites(items),
         \A x \in S, g \in Nat : Cut(x, g).points = x.points,
         \A x \in S : x.points \in Seq(Nat)
  PROVE  PointsIn(part) \subseteq PointsIn(items)
<1> SUFFICES ASSUME NEW n \in PointsIn(part) PROVE n \in PointsIn(items)
  OBVIOUS
<1>1. PICK i \in 1..Len(part) : n \in Range(part[i].points)
  BY PointsInMember
<1>2. i \in 1..Len(items) /\ (part[i] = items[i]
         \/ \E g \in 0..Len(items[i].points) : part[i] = Cut(items[i], g))
  BY PartialShape
<1>3. part[i].points = items[i].points
  <2>1. items[i] \in S /\ 0..Len(items[i].points) \subseteq Nat
    BY <1>2
  <2> QED
    BY <1>2, <2>1
<1> QED
  BY <1>1, <1>2, <1>3, PointsInMember

\* The same for the records of one series.
LEMMA PartialLog ==
  ASSUME NEW S, NEW items \in Seq(S), NEW part \in PartialWrites(items), NEW s,
         \A x \in S, g \in Nat : Cut(x, g).points = x.points /\ Cut(x, g).series = x.series,
         \A x \in S : x.points \in Seq(Nat)
  PROVE  InLog(part, s) \subseteq InLog(items, s)
<1> SUFFICES ASSUME NEW n \in InLog(part, s) PROVE n \in InLog(items, s)
  OBVIOUS
<1>1. PICK i \in 1..Len(part) : part[i].series = s /\ n \in Range(part[i].points)
  BY InLogMember
<1>2. i \in 1..Len(items) /\ (part[i] = items[i]
         \/ \E g \in 0..Len(items[i].points) : part[i] = Cut(items[i], g))
  BY PartialShape
<1>3. part[i].points = items[i].points /\ part[i].series = items[i].series
  <2>1. items[i] \in S /\ 0..Len(items[i].points) \subseteq Nat
    BY <1>2
  <2> QED
    BY <1>2, <2>1
<1> QED
  BY <1>1, <1>2, <1>3, InLogMember

\* A replay, or a scan, finds no point that is not in the file.
LEMMA LoggedIsInLog ==
  ASSUME NEW S, NEW w \in Seq(S), NEW s
  PROVE  LoggedPoints(w, s) \subseteq InLog(w, s) /\ StoredPoints(w) \subseteq PointsIn(w)
<1>1. Len(Intact(w)) \in Nat /\ Len(Intact(w)) <= Len(w) /\ Len(w) \in Nat
  BY IntactIsPrefix
<1>2. LoggedPoints(w, s) \subseteq InLog(w, s)
  BY <1>1 DEF LoggedPoints, InLog
<1>3. \A i \in 1..Len(Intact(w)) : Intact(w)[i] = w[i]
  BY IntactIsPrefix
<1>4. \A i \in 1..Len(Intact(w)) : i \in 1..Len(w)
  BY <1>1
<1>5. StoredPoints(w) \subseteq PointsIn(w)
  BY <1>3, <1>4 DEF StoredPoints, PointsIn
<1> QED
  BY <1>2, <1>5

\* Two files one after the other hold the points of either.
LEMMA PointsInConcat ==
  ASSUME NEW S, NEW u \in Seq(S), NEW v \in Seq(S)
  PROVE  PointsIn(u \o v) = PointsIn(u) \union PointsIn(v)
<1> DEFINE w == u \o v
<1>1. /\ \A i \in 1..Len(u) : i \in 1..Len(w) /\ w[i] = u[i]
      /\ \A i \in 1..Len(v) : Len(u) + i \in 1..Len(w) /\ w[Len(u) + i] = v[i]
      /\ \A i \in 1..Len(w) :
           (i \in 1..Len(u) /\ w[i] = u[i]) \/ (\E j \in 1..Len(v) : w[i] = v[j])
  BY ConcatElements
<1> HIDE DEF w
<1>2. ASSUME NEW n, n \in PointsIn(w) PROVE n \in PointsIn(u) \union PointsIn(v)
  <2>1. PICK i \in 1..Len(w) : n \in Range(w[i].points)
    BY <1>2, PointsInMember
  <2>2. CASE i \in 1..Len(u) /\ w[i] = u[i]
    BY <2>1, <2>2, PointsInMember
  <2>3. CASE \E j \in 1..Len(v) : w[i] = v[j]
    BY <2>1, <2>3, PointsInMember
  <2> QED
    BY <1>1, <2>2, <2>3
<1>3. ASSUME NEW n, n \in PointsIn(u) \union PointsIn(v) PROVE n \in PointsIn(w)
  <2>1. CASE n \in PointsIn(u)
    BY <1>1, <2>1, PointsInMember
  <2>2. CASE n \in PointsIn(v)
    <3>1. PICK i \in 1..Len(v) : n \in Range(v[i].points)
      BY <2>2, PointsInMember
    <3> DEFINE j == Len(u) + i
    <3>2. j \in 1..Len(w) /\ n \in Range(w[j].points)
      BY <1>1, <3>1
    <3> HIDE DEF j
    <3> QED
      BY <3>2, PointsInMember
  <2> QED
    BY <1>3, <2>1, <2>2
<1>4. PointsIn(w) = PointsIn(u) \union PointsIn(v)
  BY <1>2, <1>3
<1> QED
  BY <1>4 DEF w

-----------------------------------------------------------------------------
(* The length of a run of items *)

\* The sums of the prefixes, which Cells builds.
CellsTable(file, f, k) ==
  f = [n \in 0..k |-> IF n = 0 THEN 0 ELSE f[n - 1] + file[n].got]

\* One more row for the table.
LEMMA CellsTableGrows ==
  ASSUME NEW file, NEW k \in Nat, NEW f, CellsTable(file, f, k)
  PROVE  \E g : CellsTable(file, g, k + 1)
<1> DEFINE last == f[k] + file[k + 1].got
           g == [n \in 0..(k + 1) |-> IF n = k + 1 THEN last ELSE f[n]]
<1>1. \A n \in 0..k : f[n] = IF n = 0 THEN 0 ELSE f[n - 1] + file[n].got
  BY DEF CellsTable
<1> HIDE DEF last
<1>2. /\ \A n \in 0..(k + 1) : g[n] = IF n = k + 1 THEN last ELSE f[n]
      /\ g = [n \in 0..(k + 1) |-> g[n]]
  OBVIOUS
<1> HIDE DEF g
<1>3. ASSUME NEW n \in 0..(k + 1) PROVE g[n] = IF n = 0 THEN 0 ELSE g[n - 1] + file[n].got
  <2>1. CASE n = k + 1
    <3>1. k \in 0..(k + 1) /\ k # k + 1 /\ n - 1 = k /\ n # 0
      BY <2>1
    <3>2. g[k] = f[k] /\ g[n] = last
      BY <1>2, <2>1, <3>1
    <3> QED
      BY <2>1, <3>1, <3>2 DEF last
  <2>2. CASE n # k + 1
    <3>1. n \in 0..k /\ (n # 0 => n - 1 \in 0..(k + 1) /\ n - 1 # k + 1)
      BY <2>2
    <3>2. g[n] = f[n] /\ (n # 0 => g[n - 1] = f[n - 1])
      BY <1>2, <2>2, <3>1
    <3> QED
      BY <1>1, <3>1, <3>2
  <2> QED
    BY <2>1, <2>2
<1>4. CellsTable(file, g, k + 1)
  BY <1>2, <1>3 DEF CellsTable
<1> QED
  BY <1>4

\* The recursion of Cells has a solution, for every length.
LEMMA CellsTableExists ==
  ASSUME NEW file
  PROVE  \A k \in Nat : \E f : CellsTable(file, f, k)
<1> DEFINE G == {k \in Nat : \E f : CellsTable(file, f, k)}
<1>1. 0 \in G
  <2>1. CellsTable(file, [n \in 0..0 |-> 0], 0)
    BY DEF CellsTable
  <2> QED
    BY <2>1
<1>2. ASSUME NEW k \in Nat, k \in G PROVE k + 1 \in G
  BY <1>2, CellsTableGrows
<1> HIDE DEF G
<1>3. Nat \subseteq G
  BY <1>1, <1>2, NatSetInduction
<1> QED
  BY <1>3 DEF G

\* Cells is the last row of its table.
LEMMA CellsIs ==
  ASSUME NEW file, Len(file) \in Nat
  PROVE  \E f : CellsTable(file, f, Len(file)) /\ Cells(file) = f[Len(file)]
<1> DEFINE f == CHOOSE f : CellsTable(file, f, Len(file))
<1>1. CellsTable(file, f, Len(file))
  BY CellsTableExists
<1>2. Cells(file) = f[Len(file)]
  BY DEF Cells, CellsTable
<1> HIDE DEF f
<1> QED
  BY <1>1, <1>2

\* Two tables agree where both have rows.
LEMMA CellsTablesAgree ==
  ASSUME NEW q, NEW r, NEW k \in Nat, NEW l \in Nat, NEW f, NEW g,
         CellsTable(q, f, k), CellsTable(r, g, l), k <= l,
         \A n \in 1..k : q[n] = r[n]
  PROVE  \A n \in 0..k : f[n] = g[n]
<1> DEFINE G == {n \in Nat : n <= k => f[n] = g[n]}
<1>1. /\ \A n \in 0..k : f[n] = IF n = 0 THEN 0 ELSE f[n - 1] + q[n].got
      /\ \A n \in 0..l : g[n] = IF n = 0 THEN 0 ELSE g[n - 1] + r[n].got
  BY DEF CellsTable
<1>2. 0 \in G
  BY <1>1
<1>3. ASSUME NEW n \in Nat, n \in G PROVE n + 1 \in G
  <2>1. SUFFICES ASSUME n + 1 <= k PROVE f[n + 1] = g[n + 1]
    OBVIOUS
  <2> DEFINE j == n + 1
  <2>2. j \in 0..k /\ j \in 0..l /\ j \in 1..k /\ j # 0 /\ j - 1 = n /\ n <= k
    BY <2>1
  <2>3. f[n] = g[n]
    BY <1>3, <2>2
  <2> HIDE DEF j, G
  <2>4. f[j] = f[j - 1] + q[j].got /\ g[j] = g[j - 1] + r[j].got /\ q[j] = r[j]
    BY <1>1, <2>2
  <2> QED
    BY <2>2, <2>3, <2>4 DEF j
<1> HIDE DEF G
<1>4. Nat \subseteq G
  BY <1>2, <1>3, NatSetInduction
<1>5. \A n \in 0..k : n \in G /\ n <= k
  BY <1>4
<1> QED
  BY <1>5 DEF G

\* The last row of the table of a file that has one item more.
LEMMA CellsLast ==
  ASSUME NEW q, NEW w, NEW n \in Nat, Len(q) = n, Len(w) = n + 1,
         \A i \in 1..n : w[i] = q[i]
  PROVE  Cells(w) = Cells(q) + w[n + 1].got
<1>1. PICK g : CellsTable(w, g, n + 1) /\ Cells(w) = g[n + 1]
  BY CellsIs
<1>2. PICK f : CellsTable(q, f, n) /\ Cells(q) = f[n]
  BY CellsIs
<1>3. f[n] = g[n]
  <2> DEFINE l == n + 1
  <2>1. l \in Nat /\ n \in Nat /\ n <= l /\ (\A i \in 1..n : q[i] = w[i])
    OBVIOUS
  <2>2. CellsTable(q, f, n) /\ CellsTable(w, g, l)
    BY <1>1, <1>2
  <2> HIDE DEF l
  <2>3. \A i \in 0..n : f[i] = g[i]
    BY ONLY <2>1, <2>2, CellsTablesAgree
  <2> QED
    BY <2>3
<1>4. g[n + 1] = g[(n + 1) - 1] + w[n + 1].got
  <2>1. n + 1 \in 0..(n + 1) /\ n + 1 # 0
    OBVIOUS
  <2> QED
    BY <1>1, <2>1 DEF CellsTable
<1>5. (n + 1) - 1 = n
  OBVIOUS
<1> QED
  BY <1>1, <1>2, <1>3, <1>4, <1>5

\* One item more is that many cells more.
LEMMA CellsAppend ==
  ASSUME NEW S, NEW file \in Seq(S), NEW x \in S
  PROVE  Cells(Append(file, x)) = Cells(file) + x.got
<1> DEFINE w == Append(file, x)
           n == Len(file)
<1>1. /\ n \in Nat /\ Len(w) = n + 1 /\ w[n + 1] = x
      /\ \A i \in 1..n : w[i] = file[i]
  BY AppendProperties
<1> HIDE DEF w
<1>2. Cells(w) = Cells(file) + w[n + 1].got
  BY <1>1, CellsLast
<1> QED
  BY <1>1, <1>2 DEF w

\* No items are no cells.
LEMMA CellsEmpty == Cells(<<>>) = 0
<1>1. PICK f : CellsTable(<<>>, f, 0) /\ Cells(<<>>) = f[0]
  BY CellsIs
<1> QED
  BY <1>1 DEF CellsTable

\* A run of items has a length.
LEMMA CellsType ==
  ASSUME NEW S, NEW file \in Seq(S), \A x \in S : x.got \in Nat
  PROVE  Cells(file) \in Nat
<1> DEFINE k == Len(file)
<1>1. k \in Nat /\ \A n \in 1..k : file[n].got \in Nat
  OBVIOUS
<1>2. PICK f : CellsTable(file, f, k) /\ Cells(file) = f[k]
  BY <1>1, CellsIs
<1> DEFINE G == {n \in Nat : n <= k => f[n] \in Nat}
<1> HIDE DEF k
<1>3. \A n \in 0..k : f[n] = IF n = 0 THEN 0 ELSE f[n - 1] + file[n].got
  BY <1>2 DEF CellsTable
<1>4. 0 \in G
  BY <1>1, <1>3
<1>5. ASSUME NEW n \in Nat, n \in G PROVE n + 1 \in G
  <2>1. SUFFICES ASSUME n + 1 <= k PROVE f[n + 1] \in Nat
    OBVIOUS
  <2> DEFINE j == n + 1
  <2>2. j \in 0..k /\ j \in 1..k /\ j # 0 /\ j - 1 = n /\ n <= k
    BY <1>1, <2>1
  <2>3. f[n] \in Nat
    BY <1>5, <2>2
  <2> HIDE DEF j, G
  <2>4. f[j] = f[j - 1] + file[j].got /\ file[j].got \in Nat
    BY <1>1, <1>3, <2>2
  <2> QED
    BY <2>2, <2>3, <2>4 DEF j
<1> HIDE DEF G
<1>6. Nat \subseteq G
  BY <1>4, <1>5, NatSetInduction
<1>7. k \in G
  BY <1>1, <1>6
<1> QED
  BY <1>2, <1>7 DEF G
=============================================================================
