----------------------- MODULE TsedgeSegments_proof -----------------------
(***************************************************************************)
(* Proofs about segment files: what holds as long as no file operation     *)
(* failed (SegInv), what holds whatever fails (ShapeInv, OpenInv,          *)
(* CleanupInv, FreshInv), and what wal.log may bring back (LogInv).        *)
(***************************************************************************)
EXTENDS TsedgeSegments, TsedgeSequences_proof, NaturalsInduction

-----------------------------------------------------------------------------
(* Numbers and finite sets *)

\* A nonempty finite set of integers has a greatest one.
LEMMA GreatestInt ==
  ASSUME NEW S \in SUBSET Int, IsFiniteSet(S), S # {}
  PROVE  \E m \in S : \A x \in S : m >= x
<1> DEFINE Topless == {Z \in SUBSET Int : IsFiniteSet(Z) /\ Z # {} /\ ~ \E m \in Z : \A x \in Z : m >= x}
           Sizes == {n \in Nat : \E Z \in Topless : n = Cardinality(Z)}
<1> SUFFICES ASSUME S \in Topless PROVE FALSE
  OBVIOUS
<1>1. Cardinality(S) \in Sizes
  BY FS_CardinalityType
<1>2. PICK n \in Sizes : \A m \in Sizes : n <= m
  BY <1>1, NatMin
<1>3. PICK Z \in Topless : n = Cardinality(Z)
  BY <1>2
<1>4. PICK x \in Z : TRUE
  BY <1>3
<1>5. IsFiniteSet(Z \ {x}) /\ Cardinality(Z \ {x}) = n - 1
  BY <1>3, <1>4, FS_RemoveElement
<1>6. Z \ {x} \notin Topless
  <2> SUFFICES ASSUME Z \ {x} \in Topless PROVE FALSE
    OBVIOUS
  <2>1. Cardinality(Z \ {x}) \in Sizes
    BY <1>5, FS_CardinalityType
  <2>2. n - 1 \in Sizes /\ n \in Nat
    BY <2>1, <1>5
  <2> HIDE DEF Sizes, Topless
  <2>3. n <= n - 1
    BY <2>2, <1>2
  <2> QED
    BY <2>2, <2>3
<1>7. CASE Z \ {x} = {}
  <2>1. Z = {x} /\ x \in Int
    BY <1>3, <1>4, <1>7
  <2> QED
    BY <2>1, <1>3
<1>8. CASE Z \ {x} # {}
  <2>1. PICK m \in Z \ {x} : \A y \in Z \ {x} : m >= y
    BY <1>3, <1>5, <1>6, <1>8
  <2>2. Z \subseteq Int /\ ~ \E k \in Z : \A y \in Z : k >= y
    BY <1>3
  <2>3. CASE m >= x
    BY <2>1, <2>2, <2>3
  <2>4. CASE ~ (m >= x)
    <3>1. \A y \in Z : x >= y
      BY <2>1, <2>2, <2>4, <1>4
    <3> QED
      BY <3>1, <2>2, <1>4
  <2> QED
    BY <2>3, <2>4
<1> QED
  BY <1>7, <1>8

\* Max is what it should be.
LEMMA MaxOfFinite ==
  ASSUME NEW S \in SUBSET Int, IsFiniteSet(S), S # {}
  PROVE  Max(S) \in S /\ \A x \in S : x <= Max(S)
<1>1. \E m \in S : \A x \in S : m >= x
  BY GreatestInt
<1>2. Max(S) \in S /\ \A x \in S : Max(S) >= x
  BY <1>1 DEF Max
<1> QED
  BY <1>2

\* Min of natural numbers.
LEMMA MinOfNats ==
  ASSUME NEW S \in SUBSET Nat, S # {}
  PROVE  Min(S) \in S
<1>1. \E m \in S : \A x \in S : m <= x
  BY NatMin
<1> QED
  BY <1>1 DEF Min

\* A function on 1..n has a finite range.
LEMMA RangeFinite ==
  ASSUME NEW n \in Nat, NEW f, DOMAIN f = 1..n
  PROVE  IsFiniteSet(Range(f))
<1> DEFINE g == [i \in 1..n |-> f[i]]
<1>1. g \in Surjection(1..n, Range(f))
  BY DEF Surjection, Range
<1>2. IsFiniteSet(1..n)
  BY FS_Interval
<1> QED
  BY <1>1, <1>2, FS_Surjection

-----------------------------------------------------------------------------
(* The invariant, for as long as no file operation failed *)

\* A block of a segment file.
AnyBlock == [points : Seq(Int) \ {<<>>}, offset : Nat]

\* A segment file: no empty block, offsets inside the file, and the size that
\* rotation allows.
Sound(file) ==
  /\ file.bytes \in Nat \ {0}
  /\ file.blocks \in Seq(AnyBlock) \ {<<>>}
  /\ \A i \in DOMAIN file.blocks : file.blocks[i].offset < file.bytes
  /\ Len(file.blocks) > 1 => file.bytes <= SegmentMaxBytes

FilesInv ==
  /\ DOMAIN files = Series
  /\ \A s \in Series :
       /\ DOMAIN files[s] \subseteq Nat \ {0}
       /\ IsFiniteSet(DOMAIN files[s])
       /\ \A id \in DOMAIN files[s] : Sound(files[s][id])

\* What the steps need to know of the rest of the state.
MemoryInv ==
  /\ ids \in [Series -> SUBSET Nat]
  /\ active \in [Series -> Nat \ {0}]
  /\ path = active
  /\ DOMAIN index = Series
  /\ wal \in [Series -> Seq(Int)]
  /\ buffer \in [Series -> Seq(Int)]
  /\ cursor \in [Series -> Nat \ {0}]
  /\ target \in Series
  /\ arg \in Int
  /\ pc = "flush" => buffer[target] # <<>>

\* Series whose files a cleanup has changed, and nobody else's.
TouchedInv ==
  /\ touched \subseteq Series
  /\ touched # {} => pc \in {"evict", "reindex", "expire", "refresh"}
  /\ pc \in {"expire", "refresh"} => touched \subseteq {target}

\* The object of an open database and the directory.
ObjectInv(s) ==
  /\ \A id \in DOMAIN files[s] : id <= active[s]
  /\ s \notin touched =>
       /\ ids[s] = DOMAIN files[s]
       /\ index[s] = ScannedIndex(s, DOMAIN files[s])
  /\ s \notin touched \/ pc = "evict" =>
       (DOMAIN files[s] # {} => active[s] \in DOMAIN files[s])

\* A cleanup has picked what may go, retention all of it.
VictimsInv ==
  /\ pc = "evict" =>
       \A v \in victims : v.series \in Series /\ v.segment # active[v.series]
  /\ pc = "expire" =>
       /\ \A v \in victims :
            /\ v.series = target
            /\ v.segment \in DOMAIN files[target] =>
                 \A t \in PointsOf(files[target][v.segment]) : t < arg
       /\ \A id \in DOMAIN files[target] :
            \/ \E t \in PointsOf(files[target][id]) : t >= arg
            \/ \E v \in victims : v.segment = id

Good ==
  /\ FilesInv /\ MemoryInv /\ TouchedInv /\ VictimsInv
  /\ pc # "closed" => \A s \in Series : ObjectInv(s)

SegInv == faults \in Nat /\ (faults = 0 => Good)

-----------------------------------------------------------------------------
(* Files and index *)

\* The entries of an index are those of the blocks.
LEMMA EntriesOfBlocks ==
  ASSUME NEW s \in Series, NEW S, NEW e
  PROVE  e \in ScannedIndex(s, S) <=>
           \E id \in S : \E i \in DOMAIN files[s][id].blocks :
             e = IndexEntry(id, files[s][id].blocks[i])
BY DEF ScannedIndex

\* Range(q) for the points of a block.
LEMMA PointsFinite ==
  ASSUME NEW q \in Seq(Int) \ {<<>>}
  PROVE  /\ Range(q) \subseteq Int
         /\ Max(Range(q)) \in Range(q)
         /\ \A t \in Range(q) : t <= Max(Range(q))
<1>1. Len(q) \in Nat /\ DOMAIN q = 1..Len(q) /\ Len(q) # 0
  OBVIOUS
<1>2. Range(q) \subseteq Int
  BY DEF Range
<1>3. q[1] \in Range(q)
  BY <1>1 DEF Range
<1>4. IsFiniteSet(Range(q))
  BY <1>1, RangeFinite
<1> QED
  BY <1>2, <1>3, <1>4, MaxOfFinite

\* A segment file has blocks, and they have points.
LEMMA SoundBlocks ==
  ASSUME NEW file, Sound(file)
  PROVE  /\ file.bytes \in Nat \ {0}
         /\ file.blocks \in Seq(AnyBlock)
         /\ Len(file.blocks) \in Nat \ {0}
         /\ DOMAIN file.blocks = 1..Len(file.blocks)
         /\ \A i \in DOMAIN file.blocks : file.blocks[i].points \in Seq(Int) \ {<<>>}
<1> DEFINE B == file.blocks
<1>1. B \in Seq(AnyBlock) /\ B # <<>> /\ file.bytes \in Nat \ {0}
  BY DEF Sound
<1>2. \A b \in AnyBlock : b.points \in Seq(Int) \ {<<>>}
  BY DEF AnyBlock
<1> HIDE DEF B
<1>3. Len(B) \in Nat \ {0} /\ DOMAIN B = 1..Len(B)
  BY <1>1
<1>4. \A i \in DOMAIN B : B[i] \in AnyBlock
  BY <1>1, <1>3
<1> QED
  BY <1>1, <1>2, <1>3, <1>4 DEF B

\* By the index, the newest point of a segment is the newest of its file.
LEMMA NewestIsNewest ==
  ASSUME NEW s \in Series, NEW id \in DOMAIN files[s], Sound(files[s][id]),
         index[s] = ScannedIndex(s, DOMAIN files[s])
  PROVE  /\ Segment(s, id).newest \in PointsOf(files[s][id])
         /\ Segment(s, id).newest \in Int
         /\ PointsOf(files[s][id]) \subseteq Int
         /\ \A t \in PointsOf(files[s][id]) : t <= Segment(s, id).newest
<1> DEFINE B == files[s][id].blocks
           top == [i \in DOMAIN B |-> Max(Range(B[i].points))]
           New == {e.newest : e \in {x \in index[s] : x.segment = id}}
<1>1. /\ Len(B) \in Nat \ {0} /\ DOMAIN B = 1..Len(B)
      /\ \A i \in DOMAIN B : B[i].points \in Seq(Int) \ {<<>>}
  BY SoundBlocks
<1>2. \A i \in DOMAIN B : /\ Range(B[i].points) \subseteq Int
                          /\ top[i] \in Range(B[i].points)
                          /\ \A t \in Range(B[i].points) : t <= top[i]
  BY <1>1, PointsFinite
<1>3. \A i \in DOMAIN B : /\ IndexEntry(id, B[i]).segment = id
                          /\ IndexEntry(id, B[i]).newest = top[i]
  BY DEF IndexEntry
<1>4. \A k, b : IndexEntry(k, b).segment = k
  BY DEF IndexEntry
<1>5. New = Range(top)
  <2>1. ASSUME NEW x \in New PROVE x \in Range(top)
    <3>1. PICK e \in index[s] : e.segment = id /\ x = e.newest
      BY <2>1
    <3>2. PICK k \in DOMAIN files[s] : \E i \in DOMAIN files[s][k].blocks :
            e = IndexEntry(k, files[s][k].blocks[i])
      BY <3>1, EntriesOfBlocks
    <3>3. k = id
      BY <3>1, <3>2, <1>4
    <3>4. PICK i \in DOMAIN B : e = IndexEntry(id, B[i])
      BY <3>2, <3>3
    <3>5. x = top[i]
      BY <3>1, <3>4, <1>3
    <3> QED
      BY <3>5 DEF Range
  <2>2. ASSUME NEW x \in Range(top) PROVE x \in New
    <3>1. PICK i \in DOMAIN B : x = top[i]
      BY <2>2 DEF Range
    <3>2. IndexEntry(id, B[i]) \in index[s]
      BY EntriesOfBlocks
    <3> QED
      BY <3>1, <3>2, <1>3
  <2> QED
    BY <2>1, <2>2
<1>6. IsFiniteSet(New)
  BY <1>1, <1>5, RangeFinite
<1>7. New \subseteq Int /\ New # {}
  <2>1. \A i \in DOMAIN B : top[i] \in Int
    BY <1>2
  <2>2. 1 \in DOMAIN B
    BY <1>1
  <2> HIDE DEF New, B
  <2> QED
    BY <2>1, <2>2, <1>5 DEF Range
<1>8. Max(New) \in New /\ \A x \in New : x <= Max(New)
  BY <1>6, <1>7, MaxOfFinite
<1>9. Segment(s, id).newest = Max(New)
  BY DEF Segment
<1> DEFINE P == PointsOf(files[s][id])
<1>10. \A t : t \in P <=> \E i \in DOMAIN B : t \in Range(B[i].points)
  BY DEF PointsOf
<1> HIDE DEF New, B, P
<1>11. Max(New) \in P
  BY <1>8, <1>5, <1>2, <1>10 DEF Range
<1>12. P \subseteq Int
  BY <1>2, <1>10
<1>13. ASSUME NEW t \in P PROVE t <= Max(New)
  <2>1. PICK i \in DOMAIN B : t \in Range(B[i].points)
    BY <1>10
  <2>2. t <= top[i] /\ top[i] \in Int
    BY <2>1, <1>2
  <2>3. top[i] \in New
    BY <1>5 DEF Range
  <2>4. top[i] <= Max(New) /\ Max(New) \in Int /\ t \in Int
    BY <2>3, <1>7, <1>8, <1>12
  <2> HIDE DEF top
  <2> QED
    BY <2>2, <2>4
<1> QED
  BY <1>7, <1>8, <1>9, <1>11, <1>12, <1>13 DEF P

\* The segments that the index has are those of the files.
LEMMA SegmentsOfFiles ==
  ASSUME NEW s \in Series, \A id \in DOMAIN files[s] : Sound(files[s][id]),
         index[s] = ScannedIndex(s, DOMAIN files[s])
  PROVE  /\ \A c \in Segments(s) : \E id \in DOMAIN files[s] : c = Segment(s, id)
         /\ \A id \in DOMAIN files[s] : Segment(s, id) \in Segments(s)
<1>1. \A k, b : IndexEntry(k, b).segment = k
  BY DEF IndexEntry
<1>2. ASSUME NEW c \in Segments(s) PROVE \E id \in DOMAIN files[s] : c = Segment(s, id)
  <2>1. PICK e \in index[s] : c = Segment(s, e.segment)
    BY <1>2 DEF Segments
  <2> QED
    BY <2>1, <1>1, EntriesOfBlocks
<1>3. ASSUME NEW id \in DOMAIN files[s] PROVE Segment(s, id) \in Segments(s)
  <2>1. 1 \in DOMAIN files[s][id].blocks
    BY DEF Sound
  <2>2. IndexEntry(id, files[s][id].blocks[1]) \in index[s]
    BY <2>1, EntriesOfBlocks
  <2> QED
    BY <2>2, <1>1 DEF Segments
<1> QED
  BY <1>2, <1>3

\* LastId is the greatest id there is.
LEMMA LastIdIsLast ==
  ASSUME NEW S \in SUBSET (Nat \ {0}), IsFiniteSet(S)
  PROVE  /\ LastId(S) \in Nat \ {0}
         /\ \A id \in S : id <= LastId(S)
         /\ S # {} => LastId(S) \in S
<1>1. CASE S = {}
  BY <1>1 DEF LastId
<1>2. CASE S # {}
  <2>1. Max(S) \in S /\ \A x \in S : x <= Max(S)
    BY <1>2, MaxOfFinite
  <2> QED
    BY <2>1, <1>2 DEF LastId
<1> QED
  BY <1>1, <1>2

-----------------------------------------------------------------------------
(* Steps that leave files and index alone *)

\* A step within a call, or the end of a call on an open database.
LEMMA QuietStep ==
  ASSUME Good, MemoryInv', pc # "closed", pc' \notin {"closed", "evict", "expire"},
         UNCHANGED <<files, ids, active, index, touched>>,
         touched # {} => pc' \in {"reindex", "refresh"},
         pc' = "refresh" => touched \subseteq {target'}
  PROVE  Good'
<1>1. FilesInv'
  BY DEF Good, FilesInv
<1>2. TouchedInv'
  BY DEF Good, TouchedInv
<1>3. VictimsInv'
  BY DEF VictimsInv
<1>4. ASSUME NEW s \in Series PROVE ObjectInv(s)'
  BY DEF Good, ObjectInv, ScannedIndex
<1> QED
  BY <1>1, <1>2, <1>3, <1>4 DEF Good

\* The tsedge_db object goes, the files stay.
LEMMA ForgetStep ==
  ASSUME Good, Forget, UNCHANGED disk
  PROVE  Good'
<1>1. pc' = "closed" /\ touched' = {} /\ files' = files
  BY DEF Forget, Finish, Goto, disk
<1>2. Registry[1] \in Series /\ DOMAIN Registry = 1..Len(Registry) /\ Len(Registry) \in Nat \ {0}
  BY SegmentsAssumption DEF Series, Range
<1>3. MemoryInv'
  BY <1>1, <1>2 DEF Good, MemoryInv, Forget, Finish, Goto, Start, Nothing, disk
<1>4. FilesInv'
  BY <1>1 DEF Good, FilesInv
<1>5. TouchedInv' /\ VictimsInv'
  BY <1>1 DEF TouchedInv, VictimsInv
<1> QED
  BY <1>1, <1>3, <1>4, <1>5 DEF Good

\* A call returns.
LEMMA FinishStep ==
  ASSUME Good, pc # "closed", Finish("idle"), touched = {},
         UNCHANGED <<files, ids, active, path, index>>,
         wal' \in [Series -> Seq(Int)], buffer' \in [Series -> Seq(Int)]
  PROVE  Good'
<1>1. pc' = "idle" /\ touched' = {}
  BY DEF Finish, Goto
<1>2. Registry[1] \in Series
  BY SegmentsAssumption DEF Series, Range
<1>3. MemoryInv'
  BY <1>1, <1>2 DEF Good, MemoryInv, Finish, Goto, Start
<1> QED
  BY <1>1, <1>3, QuietStep

\* A step that ends a call and touches no file, index or cleanup.
LEMMA ReturnStep ==
  ASSUME Good, NEW r, Return(r), pc # "closed", touched = {}, UNCHANGED disk
  PROVE  Good'
<1>1. CASE Frees(r)
  BY <1>1, ForgetStep DEF Return
<1>2. CASE ~ Frees(r)
  <2>1. Finish("idle") /\ UNCHANGED <<segs, buffer, disk>>
    BY <1>2 DEF Return
  <2> QED
    BY <2>1, FinishStep DEF segs, disk, Good, MemoryInv
<1> QED
  BY <1>1, <1>2

\* Beginning a call: the flush of one series begins with something to write.
LEMMA StartStep ==
  ASSUME Good, NEW name, NEW s \in Series, NEW t \in Int, NEW label,
         label \in {"flush", "place", "next", "measure", "resume"},
         label = "flush" => buffer[s] # <<>>,
         Begin(name, s, t, label)
  PROVE  Good'
<1>1. /\ pc = "idle" /\ pc' = label /\ target' = s /\ arg' = t
      /\ UNCHANGED <<files, wal, ids, active, path, index, buffer, cursor, touched>>
  BY DEF Begin, Goto, disk, segs, work
<1>2. touched = {}
  BY <1>1 DEF Good, TouchedInv
<1>3. MemoryInv'
  BY <1>1 DEF Good, MemoryInv
<1> QED
  BY <1>1, <1>2, <1>3, QuietStep

\* Every way to begin a call leaves files and index alone.
LEMMA StartCallStep ==
  ASSUME Good, StartCall
  PROVE  Good'
<1>0. Capacity \in Nat \ {0} /\ Times \subseteq Int /\ Cutoffs \subseteq Int /\ Registry[1] \in Series
  BY SegmentsAssumption DEF Series, Range
<1>1. ASSUME NEW s \in Series, NEW t \in Times, StartAppend(s, t) PROVE Good'
  <2>1. Begin("append", s, t, IF Len(buffer[s]) >= Capacity THEN "flush" ELSE "place")
    BY <1>1 DEF StartAppend
  <2>2. Len(buffer[s]) >= Capacity => buffer[s] # <<>>
    BY <1>0
  <2> QED
    BY <2>1, <2>2, <1>0, StartStep
<1>2. ASSUME NEW name, NEW s \in Series, NEW t \in Int, StartFlush(name, s, t) PROVE Good'
  BY <1>2, StartStep DEF StartFlush
<1>3. ASSUME NEW name, StartWhole(name) PROVE Good'
  BY <1>3, <1>0, StartStep DEF StartWhole
<1>4. ASSUME NEW max_bytes, SetDiskQuota(max_bytes) PROVE Good'
  <2>1. /\ pc = "idle" /\ pc' = pc /\ UNCHANGED <<disk, segs, buffer, call, work>>
    BY <1>4 DEF SetDiskQuota
  <2>2. MemoryInv'
    BY <2>1 DEF Good, MemoryInv, disk, segs, call
  <2>3. touched = {} /\ touched' = {}
    BY <2>1 DEF Good, TouchedInv, work
  <2> QED
    BY <2>1, <2>2, <2>3, QuietStep DEF disk, segs
<1> QED
  BY <1>0, <1>1, <1>2, <1>3, <1>4 DEF StartCall

\* Replay puts points back and flushes a buffer only when it is full.
LEMMA ReplayStep ==
  ASSUME Good, NEW s \in Series, Replay(s)
  PROVE  Good'
<1>1. /\ pc = "replay" /\ cursor[s] <= Len(wal[s])
      /\ UNCHANGED <<files, wal, ids, active, path, index, arg, touched>>
  BY DEF Replay, disk, segs, work
<1>2. touched = {} /\ Capacity \in Nat \ {0}
  BY <1>1, SegmentsAssumption DEF Good, TouchedInv
<1>3. CASE Len(buffer[s]) >= Capacity
  <2>1. pc' = "flush" /\ target' = s /\ UNCHANGED <<buffer, cursor>>
    BY <1>3 DEF Replay, Goto
  <2>2. buffer[s] # <<>>
    BY <1>3, <1>2
  <2>3. MemoryInv'
    BY <1>1, <2>1, <2>2 DEF Good, MemoryInv
  <2> QED
    BY <1>1, <1>2, <2>1, <2>3, QuietStep
<1>4. CASE ~ (Len(buffer[s]) >= Capacity)
  <2>1. /\ buffer' = [buffer EXCEPT ![s] = Append(@, wal[s][cursor[s]])]
        /\ cursor' = [cursor EXCEPT ![s] = @ + 1]
        /\ pc' = pc /\ target' = target
    BY <1>4 DEF Replay
  <2>2. wal[s][cursor[s]] \in Int
    BY <1>1 DEF Good, MemoryInv
  <2>3. buffer' \in [Series -> Seq(Int)] /\ cursor' \in [Series -> Nat \ {0}]
    BY <2>1, <2>2 DEF Good, MemoryInv
  <2>4. MemoryInv'
    BY <1>1, <2>1, <2>3 DEF Good, MemoryInv
  <2> QED
    BY <1>1, <1>2, <2>1, <2>4, QuietStep
<1> QED
  BY <1>3, <1>4

\* Replay ends: the database is open, as the scan left it.
LEMMA ReplayEndsStep ==
  ASSUME Good, ReplayEnds
  PROVE  Good'
<1>1. pc = "replay" /\ Return("ok") /\ UNCHANGED disk
  BY DEF ReplayEnds
<1>2. touched = {}
  BY <1>1 DEF Good, TouchedInv
<1> QED
  BY <1>1, <1>2, ReturnStep

\* An append ends with its point in wal.log and in the buffer.
LEMMA PlaceStep ==
  ASSUME Good, Place
  PROVE  Good'
<1>1. pc = "place" /\ Finish("idle") /\ UNCHANGED <<files, segs>>
  BY DEF Place
<1>2. touched = {}
  BY <1>1 DEF Good, TouchedInv
<1>3. wal' \in [Series -> Seq(Int)] /\ buffer' \in [Series -> Seq(Int)]
  BY DEF Place, Good, MemoryInv
<1> QED
  BY <1>1, <1>2, <1>3, FinishStep DEF segs

\* tsedge_db_flush_all goes to the next series that has a buffer.
LEMMA NextSeriesStep ==
  ASSUME Good, NextSeries
  PROVE  Good'
<1> DEFINE full == {i \in DOMAIN Registry : buffer[Registry[i]] # <<>>}
<1>1. /\ pc = "next"
      /\ UNCHANGED <<files, wal, ids, active, path, index, buffer, arg, cursor, touched>>
  BY DEF NextSeries, disk, segs, work
<1>2. touched = {}
  BY <1>1 DEF Good, TouchedInv
<1>3. CASE full = {}
  <2>1. pc' = "truncate" /\ target' = target
    BY <1>3 DEF NextSeries, Goto
  <2>2. MemoryInv'
    BY <1>1, <2>1 DEF Good, MemoryInv
  <2> QED
    BY <1>1, <1>2, <2>1, <2>2, QuietStep
<1>4. CASE full # {}
  <2>1. pc' = "flush" /\ target' = Registry[Min(full)]
    BY <1>4 DEF NextSeries, Goto
  <2>2. DOMAIN Registry \subseteq Nat
    BY SegmentsAssumption
  <2>3. Min(full) \in full
    BY <1>4, <2>2, MinOfNats
  <2>4. Registry[Min(full)] \in Series /\ buffer[Registry[Min(full)]] # <<>>
    BY <2>3 DEF Series, Range
  <2>5. MemoryInv'
    BY <1>1, <2>1, <2>4 DEF Good, MemoryInv
  <2> QED
    BY <1>1, <1>2, <2>1, <2>5, QuietStep
<1> QED
  BY <1>3, <1>4

\* Rewriting wal.log changes no segment file and no index.
LEMMA TruncateWalStep ==
  ASSUME Good, TruncateWal
  PROVE  Good'
<1>1. /\ pc = "truncate" /\ pc' = "measure" /\ wal' = buffer
      /\ UNCHANGED <<files, ids, active, path, index, buffer, target, arg, cursor, touched>>
  BY DEF TruncateWal, Goto, segs, call, work
<1>2. touched = {}
  BY <1>1 DEF Good, TouchedInv
<1>3. MemoryInv'
  BY <1>1 DEF Good, MemoryInv
<1> QED
  BY <1>1, <1>2, <1>3, QuietStep

-----------------------------------------------------------------------------
(* Reading the index back from the files *)

\* Scanning the files of a series gives ids, active segment and index that agree
\* with them.
LEMMA ScanStep ==
  ASSUME NamedIds = Nat \ {0}, FilesInv, NEW s \in Series, UNCHANGED files,
         ids'[s] = Discovered(s),
         active'[s] = LastId(Discovered(s)),
         index'[s] = ScannedIndex(s, Discovered(s))
  PROVE  ObjectInv(s)' /\ ids'[s] \subseteq Nat /\ active'[s] \in Nat \ {0}
<1>1. Discovered(s) = DOMAIN files[s]
  BY DEF Discovered, FilesInv
<1>2. DOMAIN files[s] \in SUBSET (Nat \ {0}) /\ IsFiniteSet(DOMAIN files[s])
  BY DEF FilesInv
<1>3. /\ active'[s] \in Nat \ {0}
      /\ \A id \in DOMAIN files[s] : id <= active'[s]
      /\ DOMAIN files[s] # {} => active'[s] \in DOMAIN files[s]
  BY <1>1, <1>2, LastIdIsLast
<1>4. ScannedIndex(s, DOMAIN files[s])' = ScannedIndex(s, DOMAIN files[s])
  BY DEF ScannedIndex
<1> QED
  BY <1>1, <1>2, <1>3, <1>4 DEF ObjectInv

\* Open: the index of every series is made from the files, with no cleanup under way.
LEMMA OpenStep ==
  ASSUME NamedIds = Nat \ {0}, Good, Open
  PROVE  Good'
<1>1. /\ pc = "closed" /\ pc' = "replay" /\ touched = {}
      /\ UNCHANGED <<files, wal, buffer, target, arg, cursor, touched>>
  BY DEF Open, Goto, disk, work, Good, TouchedInv
<1>2. /\ ids' = [s \in Series |-> Discovered(s)]
      /\ active' = [s \in Series |-> LastId(Discovered(s))]
      /\ path' = active'
      /\ index' = [s \in Series |-> ScannedIndex(s, Discovered(s))]
  BY DEF Open
<1>3. \A s \in Series : ObjectInv(s)' /\ ids'[s] \subseteq Nat /\ active'[s] \in Nat \ {0}
  BY <1>1, <1>2, ScanStep DEF Good
<1>4. MemoryInv'
  <2>1. /\ ids' \in [Series -> SUBSET Nat] /\ active' \in [Series -> Nat \ {0}]
        /\ DOMAIN index' = Series
    BY <1>2, <1>3
  <2> QED
    BY <2>1, <1>1, <1>2 DEF Good, MemoryInv
<1>5. FilesInv'
  BY <1>1 DEF Good, FilesInv
<1>6. TouchedInv' /\ VictimsInv'
  BY <1>1 DEF TouchedInv, VictimsInv
<1> QED
  BY <1>3, <1>4, <1>5, <1>6 DEF Good

\* The series that is rebuilt next is one of those that are to be.
LEMMA NextTouchedIn ==
  ASSUME touched \subseteq Series, touched # {}
  PROVE  NextTouched \in touched
<1> DEFINE places == {Position(z) : z \in touched}
<1>1. \A z \in touched : Position(z) \in DOMAIN Registry /\ Registry[Position(z)] = z
  <2> TAKE z \in touched
  <2>1. \E i \in DOMAIN Registry : Registry[i] = z
    BY DEF Series, Range
  <2> QED
    BY <2>1 DEF Position
<1>2. DOMAIN Registry \subseteq Nat
  BY SegmentsAssumption
<1>3. Min(places) \in places
  BY <1>1, <1>2, MinOfNats
<1>4. PICK z \in touched : Min(places) = Position(z)
  BY <1>3
<1> QED
  BY <1>1, <1>4 DEF NextTouched

\* A rebuild after a cleanup: the index of the next touched series is a scan again.
LEMMA RebuildStep ==
  ASSUME NamedIds = Nat \ {0}, Good, Rebuild
  PROVE  Good'
<1>1. NextTouched \in touched
  BY NextTouchedIn DEF Rebuild, Good, TouchedInv
<1>2. PICK s \in Series : s = NextTouched /\ s \in touched
  BY <1>1 DEF Good, TouchedInv
<1>3. /\ pc \in {"reindex", "refresh"} /\ touched # {} /\ pc' = pc
      /\ ids' = [ids EXCEPT ![s] = Discovered(s)]
      /\ active' = [active EXCEPT ![s] = LastId(Discovered(s))]
      /\ path' = [path EXCEPT ![s] = active'[s]]
      /\ index' = [index EXCEPT ![s] = ScannedIndex(s, Discovered(s))]
      /\ touched' = touched \ {s}
      /\ UNCHANGED <<files, wal, buffer, target, arg, cursor>>
  BY <1>2 DEF Rebuild, disk, call
<1>4. /\ ids'[s] = Discovered(s) /\ active'[s] = LastId(Discovered(s))
      /\ index'[s] = ScannedIndex(s, Discovered(s))
      /\ \A z \in Series \ {s} : ids'[z] = ids[z] /\ active'[z] = active[z] /\ index'[z] = index[z]
  BY <1>3, <1>2 DEF Good, MemoryInv
<1>5. ObjectInv(s)' /\ ids'[s] \subseteq Nat /\ active'[s] \in Nat \ {0}
  BY <1>3, <1>2, <1>4, ScanStep DEF Good
<1>6. ASSUME NEW z \in Series, z # s PROVE ObjectInv(z)'
  <2>1. ObjectInv(z)
    BY <1>3 DEF Good
  <2>2. ids'[z] = ids[z] /\ active'[z] = active[z] /\ index'[z] = index[z]
    BY <1>4, <1>6
  <2> QED
    BY <2>1, <2>2, <1>3, <1>6 DEF ObjectInv, ScannedIndex
<1>7. MemoryInv'
  <2>1. ids' \in [Series -> SUBSET Nat] /\ active' \in [Series -> Nat \ {0}] /\ DOMAIN index' = Series
    BY <1>3, <1>4, <1>5 DEF Good, MemoryInv
  <2>2. path' = active'
    BY <1>3, <1>2, <1>4 DEF Good, MemoryInv
  <2> QED
    BY <1>3, <2>1, <2>2 DEF Good, MemoryInv
<1>8. FilesInv'
  BY <1>3 DEF Good, FilesInv
<1>9. TouchedInv' /\ VictimsInv'
  BY <1>3 DEF Good, TouchedInv, VictimsInv
<1> QED
  BY <1>3, <1>5, <1>6, <1>7, <1>8, <1>9 DEF Good

-----------------------------------------------------------------------------
(* Retention *)

\* What retention picks has only older points, and what it leaves has a newer one.
LEMMA ExpiredIsOlder ==
  ASSUME NEW s \in Series, NEW cutoff \in Int, \A id \in DOMAIN files[s] : Sound(files[s][id]),
         index[s] = ScannedIndex(s, DOMAIN files[s])
  PROVE  /\ \A v \in Expired(s, cutoff) :
              /\ v.series = s /\ v.segment \in DOMAIN files[s]
              /\ \A t \in PointsOf(files[s][v.segment]) : t < cutoff
         /\ \A id \in DOMAIN files[s] :
              \/ \E t \in PointsOf(files[s][id]) : t >= cutoff
              \/ \E v \in Expired(s, cutoff) : v.segment = id
<1>1. \A id : Segment(s, id).series = s /\ Segment(s, id).segment = id
  BY DEF Segment
<1>2. ASSUME NEW v \in Expired(s, cutoff)
      PROVE  /\ v.series = s /\ v.segment \in DOMAIN files[s]
             /\ \A t \in PointsOf(files[s][v.segment]) : t < cutoff
  <2>1. v \in Segments(s) /\ v.newest < cutoff
    BY <1>2 DEF Expired
  <2>2. PICK id \in DOMAIN files[s] : v = Segment(s, id)
    BY <2>1, SegmentsOfFiles
  <2>3. v.series = s /\ v.segment = id
    BY <2>2, <1>1
  <2>4. ASSUME NEW t \in PointsOf(files[s][id]) PROVE t < cutoff
    <3>1. t \in Int /\ t <= v.newest /\ v.newest \in Int
      BY <2>2, NewestIsNewest
    <3> QED
      BY <3>1, <2>1
  <2> QED
    BY <2>3, <2>4
<1>3. ASSUME NEW id \in DOMAIN files[s], ~ \E v \in Expired(s, cutoff) : v.segment = id
      PROVE  \E t \in PointsOf(files[s][id]) : t >= cutoff
  <2>1. Segment(s, id) \in Segments(s) /\ Segment(s, id) \notin Expired(s, cutoff)
    BY <1>1, <1>3, SegmentsOfFiles
  <2>2. ~ (Segment(s, id).newest < cutoff)
    BY <2>1 DEF Expired
  <2>3. Segment(s, id).newest \in PointsOf(files[s][id]) /\ Segment(s, id).newest \in Int
    BY NewestIsNewest
  <2> QED
    BY <2>2, <2>3
<1> QED
  BY <1>2, <1>3

\* The flush of tsedge_delete_before ends, and its victims are picked.
LEMMA ResumeStep ==
  ASSUME Good, Resume
  PROVE  Good'
<1>1. pc = "resume" /\ UNCHANGED disk
  BY DEF Resume
<1>2. touched = {}
  BY <1>1 DEF Good, TouchedInv
<1>3. CASE op = "append"
  <2>1. pc' = "place" /\ UNCHANGED <<segs, buffer, call, work>>
    BY <1>3 DEF Resume, Goto
  <2>2. MemoryInv'
    BY <1>1, <2>1 DEF Good, MemoryInv, disk, segs, call
  <2> QED
    BY <1>1, <1>2, <2>1, <2>2, QuietStep DEF disk, segs, work
<1>4. CASE op = "delete_before"
  <2>1. /\ victims' = Expired(target, arg) /\ pc' = "expire"
        /\ UNCHANGED <<segs, buffer, call, touched>>
    BY <1>4 DEF Resume, Goto
  <2>2. UNCHANGED <<files, wal, ids, active, path, index, target, arg, cursor>>
    BY <1>1, <2>1 DEF disk, segs, call
  <2>3. MemoryInv' /\ FilesInv' /\ TouchedInv'
    BY <1>1, <1>2, <2>1, <2>2 DEF Good, MemoryInv, FilesInv, TouchedInv
  <2>4. \A s \in Series : ObjectInv(s)'
    BY <1>1, <1>2, <2>1, <2>2 DEF Good, ObjectInv, ScannedIndex
  <2>5. /\ target \in Series /\ arg \in Int
        /\ \A id \in DOMAIN files[target] : Sound(files[target][id])
        /\ index[target] = ScannedIndex(target, DOMAIN files[target])
    BY <1>1, <1>2 DEF Good, MemoryInv, FilesInv, ObjectInv
  <2>6. VictimsInv'
    BY <2>1, <2>2, <2>5, ExpiredIsOlder DEF VictimsInv, PointsOf
  <2> QED
    BY <2>3, <2>4, <2>6 DEF Good
<1>5. CASE op # "append" /\ op # "delete_before"
  <2>1. Return("ok")
    BY <1>5 DEF Resume
  <2> QED
    BY <1>1, <1>2, <2>1, ReturnStep
<1> QED
  BY <1>3, <1>4, <1>5

\* One file less, and no other change of the files.
LEMMA UnlinkStep ==
  ASSUME FilesInv, NEW v, v.series \in Series, Unlink(v)
  PROVE  /\ FilesInv'
         /\ DOMAIN files'[v.series] = DOMAIN files[v.series] \ {v.segment}
         /\ \A id \in DOMAIN files'[v.series] : files'[v.series][id] = files[v.series][id]
         /\ \A z \in Series \ {v.series} : files'[z] = files[z]
<1> DEFINE s == v.series
           rest == DOMAIN files[s] \ {v.segment}
<1>1. files' = [files EXCEPT ![s] = Restrict(@, rest)]
  BY DEF Unlink
<1>2. files'[s] = Restrict(files[s], rest) /\ DOMAIN files' = Series
  BY <1>1 DEF FilesInv
<1>3. DOMAIN files'[s] = rest /\ \A id \in rest : files'[s][id] = files[s][id]
  BY <1>2 DEF Restrict
<1>4. \A z \in Series \ {s} : files'[z] = files[z]
  BY <1>1 DEF FilesInv
<1>5. IsFiniteSet(rest)
  BY FS_Subset DEF FilesInv
<1>6. ASSUME NEW z \in Series
      PROVE  /\ DOMAIN files'[z] \subseteq Nat \ {0}
             /\ IsFiniteSet(DOMAIN files'[z])
             /\ \A id \in DOMAIN files'[z] : Sound(files'[z][id])
  <2>1. CASE z = s
    BY <2>1, <1>3, <1>5 DEF FilesInv
  <2>2. CASE z # s
    BY <2>2, <1>4 DEF FilesInv
  <2> QED
    BY <2>1, <2>2
<1> QED
  BY <1>2, <1>3, <1>4, <1>6 DEF FilesInv

\* Retention unlinks one segment; its series has counted as touched from the first.
LEMMA ExpireStep ==
  ASSUME Good, Expire
  PROVE  Good'
<1>1. PICK victim \in victims : Unlink(victim) /\ victims' = victims \ {victim}
  BY DEF Expire
<1>2. /\ pc = "expire" /\ pc' = pc /\ touched' = {target}
      /\ UNCHANGED <<wal, ids, active, path, index, buffer, target, arg, cursor>>
  BY DEF Expire, segs, call
<1>3. victim.series = target /\ target \in Series /\ touched \subseteq {target}
  BY <1>1, <1>2 DEF Good, VictimsInv, MemoryInv, TouchedInv
<1>4. /\ FilesInv'
      /\ DOMAIN files'[target] = DOMAIN files[target] \ {victim.segment}
      /\ \A id \in DOMAIN files'[target] : files'[target][id] = files[target][id]
      /\ \A z \in Series \ {target} : files'[z] = files[z]
  BY <1>1, <1>3, UnlinkStep DEF Good
<1>5. MemoryInv' /\ TouchedInv'
  BY <1>2, <1>3 DEF Good, MemoryInv, TouchedInv
<1>6. VictimsInv'
  <2>1. ASSUME NEW v \in victims'
        PROVE  /\ v.series = target
               /\ v.segment \in DOMAIN files'[target] =>
                    \A t \in PointsOf(files'[target][v.segment]) : t < arg
    BY <2>1, <1>1, <1>2, <1>4 DEF Good, VictimsInv
  <2>2. ASSUME NEW id \in DOMAIN files'[target]
        PROVE  \/ \E t \in PointsOf(files'[target][id]) : t >= arg
               \/ \E v \in victims' : v.segment = id
    <3>1. id \in DOMAIN files[target] /\ id # victim.segment /\ files'[target][id] = files[target][id]
      BY <1>4
    <3>2. \/ \E t \in PointsOf(files[target][id]) : t >= arg
          \/ \E v \in victims : v.segment = id
      BY <3>1, <1>2 DEF Good, VictimsInv
    <3> QED
      BY <3>1, <3>2, <1>1
  <2> QED
    BY <2>1, <2>2, <1>2 DEF VictimsInv, PointsOf
<1>7. ASSUME NEW s \in Series PROVE ObjectInv(s)'
  <2>1. ObjectInv(s)
    BY <1>2 DEF Good
  <2>2. CASE s = target
    BY <2>1, <2>2, <1>2, <1>4 DEF ObjectInv
  <2>3. CASE s # target
    BY <2>1, <2>3, <1>2, <1>3, <1>4 DEF ObjectInv, ScannedIndex
  <2> QED
    BY <2>2, <2>3
<1> QED
  BY <1>4, <1>5, <1>6, <1>7 DEF Good

\* Retention has unlinked all it picked.
LEMMA ExpireEndsStep ==
  ASSUME Good, ExpireEnds
  PROVE  Good'
<1>1. /\ pc = "expire" /\ pc' = "refresh"
      /\ UNCHANGED <<files, wal, ids, active, path, index, buffer, target, arg, cursor, touched>>
  BY DEF ExpireEnds, Goto, disk, segs, call, work
<1>2. MemoryInv' /\ touched \subseteq {target}
  BY <1>1 DEF Good, MemoryInv, TouchedInv
<1> QED
  BY <1>1, <1>2, QuietStep

\* Retention has rebuilt the index and returns.
LEMMA RefreshedStep ==
  ASSUME Good, Refreshed
  PROVE  Good'
BY ReturnStep DEF Refreshed

-----------------------------------------------------------------------------
(* Quota *)

\* A candidate is not the active segment.
LEMMA SealedIsNotActive ==
  ASSUME NEW s \in Series, NEW v \in Sealed(s)
  PROVE  v.series = s /\ v.segment # active[s]
<1>1. v \in Segments(s) /\ v.segment # active[s]
  BY DEF Sealed
<1>2. PICK e \in index[s] : v = Segment(s, e.segment)
  BY <1>1 DEF Segments
<1>3. Segment(s, e.segment).series = s
  BY DEF Segment
<1> QED
  BY <1>1, <1>2, <1>3

\* The quota measures the directory and picks candidates, never an active segment.
LEMMA MeasureStep ==
  ASSUME Good, Measure
  PROVE  Good'
<1>1. /\ pc = "measure"
      /\ UNCHANGED <<files, wal, ids, active, path, index, buffer, target, arg, cursor, touched>>
  BY DEF Measure, disk, segs, call
<1>2. touched = {}
  BY <1>1 DEF Good, TouchedInv
<1>3. CASE pc' = "resume"
  <2>1. MemoryInv'
    BY <1>1, <1>3 DEF Good, MemoryInv
  <2> QED
    BY <1>1, <1>2, <1>3, <2>1, QuietStep
<1>4. CASE pc' = "evict" /\ victims' = UNION {Sealed(s) : s \in Series}
  <2>1. MemoryInv' /\ FilesInv' /\ TouchedInv'
    BY <1>1, <1>2, <1>4 DEF Good, MemoryInv, FilesInv, TouchedInv
  <2>2. \A s \in Series : ObjectInv(s)'
    BY <1>1, <1>2, <1>4 DEF Good, ObjectInv, ScannedIndex
  <2>3. VictimsInv'
    BY <1>1, <1>4, SealedIsNotActive DEF VictimsInv
  <2> QED
    BY <2>1, <2>2, <2>3 DEF Good
<1> QED
  BY <1>3, <1>4 DEF Measure, Goto

\* What one iteration of the cleanup removes.
LEMMA EvictedFile ==
  ASSUME Good, Evict
  PROVE  \E v \in victims :
           /\ v.series \in Series /\ v.segment # active[v.series]
           /\ FilesInv'
           /\ touched' = touched \union {v.series} /\ victims' = victims \ {v}
           /\ DOMAIN files'[v.series] = DOMAIN files[v.series] \ {v.segment}
           /\ \A id \in DOMAIN files'[v.series] : files'[v.series][id] = files[v.series][id]
           /\ \A z \in Series \ {v.series} : files'[z] = files[z]
<1>1. PICK v \in victims : Unlink(v) /\ touched' = touched \union {v.series} /\ victims' = victims \ {v}
  BY DEF Evict
<1>2. v.series \in Series /\ v.segment # active[v.series]
  BY DEF Evict, Good, VictimsInv
<1> QED
  BY <1>1, <1>2, UnlinkStep DEF Good

\* The quota unlinks one candidate; its series becomes touched.
LEMMA EvictStep ==
  ASSUME Good, Evict
  PROVE  Good'
<1>1. PICK v \in victims :
           /\ v.series \in Series /\ v.segment # active[v.series]
           /\ FilesInv'
           /\ touched' = touched \union {v.series} /\ victims' = victims \ {v}
           /\ DOMAIN files'[v.series] = DOMAIN files[v.series] \ {v.segment}
           /\ \A id \in DOMAIN files'[v.series] : files'[v.series][id] = files[v.series][id]
           /\ \A z \in Series \ {v.series} : files'[z] = files[z]
  BY EvictedFile
<1>2. /\ pc = "evict" /\ pc' = pc
      /\ UNCHANGED <<wal, ids, active, path, index, buffer, target, arg, cursor>>
  BY DEF Evict, segs, call
<1>3. MemoryInv' /\ TouchedInv' /\ VictimsInv'
  BY <1>1, <1>2 DEF Good, MemoryInv, TouchedInv, VictimsInv
<1>4. ASSUME NEW s \in Series PROVE ObjectInv(s)'
  <2>1. ObjectInv(s)
    BY <1>2 DEF Good
  <2>2. CASE s = v.series
    BY <2>1, <2>2, <1>1, <1>2 DEF ObjectInv
  <2>3. CASE s # v.series
    BY <2>1, <2>3, <1>1, <1>2 DEF ObjectInv, ScannedIndex
  <2> QED
    BY <2>2, <2>3
<1> QED
  BY <1>1, <1>3, <1>4 DEF Good

\* The quota has unlinked enough, or there is nothing more to unlink.
LEMMA EvictEndsStep ==
  ASSUME Good, EvictEnds
  PROVE  Good'
<1>1. /\ pc = "evict" /\ pc' = "reindex"
      /\ UNCHANGED <<files, wal, ids, active, path, index, buffer, target, arg, cursor, touched>>
  BY DEF EvictEnds, Goto, disk, segs, call
<1>2. MemoryInv'
  BY <1>1 DEF Good, MemoryInv
<1> QED
  BY <1>1, <1>2, QuietStep

\* The verdict of the quota changes no file and no index.
LEMMA JudgeStep ==
  ASSUME Good, Judge
  PROVE  Good'
<1>1. pc = "reindex" /\ touched = {} /\ UNCHANGED disk
  BY DEF Judge
<1>2. CASE size <= quota
  <2>1. /\ pc' = "resume"
        /\ UNCHANGED <<ids, active, path, index, buffer, target, arg, cursor, touched>>
    BY <1>2 DEF Judge, Goto, segs, call
  <2>2. MemoryInv'
    BY <1>1, <2>1 DEF Good, MemoryInv, disk
  <2> QED
    BY <1>1, <2>1, <2>2, QuietStep DEF disk
<1>3. CASE ~ (size <= quota) /\ Frees("quota")
  BY <1>1, <1>3, ForgetStep DEF Judge
<1>4. CASE ~ (size <= quota) /\ ~ Frees("quota")
  <2>1. Finish("idle") /\ UNCHANGED <<segs, buffer>>
    BY <1>4 DEF Judge
  <2> QED
    BY <1>1, <2>1, FinishStep DEF segs, disk, Good, MemoryInv
<1> QED
  BY <1>2, <1>3, <1>4

-----------------------------------------------------------------------------
(* A block is written *)

\* Rotation starts a file that does not exist, or the block still fits.
LEMMA RotationFits ==
  ASSUME Good, NEW n \in BlockSizes, pc # "closed", NEW s \in Series
  PROVE  /\ NextPath(s, n) = NextActive(s, n)
         /\ NextPath(s, n) \in Nat \ {0}
         /\ \A id \in DOMAIN files[s] : id <= NextPath(s, n)
         /\ NextPath(s, n) \in DOMAIN files[s] =>
              files[s][NextPath(s, n)].bytes + n <= SegmentMaxBytes
<1>1. /\ path[s] = active[s] /\ active[s] \in Nat \ {0}
      /\ \A id \in DOMAIN files[s] : id <= active[s] /\ id \in Nat
      /\ n \in Nat \ {0} /\ SegmentMaxBytes \in Nat
  BY SegmentsAssumption DEF Good, MemoryInv, ObjectInv, FilesInv
<1>2. CASE Rotates(s, n)
  BY <1>1, <1>2 DEF NextPath, NextActive
<1>3. CASE ~ Rotates(s, n)
  <2>1. NextPath(s, n) = active[s] /\ NextActive(s, n) = active[s]
    BY <1>1, <1>3 DEF NextPath, NextActive
  <2>2. ASSUME active[s] \in DOMAIN files[s]
        PROVE  files[s][active[s]].bytes + n <= SegmentMaxBytes
    <3>1. files[s][active[s]].bytes \in Nat \ {0}
      BY <2>2, SoundBlocks DEF Good, FilesInv
    <3>2. File(s, path[s]).bytes = files[s][active[s]].bytes
      BY <2>2, <1>1 DEF File
    <3> QED
      BY <3>1, <3>2, <1>1, <1>3 DEF Rotates
  <2> QED
    BY <1>1, <2>1, <2>2
<1> QED
  BY <1>2, <1>3

\* What appending a block makes of a file.
LEMMA AppendSound ==
  ASSUME NEW bytes \in Nat, NEW blocks \in Seq(AnyBlock), NEW n \in Nat \ {0},
         NEW points \in Seq(Int) \ {<<>>},
         \A i \in DOMAIN blocks : blocks[i].offset < bytes,
         blocks # <<>> => bytes + n <= SegmentMaxBytes
  PROVE  Sound([blocks |-> Append(blocks, [points |-> points, offset |-> bytes]),
                bytes |-> bytes + n])
<1> DEFINE block == [points |-> points, offset |-> bytes]
           new == Append(blocks, block)
           file == [blocks |-> new, bytes |-> bytes + n]
<1>1. block \in AnyBlock /\ block.offset = bytes
  BY DEF AnyBlock
<1>2. \A b \in AnyBlock : b.offset \in Nat
  BY DEF AnyBlock
<1> HIDE DEF block
<1>3. /\ new \in Seq(AnyBlock) /\ new # <<>> /\ Len(new) = Len(blocks) + 1 /\ Len(blocks) \in Nat
      /\ DOMAIN new = 1..Len(new) /\ DOMAIN blocks = 1..Len(blocks)
      /\ new[Len(new)] = block
      /\ \A i \in DOMAIN blocks : new[i] = blocks[i] /\ blocks[i] \in AnyBlock
  BY <1>1
<1>4. ASSUME NEW i \in DOMAIN new PROVE new[i].offset < bytes + n
  <2>1. CASE i = Len(new)
    BY <2>1, <1>1, <1>3
  <2>2. CASE i # Len(new)
    <3>1. i \in DOMAIN blocks
      BY <2>2, <1>3
    <3>2. new[i].offset < bytes /\ new[i].offset \in Nat
      BY <3>1, <1>2, <1>3
    <3> QED
      BY <3>2
  <2> QED
    BY <2>1, <2>2
<1>5. Len(new) > 1 => bytes + n <= SegmentMaxBytes
  BY <1>3
<1>6. file.blocks = new /\ file.bytes = bytes + n
  OBVIOUS
<1> HIDE DEF new, file
<1>7. Sound(file)
  BY <1>3, <1>4, <1>5, <1>6 DEF Sound
<1> QED
  BY <1>7 DEF file, new, block

\* The block that is written and the file it goes to.
Written(n, id, bytes, blocks) ==
  LET block == [points |-> buffer[target], offset |-> bytes]
      new   == [blocks |-> Append(blocks, block), bytes |-> bytes + n]
  IN /\ \A k \in DOMAIN files[target] : k <= id
     /\ \/ /\ id \in DOMAIN files[target]
           /\ bytes = files[target][id].bytes /\ blocks = files[target][id].blocks
        \/ id \notin DOMAIN files[target] /\ bytes = 0 /\ blocks = <<>>
     /\ Sound(new)
     /\ files' = [files EXCEPT ![target] = Put(@, id, new)]
     /\ active' = [active EXCEPT ![target] = id]
     /\ path' = [path EXCEPT ![target] = id]
     /\ ids' = [ids EXCEPT ![target] = @ \union {id}]
     /\ index' = [index EXCEPT ![target] = @ \union {IndexEntry(id, block)}]

\* A block appended to the active segment is in the file and in the index.
LEMMA BlockWritten ==
  ASSUME Good, NEW n \in BlockSizes, WriteBlock(n)
  PROVE  \E id \in Nat \ {0} : \E bytes \in Nat : \E blocks \in Seq(AnyBlock) :
           Written(n, id, bytes, blocks)
<1> DEFINE id == NextPath(target, n)
           bytes == File(target, id).bytes
           blocks == File(target, id).blocks
           points == buffer[target]
<1>1. pc = "flush" /\ target \in Series
  BY DEF WriteBlock, Good, MemoryInv
<1>2. /\ id = NextActive(target, n) /\ id \in Nat \ {0}
      /\ \A k \in DOMAIN files[target] : k <= id
      /\ id \in DOMAIN files[target] => files[target][id].bytes + n <= SegmentMaxBytes
  BY <1>1, RotationFits
<1>3. points \in Seq(Int) \ {<<>>} /\ n \in Nat \ {0}
  BY <1>1, SegmentsAssumption DEF Good, MemoryInv
<1>4. \/ /\ id \in DOMAIN files[target]
         /\ bytes = files[target][id].bytes /\ blocks = files[target][id].blocks
      \/ id \notin DOMAIN files[target] /\ bytes = 0 /\ blocks = <<>>
  BY DEF File, NoFile
<1>5. /\ bytes \in Nat /\ blocks \in Seq(AnyBlock)
      /\ \A i \in DOMAIN blocks : blocks[i].offset < bytes
      /\ blocks # <<>> => bytes + n <= SegmentMaxBytes
  <2>1. CASE id \in DOMAIN files[target]
    <3>1. Sound(files[target][id])
      BY <2>1, <1>1 DEF Good, FilesInv
    <3>2. bytes = files[target][id].bytes /\ blocks = files[target][id].blocks
      BY <2>1, <1>4
    <3> HIDE DEF bytes, blocks, id
    <3> QED
      BY <3>1, <3>2, <2>1, <1>2, SoundBlocks DEF Sound
  <2>2. CASE id \notin DOMAIN files[target]
    <3>1. bytes = 0 /\ blocks = <<>>
      BY <2>2, <1>4
    <3> HIDE DEF bytes, blocks
    <3> QED
      BY <3>1
  <2> QED
    BY <2>1, <2>2
<1>6. /\ files' = [files EXCEPT ![target] =
                     Put(@, id, [blocks |-> Append(blocks, [points |-> points, offset |-> bytes]),
                                 bytes |-> bytes + n])]
      /\ active' = [active EXCEPT ![target] = NextActive(target, n)]
      /\ path' = [path EXCEPT ![target] = id]
      /\ ids' = [ids EXCEPT ![target] = @ \union {NextActive(target, n)}]
      /\ index' = [index EXCEPT ![target] =
                     @ \union {IndexEntry(NextActive(target, n), [points |-> points, offset |-> bytes])}]
  BY DEF WriteBlock, Rotate
<1> HIDE DEF id, bytes, blocks, points
<1>7. Sound([blocks |-> Append(blocks, [points |-> points, offset |-> bytes]), bytes |-> bytes + n])
  BY <1>3, <1>5, AppendSound
<1>8. Written(n, id, bytes, blocks)
  BY <1>2, <1>4, <1>6, <1>7 DEF Written, points
<1> QED
  BY <1>2, <1>5, <1>8

\* Rotating and appending a block keeps files and index in step.
LEMMA WriteBlockStep ==
  ASSUME Good, NEW n \in BlockSizes, WriteBlock(n)
  PROVE  Good'
<1>1. PICK id \in Nat \ {0}, bytes \in Nat, blocks \in Seq(AnyBlock) :
        Written(n, id, bytes, blocks)
  BY BlockWritten
<1>2. PICK s \in Series : s = target
  BY DEF Good, MemoryInv
<1>3. /\ pc = "flush" /\ pc' \in {"replay", "next", "truncate"}
      /\ buffer' = [buffer EXCEPT ![s] = <<>>]
      /\ UNCHANGED <<wal, target, arg, cursor, touched>>
  <2>1. pc' \in {"replay", "next", "truncate"}
    BY DEF WriteBlock, Goto
  <2> QED
    BY <2>1, <1>2 DEF WriteBlock, call, work
<1>4. touched = {}
  BY <1>3 DEF Good, TouchedInv
<1>5. PICK block : block = [points |-> buffer[s], offset |-> bytes]
  OBVIOUS
<1>6. PICK new : new = [blocks |-> Append(blocks, block), bytes |-> bytes + n]
  OBVIOUS
<1>7. /\ \A k \in DOMAIN files[s] : k <= id
      /\ \/ /\ id \in DOMAIN files[s]
            /\ bytes = files[s][id].bytes /\ blocks = files[s][id].blocks
         \/ id \notin DOMAIN files[s] /\ bytes = 0 /\ blocks = <<>>
      /\ Sound(new)
      /\ files' = [files EXCEPT ![s] = Put(@, id, new)]
      /\ active' = [active EXCEPT ![s] = id]
      /\ path' = [path EXCEPT ![s] = id]
      /\ ids' = [ids EXCEPT ![s] = @ \union {id}]
      /\ index' = [index EXCEPT ![s] = @ \union {IndexEntry(id, block)}]
  BY <1>1, <1>2, <1>5, <1>6 DEF Written
<1>8. /\ DOMAIN files' = Series
      /\ DOMAIN files'[s] = DOMAIN files[s] \union {id}
      /\ files'[s][id] = new
      /\ \A k \in DOMAIN files[s] : k # id => files'[s][k] = files[s][k]
      /\ \A z \in Series \ {s} : files'[z] = files[z]
  <2>1. /\ DOMAIN files' = Series /\ files'[s] = Put(files[s], id, new)
        /\ \A z \in Series \ {s} : files'[z] = files[z]
    BY <1>7 DEF Good, FilesInv
  <2>2. PICK f : f = Put(files[s], id, new)
    OBVIOUS
  <2>3. /\ DOMAIN f = DOMAIN files[s] \union {id} /\ f[id] = new
        /\ \A k \in DOMAIN files[s] : k # id => f[k] = files[s][k]
    BY <2>2 DEF Put
  <2> QED
    BY <2>1, <2>2, <2>3
<1>9. new.blocks = Append(blocks, block) /\ new.bytes = bytes + n
  BY <1>6
<1>10. FilesInv'
  <2>1. IsFiniteSet(DOMAIN files[s] \union {id})
    BY FS_AddElement DEF Good, FilesInv
  <2>2. ASSUME NEW z \in Series
        PROVE  /\ DOMAIN files'[z] \subseteq Nat \ {0}
               /\ IsFiniteSet(DOMAIN files'[z])
               /\ \A k \in DOMAIN files'[z] : Sound(files'[z][k])
    <3>1. CASE z = s
      <4>1. \A k \in DOMAIN files'[s] : Sound(files'[s][k])
        BY <1>7, <1>8 DEF Good, FilesInv
      <4> QED
        BY <3>1, <4>1, <2>1, <1>8 DEF Good, FilesInv
    <3>2. CASE z # s
      BY <3>2, <1>8 DEF Good, FilesInv
    <3> QED
      BY <3>1, <3>2
  <2> QED
    BY <2>2, <1>8 DEF FilesInv
<1>11. MemoryInv'
  <2>1. /\ ids' \in [Series -> SUBSET Nat] /\ active' \in [Series -> Nat \ {0}]
        /\ path' = active' /\ DOMAIN index' = Series
    BY <1>7 DEF Good, MemoryInv
  <2>2. buffer' \in [Series -> Seq(Int)] /\ pc' # "flush"
    BY <1>3 DEF Good, MemoryInv
  <2> QED
    BY <2>1, <2>2, <1>3 DEF Good, MemoryInv
<1>12. TouchedInv' /\ VictimsInv'
  BY <1>3, <1>4 DEF TouchedInv, VictimsInv
<1>13. index[s] = ScannedIndex(s, DOMAIN files[s]) /\ ids[s] = DOMAIN files[s]
  BY <1>3, <1>4 DEF Good, ObjectInv
<1>14. index'[s] = ScannedIndex(s, DOMAIN files[s])'
  <2>1. /\ Len(blocks) \in Nat /\ DOMAIN blocks = 1..Len(blocks)
        /\ DOMAIN new.blocks = 1..(Len(blocks) + 1)
        /\ \A i \in DOMAIN blocks : new.blocks[i] = blocks[i]
        /\ new.blocks[Len(blocks) + 1] = block
    BY <1>9
  <2>2. \A e : e \in ScannedIndex(s, DOMAIN files[s])' <=>
          \E k \in DOMAIN files'[s] : \E i \in DOMAIN files'[s][k].blocks :
            e = IndexEntry(k, files'[s][k].blocks[i])
    BY DEF ScannedIndex
  <2>3. ASSUME NEW e \in index'[s] PROVE e \in ScannedIndex(s, DOMAIN files[s])'
    <3>1. CASE e = IndexEntry(id, block)
      <4>1. id \in DOMAIN files'[s] /\ files'[s][id].blocks = new.blocks
        BY <1>8
      <4>2. Len(blocks) + 1 \in DOMAIN new.blocks /\ e = IndexEntry(id, new.blocks[Len(blocks) + 1])
        BY <3>1, <2>1
      <4> QED
        BY <4>1, <4>2, <2>2
    <3>2. CASE e \in index[s]
      <4>1. PICK k \in DOMAIN files[s] : \E i \in DOMAIN files[s][k].blocks :
              e = IndexEntry(k, files[s][k].blocks[i])
        BY <3>2, <1>13, EntriesOfBlocks
      <4>2. CASE k = id
        <5>1. PICK i \in DOMAIN blocks : e = IndexEntry(id, blocks[i])
          BY <4>1, <4>2, <1>7
        <5>2. i \in DOMAIN new.blocks /\ new.blocks[i] = blocks[i]
          BY <2>1
        <5> QED
          BY <5>1, <5>2, <2>2, <1>8
      <4>3. CASE k # id
        BY <4>1, <4>3, <2>2, <1>8
      <4> QED
        BY <4>2, <4>3
    <3> QED
      BY <3>1, <3>2, <1>7 DEF Good, MemoryInv
  <2>4. ASSUME NEW e \in ScannedIndex(s, DOMAIN files[s])' PROVE e \in index'[s]
    <3>1. index'[s] = index[s] \union {IndexEntry(id, block)}
      BY <1>7 DEF Good, MemoryInv
    <3>2. PICK k \in DOMAIN files'[s] : \E i \in DOMAIN files'[s][k].blocks :
            e = IndexEntry(k, files'[s][k].blocks[i])
      BY <2>2, <2>4
    <3>3. CASE k = id
      <4>1. PICK i \in DOMAIN new.blocks : e = IndexEntry(id, new.blocks[i])
        BY <3>2, <3>3, <1>8
      <4>2. CASE i = Len(blocks) + 1
        BY <4>1, <4>2, <2>1, <3>1
      <4>3. CASE i # Len(blocks) + 1
        <5>1. i \in DOMAIN blocks /\ e = IndexEntry(id, blocks[i])
          BY <4>1, <4>3, <2>1
        <5>2. id \in DOMAIN files[s] /\ blocks = files[s][id].blocks
          BY <5>1, <1>7
        <5> QED
          BY <5>1, <5>2, <1>13, <3>1, EntriesOfBlocks
      <4> QED
        BY <4>2, <4>3
    <3>4. CASE k # id
      <4>1. k \in DOMAIN files[s] /\ files'[s][k] = files[s][k]
        BY <3>2, <3>4, <1>8
      <4> QED
        BY <4>1, <3>1, <3>2, <1>13, EntriesOfBlocks
    <3> QED
      BY <3>3, <3>4
  <2> QED
    BY <2>3, <2>4
<1>15. ASSUME NEW z \in Series PROVE ObjectInv(z)'
  <2>1. ObjectInv(z)
    BY <1>3 DEF Good
  <2>2. CASE z = s
    <3>1. active'[s] = id /\ ids'[s] = DOMAIN files'[s]
      BY <1>7, <1>8, <1>13 DEF Good, MemoryInv
    <3>2. \A k \in DOMAIN files'[s] : k <= id
      BY <1>7, <1>8
    <3> QED
      BY <2>2, <3>1, <3>2, <1>8, <1>14 DEF ObjectInv
  <2>3. CASE z # s
    <3>1. files'[z] = files[z] /\ active'[z] = active[z] /\ ids'[z] = ids[z] /\ index'[z] = index[z]
      BY <2>3, <1>7, <1>8 DEF Good, MemoryInv
    <3> QED
      BY <2>1, <3>1, <1>3, <1>4 DEF ObjectInv, ScannedIndex
  <2> QED
    BY <2>2, <2>3
<1> QED
  BY <1>10, <1>11, <1>12, <1>15 DEF Good

-----------------------------------------------------------------------------
(* The invariant holds *)

\* A new database has no file and an empty index.
LEMMA InitGood == Init => SegInv
<1> SUFFICES ASSUME Init PROVE SegInv
  OBVIOUS
<1>1. Registry[1] \in Series
  BY SegmentsAssumption DEF Series, Range
<1>2. \A s \in Series : DOMAIN files[s] = {}
  BY DEF Init, NoSegments
<1>3. FilesInv
  BY <1>2, FS_EmptySet DEF Init, NoSegments, FilesInv
<1>4. MemoryInv
  BY <1>1 DEF Init, MemoryInv, Nothing, Start
<1>5. TouchedInv /\ VictimsInv
  BY DEF Init, TouchedInv, VictimsInv
<1>6. ASSUME NEW s \in Series PROVE ObjectInv(s)
  <2>1. ids[s] = {} /\ index[s] = {}
    BY DEF Init
  <2>2. ScannedIndex(s, DOMAIN files[s]) = {}
    BY <1>2 DEF ScannedIndex
  <2> QED
    BY <1>2, <2>1, <2>2 DEF ObjectInv
<1> QED
  BY <1>3, <1>4, <1>5, <1>6 DEF Init, SegInv, Good

\* No step takes a failure back.
LEMMA FaultsCounted ==
  ASSUME faults \in Nat, [Next]_vars
  PROVE  faults' \in Nat /\ (faults' = 0 => faults = 0)
<1>1. faults' = faults \/ faults' = faults + 1
  <2>1. ASSUME StartCall PROVE faults' = faults
    BY <2>1 DEF StartCall, StartAppend, StartFlush, StartWhole, SetDiskQuota, Begin, bounds, history
  <2>2. ASSUME Continue PROVE faults' = faults
    BY <2>2 DEF Continue, Replay, ReplayEnds, Place, Resume, WriteBlock, NextSeries, TruncateWal,
                Measure, Evict, EvictEnds, Judge, Expire, ExpireEnds, Refreshed, Rebuild, bounds, history
  <2>3. ASSUME Environment PROVE faults' = faults \/ faults' = faults + 1
    BY <2>3 DEF Environment, WriteBlockFails, CallFails, ExpireFails, RebuildFails, Crash, MayFail
  <2>4. ASSUME Open PROVE faults' = faults
    BY <2>4 DEF Open, history, bounds
  <2>5. ASSUME UNCHANGED vars PROVE faults' = faults
    BY <2>5 DEF vars, history, bounds
  <2> QED
    BY <2>1, <2>2, <2>3, <2>4, <2>5 DEF Next
<1> QED
  BY <1>1

\* A step without a failure keeps what is good.
LEMMA NextGood ==
  ASSUME NamedIds = Nat \ {0}, Good, [Next]_vars, faults \in Nat, faults' = faults
  PROVE  Good'
<1>1. ASSUME Continue PROVE Good'
  BY <1>1, ReplayStep, ReplayEndsStep, PlaceStep, ResumeStep, WriteBlockStep, NextSeriesStep,
     TruncateWalStep, MeasureStep, EvictStep, EvictEndsStep, JudgeStep, ExpireStep,
     ExpireEndsStep, RefreshedStep, RebuildStep DEF Continue
<1>2. ASSUME Environment PROVE Good'
  <2>1. Crash
    BY <1>2 DEF Environment, WriteBlockFails, CallFails, ExpireFails, RebuildFails, MayFail
  <2> QED
    BY <2>1, ForgetStep DEF Crash
<1>3. ASSUME UNCHANGED vars PROVE Good'
  <2>1. UNCHANGED <<files, wal, ids, active, path, index, buffer, pc, target, arg, cursor,
                    victims, touched>>
    BY <1>3 DEF vars, disk, segs, call, work
  <2>2. FilesInv' /\ MemoryInv' /\ TouchedInv'
    BY <2>1 DEF Good, FilesInv, MemoryInv, TouchedInv
  <2>3. VictimsInv'
    BY <2>1 DEF Good, VictimsInv
  <2>4. pc # "closed" => \A s \in Series : ObjectInv(s)'
    BY <2>1 DEF Good, ObjectInv, ScannedIndex
  <2> QED
    BY <2>1, <2>2, <2>3, <2>4 DEF Good
<1> QED
  BY <1>1, <1>2, <1>3, StartCallStep, OpenStep DEF Next

\* SegInv is inductive.
LEMMA NextSegInv ==
  ASSUME NamedIds = Nat \ {0}, SegInv, [Next]_vars
  PROVE  SegInv'
<1>1. faults' \in Nat /\ (faults' = 0 => faults = 0)
  BY FaultsCounted DEF SegInv
<1>2. faults' = 0 => Good'
  BY <1>1, NextGood DEF SegInv
<1> QED
  BY <1>1, <1>2 DEF SegInv

\* As long as no operation failed, files, index and cleanups are in order.
THEOREM SegmentsInOrder ==
  ASSUME NamedIds = Nat \ {0}
  PROVE  Spec => []SegInv
<1>1. Init => SegInv
  BY InitGood
<1>2. SegInv /\ [Next]_vars => SegInv'
  BY NextSegInv
<1> QED
  BY <1>1, <1>2, PTL DEF Spec

-----------------------------------------------------------------------------
(* What follows *)

\* Without failures the block index is the one that a scan of the files gives,
\* for every number of series, block and segment size, whatever flushes,
\* cleanups, crashes and reopenings came before.
THEOREM IndexInStep ==
  ASSUME NamedIds = Nat \ {0}
  PROVE  Spec => []IndexMatchesDisk
<1>1. SegInv => IndexMatchesDisk
  <2> SUFFICES ASSUME SegInv, pc = "idle", faults = 0, NEW s \in Series PROVE InStep(s)
    BY DEF IndexMatchesDisk
  <2>1. touched = {} /\ ObjectInv(s) /\ path[s] = active[s]
    BY DEF SegInv, Good, TouchedInv, MemoryInv
  <2> QED
    BY <2>1 DEF ObjectInv, InStep
<1> QED
  BY <1>1, SegmentsInOrder, PTL

\* Without failures a segment is larger than the limit only by its only block.
THEOREM SegmentsBounded ==
  ASSUME NamedIds = Nat \ {0}
  PROVE  Spec => []SegmentBound
<1>1. SegInv => SegmentBound
  BY DEF SegInv, Good, FilesInv, Sound, SegmentBound
<1> QED
  BY <1>1, SegmentsInOrder, PTL

\* While the quota unlinks, only Evict changes files; the same for retention, whose
\* loop ends with ExpireEnds.
LEMMA WhoUnlinks ==
  ASSUME [Next]_vars
  PROVE  /\ pc = "evict" => Evict \/ files' = files
         /\ pc = "expire" => Expire \/ files' = files
         /\ pc = "expire" /\ pc' = "refresh" => ExpireEnds
         /\ pc = "flush" => \/ \E n \in BlockSizes : WriteBlock(n)
                            \/ faults' = faults + 1
                            \/ index' = [s \in Series |-> {}]
                            \/ index' = index
<1>1. ASSUME StartCall PROVE pc = "idle"
  BY <1>1 DEF StartCall, StartAppend, StartFlush, StartWhole, SetDiskQuota, Begin
<1>2. ASSUME Open PROVE pc = "closed"
  BY <1>2 DEF Open
<1>3. ASSUME UNCHANGED vars PROVE files' = files /\ pc' = pc /\ index' = index
  BY <1>3 DEF vars, disk, segs
<1>4. ASSUME Continue, pc = "evict" PROVE Evict \/ files' = files
  BY <1>4 DEF Continue, Replay, ReplayEnds, Place, Resume, WriteBlock, NextSeries, TruncateWal,
              Measure, EvictEnds, Judge, Expire, ExpireEnds, Refreshed, Rebuild, disk
<1>5. ASSUME Continue, pc = "expire" PROVE Expire \/ ExpireEnds
  BY <1>5 DEF Continue, Replay, ReplayEnds, Place, Resume, WriteBlock, NextSeries, TruncateWal,
              Measure, Evict, EvictEnds, Judge, Refreshed, Rebuild
<1>6. ASSUME Continue, pc = "flush" PROVE \E n \in BlockSizes : WriteBlock(n)
  BY <1>6 DEF Continue, Replay, ReplayEnds, Place, Resume, NextSeries, TruncateWal,
              Measure, Evict, EvictEnds, Judge, Expire, ExpireEnds, Refreshed, Rebuild
<1>7. ExpireEnds => files' = files
  BY DEF ExpireEnds, disk
<1>8. Expire => pc' = pc
  BY DEF Expire
<1>9. ASSUME Environment, pc # "flush" PROVE files' = files
  BY <1>9 DEF Environment, WriteBlockFails, CallFails, ExpireFails, RebuildFails, Crash, disk
<1>10. ASSUME Environment, pc = "expire" PROVE pc' # "refresh"
  BY <1>10 DEF Environment, WriteBlockFails, CallFails, ExpireFails, RebuildFails, Crash,
               Forget, Finish, Goto
<1>11. ASSUME Environment, pc = "flush"
       PROVE  faults' = faults + 1 \/ index' = [s \in Series |-> {}]
  BY <1>11 DEF Environment, WriteBlockFails, CallFails, ExpireFails, RebuildFails, Crash,
               Forget, MayFail
<1> QED
  BY <1>1, <1>2, <1>3, <1>4, <1>5, <1>6, <1>7, <1>8, <1>9, <1>10, <1>11 DEF Next

\* Without failures the quota never removes the newest segment of a series.
THEOREM NewestSegmentKept ==
  ASSUME NamedIds = Nat \ {0}
  PROVE  Spec => NewestFileKept
<1> DEFINE Kept == pc = "evict" /\ faults = 0 =>
             \A s \in Series : \A id \in DOMAIN files[s] \ DOMAIN files'[s] :
               \E newer \in DOMAIN files'[s] : newer > id
<1>1. SegInv /\ [Next]_vars => Kept
  <2> SUFFICES ASSUME SegInv, [Next]_vars, pc = "evict", faults = 0,
                      NEW s \in Series, NEW id \in DOMAIN files[s] \ DOMAIN files'[s]
               PROVE  \E newer \in DOMAIN files'[s] : newer > id
    OBVIOUS
  <2>1. Good /\ ObjectInv(s)
    BY DEF SegInv, Good
  <2>2. Evict
    BY WhoUnlinks
  <2>3. PICK v \in victims :
           /\ v.series \in Series /\ v.segment # active[v.series]
           /\ DOMAIN files'[v.series] = DOMAIN files[v.series] \ {v.segment}
           /\ \A z \in Series \ {v.series} : files'[z] = files[z]
    BY <2>1, <2>2, EvictedFile
  <2>4. s = v.series /\ id = v.segment
    BY <2>3
  <2>5. active[s] \in DOMAIN files[s] /\ id <= active[s]
    BY <2>1 DEF ObjectInv
  <2>6. active[s] \in DOMAIN files'[s] /\ active[s] # id
    BY <2>3, <2>4, <2>5
  <2>7. active[s] \in Nat /\ id \in Nat
    BY <2>1 DEF Good, MemoryInv, FilesInv
  <2>8. active[s] > id
    BY <2>5, <2>6, <2>7
  <2> QED
    BY <2>6, <2>8
<1>2. SegInv /\ [Next]_vars => [Kept]_vars
  BY <1>1
<1>3. NewestFileKept <=> [][Kept]_vars
  BY DEF NewestFileKept
<1> HIDE DEF Kept
<1> QED
  BY <1>2, <1>3, SegmentsInOrder, PTL DEF Spec

\* Without failures every block comes after all blocks that the index has.
THEOREM BlocksAppended ==
  ASSUME NamedIds = Nat \ {0}
  PROVE  Spec => BlocksInOrder
<1> DEFINE InOrder == faults' = 0 /\ pc = "flush" =>
             \A s \in Series : \A e \in index'[s] \ index[s], d \in index[s] :
               \/ d.segment < e.segment
               \/ d.segment = e.segment /\ d.offset < e.offset
<1>1. SegInv /\ [Next]_vars => InOrder
  <2> SUFFICES ASSUME SegInv, [Next]_vars, faults' = 0, pc = "flush", NEW s \in Series,
                      NEW e \in index'[s] \ index[s], NEW d \in index[s]
               PROVE  \/ d.segment < e.segment
                      \/ d.segment = e.segment /\ d.offset < e.offset
    OBVIOUS
  <2>1. faults \in Nat /\ faults = 0
    BY FaultsCounted DEF SegInv
  <2>2. Good /\ ObjectInv(s)
    BY <2>1 DEF SegInv, Good
  <2>3. PICK n \in BlockSizes : WriteBlock(n)
    BY <2>1, WhoUnlinks
  <2>4. PICK id \in Nat \ {0}, bytes \in Nat, blocks \in Seq(AnyBlock) :
          Written(n, id, bytes, blocks)
    BY <2>2, <2>3, BlockWritten
  <2>5. PICK block : block = [points |-> buffer[target], offset |-> bytes]
    OBVIOUS
  <2>6. /\ index' = [index EXCEPT ![target] = @ \union {IndexEntry(id, block)}]
        /\ \A k \in DOMAIN files[target] : k <= id
        /\ \/ /\ id \in DOMAIN files[target]
              /\ bytes = files[target][id].bytes /\ blocks = files[target][id].blocks
           \/ id \notin DOMAIN files[target] /\ bytes = 0 /\ blocks = <<>>
    BY <2>4, <2>5 DEF Written
  <2>7. s = target /\ e = IndexEntry(id, block)
    BY <2>2, <2>6 DEF Good, MemoryInv
  <2>8. e.segment = id /\ e.offset = bytes
    BY <2>5, <2>7 DEF IndexEntry
  <2>9. touched = {} /\ index[s] = ScannedIndex(s, DOMAIN files[s])
    BY <2>2 DEF Good, TouchedInv, ObjectInv
  <2>10. PICK k \in DOMAIN files[s] : \E i \in DOMAIN files[s][k].blocks :
           d = IndexEntry(k, files[s][k].blocks[i])
    BY <2>9, EntriesOfBlocks
  <2>11. PICK i \in DOMAIN files[s][k].blocks : d = IndexEntry(k, files[s][k].blocks[i])
    BY <2>10
  <2>12. d.segment = k /\ d.offset = files[s][k].blocks[i].offset
    BY <2>11 DEF IndexEntry
  <2>13. Sound(files[s][k]) /\ k \in Nat /\ k <= id
    BY <2>2, <2>6, <2>7 DEF Good, FilesInv
  <2>14. d.offset < files[s][k].bytes
    BY <2>12, <2>13 DEF Sound
  <2>15. CASE k = id
    BY <2>15, <2>6, <2>7, <2>8, <2>12, <2>14
  <2>16. CASE k # id
    BY <2>16, <2>8, <2>12, <2>13
  <2> QED
    BY <2>15, <2>16
<1>2. BlocksInOrder <=> [][InOrder]_vars
  BY DEF BlocksInOrder
<1> HIDE DEF InOrder
<1> QED
  BY <1>1, <1>2, SegmentsInOrder, PTL DEF Spec

\* Without failures tsedge_delete_before removes exactly the segments of its series
\* whose points are all older than the cutoff.
THEOREM RetentionIsExact ==
  ASSUME NamedIds = Nat \ {0}
  PROVE  Spec => RetentionExact
<1> DEFINE Exact == pc = "expire" /\ faults = 0 =>
             /\ \A s \in Series : \A id \in DOMAIN files[s] \ DOMAIN files'[s] :
                  s = target /\ \A t \in PointsOf(files[s][id]) : t < arg
             /\ pc' = "refresh" =>
                  \A id \in DOMAIN files[target] : \E t \in PointsOf(files[target][id]) : t >= arg
<1>1. SegInv /\ [Next]_vars => Exact
  <2> SUFFICES ASSUME SegInv, [Next]_vars, pc = "expire", faults = 0 PROVE Exact
    OBVIOUS
  <2>1. Good
    BY DEF SegInv
  <2>2. ASSUME NEW s \in Series, NEW id \in DOMAIN files[s] \ DOMAIN files'[s]
        PROVE  s = target /\ \A t \in PointsOf(files[s][id]) : t < arg
    <3>1. Expire
      BY WhoUnlinks
    <3>2. PICK v \in victims : Unlink(v)
      BY <3>1 DEF Expire
    <3>3. v.series = target /\ target \in Series
      BY <2>1 DEF Good, VictimsInv, MemoryInv
    <3>4. /\ DOMAIN files'[target] = DOMAIN files[target] \ {v.segment}
          /\ \A z \in Series \ {target} : files'[z] = files[z]
      BY <2>1, <3>2, <3>3, UnlinkStep DEF Good
    <3>5. s = target /\ id = v.segment
      BY <3>4
    <3> QED
      BY <2>1, <3>5 DEF Good, VictimsInv
  <2>3. ASSUME pc' = "refresh", NEW id \in DOMAIN files[target]
        PROVE  \E t \in PointsOf(files[target][id]) : t >= arg
    <3>1. victims = {}
      BY <2>3, WhoUnlinks DEF ExpireEnds
    <3> QED
      BY <2>1, <3>1 DEF Good, VictimsInv
  <2> QED
    BY <2>2, <2>3
<1>2. RetentionExact <=> [][Exact]_vars
  BY DEF RetentionExact
<1> HIDE DEF Exact
<1> QED
  BY <1>1, <1>2, SegmentsInOrder, PTL DEF Spec

-----------------------------------------------------------------------------
(* The shape of the state, whatever fails *)

\* A segment file may be empty when a write to it failed.
FileShape(file) == file.bytes \in Nat /\ file.blocks \in Seq(AnyBlock)

FilesShape ==
  /\ DOMAIN files = Series
  /\ \A s \in Series :
       /\ DOMAIN files[s] \subseteq Nat \ {0}
       /\ IsFiniteSet(DOMAIN files[s])
       /\ \A id \in DOMAIN files[s] : FileShape(files[s][id])

IndexShape(I) == IsFiniteSet(I) /\ I \subseteq [segment : Nat, offset : Nat, newest : Int]

ObjectShape ==
  /\ ids \in [Series -> SUBSET (Nat \ {0})]
  /\ active \in [Series -> Nat \ {0}]
  /\ path \in [Series -> Nat \ {0}]
  /\ DOMAIN index = Series
  /\ \A s \in Series : IndexShape(index[s])

PointsShape ==
  /\ wal \in [Series -> Seq(Int)]
  /\ buffer \in [Series -> Seq(Int)]
  /\ \A s \in Series : Len(buffer[s]) <= Capacity

Candidates == [series : Series, segment : Nat, newest : Int, bytes : Nat]

WorkShape ==
  /\ quota \in Nat /\ exceeded \in BOOLEAN
  /\ target \in Series /\ arg \in Int /\ cursor \in [Series -> Nat \ {0}]
  /\ victims \subseteq Candidates
  /\ size \in Nat
  /\ touched \subseteq Series
  /\ failed \in BOOLEAN

HistoryShape ==
  /\ used \in [Series -> SUBSET Int]
  /\ gone \in [Series -> SUBSET Int]
  /\ crashes \in 0..MaxCrashes
  /\ faults \in 0..MaxFaults

\* Where a call can be.
CallInv ==
  /\ pc \in Labels /\ op \in Operations
  /\ pc = "flush" => buffer[target] # <<>>
  /\ pc = "place" => Len(buffer[target]) < Capacity
  /\ op = "append" /\ pc \in {"truncate", "measure", "evict", "reindex", "resume"} =>
       buffer[target] = <<>>
  /\ pc = "next" => op \in {"flush_all", "close"}
  /\ pc = "replay" => op = "open"

ShapeInv == FilesShape /\ ObjectShape /\ PointsShape /\ WorkShape /\ HistoryShape /\ CallInv

\* What the assumption says about the constants, and that the registry is not empty.
LEMMA ConstantFacts ==
  /\ Registry[1] \in Series /\ DOMAIN Registry = 1..Len(Registry) /\ Len(Registry) \in Nat \ {0}
  /\ IsFiniteSet(Series)
  /\ Capacity \in Nat \ {0} /\ SegmentMaxBytes \in Nat /\ Times \subseteq Int /\ Cutoffs \subseteq Int
  /\ Quotas \subseteq Nat /\ BlockSizes \subseteq Nat \ {0} /\ MaxCrashes \in Nat /\ MaxFaults \in Nat
<1>1. Registry[1] \in Series /\ DOMAIN Registry = 1..Len(Registry) /\ Len(Registry) \in Nat \ {0}
  BY SegmentsAssumption DEF Series, Range
<1>2. IsFiniteSet(Series)
  BY <1>1, RangeFinite DEF Series
<1> QED
  BY <1>1, <1>2, SegmentsAssumption

\* The index entries of finitely many files are finitely many.
LEMMA ScannedShape ==
  ASSUME FilesShape, NEW s \in Series, NEW S \in SUBSET DOMAIN files[s]
  PROVE  IndexShape(ScannedIndex(s, S))
<1> DEFINE Row(id) == {IndexEntry(id, files[s][id].blocks[i]) : i \in DOMAIN files[s][id].blocks}
           Rows == {Row(id) : id \in S}
<1>1. IsFiniteSet(S) /\ S \subseteq Nat
  BY FS_Subset DEF FilesShape
<1>2. ASSUME NEW id \in S
      PROVE  IsFiniteSet(Row(id)) /\ Row(id) \subseteq [segment : Nat, offset : Nat, newest : Int]
  <2> DEFINE B == files[s][id].blocks
  <2>1. B \in Seq(AnyBlock)
    BY DEF FilesShape, FileShape
  <2>2. \A b \in AnyBlock : b.points \in Seq(Int) \ {<<>>} /\ b.offset \in Nat
    BY DEF AnyBlock
  <2>3. id \in Nat
    BY <1>1
  <2> HIDE DEF B
  <2>4. Len(B) \in Nat /\ DOMAIN B = 1..Len(B) /\ \A i \in DOMAIN B : B[i] \in AnyBlock
    BY <2>1
  <2>5. IsFiniteSet({IndexEntry(id, B[i]) : i \in DOMAIN B})
    <3>1. IsFiniteSet(DOMAIN B)
      BY <2>4, FS_Interval
    <3> DEFINE f == [i \in DOMAIN B |-> IndexEntry(id, B[i])]
    <3>2. f \in Surjection(DOMAIN B, {IndexEntry(id, B[i]) : i \in DOMAIN B})
      BY DEF Surjection
    <3> QED
      BY <3>1, <3>2, FS_Surjection
  <2>6. ASSUME NEW i \in DOMAIN B
        PROVE  IndexEntry(id, B[i]) \in [segment : Nat, offset : Nat, newest : Int]
    <3>1. B[i].points \in Seq(Int) \ {<<>>} /\ B[i].offset \in Nat
      BY <2>2, <2>4
    <3>2. Max(Range(B[i].points)) \in Int
      BY <3>1, PointsFinite
    <3> QED
      BY <2>3, <3>1, <3>2 DEF IndexEntry
  <2> QED
    BY <2>5, <2>6 DEF B
<1>3. IsFiniteSet(Rows)
  <2> DEFINE f == [id \in S |-> Row(id)]
  <2>1. f \in Surjection(S, Rows)
    BY DEF Surjection
  <2> HIDE DEF f
  <2> QED
    BY <1>1, <2>1, FS_Surjection
<1>4. \A R \in Rows : IsFiniteSet(R) /\ R \subseteq [segment : Nat, offset : Nat, newest : Int]
  BY <1>2
<1>5. ScannedIndex(s, S) = UNION Rows
  BY DEF ScannedIndex
<1> HIDE DEF Rows, Row
<1>6. IsFiniteSet(UNION Rows)
  BY <1>3, <1>4, FS_UNION
<1>7. UNION Rows \subseteq [segment : Nat, offset : Nat, newest : Int]
  BY <1>4
<1> QED
  BY <1>5, <1>6, <1>7 DEF IndexShape

\* A candidate for removal.
LEMMA SegmentShape ==
  ASSUME FilesShape, NEW s \in Series, IndexShape(index[s]), NEW c \in Segments(s)
  PROVE  c \in Candidates
<1>1. PICK e \in index[s] : c = Segment(s, e.segment)
  BY DEF Segments
<1> DEFINE X == {x \in index[s] : x.segment = e.segment}
           N == {x.newest : x \in X}
<1>2. \A x \in index[s] : x.newest \in Int /\ x.segment \in Nat
  BY DEF IndexShape
<1>3. IsFiniteSet(N) /\ N # {} /\ N \in SUBSET Int
  <2>1. IsFiniteSet(X)
    BY FS_Subset DEF IndexShape
  <2> DEFINE f == [x \in X |-> x.newest]
  <2>2. f \in Surjection(X, N)
    BY DEF Surjection
  <2>3. IsFiniteSet(N)
    BY <2>1, <2>2, FS_Surjection
  <2>4. N # {} /\ N \in SUBSET Int
    BY <1>2
  <2> QED
    BY <2>3, <2>4
<1>4. Max(N) \in Int
  BY <1>3, MaxOfFinite
<1>5. File(s, e.segment).bytes \in Nat
  BY DEF File, NoFile, FilesShape, FileShape
<1>6. Segment(s, e.segment) = [series |-> s, segment |-> e.segment, newest |-> Max(N),
                               bytes |-> File(s, e.segment).bytes]
  BY DEF Segment
<1> HIDE DEF N, X
<1> QED
  BY <1>1, <1>2, <1>4, <1>5, <1>6 DEF Candidates

Bytes(fs, s) == SumFunction([id \in DOMAIN fs[s] |-> fs[s][id].bytes])

Total(fs, w) == SumFunction([s \in Series |-> Len(w[s]) + Bytes(fs, s)])

Counted(fs, w) ==
  \A s \in Series : /\ Len(w[s]) \in Nat
                    /\ IsFiniteSet(DOMAIN fs[s])
                    /\ \A id \in DOMAIN fs[s] : fs[s][id].bytes \in Nat

\* The bytes of a series are a number.
LEMMA BytesNat ==
  ASSUME NEW fs, NEW w, Counted(fs, w), NEW s \in Series
  PROVE  Numbers([id \in DOMAIN fs[s] |-> fs[s][id].bytes]) /\ Bytes(fs, s) \in Nat
<1>1. Numbers([id \in DOMAIN fs[s] |-> fs[s][id].bytes])
  BY DEF Counted, Numbers
<1> QED
  BY <1>1, SumNat DEF Bytes

\* The terms of the total are numbers, finitely many.
LEMMA TotalNumbers ==
  ASSUME NEW fs, NEW w, Counted(fs, w)
  PROVE  Numbers([s \in Series |-> Len(w[s]) + Bytes(fs, s)])
<1>1. \A s \in Series : Len(w[s]) \in Nat /\ Bytes(fs, s) \in Nat
  BY BytesNat DEF Counted
<1>2. \A a, b \in Nat : a + b \in Nat
  OBVIOUS
<1> QED
  BY <1>1, <1>2, ConstantFacts DEF Numbers

\* A file less, and its bytes less.
LEMMA UnlinkedBytes ==
  ASSUME NEW fs, NEW gs, NEW w, Counted(fs, w), Counted(gs, w),
         NEW s \in Series, NEW id \in DOMAIN fs[s], DOMAIN gs[s] = DOMAIN fs[s] \ {id},
         \A k \in DOMAIN gs[s] : gs[s][k] = fs[s][k],
         \A z \in Series \ {s} : gs[z] = fs[z]
  PROVE  /\ Total(fs, w) = Total(gs, w) + fs[s][id].bytes
         /\ Total(gs, w) \in Nat /\ fs[s][id].bytes \in Nat
<1>1. PICK f : f = [z \in Series |-> Len(w[z]) + Bytes(fs, z)]
  OBVIOUS
<1>2. PICK g : g = [z \in Series |-> Len(w[z]) + Bytes(gs, z)]
  OBVIOUS
<1>3. Numbers(f) /\ Numbers(g) /\ DOMAIN f = Series /\ DOMAIN g = Series
  BY <1>1, <1>2, TotalNumbers
<1>4. \A z \in Series : z # s => g[z] = f[z]
  BY <1>1, <1>2 DEF Bytes
<1>5. SumFunction(g) + f[s] = SumFunction(f) + g[s]
  BY <1>3, <1>4, SumChanged
<1>6. Bytes(fs, s) = fs[s][id].bytes + Bytes(gs, s)
  <2>1. PICK u : u = [k \in DOMAIN fs[s] |-> fs[s][k].bytes]
    OBVIOUS
  <2>2. PICK v : v = [k \in DOMAIN gs[s] |-> gs[s][k].bytes]
    OBVIOUS
  <2>3. Numbers(u) /\ id \in DOMAIN u /\ DOMAIN v = DOMAIN u \ {id}
    BY <2>1, <2>2, BytesNat
  <2>4. \A y \in DOMAIN v : v[y] = u[y]
    BY <2>1, <2>2
  <2>5. SumFunction(u) = u[id] + SumFunction(v)
    BY <2>3, <2>4, SumWithout
  <2> QED
    BY <2>1, <2>2, <2>5 DEF Bytes
<1>7. /\ Bytes(gs, s) \in Nat /\ fs[s][id].bytes \in Nat /\ Len(w[s]) \in Nat
      /\ SumFunction(f) \in Nat /\ SumFunction(g) \in Nat
  BY <1>3, BytesNat, SumNat DEF Counted
<1>8. f[s] = Len(w[s]) + (fs[s][id].bytes + Bytes(gs, s)) /\ g[s] = Len(w[s]) + Bytes(gs, s)
  BY <1>1, <1>2, <1>6
<1>9. \A F, G, l, b, r \in Nat : G + (l + (b + r)) = F + (l + r) => F = G + b
  OBVIOUS
<1>10. SumFunction(f) = SumFunction(g) + fs[s][id].bytes
  <2>1. SumFunction(g) + (Len(w[s]) + (fs[s][id].bytes + Bytes(gs, s)))
          = SumFunction(f) + (Len(w[s]) + Bytes(gs, s))
    BY <1>5, <1>8
  <2>2. PICK G \in Nat : G = SumFunction(g)
    BY <1>7
  <2>3. PICK F \in Nat : F = SumFunction(f)
    BY <1>7
  <2>4. PICK l \in Nat : l = Len(w[s])
    BY <1>7
  <2>5. PICK b \in Nat : b = fs[s][id].bytes
    BY <1>7
  <2>6. PICK r \in Nat : r = Bytes(gs, s)
    BY <1>7
  <2>7. G + (l + (b + r)) = F + (l + r)
    BY <2>1, <2>2, <2>3, <2>4, <2>5, <2>6
  <2>8. F = G + b
    BY <2>7, <1>9
  <2> QED
    BY <2>8, <2>2, <2>3, <2>5
<1> QED
  BY <1>1, <1>2, <1>7, <1>10 DEF Total

\* database_size_bytes is that total.
LEMMA DiskTotal == ASSUME FilesShape, PointsShape PROVE DiskBytes = Total(files, wal) /\ Counted(files, wal)
BY DEF DiskBytes, Total, Bytes, Counted, FilesShape, FileShape, PointsShape

\* And after a step.
LEMMA DiskTotalNext ==
  ASSUME FilesShape', PointsShape' PROVE DiskBytes' = Total(files', wal') /\ Counted(files', wal')
BY DEF DiskBytes, Total, Bytes, Counted, FilesShape, FileShape, PointsShape

\* It is a number.
LEMMA DiskBytesNat == ASSUME FilesShape, PointsShape PROVE DiskBytes \in Nat
BY DiskTotal, TotalNumbers, SumNat DEF Total

-----------------------------------------------------------------------------
(* Every step keeps the shape *)

\* What a step does not touch keeps its shape.
LEMMA FilesFrame == ASSUME FilesShape, files' = files PROVE FilesShape'
BY DEF FilesShape, FileShape

LEMMA ObjectFrame == ASSUME ObjectShape, UNCHANGED segs PROVE ObjectShape'
BY DEF ObjectShape, IndexShape, segs

LEMMA PointsFrame == ASSUME PointsShape, UNCHANGED <<wal, buffer>> PROVE PointsShape'
BY DEF PointsShape

LEMMA HistoryFrame == ASSUME HistoryShape, UNCHANGED history PROVE HistoryShape'
BY DEF HistoryShape, history, bounds

\* The tsedge_db object goes.
LEMMA ForgetShape ==
  ASSUME ShapeInv, Forget, UNCHANGED disk, HistoryShape'
  PROVE  ShapeInv'
<1>1. files' = files /\ wal' = wal
  BY DEF disk
<1>2. /\ pc' = "closed" /\ op' = "none" /\ target' = Registry[1] /\ arg' = 0 /\ cursor' = Start
      /\ victims' = {} /\ size' = 0 /\ touched' = {} /\ failed' = FALSE
      /\ ids' = [s \in Series |-> {}] /\ active' = Start /\ path' = Start
      /\ index' = [s \in Series |-> {}] /\ buffer' = Nothing
      /\ quota' = 0 /\ exceeded' = FALSE
  BY DEF Forget, Finish, Goto
<1>3. FilesShape'
  BY <1>1, FilesFrame DEF ShapeInv
<1>4. ObjectShape'
  BY <1>2, FS_EmptySet DEF ObjectShape, IndexShape, Start
<1>5. PointsShape'
  BY <1>1, <1>2, ConstantFacts DEF ShapeInv, PointsShape, Nothing
<1>6. WorkShape'
  <2>1. cursor' \in [Series -> Nat \ {0}] /\ target' \in Series /\ arg' \in Int
    BY <1>2, ConstantFacts DEF Start
  <2> QED
    BY <1>2, <2>1 DEF WorkShape
<1>7. CallInv'
  BY <1>2 DEF CallInv, Labels, Operations
<1> QED
  BY <1>3, <1>4, <1>5, <1>6, <1>7 DEF ShapeInv

\* A call returns.
LEMMA FinishShape ==
  ASSUME Finish("idle"), FilesShape', ObjectShape', PointsShape', HistoryShape',
         quota' \in Nat, exceeded' \in BOOLEAN
  PROVE  ShapeInv'
<1>1. /\ pc' = "idle" /\ op' = "none" /\ target' = Registry[1] /\ arg' = 0 /\ cursor' = Start
      /\ victims' = {} /\ size' = 0 /\ touched' = {} /\ failed' = FALSE
  BY DEF Finish, Goto
<1>2. WorkShape'
  <2>1. cursor' \in [Series -> Nat \ {0}] /\ target' \in Series /\ arg' \in Int
    BY <1>1, ConstantFacts DEF Start
  <2> QED
    BY <1>1, <2>1 DEF WorkShape
<1>3. CallInv'
  BY <1>1 DEF CallInv, Labels, Operations
<1> QED
  BY <1>2, <1>3 DEF ShapeInv

\* A call returns.
LEMMA ReturnShape ==
  ASSUME ShapeInv, NEW r, Return(r), UNCHANGED disk, HistoryShape'
  PROVE  ShapeInv'
<1>1. CASE Frees(r)
  BY <1>1, ForgetShape DEF Return
<1>2. CASE ~Frees(r)
  <2>1. Finish("idle") /\ UNCHANGED <<segs, buffer, limit>> /\ UNCHANGED <<files, wal>>
    BY <1>2 DEF Return, disk
  <2>2. FilesShape' /\ ObjectShape' /\ PointsShape'
    BY <2>1, FilesFrame, ObjectFrame, PointsFrame DEF ShapeInv
  <2>3. quota' \in Nat /\ exceeded' \in BOOLEAN
    BY <2>1 DEF ShapeInv, WorkShape, limit
  <2> QED
    BY <2>1, <2>2, <2>3, FinishShape
<1> QED
  BY <1>1, <1>2

\* The tsedge_db object is made from the files.
LEMMA LastIdShape ==
  ASSUME FilesShape, NEW s \in Series
  PROVE  /\ Discovered(s) \in SUBSET DOMAIN files[s] /\ Discovered(s) \in SUBSET (Nat \ {0})
         /\ LastId(Discovered(s)) \in Nat \ {0}
         /\ IndexShape(ScannedIndex(s, Discovered(s)))
<1>1. /\ Discovered(s) \in SUBSET DOMAIN files[s] /\ Discovered(s) \in SUBSET (Nat \ {0})
      /\ IsFiniteSet(Discovered(s))
  BY FS_Subset DEF Discovered, FilesShape
<1> QED
  BY <1>1, LastIdIsLast, ScannedShape

\* tsedge_open fills the tsedge_db object from the files.
LEMMA OpenShape == ASSUME ShapeInv, Open PROVE ShapeInv'
<1>1. /\ UNCHANGED <<files, wal, buffer, quota, exceeded, target, arg, cursor, victims, size, touched, failed>>
      /\ UNCHANGED history
      /\ pc' = "replay" /\ op' = "open"
      /\ ids' = [s \in Series |-> Discovered(s)]
      /\ active' = [s \in Series |-> LastId(Discovered(s))]
      /\ path' = active'
      /\ index' = [s \in Series |-> ScannedIndex(s, Discovered(s))]
  BY DEF Open, disk, limit, work, Goto
<1>2. ObjectShape'
  <2>1. \A s \in Series : /\ Discovered(s) \in SUBSET (Nat \ {0}) /\ LastId(Discovered(s)) \in Nat \ {0}
                          /\ IndexShape(index'[s])
    BY <1>1, LastIdShape DEF ShapeInv
  <2> QED
    BY <1>1, <2>1 DEF ObjectShape, IndexShape
<1>3. FilesShape' /\ PointsShape' /\ HistoryShape'
  BY <1>1, FilesFrame, PointsFrame, HistoryFrame DEF ShapeInv
<1>4. WorkShape'
  BY <1>1 DEF ShapeInv, WorkShape
<1>5. CallInv'
  BY <1>1 DEF CallInv, Labels, Operations
<1> QED
  BY <1>2, <1>3, <1>4, <1>5 DEF ShapeInv

\* A call begins.
LEMMA BeginShape ==
  ASSUME ShapeInv, NEW name \in Operations, NEW s \in Series, NEW t \in Int,
         NEW label \in {"flush", "place", "next", "measure", "resume"}, Begin(name, s, t, label),
         used' \in [Series -> SUBSET Int],
         label = "flush" => buffer[s] # <<>>,
         label = "place" => Len(buffer[s]) < Capacity,
         label = "next" => name \in {"flush_all", "close"},
         name = "append" => label \in {"flush", "place"}
  PROVE  ShapeInv'
<1>1. /\ op' = name /\ target' = s /\ arg' = t /\ pc' = label
      /\ UNCHANGED <<files, wal, buffer, quota, exceeded, cursor, victims, size, touched, failed,
                     gone, crashes, faults>>
      /\ UNCHANGED segs
  BY DEF Begin, Goto, disk, limit, work, bounds
<1>2. FilesShape' /\ PointsShape' /\ ObjectShape'
  BY <1>1, FilesFrame, PointsFrame, ObjectFrame DEF ShapeInv
<1>3. HistoryShape'
  BY <1>1 DEF ShapeInv, HistoryShape
<1>4. WorkShape'
  BY <1>1 DEF ShapeInv, WorkShape
<1>5. CallInv'
  BY <1>1 DEF CallInv, Labels
<1> QED
  BY <1>2, <1>3, <1>4, <1>5 DEF ShapeInv

\* The calls of the application.
LEMMA StartCallShape == ASSUME ShapeInv, StartCall PROVE ShapeInv'
<1>1. ASSUME NEW s \in Series, NEW t \in Times, StartAppend(s, t) PROVE ShapeInv'
  <2> DEFINE label == IF Len(buffer[s]) >= Capacity THEN "flush" ELSE "place"
  <2>1. used' = [used EXCEPT ![s] = @ \union {t}] /\ Begin("append", s, t, label)
    BY <1>1 DEF StartAppend
  <2>2. t \in Int /\ Capacity \in Nat \ {0} /\ Len(buffer[s]) \in Nat
    BY ConstantFacts DEF ShapeInv, PointsShape
  <2>3. used' \in [Series -> SUBSET Int]
    BY <2>1, <2>2 DEF ShapeInv, HistoryShape
  <2>4. /\ label \in {"flush", "place"}
        /\ label = "flush" => buffer[s] # <<>>
        /\ label = "place" => Len(buffer[s]) < Capacity
    BY <2>2
  <2> HIDE DEF label
  <2> QED
    BY <2>1, <2>2, <2>3, <2>4, BeginShape DEF Operations
<1>2. ASSUME NEW name \in {"flush", "delete_before"}, NEW s \in Series, NEW t \in Int, StartFlush(name, s, t)
      PROVE  ShapeInv'
  <2> DEFINE label == IF buffer[s] = <<>> THEN "resume" ELSE "flush"
  <2>1. Begin(name, s, t, label) /\ used' = used
    BY <1>2 DEF StartFlush
  <2>2. used' \in [Series -> SUBSET Int]
    BY <2>1 DEF ShapeInv, HistoryShape
  <2>3. label \in {"flush", "resume"} /\ (label = "flush" => buffer[s] # <<>>)
    OBVIOUS
  <2>4. name \in Operations /\ name # "append"
    BY DEF Operations
  <2> HIDE DEF label
  <2> QED
    BY <2>1, <2>2, <2>3, <2>4, BeginShape
<1>3. ASSUME NEW name \in {"flush_all", "close", "enforce"}, StartWhole(name) PROVE ShapeInv'
  <2> DEFINE label == IF name = "enforce" THEN "measure" ELSE "next"
  <2>1. Begin(name, Registry[1], 0, label) /\ used' = used
    BY <1>3 DEF StartWhole
  <2>2. used' \in [Series -> SUBSET Int]
    BY <2>1 DEF ShapeInv, HistoryShape
  <2>3. label \in {"next", "measure"} /\ (label = "next" => name \in {"flush_all", "close"})
    OBVIOUS
  <2>4. name \in Operations /\ name # "append"
    BY DEF Operations
  <2> HIDE DEF label
  <2> QED
    BY <2>1, <2>2, <2>3, <2>4, BeginShape, ConstantFacts
<1>4. ASSUME NEW max_bytes \in Quotas, SetDiskQuota(max_bytes) PROVE ShapeInv'
  <2>1. /\ pc = "idle" /\ pc' = pc /\ quota' = max_bytes /\ exceeded' = FALSE
        /\ UNCHANGED <<files, wal, buffer, op, target, arg, cursor, victims, size, touched, failed>>
        /\ UNCHANGED segs /\ UNCHANGED history
    BY <1>4 DEF SetDiskQuota, disk, call, work
  <2>2. FilesShape' /\ PointsShape' /\ ObjectShape' /\ HistoryShape'
    BY <2>1, FilesFrame, PointsFrame, ObjectFrame, HistoryFrame DEF ShapeInv
  <2>3. WorkShape'
    BY <2>1, ConstantFacts DEF ShapeInv, WorkShape
  <2>4. CallInv'
    BY <2>1 DEF ShapeInv, CallInv
  <2> QED
    BY <2>2, <2>3, <2>4 DEF ShapeInv
<1> QED
  BY <1>1, <1>2, <1>3, <1>4, ConstantFacts DEF StartCall

\* One file of one series is put in the place of another.
LEMMA PutFile ==
  ASSUME FilesShape, NEW s \in Series, NEW id \in Nat \ {0}, NEW file,
         files' = [files EXCEPT ![s] = Put(@, id, file)]
  PROVE  /\ DOMAIN files' = Series
         /\ DOMAIN files'[s] = DOMAIN files[s] \union {id}
         /\ files'[s][id] = file
         /\ \A k \in DOMAIN files[s] : k # id => files'[s][k] = files[s][k]
         /\ \A z \in Series \ {s} : files'[z] = files[z]
         /\ FileShape(file) => FilesShape'
<1>1. /\ DOMAIN files' = Series /\ files'[s] = Put(files[s], id, file)
      /\ \A z \in Series \ {s} : files'[z] = files[z]
  BY DEF FilesShape
<1>2. PICK f : f = Put(files[s], id, file)
  OBVIOUS
<1>3. /\ DOMAIN f = DOMAIN files[s] \union {id} /\ f[id] = file
      /\ \A k \in DOMAIN files[s] : k # id => f[k] = files[s][k]
  BY <1>2 DEF Put
<1>4. ASSUME FileShape(file) PROVE FilesShape'
  <2>1. IsFiniteSet(DOMAIN files[s] \union {id})
    BY FS_AddElement DEF FilesShape
  <2>2. ASSUME NEW z \in Series
        PROVE  /\ DOMAIN files'[z] \subseteq Nat \ {0}
               /\ IsFiniteSet(DOMAIN files'[z])
               /\ \A k \in DOMAIN files'[z] : FileShape(files'[z][k])
    <3>1. CASE z = s
      <4>1. \A k \in DOMAIN f : FileShape(f[k])
        BY <1>3, <1>4 DEF FilesShape
      <4> QED
        BY <3>1, <4>1, <2>1, <1>1, <1>2, <1>3 DEF FilesShape
    <3>2. CASE z # s
      BY <3>2, <1>1 DEF FilesShape
    <3> QED
      BY <3>1, <3>2
  <2> QED
    BY <2>2, <1>1 DEF FilesShape, FileShape
<1> QED
  BY <1>1, <1>2, <1>3, <1>4

\* NoFile has the shape of a file, too.
LEMMA FileIsShape ==
  ASSUME FilesShape, NEW s \in Series, NEW id
  PROVE  FileShape(File(s, id))
BY DEF FilesShape, FileShape, File, NoFile

\* The ids that a block may go to are ids.
LEMMA NextIds ==
  ASSUME ObjectShape, NEW s \in Series, NEW n
  PROVE  NextPath(s, n) \in Nat \ {0} /\ NextActive(s, n) \in Nat \ {0}
<1>1. active[s] \in Nat \ {0} /\ path[s] \in Nat \ {0}
  BY DEF ObjectShape
<1> QED
  BY <1>1 DEF NextPath, NextActive

\* Rotation keeps the shape of the ids.
LEMMA RotateShape ==
  ASSUME ObjectShape, target \in Series, NEW n, Rotate(target, n)
  PROVE  active' \in [Series -> Nat \ {0}] /\ path' \in [Series -> Nat \ {0}]
<1>1. NextPath(target, n) \in Nat \ {0} /\ NextActive(target, n) \in Nat \ {0}
  BY NextIds
<1> QED
  BY <1>1 DEF Rotate, ObjectShape

\* tsedge_segment_append_block.
LEMMA WriteBlockShape == ASSUME ShapeInv, NEW n \in BlockSizes, WriteBlock(n) PROVE ShapeInv'
<1> DEFINE s == target
           id == NextPath(s, n)
           old == File(s, id)
           block == [points |-> buffer[s], offset |-> old.bytes]
           new == [blocks |-> Append(old.blocks, block), bytes |-> old.bytes + n]
           entry == IndexEntry(NextActive(s, n), block)
<1>1. /\ pc = "flush" /\ Rotate(s, n)
      /\ files' = [files EXCEPT ![s] = Put(@, id, new)]
      /\ ids' = [ids EXCEPT ![s] = @ \union {NextActive(s, n)}]
      /\ index' = [index EXCEPT ![s] = @ \union {entry}]
      /\ buffer' = [buffer EXCEPT ![s] = <<>>]
      /\ pc' = CASE op = "open" -> "replay"
                 [] op \in {"flush_all", "close"} -> "next"
                 [] OTHER -> "truncate"
      /\ UNCHANGED <<wal, quota, exceeded, op, target, arg, cursor, victims, size, touched, failed>>
      /\ UNCHANGED history
  BY DEF WriteBlock, Goto, limit, call, work
<1>2. s \in Series /\ buffer[s] \in Seq(Int) \ {<<>>} /\ n \in Nat /\ op \in Operations
  BY <1>1, ConstantFacts DEF ShapeInv, WorkShape, CallInv, PointsShape
<1>3. id \in Nat \ {0} /\ NextActive(s, n) \in Nat \ {0} /\ old.bytes \in Nat /\ old.blocks \in Seq(AnyBlock)
  BY <1>2, NextIds, FileIsShape DEF ShapeInv, FileShape
<1>4. block \in AnyBlock
  BY <1>2, <1>3 DEF AnyBlock
<1>5. FileShape(new)
  BY <1>2, <1>3, <1>4 DEF FileShape
<1>6. entry \in [segment : Nat, offset : Nat, newest : Int]
  <2>1. Max(Range(buffer[s])) \in Int
    BY <1>2, PointsFinite
  <2> QED
    BY <2>1, <1>3 DEF IndexEntry
<1> HIDE DEF id, new, entry, block, old
<1>7. FilesShape'
  BY <1>1, <1>2, <1>3, <1>5, PutFile DEF ShapeInv
<1>8. ObjectShape'
  <2>1. active' \in [Series -> Nat \ {0}] /\ path' \in [Series -> Nat \ {0}]
    BY <1>1, <1>2, RotateShape DEF ShapeInv
  <2>2. ids' \in [Series -> SUBSET (Nat \ {0})]
    BY <1>1, <1>2, <1>3 DEF ShapeInv, ObjectShape
  <2>3. ASSUME NEW z \in Series PROVE IndexShape(index'[z])
    <3>1. IndexShape(index[z] \union {entry})
      BY <1>6, FS_AddElement DEF ShapeInv, ObjectShape, IndexShape
    <3>2. index'[z] = index[z] \/ index'[z] = index[z] \union {entry}
      BY <1>1, <1>2 DEF ShapeInv, ObjectShape
    <3> QED
      BY <3>1, <3>2 DEF ShapeInv, ObjectShape
  <2>4. DOMAIN index' = Series
    BY <1>1 DEF ShapeInv, ObjectShape
  <2> QED
    BY <2>1, <2>2, <2>3, <2>4 DEF ObjectShape, IndexShape
<1>9. PointsShape'
  <2>1. Len(<<>>) <= Capacity
    BY ConstantFacts
  <2> QED
    BY <2>1, <1>1, <1>2 DEF ShapeInv, PointsShape
<1>10. WorkShape' /\ HistoryShape'
  BY <1>1, HistoryFrame DEF ShapeInv, WorkShape
<1>11. CallInv'
  <2>1. buffer'[target] = <<>>
    BY <1>1, <1>2 DEF ShapeInv, PointsShape
  <2>2. pc' \in {"replay", "next", "truncate"} /\ (pc' = "replay" => op = "open")
        /\ (pc' = "next" => op \in {"flush_all", "close"})
    BY <1>1, <1>2
  <2> QED
    BY <2>1, <2>2, <1>1, <1>2 DEF CallInv, Labels
<1> QED
  BY <1>7, <1>8, <1>9, <1>10, <1>11 DEF ShapeInv

\* The block does not reach its file.
LEMMA WriteBlockFailsShape == ASSUME ShapeInv, NEW n, WriteBlockFails(n) PROVE ShapeInv'
<1> DEFINE s == target
           id == NextPath(s, n)
<1>1. /\ files' = files \/ files' = [files EXCEPT ![s] = Put(@, id, File(s, id))]
      /\ UNCHANGED <<wal, used, gone, crashes>>
      /\ faults < MaxFaults /\ faults' = faults + 1
      /\ \/ Frees("io") /\ Forget
         \/ Finish("idle") /\ Rotate(s, n) /\ UNCHANGED <<ids, index, buffer, limit>>
  BY DEF WriteBlockFails, MayFail
<1>2. s \in Series /\ id \in Nat \ {0} /\ FileShape(File(s, id))
  BY NextIds, FileIsShape DEF ShapeInv, WorkShape
<1> HIDE DEF id
<1>3. FilesShape'
  BY <1>1, <1>2, FilesFrame, PutFile DEF ShapeInv
<1>4. HistoryShape'
  BY <1>1, ConstantFacts DEF ShapeInv, HistoryShape
<1>5. CASE Frees("io") /\ Forget
  <2>1. /\ pc' = "closed" /\ op' = "none" /\ target' = Registry[1] /\ arg' = 0 /\ cursor' = Start
        /\ victims' = {} /\ size' = 0 /\ touched' = {} /\ failed' = FALSE
        /\ ids' = [z \in Series |-> {}] /\ active' = Start /\ path' = Start
        /\ index' = [z \in Series |-> {}] /\ buffer' = Nothing
        /\ quota' = 0 /\ exceeded' = FALSE
    BY <1>5 DEF Forget, Finish, Goto
  <2>2. ObjectShape'
    BY <2>1, FS_EmptySet DEF ObjectShape, IndexShape, Start
  <2>3. PointsShape'
    BY <1>1, <2>1, ConstantFacts DEF ShapeInv, PointsShape, Nothing
  <2>4. cursor' \in [Series -> Nat \ {0}] /\ target' \in Series /\ arg' \in Int
    BY <2>1, ConstantFacts DEF Start
  <2>5. WorkShape'
    BY <2>1, <2>4 DEF WorkShape
  <2>6. CallInv'
    BY <2>1 DEF CallInv, Labels, Operations
  <2> QED
    BY <1>3, <1>4, <2>2, <2>3, <2>5, <2>6 DEF ShapeInv
<1>6. CASE Finish("idle") /\ Rotate(s, n) /\ UNCHANGED <<ids, index, buffer, limit>>
  <2>1. ObjectShape'
    BY <1>2, <1>6, RotateShape DEF ShapeInv, ObjectShape, IndexShape
  <2>2. PointsShape'
    BY <1>1, <1>6, PointsFrame DEF ShapeInv
  <2>3. quota' \in Nat /\ exceeded' \in BOOLEAN
    BY <1>6 DEF ShapeInv, WorkShape, limit
  <2> QED
    BY <1>3, <1>4, <1>6, <2>1, <2>2, <2>3, FinishShape
<1> QED
  BY <1>1, <1>5, <1>6

\* Replay.
LEMMA ReplayShape == ASSUME ShapeInv, NEW s \in Series, Replay(s) PROVE ShapeInv'
<1>1. /\ pc = "replay" /\ cursor[s] <= Len(wal[s])
      /\ UNCHANGED <<files, wal, quota, exceeded, op, arg, victims, size, touched, failed>>
      /\ UNCHANGED segs /\ UNCHANGED history
  BY DEF Replay, disk, limit, work
<1>2. /\ buffer[s] \in Seq(Int) /\ Len(buffer[s]) \in Nat /\ Capacity \in Nat \ {0}
      /\ wal[s] \in Seq(Int) /\ cursor[s] \in Nat \ {0} /\ op = "open"
  BY <1>1, ConstantFacts DEF ShapeInv, PointsShape, WorkShape, CallInv
<1>3. FilesShape' /\ ObjectShape' /\ HistoryShape'
  BY <1>1, FilesFrame, ObjectFrame, HistoryFrame DEF ShapeInv
<1>4. CASE Len(buffer[s]) >= Capacity
  <2>1. pc' = "flush" /\ target' = s /\ UNCHANGED <<buffer, cursor>>
    BY <1>4 DEF Replay, Goto
  <2>2. buffer[s] # <<>>
    BY <1>4, <1>2
  <2>3. PointsShape' /\ WorkShape'
    BY <1>1, <2>1, PointsFrame DEF ShapeInv, WorkShape
  <2>4. CallInv'
    BY <1>1, <1>2, <2>1, <2>2 DEF CallInv, Labels, Operations
  <2> QED
    BY <1>3, <2>3, <2>4 DEF ShapeInv
<1>5. CASE ~(Len(buffer[s]) >= Capacity)
  <2>1. /\ buffer' = [buffer EXCEPT ![s] = Append(@, wal[s][cursor[s]])]
        /\ cursor' = [cursor EXCEPT ![s] = @ + 1]
        /\ pc' = pc /\ target' = target
    BY <1>5 DEF Replay
  <2>2. wal[s][cursor[s]] \in Int
    BY <1>1, <1>2
  <2> DEFINE b == Append(buffer[s], wal[s][cursor[s]])
  <2>3. b \in Seq(Int) /\ Len(b) <= Capacity
    BY <2>2, <1>2, <1>5
  <2>4. buffer' = [buffer EXCEPT ![s] = b]
    BY <2>1
  <2> HIDE DEF b
  <2>5. PointsShape'
    BY <1>1, <2>3, <2>4 DEF ShapeInv, PointsShape
  <2>6. WorkShape'
    BY <1>1, <2>1 DEF ShapeInv, WorkShape
  <2>7. CallInv'
    BY <1>1, <1>2, <2>1 DEF CallInv, Labels, Operations
  <2> QED
    BY <1>3, <2>5, <2>6, <2>7 DEF ShapeInv
<1> QED
  BY <1>4, <1>5

\* A point goes to wal.log and to the buffer, which has room.
LEMMA PlaceShape == ASSUME ShapeInv, Place PROVE ShapeInv'
<1> DEFINE b == Append(buffer[target], arg)
<1>1. /\ pc = "place" /\ wal' = [wal EXCEPT ![target] = Append(@, arg)]
      /\ buffer' = [buffer EXCEPT ![target] = b]
      /\ Finish("idle") /\ UNCHANGED <<files, quota, exceeded>> /\ UNCHANGED segs /\ UNCHANGED history
  BY DEF Place, limit
<1>2. b \in Seq(Int) /\ Len(b) <= Capacity /\ target \in Series /\ arg \in Int
  <2>1. Len(buffer[target]) < Capacity /\ buffer[target] \in Seq(Int) /\ arg \in Int /\ target \in Series
    BY <1>1 DEF ShapeInv, CallInv, PointsShape, WorkShape
  <2> QED
    BY <2>1, ConstantFacts
<1> HIDE DEF b
<1>3. PointsShape'
  BY <1>1, <1>2 DEF ShapeInv, PointsShape
<1>4. FilesShape' /\ ObjectShape' /\ HistoryShape' /\ quota' \in Nat /\ exceeded' \in BOOLEAN
  BY <1>1, FilesFrame, ObjectFrame, HistoryFrame DEF ShapeInv, WorkShape
<1> QED
  BY <1>1, <1>3, <1>4, FinishShape

\* What may be removed are candidates.
LEMMA ExpiredShape ==
  ASSUME ShapeInv, NEW s \in Series, NEW cutoff
  PROVE  Expired(s, cutoff) \subseteq Candidates /\ Sealed(s) \subseteq Candidates
<1>1. \A c \in Segments(s) : c \in Candidates
  BY SegmentShape DEF ShapeInv, ObjectShape
<1> QED
  BY <1>1 DEF Expired, Sealed

\* The call goes on.
LEMMA ResumeShape == ASSUME ShapeInv, Resume PROVE ShapeInv'
<1>1. pc = "resume" /\ UNCHANGED disk /\ UNCHANGED history
  BY DEF Resume
<1>2. HistoryShape' /\ FilesShape' /\ UNCHANGED <<files, wal>>
  BY <1>1, HistoryFrame, FilesFrame DEF ShapeInv, disk
<1>3. CASE op = "append"
  <2>1. pc' = "place" /\ UNCHANGED segs
        /\ UNCHANGED <<buffer, quota, exceeded, op, target, arg, cursor, victims, size, touched, failed>>
    BY <1>3 DEF Resume, Goto, limit, call, work
  <2>2. ObjectShape' /\ PointsShape'
    BY <1>2, <2>1, ObjectFrame, PointsFrame DEF ShapeInv
  <2>3. WorkShape'
    BY <2>1 DEF ShapeInv, WorkShape
  <2>4. CallInv'
    <3>1. buffer[target] = <<>>
      BY <1>1, <1>3 DEF ShapeInv, CallInv
    <3>2. Len(buffer[target]) < Capacity
      BY <3>1, ConstantFacts
    <3> QED
      BY <3>2, <2>1, <1>3 DEF CallInv, Labels, Operations
  <2> QED
    BY <1>2, <2>2, <2>3, <2>4 DEF ShapeInv
<1>4. CASE op = "delete_before"
  <2>1. pc' = "expire" /\ UNCHANGED segs /\ victims' = Expired(target, arg)
        /\ UNCHANGED <<buffer, quota, exceeded, op, target, arg, cursor, size, touched, failed>>
    BY <1>4 DEF Resume, Goto, limit, call
  <2>2. ObjectShape' /\ PointsShape'
    BY <1>2, <2>1, ObjectFrame, PointsFrame DEF ShapeInv
  <2>3. victims' \subseteq Candidates
    BY <2>1, ExpiredShape DEF ShapeInv, WorkShape
  <2>4. WorkShape'
    BY <2>1, <2>3 DEF ShapeInv, WorkShape
  <2>5. CallInv'
    BY <2>1, <1>4 DEF CallInv, Labels, Operations
  <2> QED
    BY <1>2, <2>2, <2>4, <2>5 DEF ShapeInv
<1>5. CASE op # "append" /\ op # "delete_before"
  <2>1. Return("ok")
    BY <1>5 DEF Resume
  <2> QED
    BY <2>1, <1>1, <1>2, ReturnShape
<1> QED
  BY <1>3, <1>4, <1>5

\* tsedge_db_flush_all goes to the next series.
LEMMA NextSeriesShape == ASSUME ShapeInv, NextSeries PROVE ShapeInv'
<1> DEFINE full == {i \in DOMAIN Registry : buffer[Registry[i]] # <<>>}
<1>1. /\ pc = "next" /\ UNCHANGED segs /\ UNCHANGED history
      /\ UNCHANGED <<files, wal, buffer, quota, exceeded, op, arg, cursor, victims, size, touched, failed>>
      /\ op \in {"flush_all", "close"}
  BY DEF NextSeries, disk, limit, work, ShapeInv, CallInv
<1>2. FilesShape' /\ ObjectShape' /\ PointsShape' /\ HistoryShape'
  BY <1>1, FilesFrame, ObjectFrame, PointsFrame, HistoryFrame DEF ShapeInv
<1>3. CASE full = {}
  <2>1. pc' = "truncate" /\ target' = target
    BY <1>3 DEF NextSeries, Goto
  <2>2. WorkShape' /\ CallInv'
    BY <1>1, <2>1 DEF ShapeInv, WorkShape, CallInv, Labels, Operations
  <2> QED
    BY <1>2, <2>2 DEF ShapeInv
<1>4. CASE full # {}
  <2>1. pc' = "flush" /\ target' = Registry[Min(full)]
    BY <1>4 DEF NextSeries, Goto
  <2>2. DOMAIN Registry \subseteq Nat
    BY ConstantFacts
  <2>3. Min(full) \in full
    BY <1>4, <2>2, MinOfNats
  <2>4. target' \in Series /\ buffer[target'] # <<>>
    BY <2>1, <2>3 DEF Series, Range
  <2>5. WorkShape' /\ CallInv'
    BY <1>1, <2>1, <2>4 DEF ShapeInv, WorkShape, CallInv, Labels, Operations
  <2> QED
    BY <1>2, <2>5 DEF ShapeInv
<1> QED
  BY <1>3, <1>4

\* wal.log is rewritten from the buffers.
LEMMA TruncateWalShape == ASSUME ShapeInv, TruncateWal PROVE ShapeInv'
<1>1. /\ pc = "truncate" /\ pc' = "measure" /\ wal' = buffer /\ UNCHANGED segs /\ UNCHANGED history
      /\ UNCHANGED <<files, buffer, quota, exceeded, op, target, arg, cursor, victims, size, touched, failed>>
  BY DEF TruncateWal, Goto, limit, call, work
<1>2. FilesShape' /\ ObjectShape' /\ PointsShape' /\ HistoryShape'
  BY <1>1, FilesFrame, ObjectFrame, HistoryFrame DEF ShapeInv, PointsShape
<1>3. WorkShape' /\ CallInv'
  BY <1>1 DEF ShapeInv, WorkShape, CallInv, Labels
<1> QED
  BY <1>2, <1>3 DEF ShapeInv

\* A step within a cleanup that changes no file, and no more of the object than its limit.
LEMMA CleanupShape ==
  ASSUME ShapeInv, UNCHANGED <<disk, segs, buffer, call>>, HistoryShape',
         quota' \in Nat, exceeded' \in BOOLEAN, victims' \subseteq Candidates, size' \in Nat,
         touched' \subseteq Series, failed' \in BOOLEAN,
         pc \in {"measure", "evict", "reindex", "expire", "refresh"},
         \/ pc \in {"measure", "evict", "reindex"} /\ pc' \in {"evict", "reindex", "resume"}
         \/ pc \in {"expire", "refresh"} /\ pc' \in {"expire", "refresh"}
  PROVE  ShapeInv'
<1>1. UNCHANGED <<files, wal, buffer, op, target, arg, cursor>> /\ UNCHANGED segs
  BY DEF disk, call
<1>2. FilesShape' /\ ObjectShape' /\ PointsShape'
  BY <1>1, FilesFrame, ObjectFrame, PointsFrame DEF ShapeInv
<1>3. WorkShape'
  BY <1>1 DEF ShapeInv, WorkShape
<1>4. CallInv'
  BY <1>1 DEF ShapeInv, CallInv, Labels, Operations
<1> QED
  BY <1>2, <1>3, <1>4 DEF ShapeInv

\* The quota measures.
LEMMA MeasureShape == ASSUME ShapeInv, Measure PROVE ShapeInv'
<1>1. pc = "measure" /\ UNCHANGED <<disk, segs, buffer, call>> /\ UNCHANGED <<quota, touched, failed>>
      /\ UNCHANGED history
  BY DEF Measure
<1>2. quota' \in Nat /\ touched' \subseteq Series /\ failed' \in BOOLEAN /\ HistoryShape'
  BY <1>1, HistoryFrame DEF ShapeInv, WorkShape
<1>3. /\ exceeded' \in BOOLEAN /\ victims' \subseteq Candidates /\ size' \in Nat
      /\ pc' \in {"resume", "evict"}
  <2>1. CASE quota = 0 \/ DiskBytes <= quota
    BY <2>1 DEF Measure, Goto, ShapeInv, WorkShape
  <2>2. CASE ~(quota = 0 \/ DiskBytes <= quota)
    <3>1. /\ victims' = UNION {Sealed(s) : s \in Series} /\ size' = DiskBytes /\ exceeded' = exceeded
          /\ pc' = "evict"
      BY <2>2 DEF Measure, Goto
    <3>2. \A s \in Series : Sealed(s) \subseteq Candidates
      BY ExpiredShape
    <3> QED
      BY <3>1, <3>2, DiskBytesNat DEF ShapeInv, WorkShape
  <2> QED
    BY <2>1, <2>2
<1> QED
  BY <1>1, <1>2, <1>3, CleanupShape

\* It has removed enough, or all.
LEMMA EvictEndsShape == ASSUME ShapeInv, EvictEnds PROVE ShapeInv'
<1>1. /\ pc = "evict" /\ pc' = "reindex" /\ victims' = {}
      /\ UNCHANGED <<disk, segs, buffer, call>> /\ UNCHANGED <<quota, exceeded, size, touched, failed>>
      /\ UNCHANGED history
  BY DEF EvictEnds, Goto, limit
<1>2. /\ quota' \in Nat /\ exceeded' \in BOOLEAN /\ size' \in Nat /\ touched' \subseteq Series
      /\ failed' \in BOOLEAN /\ HistoryShape'
  BY <1>1, HistoryFrame DEF ShapeInv, WorkShape
<1> QED
  BY <1>1, <1>2, CleanupShape

\* Retention is through.
LEMMA ExpireEndsShape == ASSUME ShapeInv, ExpireEnds PROVE ShapeInv'
<1>1. /\ pc = "expire" /\ pc' = "refresh"
      /\ UNCHANGED <<disk, segs, buffer, call>>
      /\ UNCHANGED <<quota, exceeded, victims, size, touched, failed>>
      /\ UNCHANGED history
  BY DEF ExpireEnds, Goto, limit, work
<1>2. /\ quota' \in Nat /\ exceeded' \in BOOLEAN /\ size' \in Nat /\ touched' \subseteq Series
      /\ failed' \in BOOLEAN /\ victims' \subseteq Candidates /\ HistoryShape'
  BY <1>1, HistoryFrame DEF ShapeInv, WorkShape
<1> QED
  BY <1>1, <1>2, CleanupShape

\* Or it cannot unlink.
LEMMA ExpireFailsShape == ASSUME ShapeInv, ExpireFails PROVE ShapeInv'
<1>1. /\ pc = "expire" /\ pc' = pc /\ victims' = {} /\ touched' = {target} /\ failed' = TRUE
      /\ UNCHANGED <<disk, segs, buffer, call>>
      /\ UNCHANGED <<quota, exceeded, size, used, gone, crashes>>
      /\ faults < MaxFaults /\ faults' = faults + 1
  BY DEF ExpireFails, MayFail, limit
<1>2. HistoryShape'
  BY <1>1, ConstantFacts DEF ShapeInv, HistoryShape
<1>3. /\ quota' \in Nat /\ exceeded' \in BOOLEAN /\ size' \in Nat /\ touched' \subseteq Series
      /\ failed' \in BOOLEAN
  BY <1>1 DEF ShapeInv, WorkShape
<1> QED
  BY <1>1, <1>2, <1>3, CleanupShape

\* The verdict.
LEMMA JudgeShape == ASSUME ShapeInv, Judge PROVE ShapeInv'
<1>1. pc = "reindex" /\ UNCHANGED disk /\ UNCHANGED history
  BY DEF Judge
<1>2. HistoryShape' /\ FilesShape' /\ UNCHANGED <<files, wal>>
  BY <1>1, HistoryFrame, FilesFrame DEF ShapeInv, disk
<1>3. CASE size <= quota
  <2>1. /\ pc' = "resume" /\ exceeded' = FALSE /\ size' = 0
        /\ UNCHANGED <<segs, buffer, call>> /\ UNCHANGED <<quota, victims, touched, failed>>
    BY <1>3 DEF Judge, Goto
  <2>2. quota' \in Nat /\ victims' \subseteq Candidates /\ touched' \subseteq Series /\ failed' \in BOOLEAN
    BY <2>1 DEF ShapeInv, WorkShape
  <2> QED
    BY <1>1, <1>2, <2>1, <2>2, CleanupShape
<1>4. CASE ~(size <= quota) /\ Frees("quota")
  BY <1>1, <1>2, <1>4, ForgetShape DEF Judge
<1>5. CASE ~(size <= quota) /\ ~Frees("quota")
  <2>1. exceeded' = TRUE /\ Finish("idle") /\ UNCHANGED <<buffer, quota>> /\ UNCHANGED segs
    BY <1>5 DEF Judge
  <2>2. ObjectShape' /\ PointsShape' /\ quota' \in Nat
    BY <1>2, <2>1, ObjectFrame, PointsFrame DEF ShapeInv, WorkShape
  <2> QED
    BY <1>2, <2>1, <2>2, FinishShape
<1> QED
  BY <1>3, <1>4, <1>5

\* One file less.
LEMMA UnlinkShape ==
  ASSUME FilesShape, HistoryShape, NEW v, v.series \in Series, Unlink(v)
  PROVE  /\ FilesShape'
         /\ DOMAIN files'[v.series] = DOMAIN files[v.series] \ {v.segment}
         /\ \A id \in DOMAIN files'[v.series] : files'[v.series][id] = files[v.series][id]
         /\ \A z \in Series \ {v.series} : files'[z] = files[z]
         /\ gone' \in [Series -> SUBSET Int]
<1> DEFINE s == v.series
           rest == DOMAIN files[s] \ {v.segment}
<1>1. files' = [files EXCEPT ![s] = Restrict(@, rest)]
  BY DEF Unlink
<1>2. files'[s] = Restrict(files[s], rest) /\ DOMAIN files' = Series
  BY <1>1 DEF FilesShape
<1>3. DOMAIN files'[s] = rest /\ \A id \in rest : files'[s][id] = files[s][id]
  BY <1>2 DEF Restrict
<1>4. \A z \in Series \ {s} : files'[z] = files[z]
  BY <1>1 DEF FilesShape
<1>5. IsFiniteSet(rest)
  BY FS_Subset DEF FilesShape
<1>6. ASSUME NEW z \in Series
      PROVE  /\ DOMAIN files'[z] \subseteq Nat \ {0}
             /\ IsFiniteSet(DOMAIN files'[z])
             /\ \A id \in DOMAIN files'[z] : FileShape(files'[z][id])
  <2>1. CASE z = s
    BY <2>1, <1>3, <1>5 DEF FilesShape
  <2>2. CASE z # s
    BY <2>2, <1>4 DEF FilesShape
  <2> QED
    BY <2>1, <2>2
<1>7. FilesShape'
  BY <1>2, <1>6 DEF FilesShape, FileShape
<1>8. PointsOf(File(s, v.segment)) \subseteq Int
  <2> DEFINE B == File(s, v.segment).blocks
  <2>1. B \in Seq(AnyBlock)
    BY FileIsShape DEF FileShape
  <2>2. \A b \in AnyBlock : b.points \in Seq(Int) \ {<<>>}
    BY DEF AnyBlock
  <2>3. PointsOf(File(s, v.segment)) = UNION {Range(B[i].points) : i \in DOMAIN B}
    BY DEF PointsOf
  <2> HIDE DEF B
  <2>4. \A i \in DOMAIN B : B[i].points \in Seq(Int) \ {<<>>}
    BY <2>1, <2>2
  <2>5. \A i \in DOMAIN B : Range(B[i].points) \subseteq Int
    BY <2>4, PointsFinite
  <2> QED
    BY <2>3, <2>5
<1>9. gone' \in [Series -> SUBSET Int]
  <2>1. PICK P : gone' = [gone EXCEPT ![s] = @ \union (PointsOf(File(s, v.segment)) \ P)]
    BY DEF Unlink
  <2> QED
    BY <2>1, <1>8 DEF HistoryShape
<1> QED
  BY <1>3, <1>4, <1>7, <1>9

\* The quota removes a segment.
LEMMA EvictShape == ASSUME ShapeInv, Evict PROVE ShapeInv'
<1>1. PICK v \in victims :
        /\ Unlink(v) /\ touched' = touched \union {v.series} /\ victims' = victims \ {v}
        /\ size' = IF size > v.bytes THEN size - v.bytes ELSE 0
  BY DEF Evict
<1>2. /\ pc = "evict" /\ pc' = pc
      /\ UNCHANGED <<wal, buffer, quota, exceeded, op, target, arg, cursor, failed, used, crashes, faults>>
      /\ UNCHANGED segs
  BY DEF Evict, limit, call, bounds
<1>3. v.series \in Series /\ v.bytes \in Nat
  BY <1>1 DEF ShapeInv, WorkShape, Candidates
<1>4. FilesShape' /\ gone' \in [Series -> SUBSET Int]
  BY <1>1, <1>3, UnlinkShape DEF ShapeInv
<1>5. ObjectShape' /\ PointsShape' /\ HistoryShape'
  BY <1>2, <1>4, ObjectFrame, PointsFrame DEF ShapeInv, HistoryShape
<1>6. WorkShape'
  <2>1. size' \in Nat
    BY <1>1, <1>3 DEF ShapeInv, WorkShape
  <2> QED
    BY <1>1, <1>2, <1>3, <2>1 DEF ShapeInv, WorkShape
<1>7. CallInv'
  BY <1>2 DEF ShapeInv, CallInv
<1> QED
  BY <1>4, <1>5, <1>6, <1>7 DEF ShapeInv

\* Retention removes a segment.
LEMMA ExpireShape == ASSUME ShapeInv, Expire PROVE ShapeInv'
<1>1. PICK v \in victims : Unlink(v) /\ victims' = victims \ {v}
  BY DEF Expire
<1>2. /\ pc = "expire" /\ pc' = pc /\ touched' = {target}
      /\ UNCHANGED <<wal, buffer, quota, exceeded, op, target, arg, cursor, size, failed, used, crashes, faults>>
      /\ UNCHANGED segs
  BY DEF Expire, limit, call, bounds
<1>3. v.series \in Series
  BY <1>1 DEF ShapeInv, WorkShape, Candidates
<1>4. FilesShape' /\ gone' \in [Series -> SUBSET Int]
  BY <1>1, <1>3, UnlinkShape DEF ShapeInv
<1>5. ObjectShape' /\ PointsShape' /\ HistoryShape'
  BY <1>2, <1>4, ObjectFrame, PointsFrame DEF ShapeInv, HistoryShape
<1>6. WorkShape'
  BY <1>1, <1>2 DEF ShapeInv, WorkShape
<1>7. CallInv'
  BY <1>2 DEF ShapeInv, CallInv
<1> QED
  BY <1>4, <1>5, <1>6, <1>7 DEF ShapeInv

\* tsedge_series_rebuild_index.
LEMMA RebuildShape == ASSUME ShapeInv, Rebuild PROVE ShapeInv'
<1> DEFINE s == NextTouched
<1>1. /\ pc' = pc /\ touched # {}
      /\ ids' = [ids EXCEPT ![s] = Discovered(s)]
      /\ active' = [active EXCEPT ![s] = LastId(Discovered(s))]
      /\ path' = [path EXCEPT ![s] = active'[s]]
      /\ index' = [index EXCEPT ![s] = ScannedIndex(s, Discovered(s))]
      /\ touched' = touched \ {s}
      /\ UNCHANGED <<files, wal, buffer, quota, exceeded, op, target, arg, cursor, victims, size, failed>>
      /\ UNCHANGED history
  BY DEF Rebuild, disk, limit, call
<1>2. s \in Series
  BY <1>1, NextTouchedIn DEF ShapeInv, WorkShape
<1> HIDE DEF s
<1>3. /\ Discovered(s) \in SUBSET (Nat \ {0}) /\ LastId(Discovered(s)) \in Nat \ {0}
      /\ IndexShape(ScannedIndex(s, Discovered(s)))
  BY <1>2, LastIdShape DEF ShapeInv
<1>4. ObjectShape'
  <2>1. ids' \in [Series -> SUBSET (Nat \ {0})] /\ active' \in [Series -> Nat \ {0}]
    BY <1>1, <1>2, <1>3 DEF ShapeInv, ObjectShape
  <2>2. path' \in [Series -> Nat \ {0}]
    BY <1>1, <1>2, <2>1 DEF ShapeInv, ObjectShape
  <2>3. DOMAIN index' = Series /\ \A z \in Series : IndexShape(index'[z])
    BY <1>1, <1>2, <1>3 DEF ShapeInv, ObjectShape
  <2> QED
    BY <2>1, <2>2, <2>3 DEF ObjectShape, IndexShape
<1>5. FilesShape' /\ PointsShape' /\ HistoryShape'
  BY <1>1, FilesFrame, PointsFrame, HistoryFrame DEF ShapeInv
<1>6. WorkShape' /\ CallInv'
  BY <1>1 DEF ShapeInv, WorkShape, CallInv
<1> QED
  BY <1>4, <1>5, <1>6 DEF ShapeInv

\* tsedge_series_rebuild_index stops on the way.
LEMMA RebuildFailsShape == ASSUME ShapeInv, RebuildFails PROVE ShapeInv'
<1>1. /\ touched # {} /\ UNCHANGED disk /\ UNCHANGED <<files, wal, used, gone, crashes>>
      /\ faults < MaxFaults /\ faults' = faults + 1
  BY DEF RebuildFails, MayFail, disk
<1>2. HistoryShape' /\ FilesShape'
  BY <1>1, FilesFrame, ConstantFacts DEF ShapeInv, HistoryShape
<1>3. CASE Frees("io")
  <2>1. Forget
    BY <1>3 DEF RebuildFails
  <2> QED
    BY <2>1, <1>1, <1>2, ForgetShape
<1>4. CASE ~Frees("io")
  <2> DEFINE s == NextTouched
  <2>1. s \in Series
    BY <1>1, NextTouchedIn DEF ShapeInv, WorkShape
  <2>2. /\ Finish("idle") /\ UNCHANGED <<path, buffer, limit>>
        /\ \/ /\ ids' = [ids EXCEPT ![s] = {}] /\ index' = [index EXCEPT ![s] = {}]
              /\ active' = active
           \/ \E bad \in Discovered(s) :
                /\ ids' = [ids EXCEPT ![s] = Discovered(s)]
                /\ active' = [active EXCEPT ![s] = LastId(Discovered(s))]
                /\ index' = [index EXCEPT ![s] =
                               ScannedIndex(s, {id \in Discovered(s) : id < bad})]
    BY <1>4 DEF RebuildFails
  <2> HIDE DEF s
  <2>3. /\ Discovered(s) \in SUBSET (Nat \ {0}) /\ LastId(Discovered(s)) \in Nat \ {0}
        /\ Discovered(s) \in SUBSET DOMAIN files[s]
    BY <2>1, LastIdShape DEF ShapeInv
  <2>4. \A bad : IndexShape(ScannedIndex(s, {id \in Discovered(s) : id < bad}))
    BY <2>1, <2>3, ScannedShape DEF ShapeInv
  <2>5. IndexShape({})
    BY FS_EmptySet DEF IndexShape
  <2>6. ids' \in [Series -> SUBSET (Nat \ {0})] /\ active' \in [Series -> Nat \ {0}]
    <3>1. \E new \in SUBSET (Nat \ {0}) : ids' = [ids EXCEPT ![s] = new]
      BY <2>2, <2>3
    <3>2. active' = active \/ active' = [active EXCEPT ![s] = LastId(Discovered(s))]
      BY <2>2
    <3> QED
      BY <2>3, <3>1, <3>2 DEF ShapeInv, ObjectShape
  <2>7. DOMAIN index' = Series /\ \A z \in Series : IndexShape(index'[z])
    <3>1. PICK new : IndexShape(new) /\ index' = [index EXCEPT ![s] = new]
      BY <2>2, <2>4, <2>5
    <3> QED
      BY <3>1, <2>1 DEF ShapeInv, ObjectShape
  <2>8. ObjectShape'
    BY <2>2, <2>6, <2>7 DEF ShapeInv, ObjectShape, IndexShape
  <2>9. PointsShape' /\ quota' \in Nat /\ exceeded' \in BOOLEAN
    BY <2>2, <1>1, PointsFrame DEF ShapeInv, WorkShape, limit
  <2> QED
    BY <1>2, <2>2, <2>8, <2>9, FinishShape
<1> QED
  BY <1>3, <1>4

\* ShapeInv is inductive.
LEMMA NextShape == ASSUME ShapeInv, [Next]_vars PROVE ShapeInv'
<1>1. ASSUME Continue PROVE ShapeInv'
  <2>1. ASSUME ReplayEnds PROVE ShapeInv'
    BY <2>1, ReturnShape, HistoryFrame DEF ReplayEnds, ShapeInv
  <2>2. ASSUME Refreshed PROVE ShapeInv'
    BY <2>2, ReturnShape, HistoryFrame DEF Refreshed, ShapeInv
  <2> QED
    BY <1>1, <2>1, <2>2, ReplayShape, PlaceShape, ResumeShape, WriteBlockShape, NextSeriesShape,
       TruncateWalShape, MeasureShape, EvictShape, EvictEndsShape, JudgeShape, ExpireShape,
       ExpireEndsShape, RebuildShape DEF Continue
<1>2. ASSUME Environment PROVE ShapeInv'
  <2>1. ASSUME CallFails PROVE ShapeInv'
    <3>1. Return("io") /\ UNCHANGED disk /\ UNCHANGED <<used, gone, crashes>>
          /\ faults < MaxFaults /\ faults' = faults + 1
      BY <2>1 DEF CallFails, MayFail
    <3>2. HistoryShape'
      BY <3>1, ConstantFacts DEF ShapeInv, HistoryShape
    <3> QED
      BY <3>1, <3>2, ReturnShape
  <2>2. ASSUME Crash PROVE ShapeInv'
    <3>1. Forget /\ UNCHANGED disk /\ UNCHANGED <<used, gone, faults>>
          /\ crashes < MaxCrashes /\ crashes' = crashes + 1
      BY <2>2 DEF Crash
    <3>2. HistoryShape'
      BY <3>1, ConstantFacts DEF ShapeInv, HistoryShape
    <3> QED
      BY <3>1, <3>2, ForgetShape
  <2> QED
    BY <1>2, <2>1, <2>2, WriteBlockFailsShape, ExpireFailsShape, RebuildFailsShape DEF Environment
<1>3. ASSUME UNCHANGED vars PROVE ShapeInv'
  <2>1. /\ UNCHANGED <<files, wal, buffer, quota, exceeded, pc, op, target, arg, cursor, victims, size,
                       touched, failed>>
        /\ UNCHANGED segs /\ UNCHANGED history
    BY <1>3 DEF vars, disk, limit, call, work
  <2>2. FilesShape' /\ ObjectShape' /\ PointsShape' /\ HistoryShape'
    BY <2>1, FilesFrame, ObjectFrame, PointsFrame, HistoryFrame DEF ShapeInv
  <2>3. WorkShape' /\ CallInv'
    BY <2>1 DEF ShapeInv, WorkShape, CallInv
  <2> QED
    BY <2>2, <2>3 DEF ShapeInv
<1> QED
  BY <1>1, <1>2, <1>3, OpenShape, StartCallShape DEF Next

\* A new database has the shape.
LEMMA InitShape == Init => ShapeInv
<1> SUFFICES ASSUME Init PROVE ShapeInv
  OBVIOUS
<1>1. FilesShape
  BY FS_EmptySet DEF Init, NoSegments, FilesShape
<1>2. ObjectShape
  BY FS_EmptySet DEF Init, ObjectShape, IndexShape, Start
<1>3. PointsShape
  <2>1. Len(<<>>) <= Capacity
    BY ConstantFacts
  <2> QED
    BY <2>1 DEF Init, PointsShape, Nothing
<1>4. WorkShape
  <2>1. cursor \in [Series -> Nat \ {0}] /\ target \in Series /\ arg \in Int
    BY ConstantFacts DEF Init, Start
  <2> QED
    BY <2>1 DEF Init, WorkShape
<1>5. HistoryShape
  BY ConstantFacts DEF Init, HistoryShape
<1>6. CallInv
  BY DEF Init, CallInv, Labels, Operations
<1> QED
  BY <1>1, <1>2, <1>3, <1>4, <1>5, <1>6 DEF ShapeInv

\* A file of blocks with points is what TypeOK asks for.
LEMMA BlocksTyped ==
  ASSUME NEW q \in Seq(AnyBlock)
  PROVE  q \in Seq([points : Seq(Int), offset : Nat])
<1>1. \A b \in AnyBlock : b \in [points : Seq(Int), offset : Nat]
  BY DEF AnyBlock
<1>2. Len(q) \in Nat /\ \A i \in 1..Len(q) : q[i] \in AnyBlock
  OBVIOUS
<1>3. q = [i \in 1..Len(q) |-> q[i]]
  OBVIOUS
<1>5. [i \in 1..Len(q) |-> q[i]] \in [1..Len(q) -> [points : Seq(Int), offset : Nat]]
  BY <1>1, <1>2
<1>6. [i \in 1..Len(q) |-> q[i]] \in Seq([points : Seq(Int), offset : Nat])
  BY <1>2, <1>5
<1> QED
  BY <1>3, <1>6

\* The shape is at least the type.
LEMMA ShapeTypes == ShapeInv => TypeOK
<1> SUFFICES ASSUME ShapeInv PROVE TypeOK
  OBVIOUS
<1>1. \A s \in Series : \A id \in DOMAIN files[s] :
        /\ id \in Nat \ {0}
        /\ files[s][id].bytes \in Nat
        /\ files[s][id].blocks \in Seq([points : Seq(Int), offset : Nat])
  BY BlocksTyped DEF ShapeInv, FilesShape, FileShape
<1> QED
  BY <1>1 DEF TypeOK, ShapeInv, ObjectShape, IndexShape, PointsShape, WorkShape, HistoryShape,
              CallInv, Candidates

\* Types of the whole state, whatever fails and crashes: a buffer holds at most
\* TSEDGE_BLOCK_MAX_POINTS points, also while wal.log is replayed.
THEOREM TypeCorrect == Spec => []TypeOK
<1> QED
  BY InitShape, NextShape, ShapeTypes, PTL DEF Spec

-----------------------------------------------------------------------------
(* tsedge_open repairs *)

PutIn(s, id, file) == files' = [files EXCEPT ![s] = Put(@, id, file)]

\* A block appended to its file and an entry added to the index keep them in step.
LEMMA IndexGrows ==
  ASSUME FilesShape, NEW s \in Series, NEW id \in Nat \ {0}, NEW blocks \in Seq(AnyBlock), NEW block,
         NEW new, new.blocks = Append(blocks, block), PutIn(s, id, new),
         \/ id \in DOMAIN files[s] /\ blocks = files[s][id].blocks
         \/ id \notin DOMAIN files[s] /\ blocks = <<>>,
         index[s] = ScannedIndex(s, DOMAIN files[s]),
         index'[s] = index[s] \union {IndexEntry(id, block)}
  PROVE  index'[s] = ScannedIndex(s, DOMAIN files[s])'
<1>2. /\ DOMAIN files'[s] = DOMAIN files[s] \union {id}
      /\ files'[s][id] = new
      /\ \A k \in DOMAIN files[s] : k # id => files'[s][k] = files[s][k]
  <2>1. files' = [files EXCEPT ![s] = Put(@, id, new)]
    BY DEF PutIn
  <2>2. FilesShape /\ s \in Series /\ id \in Nat \ {0}
    OBVIOUS
  <2>3. /\ DOMAIN files' = Series
        /\ DOMAIN files'[s] = DOMAIN files[s] \union {id}
        /\ files'[s][id] = new
        /\ \A k \in DOMAIN files[s] : k # id => files'[s][k] = files[s][k]
        /\ \A z \in Series \ {s} : files'[z] = files[z]
        /\ FileShape(new) => FilesShape'
    BY ONLY <2>1, <2>2, PutFile, Zenon
  <2> QED
    BY <2>3
<1>4. /\ Len(blocks) \in Nat /\ DOMAIN blocks = 1..Len(blocks)
      /\ DOMAIN new.blocks = 1..(Len(blocks) + 1)
      /\ \A i \in DOMAIN blocks : new.blocks[i] = blocks[i]
      /\ new.blocks[Len(blocks) + 1] = block
  OBVIOUS
<1>5. \A e : e \in ScannedIndex(s, DOMAIN files[s])' <=>
        \E k \in DOMAIN files'[s] : \E i \in DOMAIN files'[s][k].blocks :
          e = IndexEntry(k, files'[s][k].blocks[i])
  BY DEF ScannedIndex
<1>6. ASSUME NEW e \in index'[s] PROVE e \in ScannedIndex(s, DOMAIN files[s])'
  <2>1. CASE e = IndexEntry(id, block)
    <3>1. id \in DOMAIN files'[s] /\ files'[s][id].blocks = new.blocks
      BY <1>2
    <3>2. Len(blocks) + 1 \in DOMAIN new.blocks /\ e = IndexEntry(id, new.blocks[Len(blocks) + 1])
      BY <2>1, <1>4
    <3> QED
      BY <3>1, <3>2, <1>5
  <2>2. CASE e \in index[s]
    <3>1. PICK k \in DOMAIN files[s] : \E i \in DOMAIN files[s][k].blocks :
            e = IndexEntry(k, files[s][k].blocks[i])
      BY <2>2, EntriesOfBlocks
    <3>2. CASE k = id
      <4>1. PICK i \in DOMAIN blocks : e = IndexEntry(id, blocks[i])
        BY <3>1, <3>2
      <4>2. i \in DOMAIN new.blocks /\ new.blocks[i] = blocks[i]
        BY <1>4
      <4> QED
        BY <4>1, <4>2, <1>5, <1>2
    <3>3. CASE k # id
      BY <3>1, <3>3, <1>5, <1>2
    <3> QED
      BY <3>2, <3>3
  <2> QED
    BY <2>1, <2>2
<1>7. ASSUME NEW e \in ScannedIndex(s, DOMAIN files[s])' PROVE e \in index'[s]
  <2>1. PICK k \in DOMAIN files'[s] : \E i \in DOMAIN files'[s][k].blocks :
          e = IndexEntry(k, files'[s][k].blocks[i])
    BY <1>5, <1>7
  <2>2. CASE k = id
    <3>1. PICK i \in DOMAIN new.blocks : e = IndexEntry(id, new.blocks[i])
      BY <2>1, <2>2, <1>2
    <3>2. CASE i = Len(blocks) + 1
      BY <3>1, <3>2, <1>4
    <3>3. CASE i # Len(blocks) + 1
      <4>1. i \in DOMAIN blocks /\ e = IndexEntry(id, blocks[i])
        BY <3>1, <3>3, <1>4
      <4>2. id \in DOMAIN files[s] /\ blocks = files[s][id].blocks
        BY <4>1
      <4> QED
        BY <4>1, <4>2, EntriesOfBlocks
    <3> QED
      BY <3>2, <3>3
  <2>3. CASE k # id
    <3>1. k \in DOMAIN files[s] /\ files'[s][k] = files[s][k]
      BY <2>1, <2>3, <1>2
    <3> QED
      BY <3>1, <2>1, EntriesOfBlocks
  <2> QED
    BY <2>2, <2>3
<1> QED
  BY <1>6, <1>7

\* What a block does to files and index, also when files are left empty by failures.
LEMMA WriteInStep ==
  ASSUME ShapeInv, NEW n \in BlockSizes, WriteBlock(n), \A s \in Series : InStep(s)
  PROVE  \A s \in Series : InStep(s)'
<1>1. PICK t \in Series : t = target
  BY DEF ShapeInv, WorkShape
<1> DEFINE id == NextPath(t, n)
           old == File(t, id)
           blocks == old.blocks
           block == [points |-> buffer[t], offset |-> old.bytes]
           new == [blocks |-> Append(blocks, block), bytes |-> old.bytes + n]
<1>2. path[t] = active[t] /\ active[t] \in Nat \ {0} /\ index[t] = ScannedIndex(t, DOMAIN files[t])
      /\ \A k \in DOMAIN files[t] : k \in Nat /\ k <= active[t]
  BY DEF InStep, ShapeInv, ObjectShape, FilesShape
<1>3. /\ id = NextActive(t, n) /\ id \in Nat \ {0} /\ \A k \in DOMAIN files[t] : k <= id
  BY <1>2 DEF NextPath, NextActive
<1>4. /\ PutIn(t, id, new)
      /\ active' = [active EXCEPT ![t] = id]
      /\ path' = [path EXCEPT ![t] = id]
      /\ index' = [index EXCEPT ![t] = @ \union {IndexEntry(id, block)}]
  BY <1>1, <1>3 DEF WriteBlock, Rotate, PutIn
<1>5. /\ blocks \in Seq(AnyBlock)
      /\ \/ id \in DOMAIN files[t] /\ blocks = files[t][id].blocks
         \/ id \notin DOMAIN files[t] /\ blocks = <<>>
  <2>1. FileShape(old)
    BY FileIsShape DEF ShapeInv
  <2> QED
    BY <2>1 DEF FileShape, File, NoFile
<1>6. new.blocks = Append(blocks, block)
  OBVIOUS
<1> HIDE DEF id, block, blocks, old, new
<1>7. /\ index'[t] = index[t] \union {IndexEntry(id, block)}
      /\ active'[t] = id /\ path'[t] = id
      /\ \A z \in Series \ {t} : index'[z] = index[z] /\ active'[z] = active[z] /\ path'[z] = path[z]
  BY <1>4 DEF ShapeInv, ObjectShape
<1>8. index'[t] = ScannedIndex(t, DOMAIN files[t])'
  <2>1. /\ FilesShape /\ t \in Series /\ id \in Nat \ {0} /\ blocks \in Seq(AnyBlock)
        /\ new.blocks = Append(blocks, block) /\ PutIn(t, id, new)
        /\ \/ id \in DOMAIN files[t] /\ blocks = files[t][id].blocks
           \/ id \notin DOMAIN files[t] /\ blocks = <<>>
        /\ index[t] = ScannedIndex(t, DOMAIN files[t])
        /\ index'[t] = index[t] \union {IndexEntry(id, block)}
    BY <1>2, <1>3, <1>4, <1>5, <1>6, <1>7 DEF ShapeInv
  <2> QED
    BY ONLY <2>1, IndexGrows
<1>9. /\ DOMAIN files'[t] = DOMAIN files[t] \union {id}
      /\ \A z \in Series \ {t} : files'[z] = files[z]
  BY <1>3, <1>4, PutFile DEF ShapeInv, PutIn
<1>10. ASSUME NEW s \in Series PROVE InStep(s)'
  <2>1. CASE s = t
    <3>1. \A k \in DOMAIN files'[t] : k <= active'[t]
      BY <1>3, <1>7, <1>9
    <3> QED
      BY <2>1, <3>1, <1>7, <1>8 DEF InStep
  <2>2. CASE s # t
    <3>1. InStep(s)
      OBVIOUS
    <3>2. files'[s] = files[s] /\ index'[s] = index[s] /\ active'[s] = active[s] /\ path'[s] = path[s]
      BY <2>2, <1>7, <1>9
    <3> QED
      BY <3>1, <3>2 DEF InStep, ScannedIndex
  <2> QED
    BY <2>1, <2>2
<1> QED
  BY <1>10

Opening == pc = "replay" \/ (pc = "flush" /\ op = "open")

OpenInv == Opening => \A s \in Series : InStep(s)

\* A call that returns does not open.
LEMMA ReturnOpens == ASSUME NEW r, Return(r) PROVE ~Opening'
BY DEF Return, Forget, Finish, Goto, Opening

\* The steps that do not belong to an opening.
LEMMA NotOpening ==
  ASSUME ShapeInv, StartCall \/ Environment \/ ReplayEnds \/ Place \/ Resume \/ NextSeries \/ TruncateWal
                   \/ Measure \/ Evict \/ EvictEnds \/ Judge \/ Expire \/ ExpireEnds \/ Refreshed \/ Rebuild
  PROVE  ~Opening'
<1>1. ASSUME StartCall PROVE ~Opening'
  <2>1. \A name, s, t, label : Begin(name, s, t, label) => pc' = label /\ op' = name
    BY DEF Begin, Goto
  <2>2. ASSUME NEW s, NEW t, StartAppend(s, t) PROVE ~Opening'
    BY <2>1, <2>2 DEF StartAppend, Opening
  <2>3. ASSUME NEW name \in {"flush", "delete_before"}, NEW s, NEW t, StartFlush(name, s, t) PROVE ~Opening'
    BY <2>1, <2>3 DEF StartFlush, Opening
  <2>4. ASSUME NEW name \in {"flush_all", "close", "enforce"}, StartWhole(name) PROVE ~Opening'
    BY <2>1, <2>4 DEF StartWhole, Opening
  <2>5. ASSUME NEW b, SetDiskQuota(b) PROVE ~Opening'
    BY <2>5 DEF SetDiskQuota, Opening
  <2> QED
    BY <1>1, <2>2, <2>3, <2>4, <2>5 DEF StartCall
<1>2. ASSUME Environment PROVE ~Opening'
  <2>1. ASSUME NEW n, WriteBlockFails(n) PROVE ~Opening'
    BY <2>1 DEF WriteBlockFails, Forget, Finish, Goto, Opening
  <2>2. ASSUME RebuildFails PROVE ~Opening'
    BY <2>2 DEF RebuildFails, Forget, Finish, Goto, Opening
  <2> QED
    BY <1>2, <2>1, <2>2, ReturnOpens DEF Environment, CallFails, ExpireFails, Crash, Forget, Finish,
       Goto, Opening
<1>3. ASSUME NextSeries PROVE ~Opening'
  <2>1. op' = op /\ pc' \in {"truncate", "flush"} /\ op \in {"flush_all", "close"}
    BY <1>3 DEF NextSeries, Goto, ShapeInv, CallInv
  <2> QED
    BY <2>1 DEF Opening
<1>4. ASSUME Resume PROVE ~Opening'
  <2>1. Return("ok") \/ pc' \in {"place", "expire"}
    BY <1>4 DEF Resume, Goto
  <2> QED
    BY <2>1, ReturnOpens DEF Opening
<1>5. ASSUME ReplayEnds \/ Refreshed PROVE ~Opening'
  BY <1>5, ReturnOpens DEF ReplayEnds, Refreshed
<1>6. ASSUME Place \/ TruncateWal \/ Measure \/ Evict \/ EvictEnds \/ Judge \/ Expire \/ ExpireEnds \/ Rebuild
      PROVE ~Opening'
  BY <1>6 DEF Place, TruncateWal, Measure, Evict, EvictEnds, Judge, Expire, ExpireEnds, Rebuild,
     Forget, Finish, Goto, Opening
<1> QED
  BY <1>1, <1>2, <1>3, <1>4, <1>5, <1>6

\* OpenInv is inductive.
LEMMA NextOpened ==
  ASSUME NamedIds = Nat \ {0}, ShapeInv, OpenInv, [Next]_vars
  PROVE  OpenInv'
<1>1. ASSUME Open PROVE OpenInv'
  <2> SUFFICES ASSUME NEW s \in Series PROVE InStep(s)'
    BY DEF OpenInv
  <2>1. /\ files' = files /\ active'[s] = LastId(Discovered(s)) /\ path' = active'
        /\ index'[s] = ScannedIndex(s, Discovered(s))
    BY <1>1 DEF Open, disk
  <2>2. Discovered(s) = DOMAIN files[s] /\ DOMAIN files[s] \in SUBSET (Nat \ {0})
        /\ IsFiniteSet(DOMAIN files[s])
    BY DEF Discovered, ShapeInv, FilesShape
  <2>3. \A id \in DOMAIN files[s] : id <= active'[s]
    BY <2>1, <2>2, LastIdIsLast
  <2>4. ScannedIndex(s, DOMAIN files[s])' = ScannedIndex(s, DOMAIN files[s])
    BY <2>1 DEF ScannedIndex
  <2> QED
    BY <2>1, <2>2, <2>3, <2>4 DEF InStep
<1>2. ASSUME NEW z \in Series, Replay(z) PROVE OpenInv'
  <2>1. UNCHANGED <<files, active, path, index>> /\ pc = "replay"
    BY <1>2 DEF Replay, disk, segs
  <2> QED
    BY <2>1 DEF OpenInv, Opening, InStep, ScannedIndex
<1>3. ASSUME NEW n \in BlockSizes, WriteBlock(n) PROVE OpenInv'
  <2> SUFFICES ASSUME Opening' PROVE \A s \in Series : InStep(s)'
    BY DEF OpenInv
  <2>1. op' = op /\ pc = "flush"
        /\ pc' = CASE op = "open" -> "replay"
                   [] op \in {"flush_all", "close"} -> "next"
                   [] OTHER -> "truncate"
    BY <1>3 DEF WriteBlock, call, Goto
  <2>2. op = "open"
    BY <2>1 DEF Opening
  <2> QED
    BY <2>1, <2>2, <1>3, WriteInStep DEF OpenInv, Opening
<1>4. ASSUME UNCHANGED vars PROVE OpenInv'
  <2>1. UNCHANGED <<files, active, path, index, pc, op>>
    BY <1>4 DEF vars, disk, segs, call
  <2> QED
    BY <2>1 DEF OpenInv, Opening, InStep, ScannedIndex
<1>5. ASSUME ~Opening' PROVE OpenInv'
  BY <1>5 DEF OpenInv
<1> QED
  BY <1>1, <1>2, <1>3, <1>4, <1>5, NotOpening DEF Next, Continue

\* Whatever failed and crashed before, tsedge_open finds index and active segment from
\* the files, and a buffer that is written during replay keeps them together.
THEOREM OpeningRepairs ==
  ASSUME NamedIds = Nat \ {0}
  PROVE  Spec => []OpenRepairs
<1>1. Init => ShapeInv /\ OpenInv
  BY InitShape DEF Init, OpenInv, Opening
<1>2. ShapeInv /\ OpenInv /\ [Next]_vars => ShapeInv' /\ OpenInv'
  BY NextShape, NextOpened
<1>3. OpenInv => OpenRepairs
  BY DEF OpenInv, Opening, OpenRepairs
<1> QED
  BY <1>1, <1>2, <1>3, PTL DEF Spec

-----------------------------------------------------------------------------
(* The size that the quota counts *)

\* What a cleanup knows of the files: their bytes and those of every candidate.
CleanupInv ==
  /\ pc \in {"evict", "reindex"} => size = DiskBytes
  /\ pc = "evict" =>
       /\ \A v \in victims :
            /\ v.segment \in DOMAIN files[v.series]
            /\ v.bytes = files[v.series][v.segment].bytes
       /\ \A v, w \in victims : v.series = w.series /\ v.segment = w.segment => v = w

\* The steps that lead to a cleanup or go on with it.
LEMMA WhoCleans ==
  ASSUME [Next]_vars, pc' \in {"evict", "reindex"}
  PROVE  Measure \/ Evict \/ EvictEnds \/ (Rebuild /\ pc = "reindex") \/ UNCHANGED vars
<1>1. ASSUME Return("ok") \/ Return("io") \/ Forget \/ Finish("idle") PROVE FALSE
  BY <1>1 DEF Return, Forget, Finish, Goto
<1>2. ASSUME StartCall PROVE FALSE
  <2>1. \A name, s, t, label : Begin(name, s, t, label) => pc' = label
    BY DEF Begin, Goto
  <2>2. ASSUME NEW s, NEW t, StartAppend(s, t) PROVE FALSE
    BY <2>1, <2>2 DEF StartAppend
  <2>3. ASSUME NEW name, NEW s, NEW t, StartFlush(name, s, t) PROVE FALSE
    BY <2>1, <2>3 DEF StartFlush
  <2>4. ASSUME NEW name, StartWhole(name) PROVE FALSE
    BY <2>1, <2>4 DEF StartWhole
  <2>5. ASSUME NEW b, SetDiskQuota(b) PROVE FALSE
    BY <2>5 DEF SetDiskQuota
  <2> QED
    BY <1>2, <2>2, <2>3, <2>4, <2>5 DEF StartCall
<1>3. ASSUME Environment PROVE FALSE
  BY <1>1, <1>3 DEF Environment, WriteBlockFails, CallFails, ExpireFails, RebuildFails, Crash
<1>4. ASSUME NEW s, Replay(s) PROVE FALSE
  BY <1>4 DEF Replay, Goto
<1>5. ASSUME NEW n, WriteBlock(n) PROVE FALSE
  BY <1>5 DEF WriteBlock, Goto
<1>6. ASSUME Place \/ ReplayEnds \/ Resume \/ Refreshed PROVE FALSE
  BY <1>1, <1>6 DEF Place, ReplayEnds, Resume, Refreshed, Goto
<1>7. ASSUME Open \/ NextSeries \/ TruncateWal \/ Expire \/ ExpireEnds PROVE FALSE
  BY <1>7 DEF Open, NextSeries, TruncateWal, Expire, ExpireEnds, Goto
<1>8. ASSUME Judge PROVE FALSE
  BY <1>8, <1>1 DEF Judge, Goto
<1>9. ASSUME Rebuild PROVE pc = "reindex"
  BY <1>9 DEF Rebuild
<1> QED
  BY <1>2, <1>3, <1>4, <1>5, <1>6, <1>7, <1>8, <1>9 DEF Next, Continue

\* A candidate is a file that has bytes.
LEMMA SealedIsFile ==
  ASSUME FilesShape, NEW s \in Series, NEW v \in Sealed(s)
  PROVE  /\ v.series = s /\ v.segment \in DOMAIN files[s] /\ v.bytes = files[s][v.segment].bytes
         /\ v = Segment(s, v.segment) /\ v.segment # active[s]
<1>1. v \in Segments(s) /\ v.bytes > 0 /\ v.segment # active[s]
  BY DEF Sealed
<1>2. PICK e \in index[s] : v = Segment(s, e.segment)
  BY <1>1 DEF Segments
<1>3. v.series = s /\ v.segment = e.segment /\ v.bytes = File(s, e.segment).bytes
  BY <1>2 DEF Segment
<1>4. v.segment \in DOMAIN files[s]
  BY <1>1, <1>3 DEF File, NoFile
<1> QED
  BY <1>1, <1>2, <1>3, <1>4 DEF File

\* Unlinking a segment takes its bytes off.
LEMMA EvictCounts ==
  ASSUME ShapeInv, CleanupInv, Evict
  PROVE  CleanupInv'
<1>1. PICK v \in victims :
        /\ Unlink(v) /\ victims' = victims \ {v}
        /\ size' = IF size > v.bytes THEN size - v.bytes ELSE 0
  BY DEF Evict
<1>2. pc = "evict" /\ pc' = "evict" /\ wal' = wal
  BY DEF Evict
<1>3. ShapeInv'
  BY EvictShape
<1>4. v.series \in Series
  BY DEF ShapeInv, WorkShape, Candidates
<1>5. PICK s \in Series : \E id : s = v.series /\ id = v.segment
  BY <1>4
<1> PICK id : s = v.series /\ id = v.segment
  BY <1>5
<1>6. /\ DOMAIN files'[s] = DOMAIN files[s] \ {id}
      /\ \A k \in DOMAIN files'[s] : files'[s][k] = files[s][k]
      /\ \A z \in Series \ {s} : files'[z] = files[z]
  BY <1>1, <1>4, <1>5, UnlinkShape DEF ShapeInv
<1>7. id \in DOMAIN files[s] /\ v.bytes = files[s][id].bytes /\ size = DiskBytes
  BY <1>2, <1>5 DEF CleanupInv
<1>8. /\ DiskBytes = Total(files, wal) /\ Counted(files, wal)
      /\ DiskBytes' = Total(files', wal) /\ Counted(files', wal)
  BY <1>2, <1>3, DiskTotal, DiskTotalNext DEF ShapeInv
<1>9. /\ Total(files, wal) = Total(files', wal) + files[s][id].bytes
      /\ Total(files', wal) \in Nat /\ files[s][id].bytes \in Nat
  BY <1>6, <1>7, <1>8, UnlinkedBytes
<1>10. size' = DiskBytes'
  <2>1. \A F, G, b, z \in Nat : F = G + b /\ z = (IF F > b THEN F - b ELSE 0) => z = G
    OBVIOUS
  <2>2. size = Total(files', wal) + v.bytes /\ v.bytes \in Nat
    BY <1>7, <1>8, <1>9
  <2>3. size \in Nat /\ size' \in Nat
    BY <1>3 DEF ShapeInv, WorkShape
  <2> QED
    BY <1>1, <1>8, <1>9, <2>1, <2>2, <2>3
<1>11. ASSUME NEW w \in victims'
       PROVE  w.segment \in DOMAIN files'[w.series] /\ w.bytes = files'[w.series][w.segment].bytes
  <2>1. w \in victims /\ w # v /\ w.series \in Series
    BY <1>1 DEF ShapeInv, WorkShape, Candidates
  <2>2. ~ (w.series = s /\ w.segment = id)
    BY <2>1, <1>2, <1>5 DEF CleanupInv
  <2>3. w.segment \in DOMAIN files[w.series] /\ w.bytes = files[w.series][w.segment].bytes
    BY <2>1, <1>2 DEF CleanupInv
  <2>4. CASE w.series = s
    BY <2>2, <2>3, <2>4, <1>6
  <2>5. CASE w.series # s
    BY <2>1, <2>3, <2>5, <1>6
  <2> QED
    BY <2>4, <2>5
<1>12. \A w, x \in victims' : w.series = x.series /\ w.segment = x.segment => w = x
  BY <1>1, <1>2 DEF CleanupInv
<1> QED
  BY <1>2, <1>10, <1>11, <1>12 DEF CleanupInv

\* CleanupInv is inductive.
LEMMA NextCleanup ==
  ASSUME ShapeInv, CleanupInv, [Next]_vars
  PROVE  CleanupInv'
<1> SUFFICES ASSUME pc' \in {"evict", "reindex"} PROVE CleanupInv'
  BY DEF CleanupInv
<1>1. CASE Measure
  <2>1. /\ pc' = "evict" /\ victims' = UNION {Sealed(s) : s \in Series} /\ size' = DiskBytes
        /\ UNCHANGED <<files, wal>>
    BY <1>1 DEF Measure, Goto, disk
  <2>2. DiskBytes' = DiskBytes
    BY <2>1 DEF DiskBytes
  <2>3. ASSUME NEW v \in victims'
        PROVE  \E s \in Series : v \in Sealed(s)
    BY <2>1
  <2>4. ASSUME NEW v \in victims'
        PROVE  /\ v.segment \in DOMAIN files[v.series] /\ v.bytes = files[v.series][v.segment].bytes
               /\ v = Segment(v.series, v.segment)
    BY <2>3, SealedIsFile DEF ShapeInv
  <2> QED
    BY <2>1, <2>2, <2>4 DEF CleanupInv
<1>2. CASE EvictEnds
  <2>1. pc = "evict" /\ pc' = "reindex" /\ size' = size /\ UNCHANGED <<files, wal>>
    BY <1>2 DEF EvictEnds, Goto, disk
  <2>2. DiskBytes' = DiskBytes
    BY <2>1 DEF DiskBytes
  <2> QED
    BY <2>1, <2>2 DEF CleanupInv
<1>3. CASE Rebuild /\ pc = "reindex"
  <2>1. pc = "reindex" /\ pc' = "reindex" /\ size' = size /\ UNCHANGED <<files, wal>>
    BY <1>3 DEF Rebuild, disk
  <2>2. DiskBytes' = DiskBytes
    BY <2>1 DEF DiskBytes
  <2> QED
    BY <2>1, <2>2 DEF CleanupInv
<1>4. CASE UNCHANGED vars
  <2>1. UNCHANGED <<pc, size, victims, files, wal>>
    BY <1>4 DEF vars, disk, work
  <2>2. DiskBytes' = DiskBytes
    BY <2>1 DEF DiskBytes
  <2> QED
    BY <2>1, <2>2 DEF CleanupInv
<1> QED
  BY <1>1, <1>2, <1>3, <1>4, WhoCleans, EvictCounts

-----------------------------------------------------------------------------
(* What the quota decides *)

\* A member that none exceeds is the maximum.
LEMMA MaxIs ==
  ASSUME NEW S \in SUBSET Int, NEW m \in S, \A x \in S : x <= m
  PROVE  Max(S) = m
<1>1. Max(S) \in S /\ \A x \in S : Max(S) >= x
  BY DEF Max
<1>2. Max(S) >= m /\ Max(S) <= m /\ Max(S) \in Int /\ m \in Int
  BY <1>1
<1> QED
  BY <1>2

\* As long as no operation failed: the candidates are all files but the active ones, with
\* their newest points, and none is left when the quota gives up.
VerdictInv ==
  faults = 0 =>
    /\ pc = "evict" =>
         /\ \A s \in Series : \A id \in DOMAIN files[s] :
              id = active[s] \/ \E v \in victims : v.series = s /\ v.segment = id
         /\ \A v \in victims : v.newest = NewestOnDisk(v.series, v.segment)
    /\ pc = "reindex" /\ size > quota => \A s \in Series : \A i, j \in DOMAIN files[s] : i = j

\* A file that is not active is a candidate.
LEMMA EveryOtherIsSealed ==
  ASSUME Good, ShapeInv, pc # "closed", touched = {}, NEW s \in Series, NEW id \in DOMAIN files[s],
         id # active[s]
  PROVE  Segment(s, id) \in Sealed(s)
<1>1. /\ ids[s] = DOMAIN files[s] /\ index[s] = ScannedIndex(s, DOMAIN files[s])
      /\ active[s] \in DOMAIN files[s]
  BY DEF Good, ObjectInv
<1>2. \A k \in DOMAIN files[s] : Sound(files[s][k])
  BY DEF Good, FilesInv
<1>3. Segment(s, id) \in Segments(s)
  BY <1>1, <1>2, SegmentsOfFiles
<1>4. Segment(s, id).segment = id /\ Segment(s, id).bytes = files[s][id].bytes
  BY DEF Segment, File
<1>5. files[s][id].bytes > 0
  BY <1>2 DEF Sound
<1>6. Cardinality(ids[s]) \in Nat /\ ~(Cardinality(ids[s]) <= 1)
  <2>1. IsFiniteSet(ids[s])
    BY <1>1 DEF Good, FilesInv
  <2>2. IsFiniteSet(ids[s] \ {id}) /\ Cardinality(ids[s] \ {id}) = Cardinality(ids[s]) - 1
        /\ Cardinality(ids[s]) \in Nat \ {0}
    BY <1>1, <2>1, Without
  <2>3. Cardinality(ids[s] \ {id}) # 0
    BY <1>1, <2>2, FS_EmptySet
  <2>4. Cardinality(ids[s] \ {id}) \in Nat
    BY <2>2, FS_CardinalityType
  <2> QED
    BY <2>2, <2>3, <2>4
<1> QED
  BY <1>3, <1>4, <1>5, <1>6 DEF Sealed

\* The newest point of a candidate is that of its file.
LEMMA CandidateIsNewest ==
  ASSUME Good, pc # "closed", touched = {}, NEW s \in Series, NEW id \in DOMAIN files[s]
  PROVE  Segment(s, id).newest = NewestOnDisk(s, id)
<1>1. index[s] = ScannedIndex(s, DOMAIN files[s]) /\ Sound(files[s][id])
  BY DEF Good, ObjectInv, FilesInv
<1>2. /\ Segment(s, id).newest \in PointsOf(files[s][id])
      /\ PointsOf(files[s][id]) \subseteq Int
      /\ \A t \in PointsOf(files[s][id]) : t <= Segment(s, id).newest
  BY <1>1, NewestIsNewest
<1> QED
  BY <1>2, MaxIs DEF NewestOnDisk

\* Measuring collects all files but the active ones.
LEMMA MeasureVerdict ==
  ASSUME ShapeInv, Good, Measure
  PROVE  VerdictInv'
<1> SUFFICES ASSUME pc' = "evict" PROVE VerdictInv'
  BY DEF VerdictInv, Measure, Goto
<1>1. /\ pc = "measure" /\ victims' = UNION {Sealed(s) : s \in Series} /\ UNCHANGED <<files, active>>
  BY DEF Measure, Goto, disk, segs
<1>2. touched = {}
  BY <1>1 DEF Good, TouchedInv
<1>3. ASSUME NEW s \in Series, NEW id \in DOMAIN files'[s], id # active'[s]
      PROVE  \E v \in victims' : v.series = s /\ v.segment = id
  <2>1. Segment(s, id) \in Sealed(s)
    BY <1>1, <1>2, <1>3, EveryOtherIsSealed
  <2>2. Segment(s, id).series = s /\ Segment(s, id).segment = id
    BY DEF Segment
  <2> QED
    BY <1>1, <2>1, <2>2
<1>4. ASSUME NEW v \in victims'
      PROVE  v.newest = NewestOnDisk(v.series, v.segment)'
  <2>1. PICK s \in Series : v \in Sealed(s)
    BY <1>1
  <2>2. v.series = s /\ v.segment \in DOMAIN files[s] /\ v = Segment(s, v.segment)
    BY <2>1, SealedIsFile DEF ShapeInv
  <2>3. v.newest = NewestOnDisk(s, v.segment)
    BY <1>1, <1>2, <2>2, CandidateIsNewest
  <2> QED
    BY <1>1, <2>2, <2>3 DEF NewestOnDisk
<1> QED
  BY <1>3, <1>4 DEF VerdictInv

\* Removing the first candidate leaves it so.
LEMMA EvictVerdict ==
  ASSUME ShapeInv, CleanupInv, VerdictInv, faults = 0, Evict
  PROVE  VerdictInv'
<1>1. PICK v \in victims : Unlink(v) /\ victims' = victims \ {v}
  BY DEF Evict
<1>2. pc = "evict" /\ pc' = "evict" /\ active' = active
  BY DEF Evict, segs
<1>3. v.series \in Series
  BY DEF ShapeInv, WorkShape, Candidates
<1>4. PICK s \in Series : \E id : s = v.series /\ id = v.segment
  BY <1>3
<1> PICK id : s = v.series /\ id = v.segment
  BY <1>4
<1>5. /\ DOMAIN files'[s] = DOMAIN files[s] \ {id}
      /\ \A k \in DOMAIN files'[s] : files'[s][k] = files[s][k]
      /\ \A z \in Series \ {s} : files'[z] = files[z]
  BY <1>1, <1>3, <1>4, UnlinkShape DEF ShapeInv
<1>6. ASSUME NEW z \in Series, NEW k \in DOMAIN files'[z], k # active'[z]
      PROVE  \E w \in victims' : w.series = z /\ w.segment = k
  <2>1. k \in DOMAIN files[z] /\ ~(z = s /\ k = id)
    BY <1>5
  <2>2. PICK w \in victims : w.series = z /\ w.segment = k
    BY <2>1, <1>2, <1>6 DEF VerdictInv
  <2> QED
    BY <2>1, <2>2, <1>1, <1>4
<1>7. ASSUME NEW w \in victims'
      PROVE  w.newest = NewestOnDisk(w.series, w.segment)'
  <2>1. w \in victims /\ w # v /\ w.series \in Series
    BY <1>1 DEF ShapeInv, WorkShape, Candidates
  <2>2. ~(w.series = s /\ w.segment = id) /\ w.segment \in DOMAIN files[w.series]
    BY <2>1, <1>2, <1>4 DEF CleanupInv
  <2>3. files'[w.series][w.segment] = files[w.series][w.segment]
    <3>1. CASE w.series = s
      BY <3>1, <2>2, <1>5
    <3>2. CASE w.series # s
      BY <3>2, <2>1, <1>5
    <3> QED
      BY <3>1, <3>2
  <2>4. w.newest = NewestOnDisk(w.series, w.segment)
    BY <2>1, <1>2 DEF VerdictInv
  <2> QED
    BY <2>3, <2>4 DEF NewestOnDisk
<1> QED
  BY <1>2, <1>6, <1>7 DEF VerdictInv

\* VerdictInv is inductive, given the others.
LEMMA NextVerdict ==
  ASSUME ShapeInv, SegInv, CleanupInv, VerdictInv, [Next]_vars
  PROVE  VerdictInv'
<1> SUFFICES ASSUME pc' \in {"evict", "reindex"}, faults' = 0 PROVE VerdictInv'
  BY DEF VerdictInv
<1>1. faults = 0 /\ Good
  BY FaultsCounted DEF SegInv
<1>2. CASE EvictEnds
  <2>1. /\ pc = "evict" /\ pc' = "reindex" /\ UNCHANGED <<files, size, quota>>
        /\ victims = {} \/ size <= quota
    BY <1>2 DEF EvictEnds, Goto, disk, limit
  <2>2. size' > quota' => victims = {}
    BY <2>1 DEF ShapeInv, WorkShape
  <2>3. victims = {} => \A s \in Series : \A i \in DOMAIN files[s] : i = active[s]
    BY <1>1, <2>1 DEF VerdictInv
  <2>4. size' > quota' => \A s \in Series : \A i, j \in DOMAIN files'[s] : i = j
    BY <2>1, <2>2, <2>3
  <2> QED
    BY <2>1, <2>4 DEF VerdictInv
<1>3. CASE Rebuild /\ pc = "reindex"
  <2>1. pc = "reindex" /\ pc' = "reindex" /\ UNCHANGED <<files, size, quota>>
    BY <1>3 DEF Rebuild, disk, limit
  <2> QED
    BY <1>1, <2>1 DEF VerdictInv
<1>4. CASE UNCHANGED vars
  <2>1. UNCHANGED <<pc, size, victims, files, active, quota>>
    BY <1>4 DEF vars, disk, work, segs, limit
  <2> QED
    BY <1>1, <2>1 DEF VerdictInv, NewestOnDisk
<1> QED
  BY <1>1, <1>2, <1>3, <1>4, WhoCleans, MeasureVerdict, EvictVerdict

\* What the run's invariants are about, together.
CleanupInOrder == SegInv /\ ShapeInv /\ CleanupInv /\ VerdictInv

\* They hold together.
LEMMA AlwaysInOrder ==
  ASSUME NamedIds = Nat \ {0}
  PROVE  Spec => []CleanupInOrder
<1>1. Init => CleanupInOrder
  <2>1. Init => CleanupInv /\ VerdictInv
    BY DEF Init, CleanupInv, VerdictInv
  <2> QED
    BY <2>1, InitGood, InitShape DEF CleanupInOrder
<1>2. CleanupInOrder /\ [Next]_vars => CleanupInOrder'
  BY NextSegInv, NextShape, NextCleanup, NextVerdict DEF CleanupInOrder
<1> QED
  BY <1>1, <1>2, PTL DEF Spec

\* The quota unlinks a segment only when the files together are above the limit, and, without
\* failures, never one that is newer than a sealed segment that it leaves, in any series.
THEOREM OldestIsEvicted ==
  ASSUME NamedIds = Nat \ {0}
  PROVE  Spec => EvictsOldest
<1> DEFINE Oldest == pc = "evict" /\ files' # files =>
       /\ DiskBytes > quota
       /\ faults = 0 =>
            \A s, z \in Series :
              \A id \in DOMAIN files[s] \ DOMAIN files'[s], other \in DOMAIN files'[z] :
                other # Max(DOMAIN files[z]) => NewestOnDisk(s, id) <= NewestOnDisk(z, other)
<1>1. CleanupInOrder /\ [Next]_vars => Oldest
  <2> SUFFICES ASSUME CleanupInOrder, [Next]_vars, pc = "evict", files' # files PROVE Oldest
    OBVIOUS
  <2>1. ShapeInv /\ CleanupInv /\ VerdictInv /\ (faults = 0 => Good)
    BY DEF CleanupInOrder, SegInv
  <2>2. Evict
    BY WhoUnlinks
  <2>3. DiskBytes > quota
    BY <2>1, <2>2 DEF Evict, CleanupInv
  <2>4. PICK v \in victims : Unlink(v) /\ \A w \in victims \ {v} : Before(v, w)
    BY <2>2 DEF Evict
  <2>5. v.series \in Series
    BY <2>1 DEF ShapeInv, WorkShape, Candidates
  <2>6. /\ DOMAIN files'[v.series] = DOMAIN files[v.series] \ {v.segment}
        /\ \A z \in Series \ {v.series} : files'[z] = files[z]
    BY <2>1, <2>4, <2>5, UnlinkShape DEF ShapeInv
  <2>7. ASSUME faults = 0, NEW s \in Series, NEW z \in Series,
               NEW id \in DOMAIN files[s] \ DOMAIN files'[s], NEW other \in DOMAIN files'[z],
               other # Max(DOMAIN files[z])
        PROVE  NewestOnDisk(s, id) <= NewestOnDisk(z, other)
    <3>1. s = v.series /\ id = v.segment
      BY <2>6
    <3>2. other \in DOMAIN files[z] /\ ~(z = v.series /\ other = v.segment)
      BY <2>6
    <3>3. Good /\ ObjectInv(z)
      BY <2>1, <2>7 DEF Good
    <3>4. /\ active[z] \in DOMAIN files[z] /\ \A k \in DOMAIN files[z] : k <= active[z]
          /\ DOMAIN files[z] \in SUBSET Int
      BY <3>2, <3>3 DEF ObjectInv, Good, FilesInv
    <3>5. Max(DOMAIN files[z]) = active[z]
      BY <3>4, MaxIs
    <3>6. PICK w \in victims : w.series = z /\ w.segment = other
      BY <2>1, <2>7, <3>2, <3>5 DEF VerdictInv
    <3>7. w # v /\ Before(v, w)
      BY <2>4, <3>2, <3>6
    <3>8. v.newest <= w.newest
      <4>1. v.newest \in Int /\ w.newest \in Int
        BY <2>1 DEF ShapeInv, WorkShape, Candidates
      <4> QED
        BY <3>7, <4>1 DEF Before
    <3>9. v.newest = NewestOnDisk(s, id) /\ w.newest = NewestOnDisk(z, other)
      BY <2>1, <2>7, <3>1, <3>6 DEF VerdictInv
    <3> QED
      BY <3>8, <3>9
  <2> QED
    BY <2>3, <2>7
<1>2. EvictsOldest <=> [][Oldest]_vars
  BY DEF EvictsOldest
<1> HIDE DEF Oldest
<1> QED
  BY <1>1, <1>2, AlwaysInOrder, PTL DEF Spec

\* Where a cleanup that did not fail leads to.
LEMMA WhoJudges ==
  ASSUME [Next]_vars, pc \in {"measure", "reindex"}, bounds' = bounds, ShapeInv
  PROVE  Measure \/ Judge \/ pc' = pc
<1>1. faults \in Nat /\ crashes \in Nat /\ faults' = faults /\ crashes' = crashes
  BY ConstantFacts DEF ShapeInv, HistoryShape, bounds
<1>2. ASSUME Environment PROVE FALSE
  BY <1>1, <1>2 DEF Environment, WriteBlockFails, CallFails, ExpireFails, RebuildFails, Crash, MayFail
<1>3. ASSUME StartCall PROVE FALSE
  BY <1>3 DEF StartCall, StartAppend, StartFlush, StartWhole, SetDiskQuota, Begin
<1>4. ASSUME Continue PROVE Measure \/ Judge \/ pc' = pc
  BY <1>4 DEF Continue, Replay, ReplayEnds, Place, Resume, WriteBlock, NextSeries, TruncateWal,
              Evict, EvictEnds, Expire, ExpireEnds, Refreshed, Rebuild
<1>5. ASSUME Open PROVE FALSE
  BY <1>5 DEF Open
<1>6. ASSUME UNCHANGED vars PROVE pc' = pc
  BY <1>6 DEF vars
<1> QED
  BY <1>2, <1>3, <1>4, <1>5, <1>6 DEF Next

\* A cleanup that succeeds leaves the files under the limit; one that gives up leaves them above
\* it and, without failures, no series with two segment files.
THEOREM VerdictIsRight ==
  ASSUME NamedIds = Nat \ {0}
  PROVE  Spec => QuotaVerdict
<1> DEFINE Right == (pc \in {"measure", "reindex"} /\ bounds' = bounds) =>
       /\ pc' = "resume" => quota = 0 \/ DiskBytes <= quota
       /\ pc' \in {"idle", "closed"} => DiskBytes > quota
       /\ pc' \in {"idle", "closed"} /\ faults = 0 =>
            \A s \in Series : Cardinality(DOMAIN files[s]) <= 1
<1>1. CleanupInOrder /\ [Next]_vars => Right
  <2> SUFFICES ASSUME CleanupInOrder, [Next]_vars, pc \in {"measure", "reindex"}, bounds' = bounds
               PROVE  Right
    OBVIOUS
  <2>1. ShapeInv /\ CleanupInv /\ VerdictInv
    BY DEF CleanupInOrder
  <2>2. CASE Measure
    BY <2>2 DEF Measure, Goto
  <2>3. CASE Judge
    <3>1. pc = "reindex" /\ size = DiskBytes /\ size \in Nat /\ quota \in Nat
      BY <2>1, <2>3 DEF Judge, CleanupInv, ShapeInv, WorkShape
    <3>2. CASE size <= quota
      <4>1. pc' = "resume"
        BY <2>3, <3>2 DEF Judge, Goto
      <4> QED
        BY <3>1, <3>2, <4>1
    <3>3. CASE ~(size <= quota)
      <4>1. pc' \in {"idle", "closed"}
        BY <2>3, <3>3 DEF Judge, Forget, Finish, Goto
      <4>2. ASSUME faults = 0, NEW s \in Series PROVE Cardinality(DOMAIN files[s]) <= 1
        <5>1. \A i, j \in DOMAIN files[s] : i = j
          BY <2>1, <3>1, <3>3, <4>2 DEF VerdictInv
        <5>2. CASE DOMAIN files[s] = {}
          BY <5>2, FS_EmptySet
        <5>3. CASE DOMAIN files[s] # {}
          <6>1. PICK i : DOMAIN files[s] = {i}
            BY <5>1, <5>3
          <6>2. Cardinality({i}) = 1
            BY FS_Singleton
          <6> QED
            BY <6>1, <6>2
        <5> QED
          BY <5>2, <5>3
      <4> QED
        BY <3>1, <3>3, <4>1, <4>2
    <3> QED
      BY <3>2, <3>3
  <2>4. CASE pc' = pc
    BY <2>4
  <2> QED
    BY <2>1, <2>2, <2>3, <2>4, WhoJudges
<1>2. QuotaVerdict <=> [][Right]_vars
  BY DEF QuotaVerdict
<1> HIDE DEF Right
<1> QED
  BY <1>1, <1>2, AlwaysInOrder, PTL DEF Spec

-----------------------------------------------------------------------------
(* Where points are *)

OnDisk(fs, s) == UNION {PointsOf(fs[s][id]) : id \in DOMAIN fs[s]}

\* The elements of a sequence that gets one more.
LEMMA RangeFacts ==
  /\ Range(<<>>) = {}
  /\ \A q \in Seq(Int) : \A t \in Int : Range(Append(q, t)) = Range(q) \union {t}
<1>1. Range(<<>>) = {}
  BY DEF Range
<1>2. ASSUME NEW q \in Seq(Int), NEW t \in Int PROVE Range(Append(q, t)) = Range(q) \union {t}
  <2>1. /\ Len(q) \in Nat /\ DOMAIN q = 1..Len(q) /\ DOMAIN Append(q, t) = 1..(Len(q) + 1)
        /\ \A i \in 1..Len(q) : Append(q, t)[i] = q[i]
        /\ Append(q, t)[Len(q) + 1] = t
    OBVIOUS
  <2>2. ASSUME NEW x \in Range(Append(q, t)) PROVE x \in Range(q) \union {t}
    <3>1. PICK i \in 1..(Len(q) + 1) : x = Append(q, t)[i]
      BY <2>1, <2>2 DEF Range
    <3>2. CASE i = Len(q) + 1
      BY <3>1, <3>2, <2>1
    <3>3. CASE i # Len(q) + 1
      <4>1. i \in 1..Len(q) /\ x = q[i]
        BY <3>1, <3>3, <2>1
      <4> QED
        BY <4>1, <2>1 DEF Range
    <3> QED
      BY <3>2, <3>3
  <2>3. ASSUME NEW x \in Range(q) \union {t} PROVE x \in Range(Append(q, t))
    <3>1. CASE x = t
      <4>1. Len(q) + 1 \in DOMAIN Append(q, t)
        BY <2>1
      <4> QED
        BY <4>1, <3>1, <2>1 DEF Range
    <3>2. CASE x # t
      <4>1. PICK i \in 1..Len(q) : x = q[i]
        BY <2>1, <2>3, <3>2 DEF Range
      <4>2. i \in DOMAIN Append(q, t) /\ x = Append(q, t)[i]
        BY <4>1, <2>1
      <4> QED
        BY <4>2 DEF Range
    <3> QED
      BY <3>1, <3>2
  <2> QED
    BY <2>2, <2>3
<1> QED
  BY <1>1, <1>2

\* The points of a file with one more block.
LEMMA AppendedPoints ==
  ASSUME NEW old, old.blocks \in Seq(AnyBlock), NEW block \in AnyBlock, NEW new,
         new.blocks = Append(old.blocks, block)
  PROVE  PointsOf(new) \subseteq PointsOf(old) \union Range(block.points)
<1> DEFINE B == old.blocks
           C == new.blocks
<1>1. /\ Len(B) \in Nat /\ DOMAIN B = 1..Len(B) /\ DOMAIN C = 1..(Len(B) + 1)
      /\ \A i \in 1..Len(B) : C[i] = B[i]
      /\ C[Len(B) + 1] = block
  OBVIOUS
<1>2. PointsOf(new) = UNION {Range(C[i].points) : i \in DOMAIN C}
      /\ PointsOf(old) = UNION {Range(B[i].points) : i \in DOMAIN B}
  BY DEF PointsOf
<1> HIDE DEF B, C
<1>3. ASSUME NEW p \in PointsOf(new) PROVE p \in PointsOf(old) \union Range(block.points)
  <2>1. PICK i \in DOMAIN C : p \in Range(C[i].points)
    BY <1>2, <1>3
  <2>2. CASE i = Len(B) + 1
    BY <2>1, <2>2, <1>1
  <2>3. CASE i # Len(B) + 1
    <3>1. i \in DOMAIN B /\ C[i] = B[i]
      BY <2>3, <1>1
    <3> QED
      BY <2>1, <3>1, <1>2
  <2> QED
    BY <2>2, <2>3
<1> QED
  BY <1>3

\* A file written, and what is then on disk.
LEMMA PutPoints ==
  ASSUME NEW fs, NEW gs, NEW s, NEW id, NEW P, DOMAIN gs[s] = DOMAIN fs[s] \union {id},
         \A k \in DOMAIN fs[s] : k # id => gs[s][k] = fs[s][k],
         PointsOf(gs[s][id]) \subseteq OnDisk(fs, s) \union P
  PROVE  OnDisk(gs, s) \subseteq OnDisk(fs, s) \union P
<1>1. ASSUME NEW p \in OnDisk(gs, s) PROVE p \in OnDisk(fs, s) \union P
  <2>1. PICK k \in DOMAIN gs[s] : p \in PointsOf(gs[s][k])
    BY <1>1 DEF OnDisk
  <2>2. CASE k = id
    BY <2>1, <2>2
  <2>3. CASE k # id
    <3>1. k \in DOMAIN fs[s] /\ p \in PointsOf(fs[s][k])
      BY <2>1, <2>3
    <3> QED
      BY <3>1 DEF OnDisk
  <2> QED
    BY <2>2, <2>3
<1> QED
  BY <1>1

\* What a file has is on disk, and NoFile has nothing.
LEMMA FileOnDisk ==
  ASSUME NEW s, NEW id
  PROVE  PointsOf(File(s, id)) \subseteq OnDisk(files, s)
<1>1. PointsOf(NoFile) = {}
  BY DEF PointsOf, NoFile
<1>2. CASE id \in DOMAIN files[s]
  BY <1>2 DEF File, OnDisk
<1>3. CASE id \notin DOMAIN files[s]
  BY <1>1, <1>3 DEF File
<1> QED
  BY <1>2, <1>3

-----------------------------------------------------------------------------
(* A point that is appended is new *)

\* Nothing is in a file, a buffer or wal.log that was not handed in, and the point of a running
\* tsedge_append is neither on disk nor buffered nor removed.
FreshInv ==
  /\ \A s \in Series : /\ OnDisk(files, s) \subseteq used[s]
                       /\ Range(buffer[s]) \subseteq used[s]
                       /\ Range(wal[s]) \subseteq used[s]
                       /\ gone[s] \subseteq used[s]
  /\ op = "append" => /\ arg \in used[target] /\ arg \notin gone[target]
                      /\ arg \notin Range(buffer[target])
                      /\ arg \notin OnDisk(files, target)
  /\ pc = "place" => op = "append"

\* A step only moves points of s between buffer, files and wal.log, or removes them.
Moved(s) ==
  /\ OnDisk(files', s) \subseteq OnDisk(files, s) \union Range(buffer[s])
  /\ Range(buffer'[s]) \subseteq Range(buffer[s]) \union Range(wal[s])
  /\ op' = "append" => Range(buffer'[s]) \subseteq Range(buffer[s])
  /\ Range(wal'[s]) \subseteq Range(wal[s]) \union Range(buffer[s])
  /\ gone'[s] \subseteq gone[s] \union OnDisk(files, s)

SameAppend ==
  /\ op' = "append" => UNCHANGED <<op, target, arg>>
  /\ pc' = "place" => op' = "append"

\* Moving and removing points leaves FreshInv.
LEMMA MovedFresh ==
  ASSUME FreshInv, target \in Series, \A s \in Series : Moved(s), SameAppend, used' = used
  PROVE  FreshInv'
<1>1. ASSUME NEW s \in Series
      PROVE  /\ OnDisk(files', s) \subseteq used'[s] /\ Range(buffer'[s]) \subseteq used'[s]
             /\ Range(wal'[s]) \subseteq used'[s] /\ gone'[s] \subseteq used'[s]
  <2>1. Moved(s)
    OBVIOUS
  <2>2. /\ OnDisk(files, s) \subseteq used[s] /\ Range(buffer[s]) \subseteq used[s]
        /\ Range(wal[s]) \subseteq used[s] /\ gone[s] \subseteq used[s]
    BY DEF FreshInv
  <2> QED
    BY <2>1, <2>2 DEF Moved
<1>2. ASSUME op' = "append"
      PROVE  /\ arg' \in used'[target'] /\ arg' \notin gone'[target']
             /\ arg' \notin Range(buffer'[target'])
             /\ arg' \notin OnDisk(files', target')
  <2>1. op = "append" /\ target' = target /\ arg' = arg
    BY <1>2 DEF SameAppend
  <2>2. PICK t \in Series : t = target
    OBVIOUS
  <2>3. Moved(t)
    OBVIOUS
  <2>4. arg \in used[t] /\ arg \notin gone[t] /\ arg \notin Range(buffer[t]) /\ arg \notin OnDisk(files, t)
    BY <2>1, <2>2 DEF FreshInv
  <2> QED
    BY <1>2, <2>1, <2>2, <2>3, <2>4 DEF Moved
<1>3. pc' = "place" => op' = "append"
  BY DEF SameAppend
<1> QED
  BY <1>1, <1>2, <1>3 DEF FreshInv

\* A step that moves no point.
LEMMA QuietFresh ==
  ASSUME FreshInv, target \in Series, UNCHANGED <<files, wal, gone, used>>, SameAppend,
         \A s \in Series : buffer'[s] \in {buffer[s], <<>>}
  PROVE  FreshInv'
<1>1. ASSUME NEW s \in Series PROVE Moved(s)
  <2>1. Range(buffer'[s]) \subseteq Range(buffer[s])
    BY RangeFacts
  <2> QED
    BY <2>1 DEF Moved
<1> QED
  BY <1>1, MovedFresh

\* An empty buffer for every series.
LEMMA NothingIn == \A s \in Series : Nothing[s] = <<>>
BY DEF Nothing

\* A call that returns begins no append and fills no buffer.
LEMMA ReturnQuiet ==
  ASSUME NEW r, Return(r)
  PROVE  SameAppend /\ \A s \in Series : buffer'[s] \in {buffer[s], <<>>}
BY NothingIn DEF Return, Forget, Finish, Goto, SameAppend

\* Nor does the end of the tsedge_db object.
LEMMA ForgetQuiet ==
  ASSUME Forget
  PROVE  SameAppend /\ \A s \in Series : buffer'[s] \in {buffer[s], <<>>}
BY NothingIn DEF Forget, Finish, Goto, SameAppend

\* Removing a file.
LEMMA UnlinkMoves ==
  ASSUME FilesShape, HistoryShape, NEW v, v.series \in Series, Unlink(v), UNCHANGED <<wal, buffer>>
  PROVE  /\ \A s \in Series : Moved(s)
         /\ \A s \in Series : \A p \in gone'[s] : p \in gone[s] \/ p \notin Range(buffer[s])
<1>1. PICK s, id : s = v.series /\ id = v.segment /\ s \in Series
  OBVIOUS
<1>2. /\ DOMAIN files'[s] = DOMAIN files[s] \ {id}
      /\ \A k \in DOMAIN files'[s] : files'[s][k] = files[s][k]
      /\ \A z \in Series \ {s} : files'[z] = files[z]
  BY <1>1, UnlinkShape
<1>3. gone' = [gone EXCEPT ![s] =
        @ \union (PointsOf(File(s, id)) \ (PointsIn(s, DOMAIN files[s] \ {id}) \union Range(buffer[s])))]
  BY <1>1 DEF Unlink
<1>4. ASSUME NEW z \in Series PROVE OnDisk(files', z) \subseteq OnDisk(files, z)
  <2>1. DOMAIN files'[z] \subseteq DOMAIN files[z] /\ \A k \in DOMAIN files'[z] : files'[z][k] = files[z][k]
    BY <1>2
  <2> QED
    BY <2>1 DEF OnDisk
<1>5. ASSUME NEW z \in Series
      PROVE  /\ gone'[z] \subseteq gone[z] \union OnDisk(files, z)
             /\ \A p \in gone'[z] : p \in gone[z] \/ p \notin Range(buffer[z])
  <2>1. CASE z = s
    <3>1. PointsOf(File(s, id)) \subseteq OnDisk(files, s)
      BY FileOnDisk
    <3>2. gone'[s] = gone[s] \union (PointsOf(File(s, id)) \
                        (PointsIn(s, DOMAIN files[s] \ {id}) \union Range(buffer[s])))
      BY <1>1, <1>3 DEF HistoryShape
    <3> QED
      BY <2>1, <3>1, <3>2
  <2>2. CASE z # s
    BY <2>2, <1>3 DEF HistoryShape
  <2> QED
    BY <2>1, <2>2
<1> QED
  BY <1>4, <1>5 DEF Moved

\* A block takes the points of a buffer to disk.
LEMMA WriteBlockFresh ==
  ASSUME ShapeInv, FreshInv, NEW n \in BlockSizes, WriteBlock(n)
  PROVE  FreshInv'
<1> DEFINE id == NextPath(target, n)
           old == File(target, id)
           block == [points |-> buffer[target], offset |-> old.bytes]
           new == [blocks |-> Append(old.blocks, block), bytes |-> old.bytes + n]
<1>1. PICK t \in Series : t = target
  BY DEF ShapeInv, WorkShape
<1>2. /\ files' = [files EXCEPT ![target] = Put(@, id, new)]
      /\ buffer' = [buffer EXCEPT ![target] = <<>>]
      /\ UNCHANGED <<wal, gone, used, op, target, arg>>
      /\ pc = "flush" /\ pc' \in {"replay", "next", "truncate"}
  BY DEF WriteBlock, Goto, call, history
<1>3. /\ id \in Nat \ {0} /\ old.blocks \in Seq(AnyBlock) /\ block \in AnyBlock
      /\ PointsOf(old) \subseteq OnDisk(files, target)
  <2>1. id \in Nat \ {0} /\ FileShape(old)
    BY <1>1, NextIds, FileIsShape DEF ShapeInv
  <2>2. buffer[target] \in Seq(Int) \ {<<>>}
    BY <1>1, <1>2 DEF ShapeInv, PointsShape, CallInv
  <2> QED
    BY <2>1, <2>2, FileOnDisk DEF FileShape, AnyBlock
<1>4. new.blocks = Append(old.blocks, block) /\ block.points = buffer[target]
  OBVIOUS
<1> HIDE DEF id, new, block, old
<1>5. PointsOf(new) \subseteq OnDisk(files, t) \union Range(buffer[t])
  BY <1>1, <1>3, <1>4, AppendedPoints
<1>6. /\ DOMAIN files'[t] = DOMAIN files[t] \union {id}
      /\ files'[t][id] = new
      /\ \A k \in DOMAIN files[t] : k # id => files'[t][k] = files[t][k]
      /\ \A z \in Series \ {t} : files'[z] = files[z]
  <2>1. FilesShape /\ t \in Series /\ id \in Nat \ {0} /\ files' = [files EXCEPT ![t] = Put(@, id, new)]
    BY <1>1, <1>2, <1>3 DEF ShapeInv
  <2>2. /\ DOMAIN files' = Series
        /\ DOMAIN files'[t] = DOMAIN files[t] \union {id}
        /\ files'[t][id] = new
        /\ \A k \in DOMAIN files[t] : k # id => files'[t][k] = files[t][k]
        /\ \A z \in Series \ {t} : files'[z] = files[z]
        /\ FileShape(new) => FilesShape'
    BY ONLY <2>1, PutFile, Zenon
  <2> QED
    BY <2>2
<1>7. OnDisk(files', t) \subseteq OnDisk(files, t) \union Range(buffer[t])
  <2>1. PointsOf(files'[t][id]) \subseteq OnDisk(files, t) \union Range(buffer[t])
    BY <1>5, <1>6
  <2> QED
    <3>1. PICK gs, P : gs = files' /\ P = Range(buffer[t])
      OBVIOUS
    <3>2. /\ DOMAIN gs[t] = DOMAIN files[t] \union {id}
          /\ \A k \in DOMAIN files[t] : k # id => gs[t][k] = files[t][k]
          /\ PointsOf(gs[t][id]) \subseteq OnDisk(files, t) \union P
      BY <3>1, <1>6, <2>1
    <3>3. OnDisk(gs, t) \subseteq OnDisk(files, t) \union P
      BY ONLY <3>2, PutPoints
    <3> QED
      BY <3>1, <3>3
<1>8. ASSUME NEW z \in Series PROVE Moved(z)
  <2>1. OnDisk(files', z) \subseteq OnDisk(files, z) \union Range(buffer[z])
    BY <1>6, <1>7 DEF OnDisk
  <2>2. buffer'[z] \in {buffer[z], <<>>}
    BY <1>2 DEF ShapeInv, PointsShape
  <2>3. Range(buffer'[z]) \subseteq Range(buffer[z])
    BY <2>2, RangeFacts
  <2> QED
    BY <1>2, <2>1, <2>3 DEF Moved
<1>9. SameAppend
  BY <1>2 DEF SameAppend
<1> QED
  BY <1>1, <1>2, <1>8, <1>9, MovedFresh

\* A block that does not reach its file moves no point.
LEMMA WriteBlockFailsFresh ==
  ASSUME ShapeInv, FreshInv, NEW n \in BlockSizes, WriteBlockFails(n)
  PROVE  FreshInv'
<1> DEFINE id == NextPath(target, n)
<1>1. PICK t \in Series : t = target
  BY DEF ShapeInv, WorkShape
<1>2. /\ files' = files \/ files' = [files EXCEPT ![target] = Put(@, id, File(target, id))]
      /\ UNCHANGED <<wal, gone, used>>
      /\ Forget \/ (Finish("idle") /\ buffer' = buffer)
  BY DEF WriteBlockFails
<1>3. SameAppend /\ \A s \in Series : buffer'[s] \in {buffer[s], <<>>}
  BY <1>2, ForgetQuiet DEF Finish, Goto, SameAppend
<1>4. id \in Nat \ {0}
  BY <1>1, NextIds DEF ShapeInv
<1> HIDE DEF id
<1>5. ASSUME NEW z \in Series PROVE OnDisk(files', z) \subseteq OnDisk(files, z)
  <2>1. CASE files' = files
    BY <2>1
  <2>2. CASE files' = [files EXCEPT ![t] = Put(@, id, File(t, id))]
    <3>1. /\ DOMAIN files'[t] = DOMAIN files[t] \union {id}
          /\ files'[t][id] = File(t, id)
          /\ \A k \in DOMAIN files[t] : k # id => files'[t][k] = files[t][k]
          /\ \A y \in Series \ {t} : files'[y] = files[y]
      <4>1. FilesShape /\ t \in Series /\ id \in Nat \ {0} /\ files' = [files EXCEPT ![t] = Put(@, id, File(t, id))]
        BY <2>2, <1>4 DEF ShapeInv
      <4>2. /\ DOMAIN files' = Series
            /\ DOMAIN files'[t] = DOMAIN files[t] \union {id}
            /\ files'[t][id] = File(t, id)
            /\ \A k \in DOMAIN files[t] : k # id => files'[t][k] = files[t][k]
            /\ \A y \in Series \ {t} : files'[y] = files[y]
            /\ FileShape(File(t, id)) => FilesShape'
        BY ONLY <4>1, PutFile, Zenon
      <4> QED
        BY <4>2
    <3>2. OnDisk(files', t) \subseteq OnDisk(files, t) \union {}
      <4>1. PointsOf(files'[t][id]) \subseteq OnDisk(files, t) \union {}
        BY <3>1, FileOnDisk
      <4> QED
        BY <3>1, <4>1, PutPoints
    <3> QED
      BY <3>1, <3>2 DEF OnDisk
  <2> QED
    BY <2>1, <2>2, <1>1, <1>2
<1>6. ASSUME NEW z \in Series PROVE Moved(z)
  <2>1. Range(buffer'[z]) \subseteq Range(buffer[z])
    BY <1>3, RangeFacts
  <2> QED
    BY <1>2, <1>5, <2>1 DEF Moved
<1> QED
  BY <1>1, <1>2, <1>3, <1>6, MovedFresh

\* A call begins; tsedge_append takes a timestamp that the series has not had.
LEMMA StartCallFresh ==
  ASSUME ShapeInv, FreshInv, StartCall
  PROVE  FreshInv'
<1>1. target \in Series
  BY DEF ShapeInv, WorkShape
<1>2. ASSUME NEW name, NEW s, NEW t, NEW label, Begin(name, s, t, label), name # "append",
             label # "place", UNCHANGED used
      PROVE  FreshInv'
  <2>1. UNCHANGED <<files, wal, buffer, gone, used>> /\ op' = name /\ pc' = label
    BY <1>2 DEF Begin, Goto, disk
  <2> QED
    BY <2>1, <1>1, <1>2, QuietFresh DEF SameAppend
<1>3. ASSUME NEW s \in Series, NEW t \in Times, StartAppend(s, t) PROVE FreshInv'
  <2>1. /\ used' = [used EXCEPT ![s] = @ \union {t}] /\ t \notin used[s]
        /\ op' = "append" /\ target' = s /\ arg' = t
        /\ UNCHANGED <<files, wal, buffer, gone>>
    BY <1>3 DEF StartAppend, Begin, Goto, disk
  <2>2. used'[s] = used[s] \union {t} /\ \A z \in Series : used[z] \subseteq used'[z]
    BY <2>1 DEF ShapeInv, HistoryShape
  <2>3. ASSUME NEW z \in Series
        PROVE  /\ OnDisk(files', z) \subseteq used'[z] /\ Range(buffer'[z]) \subseteq used'[z]
               /\ Range(wal'[z]) \subseteq used'[z] /\ gone'[z] \subseteq used'[z]
    BY <2>1, <2>2 DEF FreshInv
  <2>4. t \notin gone[s] /\ t \notin Range(buffer[s]) /\ t \notin OnDisk(files, s)
    BY <2>1 DEF FreshInv
  <2> QED
    BY <2>1, <2>2, <2>3, <2>4 DEF FreshInv
<1>4. ASSUME NEW name \in {"flush", "delete_before"}, NEW s, NEW t, StartFlush(name, s, t) PROVE FreshInv'
  BY <1>2, <1>4 DEF StartFlush
<1>5. ASSUME NEW name \in {"flush_all", "close", "enforce"}, StartWhole(name) PROVE FreshInv'
  BY <1>2, <1>5 DEF StartWhole
<1>6. ASSUME NEW b, SetDiskQuota(b) PROVE FreshInv'
  <2>1. UNCHANGED <<files, wal, buffer, gone, used, pc, op, target, arg>>
    BY <1>6 DEF SetDiskQuota, disk, call, history
  <2> QED
    BY <2>1, <1>1, QuietFresh DEF SameAppend, FreshInv
<1> QED
  BY <1>3, <1>4, <1>5, <1>6 DEF StartCall

\* The point is placed.
LEMMA PlaceFresh ==
  ASSUME ShapeInv, FreshInv, Place
  PROVE  FreshInv'
<1>1. PICK t \in Series : t = target
  BY DEF ShapeInv, WorkShape
<1>2. /\ pc = "place" /\ op' = "none" /\ pc' = "idle"
      /\ wal' = [wal EXCEPT ![t] = Append(@, arg)]
      /\ buffer' = [buffer EXCEPT ![t] = Append(@, arg)]
      /\ UNCHANGED <<files, gone, used>>
  BY <1>1 DEF Place, Finish, Goto, history
<1>3. arg \in used[t] /\ arg \in Int
  BY <1>1, <1>2 DEF FreshInv, ShapeInv, WorkShape
<1>4. wal[t] \in Seq(Int) /\ buffer[t] \in Seq(Int)
  BY DEF ShapeInv, PointsShape
<1>5. Range(Append(wal[t], arg)) = Range(wal[t]) \union {arg}
      /\ Range(Append(buffer[t], arg)) = Range(buffer[t]) \union {arg}
  BY <1>3, <1>4, RangeFacts
<1>6. ASSUME NEW z \in Series
      PROVE  /\ OnDisk(files', z) \subseteq used'[z] /\ Range(buffer'[z]) \subseteq used'[z]
             /\ Range(wal'[z]) \subseteq used'[z] /\ gone'[z] \subseteq used'[z]
  <2>1. /\ OnDisk(files, z) \subseteq used[z] /\ Range(buffer[z]) \subseteq used[z]
        /\ Range(wal[z]) \subseteq used[z] /\ gone[z] \subseteq used[z]
    BY DEF FreshInv
  <2>2. CASE z = t
    <3>1. wal'[z] = Append(wal[t], arg) /\ buffer'[z] = Append(buffer[t], arg)
      BY <2>2, <1>2 DEF ShapeInv, PointsShape
    <3> QED
      BY <2>1, <2>2, <3>1, <1>2, <1>3, <1>5
  <2>3. CASE z # t
    <3>1. wal'[z] = wal[z] /\ buffer'[z] = buffer[z]
      BY <2>3, <1>2 DEF ShapeInv, PointsShape
    <3> QED
      BY <2>1, <3>1, <1>2
  <2> QED
    BY <2>2, <2>3
<1> QED
  BY <1>2, <1>6 DEF FreshInv

\* Replay takes a point from wal.log to the buffer.
LEMMA ReplayFresh ==
  ASSUME ShapeInv, FreshInv, NEW s \in Series, Replay(s)
  PROVE  FreshInv'
<1>1. /\ pc = "replay" /\ pc' \in {"replay", "flush"} /\ op = "open" /\ op' = "open"
      /\ cursor[s] <= Len(wal[s])
      /\ UNCHANGED <<files, wal, gone, used>>
      /\ buffer' = buffer \/ buffer' = [buffer EXCEPT ![s] = Append(@, wal[s][cursor[s]])]
  BY DEF Replay, Goto, disk, history, ShapeInv, CallInv
<1>2. target \in Series /\ wal[s] \in Seq(Int) /\ buffer[s] \in Seq(Int) /\ cursor[s] \in Nat \ {0}
  BY DEF ShapeInv, WorkShape, PointsShape
<1>3. wal[s][cursor[s]] \in Int /\ wal[s][cursor[s]] \in Range(wal[s])
  BY <1>1, <1>2 DEF Range
<1>4. ASSUME NEW z \in Series PROVE Moved(z)
  <2>1. Range(buffer'[z]) \subseteq Range(buffer[z]) \union Range(wal[z])
    <3>1. CASE buffer'[z] = buffer[z]
      BY <3>1
    <3>2. CASE buffer'[z] # buffer[z]
      <4>1. z = s /\ buffer'[s] = Append(buffer[s], wal[s][cursor[s]])
        BY <3>2, <1>1 DEF ShapeInv, PointsShape
      <4>2. Range(Append(buffer[s], wal[s][cursor[s]])) = Range(buffer[s]) \union {wal[s][cursor[s]]}
        BY <1>2, <1>3, RangeFacts
      <4> QED
        BY <4>1, <4>2, <1>3
    <3> QED
      BY <3>1, <3>2
  <2> QED
    BY <2>1, <1>1 DEF Moved
<1> QED
  BY <1>1, <1>2, <1>4, MovedFresh DEF SameAppend

\* FreshInv is inductive.
LEMMA NextFresh ==
  ASSUME ShapeInv, FreshInv, [Next]_vars
  PROVE  FreshInv'
<1>1. target \in Series
  BY DEF ShapeInv, WorkShape
<1>2. ASSUME UNCHANGED <<files, wal, buffer, gone, used>>, SameAppend PROVE FreshInv'
  BY <1>1, <1>2, QuietFresh
<1>3. ASSUME NEW r, Return(r), UNCHANGED <<disk, used, gone>> PROVE FreshInv'
  BY <1>1, <1>3, ReturnQuiet, QuietFresh DEF disk
<1>4. ASSUME ReplayEnds \/ Refreshed \/ CallFails PROVE FreshInv'
  BY <1>3, <1>4 DEF ReplayEnds, Refreshed, CallFails, history
<1>5. ASSUME Crash PROVE FreshInv'
  BY <1>1, <1>5, ForgetQuiet, QuietFresh DEF Crash, disk
<1>6. ASSUME Open PROVE FreshInv'
  BY <1>2, <1>6 DEF Open, Goto, SameAppend, disk, history
<1>7. ASSUME Resume PROVE FreshInv'
  <2>1. CASE op = "append"
    <3>1. UNCHANGED <<files, wal, buffer, gone, used, op, target, arg>>
      BY <1>7, <2>1 DEF Resume, call, disk, history
    <3> QED
      BY <1>2, <2>1, <3>1 DEF SameAppend
  <2>2. CASE op = "delete_before"
    <3>1. UNCHANGED <<files, wal, buffer, gone, used, op, target, arg>> /\ pc' = "expire"
      BY <1>7, <2>2 DEF Resume, Goto, call, disk, history
    <3> QED
      BY <1>2, <3>1 DEF SameAppend
  <2>3. CASE op \notin {"append", "delete_before"}
    <3>1. Return("ok") /\ UNCHANGED <<disk, used, gone>>
      BY <1>7, <2>3 DEF Resume, history
    <3> QED
      BY <1>3, <3>1
  <2> QED
    BY <2>1, <2>2, <2>3
<1>8. ASSUME NextSeries PROVE FreshInv'
  <2>1. UNCHANGED <<files, wal, buffer, gone, used, op>> /\ op \in {"flush_all", "close"}
        /\ pc' \in {"truncate", "flush"}
    BY <1>8 DEF NextSeries, Goto, disk, history, ShapeInv, CallInv
  <2> QED
    BY <1>2, <2>1 DEF SameAppend
<1>9. ASSUME TruncateWal PROVE FreshInv'
  <2>1. wal' = buffer /\ UNCHANGED <<files, buffer, gone, used, op, target, arg>> /\ pc' = "measure"
    BY <1>9 DEF TruncateWal, Goto, call, history
  <2>2. \A s \in Series : Moved(s)
    BY <2>1 DEF Moved
  <2> QED
    BY <1>1, <2>1, <2>2, MovedFresh DEF SameAppend
<1>10. ASSUME Measure \/ EvictEnds \/ ExpireEnds \/ Rebuild \/ ExpireFails PROVE FreshInv'
  <2>1. UNCHANGED <<files, wal, buffer, gone, used, op, target, arg>> /\ pc' # "place"
    BY <1>10 DEF Measure, EvictEnds, ExpireEnds, Rebuild, ExpireFails, Goto, disk, call, history
  <2> QED
    BY <1>2, <2>1 DEF SameAppend
<1>11. ASSUME Judge PROVE FreshInv'
  <2>1. UNCHANGED <<files, wal, gone, used>>
    BY <1>11 DEF Judge, disk, history
  <2>2. CASE Forget
    BY <1>1, <2>1, <2>2, ForgetQuiet, QuietFresh
  <2>3. CASE ~Forget
    <3>1. buffer' = buffer /\ SameAppend
      BY <1>11, <2>3 DEF Judge, Finish, Goto, SameAppend, call
    <3> QED
      BY <1>2, <2>1, <3>1
  <2> QED
    BY <2>2, <2>3
<1>12. ASSUME Evict \/ Expire PROVE FreshInv'
  <2>1. /\ \E v \in victims : Unlink(v)
        /\ UNCHANGED <<wal, buffer, used, op, target, arg, pc>> /\ pc \in {"evict", "expire"}
    BY <1>12 DEF Evict, Expire, call
  <2>2. PICK v \in victims : Unlink(v) /\ v.series \in Series
    BY <2>1 DEF ShapeInv, WorkShape, Candidates
  <2>3. \A s \in Series : Moved(s)
    BY <2>1, <2>2, UnlinkMoves DEF ShapeInv
  <2> QED
    BY <1>1, <2>1, <2>3, MovedFresh DEF SameAppend
<1>13. ASSUME RebuildFails PROVE FreshInv'
  <2>1. UNCHANGED <<files, wal, gone, used>> /\ (Forget \/ (Finish("idle") /\ buffer' = buffer))
    BY <1>13 DEF RebuildFails, disk
  <2>2. CASE Forget
    BY <1>1, <2>1, <2>2, ForgetQuiet, QuietFresh
  <2>3. CASE Finish("idle") /\ buffer' = buffer
    BY <1>2, <2>1, <2>3 DEF Finish, Goto, SameAppend
  <2> QED
    BY <2>1, <2>2, <2>3
<1>14. ASSUME UNCHANGED vars PROVE FreshInv'
  <2>1. UNCHANGED <<files, wal, buffer, gone, used, op, target, arg, pc>>
    BY <1>14 DEF vars, disk, call, history
  <2> QED
    BY <1>2, <2>1 DEF SameAppend, FreshInv
<1> QED
  BY <1>4, <1>5, <1>6, <1>7, <1>8, <1>9, <1>10, <1>11, <1>12, <1>13, <1>14,
     WriteBlockFresh, WriteBlockFailsFresh, StartCallFresh, PlaceFresh, ReplayFresh
     DEF Next, Continue, Environment

-----------------------------------------------------------------------------
(* wal.log and buffers *)

\* wal.log fits in the buffers and has nothing that was removed.
LogKept == \A s \in Series : Len(wal[s]) <= Capacity /\ gone[s] \intersect Range(wal[s]) = {}

\* Between calls and in cleanups wal.log is what the buffers have; a flush leaves it behind for
\* a while, and replay has copied its beginning.
InSync ==
  /\ pc = "replay" =>
       \A s \in Series : cursor[s] <= Len(wal[s]) + 1 /\ buffer[s] = SubSeq(wal[s], 1, cursor[s] - 1)
  /\ pc \in {"flush", "next", "truncate"} => op # "open" /\ \A s \in Series : buffer[s] \in {wal[s], <<>>}
  /\ pc \notin {"closed", "replay", "flush", "next", "truncate"} => wal = buffer
  /\ pc = "closed" => buffer = Nothing /\ cursor = Start

LogInv == faults = 0 => LogKept /\ InSync

\* What a step does not touch.
LEMMA KeptFrame == ASSUME LogKept, UNCHANGED <<wal, gone>> PROVE LogKept'
BY DEF LogKept

\* A call ends while wal.log and the buffers agree.
LEMMA ReturnLog ==
  ASSUME LogKept, UNCHANGED <<wal, gone>>, wal = buffer,
         Forget \/ (Finish("idle") /\ buffer' = buffer)
  PROVE  LogKept' /\ InSync'
<1>1. LogKept'
  BY KeptFrame
<1>2. InSync'
  BY DEF InSync, Forget, Finish, Goto
<1> QED
  BY <1>1, <1>2

\* The buffers are lost.
LEMMA ForgetLog ==
  ASSUME LogKept, UNCHANGED <<wal, gone>>, Forget
  PROVE  LogKept' /\ InSync'
<1>1. LogKept'
  BY KeptFrame
<1>2. InSync'
  BY DEF InSync, Forget, Finish, Goto
<1> QED
  BY <1>1, <1>2

\* A step within a cleanup or before it.
LEMMA InnerLog ==
  ASSUME LogKept, UNCHANGED <<wal, gone, buffer>>, wal = buffer,
         pc' \notin {"closed", "replay", "flush", "next", "truncate"}
  PROVE  LogKept' /\ InSync'
<1>1. LogKept'
  BY KeptFrame
<1> QED
  BY <1>1 DEF InSync

\* tsedge_open starts with empty buffers at the beginning of wal.log.
LEMMA OpenLog == ASSUME ShapeInv, LogKept, InSync, Open PROVE LogKept' /\ InSync'
<1>1. /\ pc = "closed" /\ pc' = "replay" /\ UNCHANGED <<wal, buffer, cursor, gone>>
  BY DEF Open, Goto, disk, history
<1>2. LogKept'
  BY <1>1, KeptFrame
<1>3. ASSUME NEW s \in Series
      PROVE  cursor[s] <= Len(wal[s]) + 1 /\ buffer[s] = SubSeq(wal[s], 1, cursor[s] - 1)
  <2>1. cursor[s] = 1 /\ buffer[s] = <<>>
    BY <1>1 DEF InSync, Nothing, Start
  <2>2. wal[s] \in Seq(Int)
    BY DEF ShapeInv, PointsShape
  <2>3. Len(wal[s]) \in Nat /\ SubSeq(wal[s], 1, 0) = <<>>
    BY <2>2
  <2> QED
    BY <2>1, <2>3
<1> QED
  BY <1>1, <1>2, <1>3 DEF InSync

\* One point further.
LEMMA SubSeqGrows ==
  ASSUME NEW q \in Seq(Int), NEW c \in Nat \ {0}, c <= Len(q)
  PROVE  Append(SubSeq(q, 1, c - 1), q[c]) = SubSeq(q, 1, c) /\ Len(SubSeq(q, 1, c - 1)) = c - 1
<1>1. Len(q) \in Nat /\ \A i \in 1..Len(q) : q[i] \in Int
  OBVIOUS
<1>2. PICK p : p = SubSeq(q, 1, c - 1)
  OBVIOUS
<1>3. PICK r : r = SubSeq(q, 1, c)
  OBVIOUS
<1>4. /\ p \in Seq(Int) /\ Len(p) = c - 1 /\ \A i \in 1..(c - 1) : p[i] = q[i]
      /\ r \in Seq(Int) /\ Len(r) = c /\ \A i \in 1..c : r[i] = q[i]
  BY <1>1, <1>2, <1>3
<1>5. PICK a : a = Append(p, q[c])
  OBVIOUS
<1>6. /\ a \in Seq(Int) /\ Len(a) = c /\ a[c] = q[c] /\ \A i \in 1..(c - 1) : a[i] = p[i]
  BY <1>1, <1>4, <1>5
<1>7. \A i \in 1..c : a[i] = r[i]
  BY <1>4, <1>6
<1>8. a = r
  BY <1>4, <1>6, <1>7
<1> QED
  BY <1>2, <1>3, <1>4, <1>5, <1>8

\* Replay copies one point; the buffers have room for all of wal.log, so none is flushed.
LEMMA ReplayLog ==
  ASSUME ShapeInv, LogKept, InSync, NEW s \in Series, Replay(s)
  PROVE  LogKept' /\ InSync'
<1>1. pc = "replay" /\ UNCHANGED <<wal, gone>> /\ cursor[s] <= Len(wal[s])
  BY DEF Replay, disk, history
<1>2. PICK q \in Seq(Int), c \in Nat \ {0} : q = wal[s] /\ c = cursor[s]
  BY DEF ShapeInv, PointsShape, WorkShape
<1>3. buffer[s] = SubSeq(q, 1, c - 1) /\ Len(buffer[s]) = c - 1 /\ Len(q) <= Capacity
      /\ Append(buffer[s], q[c]) = SubSeq(q, 1, c)
  <2>1. buffer[s] = SubSeq(q, 1, c - 1) /\ c <= Len(q) /\ Len(q) <= Capacity
    BY <1>1, <1>2 DEF InSync, LogKept
  <2> QED
    BY <2>1, SubSeqGrows
<1>4. ~(Len(buffer[s]) >= Capacity)
  <2>1. Capacity \in Nat /\ Len(q) \in Nat /\ c <= Len(q)
    BY <1>1, <1>2, ConstantFacts
  <2> QED
    BY <2>1, <1>3
<1>5. /\ buffer' = [buffer EXCEPT ![s] = Append(@, wal[s][cursor[s]])]
      /\ cursor' = [cursor EXCEPT ![s] = @ + 1] /\ pc' = "replay"
  BY <1>1, <1>4 DEF Replay
<1>6. LogKept'
  BY <1>1, KeptFrame
<1>7. ASSUME NEW z \in Series
      PROVE  cursor'[z] <= Len(wal[z]) + 1 /\ buffer'[z] = SubSeq(wal[z], 1, cursor'[z] - 1)
  <2>1. CASE z = s
    <3>1. cursor'[s] = c + 1 /\ buffer'[s] = Append(buffer[s], q[c])
      BY <1>2, <1>5 DEF ShapeInv, PointsShape, WorkShape
    <3>2. c + 1 <= Len(q) + 1 /\ (c + 1) - 1 = c
      BY <1>1, <1>2
    <3> QED
      BY <2>1, <3>1, <3>2, <1>2, <1>3
  <2>2. CASE z # s
    <3>1. cursor'[z] = cursor[z] /\ buffer'[z] = buffer[z]
      BY <2>2, <1>5 DEF ShapeInv, PointsShape, WorkShape
    <3> QED
      BY <3>1, <1>1 DEF InSync
  <2> QED
    BY <2>1, <2>2
<1> QED
  BY <1>1, <1>5, <1>6, <1>7 DEF InSync

\* At its end wal.log and the buffers are the same.
LEMMA ReplayEndsLog ==
  ASSUME ShapeInv, LogKept, InSync, ReplayEnds
  PROVE  LogKept' /\ InSync'
<1>1. /\ pc = "replay" /\ UNCHANGED <<wal, gone>> /\ Return("ok")
      /\ \A s \in Series : cursor[s] > Len(wal[s])
  BY DEF ReplayEnds, disk, history
<1>2. ASSUME NEW s \in Series PROVE buffer[s] = wal[s]
  <2>1. PICK q \in Seq(Int), c \in Nat \ {0} : q = wal[s] /\ c = cursor[s]
    BY DEF ShapeInv, PointsShape, WorkShape
  <2>2. c > Len(q) /\ c <= Len(q) + 1 /\ Len(q) \in Nat
    BY <1>1, <2>1 DEF InSync
  <2>3. c - 1 = Len(q)
    BY <2>2
  <2>4. buffer[s] = SubSeq(q, 1, Len(q))
    BY <1>1, <2>1, <2>3 DEF InSync
  <2>5. SubSeq(q, 1, Len(q)) = q
    OBVIOUS
  <2> QED
    BY <2>1, <2>4, <2>5
<1>3. wal = buffer
  BY <1>2 DEF ShapeInv, PointsShape
<1> QED
  BY <1>1, <1>3, ReturnLog DEF Return

\* A new point fits, and it was never removed.
LEMMA PlaceLog ==
  ASSUME ShapeInv, FreshInv, LogKept, InSync, Place
  PROVE  LogKept' /\ InSync'
<1>1. PICK t \in Series : t = target
  BY DEF ShapeInv, WorkShape
<1>2. /\ pc = "place" /\ pc' = "idle" /\ gone' = gone
      /\ wal' = [wal EXCEPT ![t] = Append(@, arg)]
      /\ buffer' = [buffer EXCEPT ![t] = Append(@, arg)]
  BY <1>1 DEF Place, Finish, Goto, history
<1>3. wal = buffer /\ wal' = buffer'
  BY <1>2 DEF InSync
<1>4. wal[t] \in Seq(Int) /\ arg \in Int /\ arg \notin gone[t] /\ Len(wal[t]) < Capacity
  BY <1>1, <1>2, <1>3 DEF FreshInv, ShapeInv, WorkShape, PointsShape, CallInv
<1>5. Range(Append(wal[t], arg)) = Range(wal[t]) \union {arg} /\ Len(Append(wal[t], arg)) = Len(wal[t]) + 1
  BY <1>4, RangeFacts
<1>6. ASSUME NEW s \in Series PROVE Len(wal'[s]) <= Capacity /\ gone[s] \intersect Range(wal'[s]) = {}
  <2>1. Len(wal[s]) <= Capacity /\ gone[s] \intersect Range(wal[s]) = {}
    BY DEF LogKept
  <2>2. CASE s = t
    <3>1. wal'[s] = Append(wal[t], arg)
      BY <2>2, <1>2 DEF ShapeInv, PointsShape
    <3>2. Len(wal[t]) + 1 <= Capacity
      <4>1. Len(wal[t]) \in Nat /\ Capacity \in Nat
        BY <1>4, ConstantFacts
      <4> QED
        BY <4>1, <1>4
    <3> QED
      BY <2>1, <2>2, <3>1, <3>2, <1>4, <1>5
  <2>3. CASE s # t
    <3>1. wal'[s] = wal[s]
      BY <2>3, <1>2 DEF ShapeInv, PointsShape
    <3> QED
      BY <2>1, <3>1
  <2> QED
    BY <2>2, <2>3
<1> QED
  BY <1>2, <1>3, <1>6 DEF LogKept, InSync

\* A flush empties a buffer before wal.log follows.
LEMMA WriteBlockLog ==
  ASSUME ShapeInv, LogKept, InSync, NEW n, WriteBlock(n)
  PROVE  LogKept' /\ InSync'
<1>1. /\ pc = "flush" /\ UNCHANGED <<wal, gone, op>>
      /\ buffer' = [buffer EXCEPT ![target] = <<>>]
      /\ pc' = CASE op = "open" -> "replay"
                 [] op \in {"flush_all", "close"} -> "next"
                 [] OTHER -> "truncate"
  BY DEF WriteBlock, Goto, call, history
<1>2. op # "open" /\ \A s \in Series : buffer[s] \in {wal[s], <<>>}
  BY <1>1 DEF InSync
<1>3. pc' \in {"next", "truncate"}
  BY <1>1, <1>2
<1>4. \A s \in Series : buffer'[s] \in {wal[s], <<>>}
  BY <1>1, <1>2 DEF ShapeInv, PointsShape
<1>5. LogKept'
  BY <1>1, KeptFrame
<1> QED
  BY <1>1, <1>2, <1>3, <1>4, <1>5 DEF InSync

\* And then it follows.
LEMMA TruncateLog ==
  ASSUME ShapeInv, LogKept, InSync, TruncateWal
  PROVE  LogKept' /\ InSync'
<1>1. pc = "truncate" /\ pc' = "measure" /\ wal' = buffer /\ UNCHANGED <<buffer, gone>>
  BY DEF TruncateWal, Goto, history
<1>2. ASSUME NEW s \in Series PROVE Len(wal'[s]) <= Capacity /\ gone[s] \intersect Range(wal'[s]) = {}
  <2>1. buffer[s] \in {wal[s], <<>>} /\ gone[s] \intersect Range(wal[s]) = {} /\ Len(buffer[s]) <= Capacity
    BY <1>1 DEF InSync, LogKept, ShapeInv, PointsShape
  <2> QED
    BY <2>1, <1>1, RangeFacts
<1> QED
  BY <1>1, <1>2 DEF LogKept, InSync

\* What is removed is in no buffer, hence not in wal.log.
LEMMA UnlinkLog ==
  ASSUME ShapeInv, LogKept, InSync, Evict \/ Expire
  PROVE  LogKept' /\ InSync'
<1>1. /\ \E v \in victims : Unlink(v)
      /\ UNCHANGED <<wal, buffer, pc>> /\ pc \in {"evict", "expire"}
  BY DEF Evict, Expire
<1>2. PICK v \in victims : Unlink(v) /\ v.series \in Series
  BY <1>1 DEF ShapeInv, WorkShape, Candidates
<1>3. \A s \in Series : \A p \in gone'[s] : p \in gone[s] \/ p \notin Range(buffer[s])
  BY <1>1, <1>2, UnlinkMoves DEF ShapeInv
<1>4. wal = buffer
  BY <1>1 DEF InSync
<1>5. LogKept'
  BY <1>1, <1>3, <1>4 DEF LogKept
<1> QED
  BY <1>1, <1>4, <1>5 DEF InSync

\* The beginning of a call.
LEMMA StartCallLog ==
  ASSUME ShapeInv, LogKept, InSync, StartCall
  PROVE  LogKept' /\ InSync'
<1>1. /\ UNCHANGED <<wal, buffer, gone>> /\ pc = "idle"
      /\ pc' \in {"idle", "place", "flush", "next", "measure", "resume"}
      /\ pc' = "flush" \/ pc' = "next" => op' # "open"
  <2>1. \A name, s, t, label : Begin(name, s, t, label) =>
          UNCHANGED <<wal, buffer, gone>> /\ pc = "idle" /\ pc' = label /\ op' = name
    BY DEF Begin, Goto, disk
  <2>2. ASSUME NEW s, NEW t, StartAppend(s, t)
        PROVE  UNCHANGED <<wal, buffer, gone>> /\ pc = "idle" /\ pc' \in {"flush", "place"} /\ op' = "append"
    BY <2>1, <2>2 DEF StartAppend
  <2>3. ASSUME NEW name, NEW s, NEW t, StartFlush(name, s, t)
        PROVE  UNCHANGED <<wal, buffer, gone>> /\ pc = "idle" /\ pc' \in {"flush", "resume"} /\ op' = name
    BY <2>1, <2>3 DEF StartFlush
  <2>4. ASSUME NEW name, StartWhole(name)
        PROVE  UNCHANGED <<wal, buffer, gone>> /\ pc = "idle" /\ pc' \in {"next", "measure"} /\ op' = name
    BY <2>1, <2>4 DEF StartWhole
  <2>5. ASSUME NEW b, SetDiskQuota(b) PROVE UNCHANGED <<wal, buffer, gone>> /\ pc = "idle" /\ pc' = "idle"
    BY <2>5 DEF SetDiskQuota, disk, history
  <2>6. ASSUME \E name \in {"flush_all", "close", "enforce"} : StartWhole(name)
        PROVE  /\ UNCHANGED <<wal, buffer, gone>> /\ pc = "idle" /\ pc' \in {"next", "measure"}
               /\ op' # "open"
    BY <2>4, <2>6
  <2> QED
    BY <2>2, <2>3, <2>5, <2>6 DEF StartCall
<1>2. wal = buffer
  BY <1>1 DEF InSync
<1>3. LogKept'
  BY <1>1, KeptFrame
<1> QED
  BY <1>1, <1>2, <1>3 DEF InSync

\* LogInv is inductive.
LEMMA NextLog ==
  ASSUME ShapeInv, FreshInv, LogInv, faults \in Nat, [Next]_vars
  PROVE  LogInv'
<1> SUFFICES ASSUME faults' = 0 PROVE LogKept' /\ InSync'
  BY DEF LogInv
<1>1. faults = 0 /\ LogKept /\ InSync
  BY FaultsCounted DEF LogInv
<1>2. ASSUME Environment PROVE LogKept' /\ InSync'
  <2>1. Crash
    BY <1>1, <1>2 DEF Environment, WriteBlockFails, CallFails, ExpireFails, RebuildFails, MayFail
  <2> QED
    BY <1>1, <2>1, ForgetLog DEF Crash, disk
<1>3. ASSUME Resume PROVE LogKept' /\ InSync'
  <2>1. pc = "resume" /\ wal = buffer /\ UNCHANGED <<wal, gone>>
    BY <1>1, <1>3 DEF Resume, InSync, disk, history
  <2>2. Return("ok") \/ (buffer' = buffer /\ pc' \in {"place", "expire"})
    BY <1>3 DEF Resume, Goto
  <2> QED
    BY <1>1, <2>1, <2>2, ReturnLog, InnerLog DEF Return
<1>4. ASSUME NextSeries PROVE LogKept' /\ InSync'
  <2>1. pc = "next" /\ pc' \in {"truncate", "flush"} /\ UNCHANGED <<wal, buffer, gone, op>>
    BY <1>4 DEF NextSeries, Goto, disk, history
  <2>2. LogKept'
    BY <1>1, <2>1, KeptFrame
  <2> QED
    BY <1>1, <2>1, <2>2 DEF InSync
<1>5. ASSUME Measure \/ EvictEnds \/ ExpireEnds \/ Rebuild PROVE LogKept' /\ InSync'
  <2>1. /\ UNCHANGED <<wal, buffer, gone>> /\ pc \in {"measure", "evict", "expire", "reindex", "refresh"}
        /\ pc' \in {"resume", "evict", "reindex", "refresh"}
    BY <1>5 DEF Measure, EvictEnds, ExpireEnds, Rebuild, Goto, disk, history
  <2>2. wal = buffer
    BY <1>1, <2>1 DEF InSync
  <2> QED
    BY <1>1, <2>1, <2>2, InnerLog
<1>6. ASSUME Judge PROVE LogKept' /\ InSync'
  <2>1. pc = "reindex" /\ wal = buffer /\ UNCHANGED <<wal, gone>>
    BY <1>1, <1>6 DEF Judge, InSync, disk, history
  <2>2. Forget \/ (Finish("idle") /\ buffer' = buffer) \/ (pc' = "resume" /\ buffer' = buffer)
    BY <1>6 DEF Judge, Goto
  <2> QED
    BY <1>1, <2>1, <2>2, ReturnLog, InnerLog
<1>7. ASSUME Refreshed PROVE LogKept' /\ InSync'
  <2>1. /\ pc = "refresh" /\ wal = buffer /\ UNCHANGED <<wal, gone>>
        /\ Forget \/ (Finish("idle") /\ buffer' = buffer)
    BY <1>1, <1>7 DEF Refreshed, Return, InSync, disk, history
  <2> QED
    BY <1>1, <2>1, ReturnLog
<1>8. ASSUME UNCHANGED vars PROVE LogKept' /\ InSync'
  <2>1. UNCHANGED <<wal, buffer, gone, pc, op, cursor>>
    BY <1>8 DEF vars, disk, call, history
  <2>2. LogKept'
    BY <1>1, <2>1, KeptFrame
  <2> QED
    BY <1>1, <2>1, <2>2 DEF InSync
<1> QED
  BY <1>1, <1>2, <1>3, <1>4, <1>5, <1>6, <1>7, <1>8, OpenLog, ReplayLog, ReplayEndsLog, PlaceLog,
     WriteBlockLog, TruncateLog, UnlinkLog, StartCallLog DEF Next, Continue

\* Without failures wal.log never brings back a point that the quota or retention removed: what is
\* in it is in the buffers too, or will be flushed before anything is removed.
THEOREM RemovedNotReplayed == Spec => []GoneNotReplayed
<1> DEFINE Inv == ShapeInv /\ FreshInv /\ LogInv
<1>1. Init => Inv
  <2> SUFFICES ASSUME Init PROVE FreshInv /\ LogInv
    BY InitShape
  <2>1. /\ pc = "idle" /\ op = "none" /\ wal = Nothing /\ buffer = Nothing
        /\ \A s \in Series : gone[s] = {} /\ used[s] = {} /\ DOMAIN files[s] = {}
    BY DEF Init, NoSegments
  <2>2. ASSUME NEW s \in Series
        PROVE  OnDisk(files, s) = {} /\ Range(wal[s]) = {} /\ Range(buffer[s]) = {} /\ Len(wal[s]) <= Capacity
    <3>1. Len(<<>>) <= Capacity
      BY ConstantFacts
    <3> QED
      BY <2>1, <3>1, RangeFacts, NothingIn DEF OnDisk
  <2>3. FreshInv
    BY <2>1, <2>2 DEF FreshInv
  <2>4. LogInv
    BY <2>1, <2>2 DEF LogInv, LogKept, InSync
  <2> QED
    BY <2>3, <2>4
<1>2. Inv /\ [Next]_vars => Inv'
  <2>1. ShapeInv => faults \in Nat
    BY ConstantFacts DEF ShapeInv, HistoryShape
  <2> QED
    BY <2>1, NextShape, NextFresh, NextLog
<1>3. Inv => GoneNotReplayed
  BY DEF LogInv, LogKept, GoneNotReplayed
<1> HIDE DEF Inv
<1> QED
  BY <1>1, <1>2, <1>3, PTL DEF Spec
=============================================================================
