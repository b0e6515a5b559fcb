------------------------- MODULE TsedgeStore_proof -------------------------
(***************************************************************************)
(* Proofs about the write path, for every number of crashes and failures   *)
(* and with torn writes: the types, where a call can be (PathInv), what    *)
(* became of deleted points, the bound of the WAL buffer, and a wal.log    *)
(* that ends in a fragment.                                                *)
(***************************************************************************)
EXTENDS TsedgeStore, TsedgeFiles_proof, FiniteSetTheorems

\* A record of wal.log, and a block of a segment file.
Record  == [series : Series, points : Seq(Nat), got : Nat]
AnyBlock == [points : Seq(Nat), got : Nat]

\* TypeOK is not inductive: the steps of a call rely on what the call put in
\* `op', `target' and `rest' when it started.
CallOK ==
  /\ pc \in {"chunk", "spill", "log", "sync", "place"} => op = "append"
  /\ op = "append" => target \in Series
  /\ pc = "replay" => op = "open"
  /\ op = "open" /\ rest # <<>> => target \in Series
  /\ pc = "switch" => op \in Modes
  /\ pc \in {"idle", "closed"} => op = "none" /\ rest = <<>>

TypeInv == TypeOK /\ CallOK

-----------------------------------------------------------------------------
(* The helpers *)

\* A new WAL record has the type of one.
LEMMA RecordType ==
  ASSUME NEW s \in Series, NEW pts \in Seq(Nat)
  PROVE  WalRecord(s, pts) \in Record
BY DEF WalRecord, Record

\* A new block has the type of one.
LEMMA BlockType ==
  ASSUME NEW pts \in Seq(Nat)
  PROVE  Block(pts) \in AnyBlock
BY DEF Block, AnyBlock

\* A subsequence keeps the type and has the length one expects.
LEMMA SubSeqType ==
  ASSUME NEW S, NEW q \in Seq(S), NEW m \in Nat \ {0}, NEW n \in Nat, n <= Len(q)
  PROVE  /\ SubSeq(q, m, n) \in Seq(S)
         /\ Len(SubSeq(q, m, n)) = IF m <= n THEN n - m + 1 ELSE 0
         /\ \A i \in 1 .. n - m + 1 : SubSeq(q, m, n)[i] = q[m + i - 1]
<1>1. \A i \in m..n : q[i] \in S
  OBVIOUS
<1> QED
  BY <1>1, SubSeqProperties

\* The chunk fits in the buffer, and what is left of the batch is a batch.
LEMMA ChunkFits ==
  ASSUME TypeOK, target \in Series
  PROVE  /\ ChunkLength \in Nat
         /\ ChunkLength <= Len(rest)
         /\ Len(buffer[target]) + ChunkLength <= Capacity
         /\ SubSeq(rest, 1, ChunkLength) \in Seq(Nat)
         /\ Len(SubSeq(rest, 1, ChunkLength)) = ChunkLength
         /\ SubSeq(rest, ChunkLength + 1, Len(rest)) \in Seq(Nat)
<1> DEFINE used == Len(buffer[target])
           left == Len(rest)
<1>1. rest \in Seq(Nat) /\ left \in Nat /\ used \in Nat /\ used <= Capacity
  BY DEF TypeOK
<1>2. Capacity \in Nat
  BY StoreAssumption
<1>3. ChunkLength = IF left > Capacity - used THEN Capacity - used ELSE left
  BY DEF ChunkLength
<1> HIDE DEF used, left
<1>4. ChunkLength \in Nat /\ ChunkLength <= left /\ used + ChunkLength <= Capacity
  BY <1>1, <1>2, <1>3
<1> USE DEF used, left
<1> QED
  BY <1>1, <1>4, SubSeqType

\* The empty buffers and segment files have their types.
LEMMA EmptyType ==
  /\ \A S : Empty \in [Series -> Seq(S)]
  /\ \A s \in Series : Len(Empty[s]) = 0 /\ Empty[s] = <<>>
BY DEF Empty

\* A new fate for every point keeps the type of fate.
LEMMA FateUpdateType ==
  ASSUME NEW e(_, _), fate \in [Series -> Seq(Fates)],
         \A s \in Series : \A n \in 1..Len(fate[s]) : e(s, n) \in Fates
  PROVE  [s \in Series |-> [n \in 1..Len(fate[s]) |-> e(s, n)]] \in [Series -> Seq(Fates)]
<1>1. \A s \in Series : [n \in 1..Len(fate[s]) |-> e(s, n)] \in Seq(Fates)
  <2> TAKE s \in Series
  <2>1. Len(fate[s]) \in Nat
    OBVIOUS
  <2> QED
    BY <2>1, IsASeq
<1> QED
  BY <1>1

\* What the return of a call leaves behind.
LEMMA ReturnType ==
  ASSUME TypeInv, NEW r, Return(r)
  PROVE  /\ pc' = "idle" /\ op' = "none" /\ target' = NoSeries
         /\ rest' = <<>> /\ cursor' = 1
         /\ fate' \in [Series -> Seq(Fates)]
<1>1. \A s \in Series : \A n \in 1..Len(fate[s]) : fate[s][n] \in Fates
  BY DEF TypeInv, TypeOK
<1>2. \A s \in Series : \A n \in 1..Len(fate[s]) : FateAtReturn(r, s, n) \in Fates
  BY <1>1 DEF FateAtReturn, Fates
<1>3. [s \in Series |-> [n \in 1..Len(fate[s]) |-> FateAtReturn(r, s, n)]] \in [Series -> Seq(Fates)]
  BY <1>2, FateUpdateType DEF TypeInv, TypeOK
<1> QED
  BY <1>3 DEF Return

\* What the end of a tsedge_db object leaves behind.
LEMMA ForgetType ==
  ASSUME TypeInv, Forget
  PROVE  /\ pc' = "closed" /\ op' = "none" /\ target' = NoSeries
         /\ rest' = <<>> /\ cursor' = 1
         /\ durability' = "STRICT" /\ registry' = <<>> /\ walbuf' = <<>>
         /\ buffer' = Empty
         /\ fate' \in [Series -> Seq(Fates)]
         /\ UNCHANGED disk
<1>1. \A s \in Series : \A n \in 1..Len(fate[s]) : fate[s][n] \in Fates
  BY DEF TypeInv, TypeOK
<1>2. \A s \in Series : \A n \in 1..Len(fate[s]) : FateAtEnd(s, n) \in Fates
  BY <1>1 DEF FateAtEnd, Fates
<1>3. [s \in Series |-> [n \in 1..Len(fate[s]) |-> FateAtEnd(s, n)]] \in [Series -> Seq(Fates)]
  BY <1>2, FateUpdateType DEF TypeInv, TypeOK
<1> QED
  BY <1>3 DEF Forget

\* A partial write of records is a run of records, the last perhaps cut short.
LEMMA PartialRecords ==
  ASSUME NEW items \in Seq(Record), NEW part \in PartialWrites(items)
  PROVE  part \in Seq(Record)
<1>1. \A x \in Record : x.points \in Seq(Nat)
  BY DEF Record
<1>2. \A x \in Record, g \in Nat : [x EXCEPT !.got = g] \in Record
  BY DEF Record
<1> QED
  BY <1>1, <1>2, PartialWritesType

\* The same for blocks.
LEMMA PartialBlocks ==
  ASSUME NEW items \in Seq(AnyBlock), NEW part \in PartialWrites(items)
  PROVE  part \in Seq(AnyBlock)
<1>1. \A x \in AnyBlock : x.points \in Seq(Nat)
  BY DEF AnyBlock
<1>2. \A x \in AnyBlock, g \in Nat : [x EXCEPT !.got = g] \in AnyBlock
  BY DEF AnyBlock
<1> QED
  BY <1>1, <1>2, PartialWritesType

-----------------------------------------------------------------------------
(* Every step keeps the types *)

\* The initial state satisfies the type invariant.
LEMMA InitTypeInv == Init => TypeInv
<1> SUFFICES ASSUME Init PROVE TypeInv
  OBVIOUS
<1>1. Empty \in [Series -> Seq(Nat)] /\ Empty \in [Series -> Seq(AnyBlock)] /\ Empty \in [Series -> Seq(Fates)]
  BY EmptyType
<1>2. \A s \in Series : Len(buffer[s]) <= Capacity
  BY EmptyType, StoreAssumption DEF Init
<1>3. TypeOK
  BY <1>1, <1>2, EmptySeq, StoreAssumption DEF Init, TypeOK, Modes, Labels, FileSteps, Operations, AnyBlock
<1> QED
  BY <1>3 DEF TypeInv, CallOK, Init

\* Returns that change neither the files nor the registry keep the invariant.
LEMMA ReturnTypeInv ==
  ASSUME TypeInv, NEW r, Return(r), UNCHANGED <<disk, registry, buffer, crashes>>,
         durability' \in Modes, walbuf' \in Seq(Record), faults' \in 0..MaxFaults
  PROVE  TypeInv'
<1>1. /\ pc' = "idle" /\ op' = "none" /\ target' = NoSeries
      /\ rest' = <<>> /\ cursor' = 1
      /\ fate' \in [Series -> Seq(Fates)]
  BY ReturnType
<1>2. TypeOK'
  BY <1>1, EmptySeq DEF TypeInv, TypeOK, disk, Labels, Operations, Record
<1> QED
  BY <1>1, <1>2 DEF TypeInv, CallOK

\* Forget keeps the type invariant.
LEMMA ForgetTypeInv ==
  ASSUME TypeInv, Forget, crashes' \in 0..MaxCrashes, faults' \in 0..MaxFaults
  PROVE  TypeInv'
<1>1. /\ pc' = "closed" /\ op' = "none" /\ target' = NoSeries
      /\ rest' = <<>> /\ cursor' = 1
      /\ durability' = "STRICT" /\ registry' = <<>> /\ walbuf' = <<>>
      /\ buffer' = Empty
      /\ fate' \in [Series -> Seq(Fates)]
      /\ UNCHANGED disk
  BY ForgetType
<1>2. buffer' \in [Series -> Seq(Nat)] /\ \A s \in Series : Len(buffer'[s]) <= Capacity
  BY <1>1, EmptyType, StoreAssumption
<1>3. TypeOK'
  BY <1>1, <1>2, EmptySeq DEF TypeInv, TypeOK, disk, Labels, Operations, Modes
<1> QED
  BY <1>1, <1>3 DEF TypeInv, CallOK

\* Open keeps the type invariant.
LEMMA OpenTypeInv == TypeInv /\ Open => TypeInv'
<1> SUFFICES ASSUME TypeInv, Open PROVE TypeInv'
  OBVIOUS
<1>1. Cardinality(dirs) \in Nat
  BY FS_Subset, FS_CardinalityType, StoreAssumption DEF TypeInv, TypeOK
<1>2. registry' \in Seq(Series)
  <2>1. registry' \in [1..Cardinality(dirs) -> dirs]
    BY DEF Open
  <2>2. dirs \in SUBSET Series
    BY DEF TypeInv, TypeOK
  <2> QED
    BY <1>1, <2>1, <2>2
<1>3. TypeOK'
  BY <1>2 DEF Open, TypeInv, TypeOK, disk, bounds, Goto, Labels, FileSteps, Operations
<1> QED
  BY <1>3 DEF Open, TypeInv, CallOK, Goto

\* ReplayRecord keeps the type invariant.
LEMMA ReplayRecordTypeInv == TypeInv /\ ReplayRecord => TypeInv'
<1> SUFFICES ASSUME TypeInv, ReplayRecord PROVE TypeInv'
  OBVIOUS
<1>1. cursor \in 1..Len(wal)
  <2>1. wal \in Seq(Record) /\ cursor \in Nat \ {0}
    BY DEF TypeInv, TypeOK, Record
  <2>2. Len(Intact(wal)) \in Nat /\ Len(Intact(wal)) <= Len(wal)
    BY <2>1, IntactIsPrefix
  <2> QED
    BY <2>1, <2>2 DEF ReplayRecord
<1> DEFINE s == wal[cursor].series
           pts == wal[cursor].points
<1>2. s \in Series /\ pts \in Seq(Nat)
  <2>1. wal \in Seq(Record)
    BY DEF TypeInv, TypeOK, Record
  <2>2. wal[cursor] \in Record
    BY <1>1, <2>1, ElementOfSeq
  <2> QED
    BY <2>2 DEF Record
<1>3. /\ target' = s /\ dirs' = dirs \union {s} /\ rest' = pts
      /\ registry' = registry \/ registry' = Append(registry, s)
      /\ cursor' = cursor + 1
      /\ UNCHANGED <<wal, blocks, durability, buffer, walbuf, pc, op, fate, crashes, faults>>
  BY DEF ReplayRecord, bounds
<1> HIDE DEF s, pts
<1>4. registry' \in Seq(Series) /\ dirs' \in SUBSET Series
  <2>1. registry \in Seq(Series) /\ dirs \in SUBSET Series
    BY DEF TypeInv, TypeOK
  <2> QED
    BY <1>2, <1>3, <2>1
<1>5. TypeOK'
  BY <1>2, <1>3, <1>4 DEF TypeInv, TypeOK
<1>6. pc = "replay"
  BY DEF ReplayRecord
<1> QED
  BY <1>2, <1>3, <1>5, <1>6 DEF TypeInv, CallOK

\* The chunk enters the buffer: ReplayPoints and Place.
LEMMA TakeChunkTypes ==
  ASSUME TypeInv, target \in Series
  PROVE  LET b == [buffer EXCEPT ![target] = @ \o SubSeq(rest, 1, ChunkLength)]
         IN  b \in [Series -> Seq(Nat)] /\ \A s \in Series : Len(b[s]) <= Capacity
<1> DEFINE chunk == SubSeq(rest, 1, ChunkLength)
<1>1. /\ chunk \in Seq(Nat) /\ Len(chunk) = ChunkLength /\ ChunkLength \in Nat
      /\ Len(buffer[target]) + ChunkLength <= Capacity
  BY ChunkFits DEF TypeInv
<1> HIDE DEF chunk
<1>2. buffer[target] \in Seq(Nat)
  BY DEF TypeInv, TypeOK
<1>3. buffer[target] \o chunk \in Seq(Nat) /\ Len(buffer[target] \o chunk) <= Capacity
  BY <1>1, <1>2, ConcatProperties
<1>4. [buffer EXCEPT ![target] = @ \o chunk] \in [Series -> Seq(Nat)]
  BY <1>3 DEF TypeInv, TypeOK
<1>5. \A s \in Series : Len([buffer EXCEPT ![target] = @ \o chunk][s]) <= Capacity
  BY <1>3 DEF TypeInv, TypeOK
<1> QED
  BY <1>4, <1>5 DEF chunk

\* ReplayPoints keeps the type invariant.
LEMMA ReplayPointsTypeInv == TypeInv /\ ReplayPoints => TypeInv'
<1> SUFFICES ASSUME TypeInv, ReplayPoints PROVE TypeInv'
  OBVIOUS
<1>1. target \in Series
  BY DEF ReplayPoints, TypeInv, CallOK
<1>2. CASE BufferFull
  <2>1. TypeOK'
    BY <1>2 DEF ReplayPoints, TypeInv, TypeOK, disk, bounds, Goto, Labels, FileSteps
  <2> QED
    BY <1>2, <2>1 DEF ReplayPoints, TypeInv, CallOK, Goto
<1>3. CASE ~BufferFull
  <2>1. buffer' \in [Series -> Seq(Nat)] /\ \A s \in Series : Len(buffer'[s]) <= Capacity
    BY <1>1, <1>3, TakeChunkTypes DEF ReplayPoints
  <2>2. rest' \in Seq(Nat)
    BY <1>1, <1>3, ChunkFits DEF ReplayPoints, TypeInv
  <2>3. TypeOK'
    BY <1>3, <2>1, <2>2 DEF ReplayPoints, TypeInv, TypeOK, disk, bounds
  <2> QED
    BY <1>1, <1>3, <2>3 DEF ReplayPoints, TypeInv, CallOK
<1> QED
  BY <1>2, <1>3

\* ReplayEnds keeps the type invariant.
LEMMA ReplayEndsTypeInv == TypeInv /\ ReplayEnds => TypeInv'
<1> SUFFICES ASSUME TypeInv, ReplayEnds PROVE TypeInv'
  OBVIOUS
<1>1. CASE WalCorrupt(wal)
  BY <1>1, ForgetTypeInv DEF ReplayEnds, bounds, TypeInv, TypeOK
<1>2. CASE ~WalCorrupt(wal)
  <2>1. Return("ok") /\ UNCHANGED <<disk, memory, bounds>>
    BY <1>2 DEF ReplayEnds
  <2> QED
    BY <2>1, ReturnTypeInv DEF memory, bounds, TypeInv, TypeOK, Record
<1> QED
  BY <1>1, <1>2

\* Create keeps the type invariant.
LEMMA CreateTypeInv ==
  TypeInv /\ (\E s \in Series : CreateSeries(s) \/ CreateFails(s)) => TypeInv'
<1> SUFFICES ASSUME TypeInv, NEW s \in Series, CreateSeries(s) \/ CreateFails(s) PROVE TypeInv'
  OBVIOUS
<1>1. /\ dirs' = dirs \union {s}
      /\ registry' = registry \/ registry' = Append(registry, s)
      /\ faults' = faults \/ (faults < MaxFaults /\ faults' = faults + 1)
      /\ UNCHANGED <<wal, blocks, durability, buffer, walbuf, pc, op, target, rest, cursor, fate, crashes>>
  BY DEF CreateSeries, CreateFails, call, bounds
<1>2. registry' \in Seq(Series) /\ dirs' \in SUBSET Series
  <2>1. registry \in Seq(Series) /\ dirs \in SUBSET Series
    BY DEF TypeInv, TypeOK
  <2> QED
    BY <1>1, <2>1
<1>3. faults' \in 0..MaxFaults
  BY <1>1, StoreAssumption DEF TypeInv, TypeOK
<1>4. TypeOK'
  BY <1>1, <1>2, <1>3 DEF TypeInv, TypeOK
<1> QED
  BY <1>1, <1>4 DEF TypeInv, CallOK

\* StartAppend keeps the type invariant.
LEMMA StartAppendTypeInv ==
  TypeInv /\ (\E s \in Series, n \in 1..MaxBatch : StartAppend(s, n)) => TypeInv'
<1> SUFFICES ASSUME TypeInv, NEW s \in Series, NEW n \in 1..MaxBatch, StartAppend(s, n) PROVE TypeInv'
  OBVIOUS
<1>1. n \in Nat /\ fate[s] \in Seq(Fates) /\ Len(fate[s]) \in Nat
  BY StoreAssumption DEF TypeInv, TypeOK
<1>2. [i \in 1..n |-> Len(fate[s]) + i] \in Seq(Nat)
  <2>1. \A i \in 1..n : Len(fate[s]) + i \in Nat
    BY <1>1
  <2> QED
    BY <1>1, <2>1, IsASeq
<1>3. fate[s] \o [i \in 1..n |-> "pending"] \in Seq(Fates)
  <2>1. [i \in 1..n |-> "pending"] \in Seq(Fates)
    BY <1>1, IsASeq DEF Fates
  <2> QED
    BY <1>1, <2>1, ConcatProperties
<1>4. rest' \in Seq(Nat)
  BY <1>2 DEF StartAppend
<1>5. fate' \in [Series -> Seq(Fates)]
  <2>1. fate' = [fate EXCEPT ![s] = fate[s] \o [i \in 1..n |-> "pending"]]
    BY DEF StartAppend
  <2> QED
    BY <1>3, <2>1 DEF TypeInv, TypeOK
<1>6. /\ pc' = "chunk" /\ op' = "append" /\ target' = s
      /\ UNCHANGED <<dirs, wal, blocks, durability, registry, buffer, walbuf, cursor, crashes, faults>>
  BY DEF StartAppend, Call, Goto, disk, memory, bounds
<1>7. TypeOK'
  BY <1>4, <1>5, <1>6 DEF TypeInv, TypeOK, Labels, Operations
<1> QED
  BY <1>6, <1>7 DEF TypeInv, CallOK

\* Chunk keeps the type invariant.
LEMMA ChunkTypeInv == TypeInv /\ Chunk => TypeInv'
<1> SUFFICES ASSUME TypeInv, Chunk PROVE TypeInv'
  OBVIOUS
<1>1. pc' \in {"seal", "spill", "log"}
  BY DEF Chunk, Goto
<1>2. pc = "chunk" /\ UNCHANGED <<dirs, wal, blocks, durability, registry, buffer, walbuf, op, target, rest, cursor, fate, crashes, faults>>
  BY DEF Chunk, disk, memory, call, bounds
<1>3. TypeOK'
  BY <1>1, <1>2 DEF TypeInv, TypeOK, Labels, FileSteps
<1> QED
  BY <1>1, <1>2, <1>3 DEF TypeInv, CallOK

\* Log keeps the type invariant.
LEMMA LogTypeInv == TypeInv /\ Log => TypeInv'
<1> SUFFICES ASSUME TypeInv, Log PROVE TypeInv'
  OBVIOUS
<1>1. op = "append" /\ target \in Series
  BY DEF Log, TypeInv, CallOK
<1>2. NextRecord \in Record
  BY <1>1, ChunkFits, RecordType DEF TypeInv, NextRecord
<1>3. walbuf' \in Seq(Record)
  BY <1>2 DEF Log, TypeInv, TypeOK, Record
<1>4. /\ pc' \in {"sync", "place"}
      /\ UNCHANGED <<dirs, wal, blocks, durability, registry, buffer, op, target, rest, cursor, fate, crashes, faults>>
  BY DEF Log, Goto, disk, call, bounds
<1>5. TypeOK'
  BY <1>3, <1>4 DEF TypeInv, TypeOK, Record, Labels, FileSteps
<1> QED
  BY <1>1, <1>4, <1>5 DEF TypeInv, CallOK

\* Place keeps the type invariant.
LEMMA PlaceTypeInv == TypeInv /\ Place => TypeInv'
<1> SUFFICES ASSUME TypeInv, Place PROVE TypeInv'
  OBVIOUS
<1>1. op = "append" /\ target \in Series
  BY DEF Place, TypeInv, CallOK
<1>2. buffer' \in [Series -> Seq(Nat)] /\ \A s \in Series : Len(buffer'[s]) <= Capacity
  BY <1>1, TakeChunkTypes DEF Place
<1>3. rest' \in Seq(Nat)
  BY <1>1, ChunkFits DEF Place, TypeInv
<1>4. /\ pc' = "chunk"
      /\ UNCHANGED <<dirs, wal, blocks, durability, registry, walbuf, op, target, cursor, fate, crashes, faults>>
  BY DEF Place, Goto, disk, bounds
<1>5. TypeOK'
  BY <1>2, <1>3, <1>4 DEF TypeInv, TypeOK, Labels
<1> QED
  BY <1>1, <1>4, <1>5 DEF TypeInv, CallOK

\* A return that changes nothing but the call.
LEMMA QuietReturnTypeInv ==
  ASSUME TypeInv, NEW r, Return(r), UNCHANGED <<disk, memory, bounds>>
  PROVE  TypeInv'
BY ReturnTypeInv DEF memory, bounds, TypeInv, TypeOK, Record

\* AppendDone keeps the type invariant.
LEMMA AppendDoneTypeInv == TypeInv /\ AppendDone => TypeInv'
BY QuietReturnTypeInv DEF AppendDone

\* WalFlush keeps the type invariant.
LEMMA WalFlushTypeInv == TypeInv /\ WalFlush => TypeInv'
<1> SUFFICES ASSUME TypeInv, WalFlush PROVE TypeInv'
  OBVIOUS
<1>1. wal' \in Seq(Record)
  <2>1. wal \in Seq(Record) /\ walbuf \in Seq(Record)
    BY DEF TypeInv, TypeOK, Record
  <2>2. wal' = wal \o walbuf
    BY DEF WalFlush
  <2> QED
    BY <2>1, <2>2, ConcatProperties
<1>2. walbuf' \in Seq(Record)
  BY EmptySeq DEF WalFlush
<1>3. UNCHANGED <<dirs, blocks, registry, buffer, crashes, faults>>
  BY DEF WalFlush, bounds
<1>4. CASE pc = "switch"
  <2>1. Return("ok") /\ durability' = op /\ op \in Modes
    BY <1>4 DEF WalFlush, TypeInv, CallOK
  <2>2. /\ pc' = "idle" /\ op' = "none" /\ target' = NoSeries
        /\ rest' = <<>> /\ cursor' = 1
        /\ fate' \in [Series -> Seq(Fates)]
    BY <2>1, ReturnType
  <2>3. TypeOK'
    BY <1>1, <1>2, <1>3, <2>1, <2>2, EmptySeq DEF TypeInv, TypeOK, Labels, Operations, Record
  <2> QED
    BY <2>2, <2>3 DEF TypeInv, CallOK
<1>5. CASE pc # "switch"
  <2>1. pc \in {"spill", "sync", "seal"} /\ pc' = AfterWalFlush[pc]
    BY <1>5 DEF WalFlush, Goto, AfterWalFlush
  <2>2. pc' = IF pc = "spill" THEN "log" ELSE IF pc = "sync" THEN "place" ELSE "block"
    BY <2>1 DEF AfterWalFlush
  <2>3. UNCHANGED <<durability, op, target, rest, cursor, fate>>
    BY <1>5 DEF WalFlush, call
  <2>4. TypeOK'
    BY <1>1, <1>2, <1>3, <2>1, <2>2, <2>3 DEF TypeInv, TypeOK, Labels, FileSteps, Record
  <2> QED
    BY <2>1, <2>2, <2>3, <2>4 DEF TypeInv, CallOK
<1> QED
  BY <1>4, <1>5

\* SetDurability keeps the type invariant.
LEMMA SetDurabilityTypeInv == TypeInv /\ (\E mode \in Selected : SetDurability(mode)) => TypeInv'
<1> SUFFICES ASSUME TypeInv, NEW mode \in Selected, SetDurability(mode) PROVE TypeInv'
  OBVIOUS
<1>1. mode \in Modes
  BY StoreAssumption DEF Modes
<1>2. /\ pc' = "switch" /\ op' = mode /\ rest = <<>>
      /\ UNCHANGED <<dirs, wal, blocks, durability, registry, buffer, walbuf, target, rest, cursor, fate, crashes, faults>>
  BY DEF SetDurability, Goto, disk, memory, bounds, TypeInv, CallOK
<1>3. TypeOK'
  BY <1>1, <1>2 DEF TypeInv, TypeOK, Labels, FileSteps, Operations
<1> QED
  BY <1>1, <1>2, <1>3 DEF TypeInv, CallOK, Modes

\* StartFlush keeps the type invariant.
LEMMA StartFlushTypeInv == TypeInv /\ (\E s \in Series : StartFlush(s)) => TypeInv'
<1> SUFFICES ASSUME TypeInv, NEW s \in Series, StartFlush(s) PROVE TypeInv'
  OBVIOUS
<1>1. /\ pc' = "flush" /\ op' = "flush" /\ target' = s
      /\ UNCHANGED <<dirs, wal, blocks, durability, registry, buffer, walbuf, rest, cursor, fate, crashes, faults>>
  BY DEF StartFlush, Call, Goto, disk, memory, bounds
<1>2. TypeOK'
  BY <1>1 DEF TypeInv, TypeOK, Labels, Operations
<1> QED
  BY <1>1, <1>2 DEF TypeInv, CallOK

\* FlushSeries keeps the type invariant.
LEMMA FlushSeriesTypeInv == TypeInv /\ FlushSeries => TypeInv'
<1> SUFFICES ASSUME TypeInv, FlushSeries PROVE TypeInv'
  OBVIOUS
<1>1. CASE buffer[target] = <<>>
  BY <1>1, QuietReturnTypeInv DEF FlushSeries
<1>2. CASE buffer[target] # <<>>
  <2>1. /\ pc' = "seal"
        /\ UNCHANGED <<dirs, wal, blocks, durability, registry, buffer, walbuf, op, target, rest, cursor, fate, crashes, faults>>
    BY <1>2 DEF FlushSeries, Goto, disk, memory, call, bounds
  <2>2. TypeOK'
    BY <2>1 DEF TypeInv, TypeOK, Labels, FileSteps
  <2> QED
    BY <2>1, <2>2 DEF TypeInv, CallOK
<1> QED
  BY <1>1, <1>2

\* StartFlushAll keeps the type invariant.
LEMMA StartFlushAllTypeInv ==
  TypeInv /\ (\E name \in {"flush_all", "close", "delete"}, s \in Series \union {NoSeries} : StartFlushAll(name, s))
    => TypeInv'
<1> SUFFICES ASSUME TypeInv, NEW name \in {"flush_all", "close", "delete"}, NEW s \in Series \union {NoSeries},
                    StartFlushAll(name, s)
             PROVE  TypeInv'
  OBVIOUS
<1>1. /\ pc' = "next" /\ op' = name /\ target' = s
      /\ UNCHANGED <<dirs, wal, blocks, durability, registry, buffer, walbuf, rest, cursor, fate, crashes, faults>>
  BY DEF StartFlushAll, Call, Goto, disk, memory, bounds
<1>2. TypeOK'
  BY <1>1 DEF TypeInv, TypeOK, Labels, Operations
<1> QED
  BY <1>1, <1>2 DEF TypeInv, CallOK

\* NextSeries keeps the type invariant.
LEMMA NextSeriesTypeInv == TypeInv /\ NextSeries => TypeInv'
<1> SUFFICES ASSUME TypeInv, NextSeries PROVE TypeInv'
  OBVIOUS
<1>1. /\ pc' \in {"truncate", "seal", "next"}
      /\ cursor' = cursor \/ cursor' = cursor + 1
  BY DEF NextSeries, Goto
<1>2. UNCHANGED <<dirs, wal, blocks, durability, registry, buffer, walbuf, op, target, rest, fate, crashes, faults>>
  BY DEF NextSeries, disk, memory, bounds
<1>3. TypeOK'
  BY <1>1, <1>2 DEF TypeInv, TypeOK, Labels, FileSteps
<1> QED
  BY <1>1, <1>2, <1>3 DEF TypeInv, CallOK

\* AppendBlock keeps the type invariant.
LEMMA AppendBlockTypeInv == TypeInv /\ AppendBlock => TypeInv'
<1> SUFFICES ASSUME TypeInv, AppendBlock PROVE TypeInv'
  OBVIOUS
<1> DEFINE f == Flushed
<1>1. blocks' \in [Series -> Seq(AnyBlock)]
  <2>1. blocks' = [blocks EXCEPT ![f] = Append(@, Block(buffer[f]))]
    BY DEF AppendBlock
  <2>2. blocks \in [Series -> Seq(AnyBlock)]
    BY DEF TypeInv, TypeOK, AnyBlock
  <2>3. f \in Series => Block(buffer[f]) \in AnyBlock
    BY BlockType DEF TypeInv, TypeOK
  <2> HIDE DEF f
  <2>4. f \in Series => Append(blocks[f], Block(buffer[f])) \in Seq(AnyBlock)
    BY <2>2, <2>3
  <2> QED
    BY <2>1, <2>2, <2>4
<1>2. buffer' \in [Series -> Seq(Nat)] /\ \A s \in Series : Len(buffer'[s]) <= Capacity
  <2>1. buffer' = [buffer EXCEPT ![f] = <<>>]
    BY DEF AppendBlock
  <2> HIDE DEF f
  <2>2. buffer' \in [Series -> Seq(Nat)]
    BY <2>1, EmptySeq DEF TypeInv, TypeOK
  <2>3. \A s \in Series : buffer'[s] = buffer[s] \/ buffer'[s] = <<>>
    BY <2>1 DEF TypeInv, TypeOK
  <2>4. Len(<<>>) <= Capacity
    BY StoreAssumption
  <2> QED
    BY <2>2, <2>3, <2>4 DEF TypeInv, TypeOK
<1>3. /\ pc' = "truncate" \/ (pc' = "replay" /\ op = "open") \/ pc' = "next"
      /\ UNCHANGED <<dirs, wal, durability, registry, walbuf, op, target, rest, cursor, fate, crashes, faults>>
  BY DEF AppendBlock, Goto, call, bounds
<1>4. pc = "block"
  BY DEF AppendBlock
<1>5. TypeOK'
  BY <1>1, <1>2, <1>3 DEF TypeInv, TypeOK, AnyBlock, Labels, FileSteps
<1> QED
  BY <1>3, <1>4, <1>5 DEF TypeInv, CallOK

\* TruncateWal keeps the type invariant.
LEMMA TruncateWalTypeInv == TypeInv /\ TruncateWal => TypeInv'
<1> SUFFICES ASSUME TypeInv, TruncateWal PROVE TypeInv'
  OBVIOUS
<1>1. /\ pc' = "rewrite" /\ walbuf' = <<>> /\ wal' = <<>> /\ cursor' = 1
      /\ UNCHANGED <<dirs, blocks, durability, registry, buffer, op, target, rest, fate, crashes, faults>>
  BY DEF TruncateWal, Goto, bounds
<1>2. TypeOK'
  BY <1>1, EmptySeq DEF TypeInv, TypeOK, Labels, FileSteps
<1> QED
  BY <1>1, <1>2 DEF TypeInv, CallOK

\* RewriteWal keeps the type invariant.
LEMMA RewriteWalTypeInv == TypeInv /\ RewriteWal => TypeInv'
<1> SUFFICES ASSUME TypeInv, RewriteWal PROVE TypeInv'
  OBVIOUS
<1> DEFINE s == registry[cursor]
           record == WalRecord(s, buffer[s])
<1>1. wal \in Seq(Record)
  BY DEF TypeInv, TypeOK, Record
<1>2. s \in Series
  BY DEF RewriteWal, TypeInv, TypeOK
<1>3. record \in Record
  <2>1. buffer[s] \in Seq(Nat)
    BY <1>2 DEF TypeInv, TypeOK
  <2> QED
    BY <1>2, <2>1, RecordType
<1>4. /\ wal' = wal \/ wal' = Append(wal, record)
      /\ cursor' = cursor + 1
      /\ UNCHANGED <<dirs, blocks, durability, registry, buffer, walbuf, pc, op, target, rest, fate, crashes, faults>>
  BY DEF RewriteWal, memory, bounds
<1> HIDE DEF record
<1>5. wal' \in Seq(Record)
  BY <1>1, <1>3, <1>4
<1>6. TypeOK'
  BY <1>4, <1>5 DEF TypeInv, TypeOK, Record
<1> QED
  BY <1>4, <1>6 DEF TypeInv, CallOK

\* RewriteEnds keeps the type invariant.
LEMMA RewriteEndsTypeInv == TypeInv /\ RewriteEnds => TypeInv'
<1> SUFFICES ASSUME TypeInv, RewriteEnds PROVE TypeInv'
  OBVIOUS
<1>1. CASE op \in {"flush", "flush_all"}
  <2>1. Return("ok") /\ UNCHANGED <<disk, memory, bounds>>
    BY <1>1 DEF RewriteEnds
  <2> QED
    BY <2>1, QuietReturnTypeInv
<1>2. CASE op = "close"
  <2>1. Forget /\ UNCHANGED <<crashes, faults>>
    BY <1>2 DEF RewriteEnds, bounds
  <2> QED
    BY <2>1, ForgetTypeInv DEF TypeInv, TypeOK
<1>3. CASE op \notin {"flush", "flush_all", "close"}
  <2>1. /\ (pc' = "chunk" /\ op = "append") \/ pc' = "unlink"
        /\ cursor' = 1
        /\ UNCHANGED <<dirs, wal, blocks, durability, registry, buffer, walbuf, op, target, rest, fate, crashes, faults>>
    BY <1>3 DEF RewriteEnds, Goto, disk, memory, bounds
  <2>2. pc = "rewrite"
    BY DEF RewriteEnds
  <2>3. TypeOK'
    BY <2>1 DEF TypeInv, TypeOK, Labels, FileSteps
  <2> QED
    BY <2>1, <2>2, <2>3 DEF TypeInv, CallOK
<1> QED
  BY <1>1, <1>2, <1>3

\* UnlinkSegment keeps the type invariant.
LEMMA UnlinkSegmentTypeInv == TypeInv /\ UnlinkSegment => TypeInv'
<1> SUFFICES ASSUME TypeInv, UnlinkSegment PROVE TypeInv'
  OBVIOUS
<1>1. blocks' = [blocks EXCEPT ![target] = <<>>]
  BY DEF UnlinkSegment
<1>2. blocks' \in [Series -> Seq(AnyBlock)]
  BY <1>1, EmptySeq DEF TypeInv, TypeOK, AnyBlock
<1>3. fate' \in [Series -> Seq(Fates)]
  <2>1. fate \in [Series -> Seq(Fates)]
    BY DEF TypeInv, TypeOK
  <2>2. target \in Series => [n \in 1..Len(fate[target]) |-> "deleting"] \in Seq(Fates)
    <3>1. target \in Series => Len(fate[target]) \in Nat
      BY <2>1
    <3> QED
      BY <3>1, IsASeq DEF Fates
  <2>3. fate' = [fate EXCEPT ![target] = [n \in 1..Len(fate[target]) |-> "deleting"]]
    BY DEF UnlinkSegment
  <2> QED
    BY <2>1, <2>2, <2>3
<1>4. /\ pc = "unlink" /\ pc' = "rmdir"
      /\ UNCHANGED <<dirs, wal, durability, registry, buffer, walbuf, op, target, rest, cursor, crashes, faults>>
  BY DEF UnlinkSegment, Goto, memory, call, bounds
<1>5. TypeOK'
  BY <1>2, <1>3, <1>4 DEF TypeInv, TypeOK, AnyBlock, Labels, FileSteps
<1> QED
  BY <1>4, <1>5 DEF TypeInv, CallOK

\* RemoveDirectory keeps the type invariant.
LEMMA RemoveDirectoryTypeInv == TypeInv /\ RemoveDirectory => TypeInv'
<1> SUFFICES ASSUME TypeInv, RemoveDirectory PROVE TypeInv'
  OBVIOUS
<1>1. registry' \in Seq(Series)
  <2>1. PICK i \in 1..Len(registry) : registry' = RemoveAt(registry, i)
    BY DEF RemoveDirectory
  <2>2. registry \in Seq(Series) /\ Len(registry) \in Nat
    BY DEF TypeInv, TypeOK
  <2>3. SubSeq(registry, 1, i - 1) \in Seq(Series)
    <3>1. \A j \in 1..(i - 1) : registry[j] \in Series
      BY <2>2
    <3> QED
      BY <3>1, SubSeqProperties
  <2>4. SubSeq(registry, i + 1, Len(registry)) \in Seq(Series)
    <3>1. \A j \in (i + 1)..Len(registry) : registry[j] \in Series
      BY <2>2
    <3> QED
      BY <2>2, <3>1, SubSeqProperties
  <2> QED
    BY <2>1, <2>3, <2>4, ConcatProperties DEF RemoveAt
<1>2. /\ dirs' = dirs \ {target} /\ faults' \in 0..MaxFaults
      /\ UNCHANGED <<wal, blocks, durability, buffer, walbuf, crashes>>
  BY StoreAssumption DEF RemoveDirectory, TypeInv, TypeOK
<1>3. /\ pc' = "idle" /\ op' = "none" /\ target' = NoSeries
      /\ rest' = <<>> /\ cursor' = 1
      /\ fate' \in [Series -> Seq(Fates)]
  <2>1. Return("ok") \/ Return("error")
    BY DEF RemoveDirectory
  <2> QED
    BY <2>1, ReturnType
<1>4. TypeOK'
  BY <1>1, <1>2, <1>3, EmptySeq DEF TypeInv, TypeOK, Labels, Operations
<1> QED
  BY <1>3, <1>4 DEF TypeInv, CallOK

\* PartialWrite keeps the type invariant.
LEMMA PartialWriteTypeInv == TypeInv /\ PartialWrite => TypeInv'
<1> SUFFICES ASSUME TypeInv, PartialWrite PROVE TypeInv'
  OBVIOUS
<1>1. /\ wal \in Seq(Record) /\ walbuf \in Seq(Record)
      /\ blocks \in [Series -> Seq(AnyBlock)]
      /\ buffer \in [Series -> Seq(Nat)]
      /\ registry \in Seq(Series) /\ cursor \in Nat \ {0}
  BY DEF TypeInv, TypeOK, Record, AnyBlock
<1>2. wal' \in Seq(Record) /\ blocks' \in [Series -> Seq(AnyBlock)]
  <2>1. CASE \E part \in PartialWrites(walbuf) : wal' = wal \o part /\ UNCHANGED blocks
    BY <1>1, <2>1, PartialRecords, ConcatProperties
  <2>2. CASE /\ UNCHANGED wal
             /\ \E part \in PartialWrites(<<Block(buffer[Flushed])>>) :
                  blocks' = [blocks EXCEPT ![Flushed] = @ \o part]
    <3> DEFINE f == Flushed
    <3>1. PICK part \in PartialWrites(<<Block(buffer[f])>>) :
            blocks' = [blocks EXCEPT ![f] = @ \o part]
      BY <2>2
    <3>2. f \in Series => <<Block(buffer[f])>> \in Seq(AnyBlock)
      <4>1. f \in Series => Block(buffer[f]) \in AnyBlock
        BY <1>1, BlockType
      <4> QED
        BY <4>1
    <3>3. f \in Series => part \in Seq(AnyBlock)
      BY <3>1, <3>2, PartialBlocks
    <3> HIDE DEF f
    <3>4. f \in Series => blocks[f] \o part \in Seq(AnyBlock)
      BY <1>1, <3>3, ConcatProperties
    <3> QED
      BY <1>1, <2>2, <3>1, <3>4
  <2>3. CASE /\ UNCHANGED blocks
             /\ cursor <= Len(registry)
             /\ \E part \in PartialWrites(<<WalRecord(registry[cursor], buffer[registry[cursor]])>>) :
                  wal' = wal \o part
    <3> DEFINE s == registry[cursor]
               items == <<WalRecord(s, buffer[s])>>
    <3>1. s \in Series
      BY <1>1, <2>3
    <3>2. WalRecord(s, buffer[s]) \in Record
      BY <1>1, <3>1, RecordType
    <3>3. items \in Seq(Record)
      BY <3>2
    <3>4. PICK part \in PartialWrites(items) : wal' = wal \o part
      BY <2>3
    <3> HIDE DEF items
    <3> QED
      BY <1>1, <2>3, <3>3, <3>4, PartialRecords, ConcatProperties
  <2> QED
    BY <2>1, <2>2, <2>3 DEF PartialWrite
<1>3. /\ pc' = "broken"
      /\ UNCHANGED <<dirs, durability, registry, buffer, walbuf, op, target, rest, cursor, fate, crashes, faults>>
  BY DEF PartialWrite, Goto, memory, call, bounds
<1>4. TypeOK'
  BY <1>2, <1>3 DEF TypeInv, TypeOK, Record, AnyBlock, Labels
<1> QED
  BY <1>3, <1>4 DEF TypeInv, CallOK

\* Fault keeps the type invariant.
LEMMA FaultTypeInv == TypeInv /\ Fault => TypeInv'
<1> SUFFICES ASSUME TypeInv, Fault PROVE TypeInv'
  OBVIOUS
<1>1. faults' \in 0..MaxFaults /\ UNCHANGED crashes
  BY StoreAssumption DEF Fault, TypeInv, TypeOK
<1>2. CASE op \in {"open", "close"}
  BY <1>1, <1>2, ForgetTypeInv DEF Fault, TypeInv, TypeOK
<1>3. CASE op \notin {"open", "close"}
  <2>1. Return("error") /\ UNCHANGED <<disk, durability, registry, buffer>>
    BY <1>3 DEF Fault
  <2>2. walbuf' \in Seq(Record)
    BY <1>3, EmptySeq DEF Fault, TypeInv, TypeOK, Record
  <2>3. durability' \in Modes
    BY <2>1 DEF TypeInv, TypeOK
  <2> QED
    BY <1>1, <2>1, <2>2, <2>3, ReturnTypeInv
<1> QED
  BY <1>2, <1>3

\* Crash keeps the type invariant.
LEMMA CrashTypeInv == TypeInv /\ Crash => TypeInv'
<1> SUFFICES ASSUME TypeInv, Crash PROVE TypeInv'
  OBVIOUS
<1>1. Forget /\ crashes' \in 0..MaxCrashes /\ faults' \in 0..MaxFaults
  BY StoreAssumption DEF Crash, TypeInv, TypeOK
<1> QED
  BY <1>1, ForgetTypeInv

\* TypeInv is inductive.
LEMMA NextTypeInv == TypeInv /\ [Next]_vars => TypeInv'
<1> SUFFICES ASSUME TypeInv, [Next]_vars PROVE TypeInv'
  OBVIOUS
<1>1. CASE UNCHANGED vars
  BY <1>1 DEF vars, disk, memory, call, bounds, TypeInv, TypeOK, CallOK
<1>2. CASE Open
  BY <1>2, OpenTypeInv
<1>3. CASE OpenFails
  BY <1>1, <1>3 DEF OpenFails
<1>4. CASE StartCall
  BY <1>4, CreateTypeInv, StartAppendTypeInv, SetDurabilityTypeInv, StartFlushTypeInv,
     StartFlushAllTypeInv DEF StartCall
<1>5. CASE Continue
  BY <1>5, ReplayRecordTypeInv, ReplayPointsTypeInv, ReplayEndsTypeInv, ChunkTypeInv, LogTypeInv,
     PlaceTypeInv, AppendDoneTypeInv, WalFlushTypeInv, FlushSeriesTypeInv, NextSeriesTypeInv,
     AppendBlockTypeInv, TruncateWalTypeInv, RewriteWalTypeInv, RewriteEndsTypeInv,
     UnlinkSegmentTypeInv, RemoveDirectoryTypeInv DEF Continue
<1>6. CASE Environment
  BY <1>6, CreateTypeInv, PartialWriteTypeInv, FaultTypeInv, CrashTypeInv DEF Environment
<1> QED
  BY <1>1, <1>2, <1>3, <1>4, <1>5, <1>6 DEF Next

\* The invariant that the other proofs start from.
THEOREM TypeInvariance == Spec => []TypeInv
BY InitTypeInv, NextTypeInv, PTL DEF Spec

\* The state keeps its shape, and no step of a call, no replay, no crash and no
\* failure makes a buffer outgrow the array that tsedge_series_init allocates.
THEOREM TypeCorrect == Spec => []TypeOK
<1>1. TypeInv => TypeOK
  BY DEF TypeInv
<1> QED
  BY <1>1, TypeInvariance, PTL

-----------------------------------------------------------------------------
(* Where a call is *)

\* The calls that go through tsedge_db_flush_all.
Bulk == {"flush_all", "close", "delete"}

\* What each place in the code knows of the call that got there, and that only
\* series of the registry have points in their buffers.
PathOK ==
  /\ pc = "next" => op \in Bulk
  /\ pc = "flush" => op = "flush"
  /\ pc \in {"seal", "block"} => op \in {"open", "append", "flush"} \union Bulk
  /\ pc \in {"truncate", "rewrite"} => op \in {"append", "flush"} \union Bulk
  /\ pc \in {"unlink", "rmdir"} => op = "delete"
  /\ op \notin {"append", "open"} => rest = <<>>
  /\ op = "open" => pc \in {"replay", "seal", "block", "broken"}
  /\ op \in {"append", "flush", "delete"} => target \in Range(registry)
  /\ op = "open" /\ (rest # <<>> \/ pc # "replay") => target \in Range(registry)
  /\ op \in Bulk /\ pc \in {"seal", "block"} => cursor <= Len(registry)
  /\ pc \in {"idle", "closed"} => cursor = 1
  /\ pc = "closed" => \A s \in Series : buffer[s] = <<>>
  /\ \A s \in Series : buffer[s] # <<>> => s \in Range(registry)

\* tsedge_db_flush_all empties the buffers one after the other, so that the WAL
\* it truncates stays empty.
EmptiedOK ==
  op \in Bulk =>
    /\ pc \in {"next", "seal", "block"} =>
         \A j \in 1..Len(registry) : j < cursor => buffer[registry[j]] = <<>>
    /\ pc \in {"truncate", "rewrite", "unlink", "rmdir"} => \A s \in Series : buffer[s] = <<>>
    /\ pc \in {"rewrite", "unlink", "rmdir"} => wal = <<>> /\ walbuf = <<>>

PathInv == TypeInv /\ PathOK /\ EmptiedOK

\* The types of the variables, one by one.
LEMMA Typing ==
  ASSUME TypeInv
  PROVE  /\ wal \in Seq(Record) /\ walbuf \in Seq(Record)
         /\ blocks \in [Series -> Seq(AnyBlock)]
         /\ buffer \in [Series -> Seq(Nat)]
         /\ registry \in Seq(Series)
         /\ rest \in Seq(Nat) /\ cursor \in Nat \ {0}
         /\ fate \in [Series -> Seq(Fates)]
BY DEF TypeInv, TypeOK, Record, AnyBlock

\* The elements of a sequence are its entries.
LEMMA RangeMember ==
  ASSUME NEW S, NEW q \in Seq(S), NEW x
  PROVE  x \in Range(q) <=> \E i \in 1..Len(q) : q[i] = x
<1>1. DOMAIN q = 1..Len(q)
  OBVIOUS
<1> QED
  BY <1>1 DEF Range

\* One entry more.
LEMMA RangeAppend ==
  ASSUME NEW S, NEW q \in Seq(S), NEW x \in S
  PROVE  Range(Append(q, x)) = Range(q) \union {x}
<1>1. Append(q, x) = q \o <<x>> /\ <<x>> \in Seq(S)
  BY AppendAsConcat
<1>2. Range(<<x>>) = {x}
  <2>1. \A y : y \in Range(<<x>>) <=> \E i \in 1..Len(<<x>>) : <<x>>[i] = y
    BY <1>1, RangeMember
  <2> QED
    BY <2>1
<1> DEFINE one == <<x>>
<1> HIDE DEF one
<1>3. one \in Seq(S) => Range(q \o one) = Range(q) \union Range(one)
  BY RangeConcat
<1> QED
  BY <1>1, <1>2, <1>3 DEF one

\* One entry less: every other element stays.
LEMMA RangeRemoveAt ==
  ASSUME NEW S, NEW q \in Seq(S), NEW i \in 1..Len(q), NEW x \in Range(q), x # q[i]
  PROVE  x \in Range(RemoveAt(q, i))
<1> DEFINE u == SubSeq(q, 1, i - 1)
           v == SubSeq(q, i + 1, Len(q))
<1>1. PICK j \in 1..Len(q) : q[j] = x
  BY RangeMember
<1>2. /\ u \in Seq(S) /\ Len(u) = i - 1
      /\ \A k \in 1..(i - 1) : u[k] = q[k]
  <2>1. \A k \in 1..(i - 1) : q[k] \in S
    OBVIOUS
  <2> QED
    BY <2>1, SubSeqProperties
<1>3. /\ v \in Seq(S) /\ Len(v) = Len(q) - i
      /\ \A k \in 1..(Len(q) - i) : v[k] = q[i + k]
  <2>1. \A k \in (i + 1)..Len(q) : q[k] \in S
    OBVIOUS
  <2>2. /\ v \in Seq(S)
        /\ Len(v) = IF i + 1 <= Len(q) THEN Len(q) - (i + 1) + 1 ELSE 0
        /\ \A k \in 1..(Len(q) - (i + 1) + 1) : v[k] = q[i + 1 + k - 1]
    BY <2>1, SubSeqProperties
  <2> HIDE DEF v
  <2>3. Len(v) = Len(q) - i
    BY <2>2
  <2>4. \A k \in 1..(Len(q) - i) : v[k] = q[i + k]
    <3>1. Len(q) - (i + 1) + 1 = Len(q) - i
      OBVIOUS
    <3>2. \A k \in 1..(Len(q) - i) : i + 1 + k - 1 = i + k
      OBVIOUS
    <3> QED
      BY <2>2, <3>1, <3>2
  <2> QED
    BY <2>2, <2>3, <2>4
<1> HIDE DEF u, v
<1>4. Range(u \o v) = Range(u) \union Range(v)
  BY <1>2, <1>3, RangeConcat
<1>5. CASE j < i
  <2>1. j \in 1..Len(u) /\ u[j] = x
    BY <1>1, <1>2, <1>5
  <2>2. x \in Range(u)
    BY <1>2, <2>1, RangeMember
  <2> QED
    BY <1>4, <2>2 DEF RemoveAt, u, v
<1>6. CASE i < j
  <2>1. j - i \in 1..Len(v) /\ v[j - i] = q[i + (j - i)] /\ i + (j - i) = j
    BY <1>1, <1>3, <1>6
  <2>2. x \in Range(v)
    BY <1>1, <1>3, <2>1, RangeMember
  <2> QED
    BY <1>4, <2>2 DEF RemoveAt, u, v
<1> QED
  BY <1>1, <1>5, <1>6

\* The initial state.
LEMMA InitPathInv == Init => PathInv
<1> SUFFICES ASSUME Init PROVE PathInv
  OBVIOUS
<1>1. PathOK /\ EmptiedOK
  BY EmptyType DEF Init, PathOK, EmptiedOK, Bulk
<1> QED
  BY <1>1, InitTypeInv DEF PathInv

\* A call returns; the registry may lose a series that has no points in memory.
LEMMA ReturnPathInv ==
  ASSUME PathInv, TypeInv', NEW r, Return(r), UNCHANGED buffer,
         \A s \in Range(registry) : buffer[s] # <<>> => s \in Range(registry')
  PROVE  PathInv'
<1>1. /\ pc' = "idle" /\ op' = "none" /\ rest' = <<>> /\ cursor' = 1
  BY DEF Return
<1>2. PathOK'
  BY <1>1 DEF PathInv, PathOK, Bulk
<1>3. EmptiedOK'
  BY <1>1 DEF EmptiedOK, Bulk
<1> QED
  BY <1>2, <1>3 DEF PathInv

\* The tsedge_db object goes away.
LEMMA ForgetPathInv ==
  ASSUME PathInv, TypeInv', Forget
  PROVE  PathInv'
<1>1. /\ pc' = "closed" /\ op' = "none" /\ rest' = <<>> /\ cursor' = 1 /\ buffer' = Empty
  BY DEF Forget
<1>2. PathOK'
  BY <1>1, EmptyType DEF PathOK, Bulk
<1>3. EmptiedOK'
  BY <1>1 DEF EmptiedOK, Bulk
<1> QED
  BY <1>2, <1>3 DEF PathInv

\* The record that the replay takes.
LEMMA ReplayedRecord ==
  ASSUME TypeInv, ReplayRecord
  PROVE  cursor \in 1..Len(wal) /\ wal[cursor] \in Record
<1>1. wal \in Seq(Record) /\ cursor \in Nat \ {0}
  BY Typing
<1>2. Len(Intact(wal)) \in Nat /\ Len(Intact(wal)) <= Len(wal)
  BY <1>1, IntactIsPrefix
<1>3. cursor \in 1..Len(wal)
  BY <1>1, <1>2 DEF ReplayRecord
<1> QED
  BY <1>1, <1>3, ElementOfSeq

\* tsedge_open and its replay.
LEMMA ReplayPathInv ==
  ASSUME PathInv, TypeInv', Open \/ ReplayRecord \/ ReplayPoints \/ ReplayEnds
  PROVE  PathInv'
<1>1. CASE Open
  <2>1. /\ pc = "closed" /\ pc' = "replay" /\ op' = "open"
        /\ UNCHANGED <<buffer, rest, cursor>>
    BY <1>1 DEF Open, Goto
  <2>2. rest = <<>> /\ \A s \in Series : buffer[s] = <<>>
    BY <2>1 DEF PathInv, PathOK, TypeInv, CallOK
  <2> QED
    BY <2>1, <2>2 DEF PathInv, PathOK, EmptiedOK, Bulk
<1>2. CASE ReplayRecord
  <2>1. /\ pc = "replay" /\ UNCHANGED <<pc, op, buffer>>
        /\ registry' = IF target' \in Range(registry) THEN registry ELSE Append(registry, target')
    BY <1>2 DEF ReplayRecord
  <2>2. op = "open"
    BY <2>1 DEF PathInv, TypeInv, CallOK
  <2>3. target' \in Series
    <3>1. wal[cursor] \in Record /\ target' = wal[cursor].series
      BY <1>2, ReplayedRecord DEF ReplayRecord, PathInv
    <3> QED
      BY <3>1 DEF Record
  <2>4. Range(registry) \subseteq Range(registry') /\ target' \in Range(registry')
    BY <2>1, <2>3, RangeAppend, Typing DEF PathInv
  <2> QED
    BY <2>1, <2>2, <2>4 DEF PathInv, PathOK, EmptiedOK, Bulk
<1>3. CASE ReplayPoints
  <2>1. /\ pc = "replay" /\ rest # <<>> /\ UNCHANGED <<op, registry, target>>
        /\ pc' \in {"replay", "seal"}
        /\ buffer' = buffer \/ buffer' = [buffer EXCEPT ![target] = @ \o SubSeq(rest, 1, ChunkLength)]
    BY <1>3 DEF ReplayPoints, Goto
  <2>2. op = "open" /\ target \in Range(registry)
    BY <2>1 DEF PathInv, PathOK, TypeInv, CallOK
  <2>3. \A s \in Series : buffer'[s] # <<>> => s \in Range(registry)
    BY <2>1, <2>2, Typing DEF PathInv, PathOK
  <2> QED
    BY <2>1, <2>2, <2>3 DEF PathInv, PathOK, EmptiedOK, Bulk
<1>4. CASE ReplayEnds
  <2>1. CASE WalCorrupt(wal)
    BY <1>4, <2>1, ForgetPathInv DEF ReplayEnds
  <2>2. CASE ~WalCorrupt(wal)
    <3>1. Return("ok") /\ UNCHANGED <<registry, buffer>>
      BY <1>4, <2>2 DEF ReplayEnds, memory
    <3> QED
      BY <3>1, ReturnPathInv
  <2> QED
    BY <2>1, <2>2
<1> QED
  BY <1>1, <1>2, <1>3, <1>4

\* tsedge_create_series, and the starts of the other calls.
LEMMA StartPathInv ==
  ASSUME PathInv, TypeInv', StartCall \/ \E s \in Series : CreateFails(s)
  PROVE  PathInv'
<1>1. ASSUME NEW s \in Series, CreateSeries(s) \/ CreateFails(s) PROVE PathInv'
  <2>1. /\ pc = "idle" /\ UNCHANGED <<pc, op, target, rest, cursor, buffer>>
        /\ registry' = registry \/ registry' = Append(registry, s)
    BY <1>1 DEF CreateSeries, CreateFails, call
  <2>2. op = "none"
    BY <2>1 DEF PathInv, TypeInv, CallOK
  <2>3. Range(registry) \subseteq Range(registry')
    <3>1. registry \in Seq(Series)
      BY Typing DEF PathInv
    <3>2. Range(Append(registry, s)) = Range(registry) \union {s}
      BY <3>1, RangeAppend
    <3> QED
      BY <2>1, <3>2
  <2> QED
    BY <2>1, <2>2, <2>3 DEF PathInv, PathOK, EmptiedOK, Bulk
<1>2. ASSUME NEW s \in Series, NEW n \in 1..MaxBatch, StartAppend(s, n) PROVE PathInv'
  <2>1. /\ pc' = "chunk" /\ op' = "append" /\ target' = s /\ s \in Range(registry)
        /\ UNCHANGED <<buffer, registry>>
    BY <1>2 DEF StartAppend, Call, Goto, memory
  <2> QED
    BY <2>1 DEF PathInv, PathOK, EmptiedOK, Bulk
<1>3. ASSUME NEW mode \in Selected, SetDurability(mode) PROVE PathInv'
  <2>1. /\ pc = "idle" /\ pc' = "switch" /\ op' = mode
        /\ UNCHANGED <<buffer, registry, rest>>
    BY <1>3 DEF SetDurability, Goto, memory
  <2>2. mode \in {"FAST", "BALANCED", "STRICT"}
    BY StoreAssumption
  <2>3. rest = <<>>
    BY <2>1 DEF PathInv, TypeInv, CallOK
  <2> QED
    BY <2>1, <2>2, <2>3 DEF PathInv, PathOK, EmptiedOK, Bulk
<1>4. ASSUME NEW s \in Series, StartFlush(s) PROVE PathInv'
  <2>1. /\ pc = "idle" /\ pc' = "flush" /\ op' = "flush" /\ target' = s /\ s \in Range(registry)
        /\ UNCHANGED <<buffer, registry, rest>>
    BY <1>4 DEF StartFlush, Call, Goto, memory
  <2>2. rest = <<>>
    BY <2>1 DEF PathInv, TypeInv, CallOK
  <2> QED
    BY <2>1, <2>2 DEF PathInv, PathOK, EmptiedOK, Bulk
<1>5. ASSUME NEW name \in {"flush_all", "close", "delete"}, NEW s \in Series \union {NoSeries}, StartFlushAll(name, s)
      PROVE  PathInv'
  <2>1. /\ pc = "idle" /\ pc' = "next" /\ op' = name /\ target' = s
        /\ name = "delete" => s \in Range(registry)
        /\ UNCHANGED <<buffer, registry, rest, cursor>>
    BY <1>5 DEF StartFlushAll, Call, Goto, memory
  <2>2. rest = <<>> /\ cursor = 1
    BY <2>1 DEF PathInv, PathOK, TypeInv, CallOK
  <2>3. \A j \in 1..Len(registry) : ~(j < 1)
    OBVIOUS
  <2> QED
    BY <2>1, <2>2, <2>3 DEF PathInv, PathOK, EmptiedOK, Bulk
<1> QED
  BY <1>1, <1>2, <1>3, <1>4, <1>5 DEF StartCall

\* The steps of an append, and a WAL flush.
LEMMA AppendPathInv ==
  ASSUME PathInv, TypeInv', Chunk \/ Log \/ Place \/ AppendDone \/ WalFlush
  PROVE  PathInv'
<1>1. CASE Chunk \/ Log
  <2>1. /\ pc \in {"chunk", "log"} /\ pc' \in {"seal", "spill", "log", "sync", "place"}
        /\ UNCHANGED <<op, target, rest, cursor, buffer, registry>>
    BY <1>1 DEF Chunk, Log, Goto, memory, call
  <2>2. op = "append"
    BY <2>1 DEF PathInv, TypeInv, CallOK
  <2> QED
    BY <2>1, <2>2 DEF PathInv, PathOK, EmptiedOK, Bulk
<1>2. CASE Place
  <2>1. /\ pc = "place" /\ pc' = "chunk" /\ UNCHANGED <<op, target, registry>>
        /\ buffer' = [buffer EXCEPT ![target] = @ \o SubSeq(rest, 1, ChunkLength)]
    BY <1>2 DEF Place, Goto
  <2>2. op = "append" /\ target \in Range(registry)
    BY <2>1 DEF PathInv, PathOK, TypeInv, CallOK
  <2>3. \A s \in Series : buffer'[s] # <<>> => s \in Range(registry)
    BY <2>1, <2>2, Typing DEF PathInv, PathOK
  <2> QED
    BY <2>1, <2>2, <2>3 DEF PathInv, PathOK, EmptiedOK, Bulk
<1>3. CASE AppendDone
  BY <1>3, ReturnPathInv DEF AppendDone, memory
<1>4. CASE WalFlush
  <2>1. CASE pc = "switch"
    BY <1>4, <2>1, ReturnPathInv DEF WalFlush
  <2>2. CASE pc # "switch"
    <3>1. /\ pc \in {"spill", "sync", "seal"}
          /\ UNCHANGED <<op, target, rest, cursor, buffer, registry>>
      BY <1>4, <2>2 DEF WalFlush, AfterWalFlush, call
    <3>2. pc' = IF pc = "spill" THEN "log" ELSE IF pc = "sync" THEN "place" ELSE "block"
      BY <1>4, <2>2, <3>1 DEF WalFlush, AfterWalFlush, Goto
    <3>3. pc \in {"spill", "sync"} => op = "append"
      BY DEF PathInv, TypeInv, CallOK
    <3> QED
      BY <3>1, <3>2, <3>3 DEF PathInv, PathOK, EmptiedOK, Bulk
  <2> QED
    BY <2>1, <2>2
<1> QED
  BY <1>1, <1>2, <1>3, <1>4

\* The series that AppendBlock writes out.
LEMMA FlushedSeries ==
  ASSUME PathInv, pc = "block"
  PROVE  /\ Flushed \in Series /\ Flushed \in Range(registry)
         /\ op \in Bulk => cursor \in 1..Len(registry) /\ Flushed = registry[cursor]
<1>1. op \in {"open", "append", "flush"} \union Bulk /\ registry \in Seq(Series) /\ cursor \in Nat \ {0}
  BY Typing DEF PathInv, PathOK
<1>2. CASE op \in Bulk
  <2>1. cursor \in 1..Len(registry) /\ Flushed = registry[cursor]
    BY <1>1, <1>2 DEF PathInv, PathOK, Flushed, Bulk
  <2> QED
    BY <1>1, <2>1, RangeMember
<1>3. CASE op \notin Bulk
  <2>1. Flushed = target /\ target \in Range(registry)
    BY <1>1, <1>3 DEF PathInv, PathOK, Flushed
  <2> QED
    BY <1>1, <1>3, <2>1, RangeMember
<1> QED
  BY <1>2, <1>3

\* The flushes.
LEMMA FlushPathInv ==
  ASSUME PathInv, TypeInv', FlushSeries \/ NextSeries \/ AppendBlock
  PROVE  PathInv'
<1>1. CASE FlushSeries
  <2>1. CASE buffer[target] = <<>>
    BY <1>1, <2>1, ReturnPathInv DEF FlushSeries, memory
  <2>2. CASE buffer[target] # <<>>
    <3>1. pc = "flush" /\ pc' = "seal" /\ UNCHANGED <<op, target, rest, cursor, buffer, registry>>
      BY <1>1, <2>2 DEF FlushSeries, Goto, memory, call
    <3> QED
      BY <3>1 DEF PathInv, PathOK, EmptiedOK, Bulk
  <2> QED
    BY <2>1, <2>2
<1>2. CASE NextSeries
  <2>1. /\ pc = "next" /\ op \in Bulk /\ UNCHANGED <<op, target, rest, buffer, registry>>
    BY <1>2 DEF NextSeries, PathInv, PathOK, memory
  <2>2. cursor \in Nat \ {0} /\ registry \in Seq(Series)
    BY Typing DEF PathInv
  <2>3. \A j \in 1..Len(registry) : j < cursor => buffer[registry[j]] = <<>>
    BY <2>1 DEF PathInv, EmptiedOK
  <2>4. CASE cursor > Len(registry)
    <3>1. pc' = "truncate"
      BY <1>2, <2>2, <2>4 DEF NextSeries, Goto
    <3>2. \A s \in Series : buffer[s] = <<>>
      <4> SUFFICES ASSUME NEW s \in Series, buffer[s] # <<>> PROVE FALSE
        OBVIOUS
      <4>1. PICK j \in 1..Len(registry) : registry[j] = s
        BY <2>2, RangeMember DEF PathInv, PathOK
      <4> QED
        BY <2>2, <2>3, <2>4, <4>1
    <3> QED
      BY <2>1, <3>1, <3>2 DEF PathInv, PathOK, EmptiedOK, Bulk
  <2>5. CASE cursor <= Len(registry) /\ buffer[registry[cursor]] # <<>>
    <3>1. pc' = "seal" /\ cursor' = cursor
      BY <1>2, <2>2, <2>5 DEF NextSeries, Goto
    <3> QED
      BY <2>1, <2>3, <2>5, <3>1 DEF PathInv, PathOK, EmptiedOK, Bulk
  <2>6. CASE cursor <= Len(registry) /\ buffer[registry[cursor]] = <<>>
    <3>1. pc' = "next" /\ cursor' = cursor + 1
      BY <1>2, <2>1, <2>2, <2>6 DEF NextSeries, Goto
    <3>2. \A j \in 1..Len(registry) : j < cursor + 1 => buffer[registry[j]] = <<>>
      <4>1. \A j \in 1..Len(registry) : j < cursor + 1 => j < cursor \/ j = cursor
        BY <2>2
      <4> QED
        BY <2>3, <2>6, <4>1
    <3> QED
      BY <2>1, <3>1, <3>2 DEF PathInv, PathOK, EmptiedOK, Bulk
  <2> QED
    BY <2>2, <2>4, <2>5, <2>6
<1>3. CASE AppendBlock
  <2>1. /\ pc = "block" /\ UNCHANGED <<op, target, rest, registry, cursor>>
        /\ buffer' = [buffer EXCEPT ![Flushed] = <<>>]
    BY <1>3 DEF AppendBlock, call
  <2>2. \/ op \in {"append", "flush"} /\ pc' = "truncate"
        \/ op = "open" /\ pc' = "replay"
        \/ op \in Bulk /\ pc' = "next"
    BY <1>3, <2>1 DEF AppendBlock, Goto, PathInv, PathOK, Bulk
  <2>3. \A s \in Series : buffer'[s] = buffer[s] \/ buffer'[s] = <<>>
    BY <2>1, Typing DEF PathInv
  <2>4. op \in Bulk => \A j \in 1..Len(registry) : j < cursor => buffer'[registry[j]] = <<>>
    <3> SUFFICES ASSUME op \in Bulk, NEW j \in 1..Len(registry), j < cursor PROVE buffer'[registry[j]] = <<>>
      OBVIOUS
    <3>1. buffer[registry[j]] = <<>> /\ registry[j] \in Series
      BY <2>1, Typing, ElementOfSeq DEF PathInv, EmptiedOK
    <3> QED
      BY <2>3, <3>1
  <2>5. PathOK'
    BY <2>1, <2>2, <2>3 DEF PathInv, PathOK, Bulk
  <2>6. EmptiedOK'
    BY <2>1, <2>2, <2>4 DEF EmptiedOK, Bulk
  <2> QED
    BY <2>5, <2>6 DEF PathInv
<1> QED
  BY <1>1, <1>2, <1>3

\* The truncation of the WAL, and what tsedge_db_delete_series does after it.
LEMMA TruncatePathInv ==
  ASSUME PathInv, TypeInv',
         TruncateWal \/ RewriteWal \/ RewriteEnds \/ UnlinkSegment \/ RemoveDirectory
  PROVE  PathInv'
<1>1. CASE TruncateWal
  <2>1. /\ pc = "truncate" /\ pc' = "rewrite" /\ wal' = <<>> /\ walbuf' = <<>>
        /\ UNCHANGED <<op, target, rest, buffer, registry>>
    BY <1>1 DEF TruncateWal, Goto
  <2> QED
    BY <2>1 DEF PathInv, PathOK, EmptiedOK, Bulk
<1>2. CASE RewriteWal
  <2>1. /\ pc = "rewrite" /\ UNCHANGED <<pc, op, target, rest, buffer, registry, walbuf>>
        /\ cursor \in 1..Len(registry)
        /\ wal' = IF buffer[registry[cursor]] = <<>> THEN wal ELSE Append(wal, WalRecord(registry[cursor], buffer[registry[cursor]]))
    BY <1>2, Typing DEF RewriteWal, memory, PathInv
  <2>2. registry[cursor] \in Series
    BY <2>1, Typing, ElementOfSeq DEF PathInv
  <2>3. op \in Bulk => wal' = wal
    BY <2>1, <2>2 DEF PathInv, EmptiedOK
  <2> QED
    BY <2>1, <2>3 DEF PathInv, PathOK, EmptiedOK, Bulk
<1>3. CASE RewriteEnds
  <2>1. CASE op \in {"flush", "flush_all"}
    BY <1>3, <2>1, ReturnPathInv DEF RewriteEnds, memory
  <2>2. CASE op = "close"
    BY <1>3, <2>2, ForgetPathInv DEF RewriteEnds
  <2>3. CASE op \notin {"flush", "flush_all", "close"}
    <3>1. /\ pc = "rewrite" /\ pc' = (IF op = "append" THEN "chunk" ELSE "unlink")
          /\ UNCHANGED <<op, target, rest, wal, walbuf, buffer, registry>>
      BY <1>3, <2>3 DEF RewriteEnds, Goto, disk, memory
    <3>2. op = "append" \/ op = "delete"
      BY <2>3, <3>1 DEF PathInv, PathOK, Bulk
    <3> QED
      BY <3>1, <3>2 DEF PathInv, PathOK, EmptiedOK, Bulk
  <2> QED
    BY <2>1, <2>2, <2>3
<1>4. CASE UnlinkSegment
  <2>1. /\ pc = "unlink" /\ pc' = "rmdir"
        /\ UNCHANGED <<op, target, rest, cursor, wal, walbuf, buffer, registry>>
    BY <1>4 DEF UnlinkSegment, Goto, memory, call
  <2> QED
    BY <2>1 DEF PathInv, PathOK, EmptiedOK, Bulk
<1>5. CASE RemoveDirectory
  <2>1. /\ pc = "rmdir" /\ UNCHANGED buffer
        /\ Return("ok") \/ Return("error")
    BY <1>5 DEF RemoveDirectory
  <2>2. op = "delete" /\ \A s \in Series : buffer[s] = <<>>
    BY <2>1 DEF PathInv, PathOK, EmptiedOK, Bulk
  <2>3. \A s \in Range(registry) : s \in Series
    <3>1. registry \in Seq(Series)
      BY Typing DEF PathInv
    <3>2. ASSUME NEW s \in Range(registry) PROVE s \in Series
      <4>1. PICK i \in 1..Len(registry) : registry[i] = s
        BY <3>1, RangeMember
      <4> QED
        BY <3>1, <4>1, ElementOfSeq
    <3> QED
      BY <3>2
  <2> QED
    BY <2>1, <2>2, <2>3, ReturnPathInv
<1> QED
  BY <1>1, <1>2, <1>3, <1>4, <1>5

\* A write or another file operation that goes wrong.
LEMMA FailurePathInv ==
  ASSUME PathInv, TypeInv', PartialWrite \/ Fault \/ Crash
  PROVE  PathInv'
<1>1. CASE PartialWrite
  <2>1. pc # "closed" /\ pc' = "broken" /\ UNCHANGED <<op, target, rest, cursor, buffer, registry>>
    BY <1>1 DEF PartialWrite, AfterWalFlush, Goto, memory, call
  <2>2. op = "open" => target \in Range(registry)
    BY <1>1 DEF PartialWrite, AfterWalFlush, PathInv, PathOK, TypeInv, CallOK
  <2> QED
    BY <2>1, <2>2 DEF PathInv, PathOK, EmptiedOK, Bulk
<1>2. CASE Fault
  <2>1. CASE op \in {"open", "close"}
    BY <1>2, <2>1, ForgetPathInv DEF Fault
  <2>2. CASE op \notin {"open", "close"}
    BY <1>2, <2>2, ReturnPathInv DEF Fault
  <2> QED
    BY <2>1, <2>2
<1>3. CASE Crash
  BY <1>3, ForgetPathInv DEF Crash
<1> QED
  BY <1>1, <1>2, <1>3

\* PathInv is inductive.
LEMMA NextPathInv == PathInv /\ [Next]_vars => PathInv'
<1> SUFFICES ASSUME PathInv, [Next]_vars PROVE PathInv'
  OBVIOUS
<1>1. TypeInv'
  BY NextTypeInv DEF PathInv
<1>2. CASE UNCHANGED vars \/ OpenFails
  BY <1>1, <1>2 DEF OpenFails, vars, disk, memory, call, PathInv, PathOK, EmptiedOK
<1>3. CASE Open \/ StartCall \/ Continue \/ Environment
  BY <1>1, <1>3, ReplayPathInv, StartPathInv, AppendPathInv, FlushPathInv, TruncatePathInv, FailurePathInv
     DEF Continue, Environment
<1> QED
  BY <1>2, <1>3 DEF Next

-----------------------------------------------------------------------------
(* Deleted points *)

\* The points of s that the open database holds in its buffer or in a block.
Held(s) == Range(buffer[s]) \union PointsIn(blocks[s])

Logged(s) == InLog(wal, s) \union InLog(walbuf, s)

\* The chunk moves from the batch to the buffer.
LEMMA ChunkIsHeld ==
  ASSUME TypeInv, target \in Series,
         buffer' = [buffer EXCEPT ![target] = @ \o SubSeq(rest, 1, ChunkLength)],
         rest' = SubSeq(rest, ChunkLength + 1, Len(rest)),
         UNCHANGED <<blocks, target>>
  PROVE  /\ \A s \in Series : Held(s) \subseteq Held(s)'
         /\ Range(rest') \subseteq Range(rest)
         /\ \A n \in Range(rest) : n \in Range(rest') \/ n \in Held(target)'
         /\ Range(buffer'[target]) = Range(buffer[target]) \union Range(SubSeq(rest, 1, ChunkLength))
         /\ \A s \in Series : s # target => buffer'[s] = buffer[s]
<1> DEFINE chunk == SubSeq(rest, 1, ChunkLength)
           left == SubSeq(rest, ChunkLength + 1, Len(rest))
<1>1. /\ chunk \in Seq(Nat) /\ ChunkLength \in 0..Len(rest)
  BY ChunkFits DEF TypeInv
<1>2. Range(rest) = Range(chunk) \union Range(left)
  BY <1>1, RangeSplit, Typing
<1>3. rest' = left
  OBVIOUS
<1> HIDE DEF chunk, left
<1>4. Range(buffer[target] \o chunk) = Range(buffer[target]) \union Range(chunk)
  BY <1>1, RangeConcat, Typing
<1>5. /\ buffer'[target] = buffer[target] \o chunk
      /\ \A s \in Series : s # target => buffer'[s] = buffer[s]
  BY Typing DEF chunk
<1>6. /\ \A s \in Series : Range(buffer[s]) \subseteq Range(buffer'[s])
      /\ Range(chunk) \subseteq Range(buffer'[target])
  BY <1>4, <1>5
<1>7. \A s \in Series : Held(s) \subseteq Held(s)'
  BY <1>6 DEF Held
<1>8. Range(rest') \subseteq Range(rest)
  BY <1>2, <1>3
<1>9. \A n \in Range(rest) : n \in Range(rest') \/ n \in Held(target)'
  BY <1>2, <1>3, <1>6 DEF Held
<1>10. Range(buffer'[target]) = Range(buffer[target]) \union Range(chunk)
  BY <1>4, <1>5
<1> QED
  BY <1>5, <1>7, <1>8, <1>9, <1>10 DEF chunk

\* The buffer of one series becomes a block: its points change their place.
LEMMA BlockHolds ==
  ASSUME TypeInv, AppendBlock
  PROVE  /\ \A s \in Series : Held(s) = Held(s)'
         /\ \A s \in Series : PointsIn(blocks[s]) \subseteq PointsIn(blocks'[s])
         /\ \A s \in Series : Range(buffer'[s]) \subseteq Range(buffer[s])
         /\ \A s \in Series : Fragments(blocks[s]) = {} => Fragments(blocks'[s]) = {}
<1> DEFINE f == Flushed
           b == Block(buffer[f])
<1>1. /\ blocks' = [blocks EXCEPT ![f] = Append(@, b)]
      /\ buffer' = [buffer EXCEPT ![f] = <<>>]
  BY DEF AppendBlock
<1> SUFFICES ASSUME NEW s \in Series
             PROVE  /\ Held(s) = Held(s)'
                    /\ PointsIn(blocks[s]) \subseteq PointsIn(blocks'[s])
                    /\ Range(buffer'[s]) \subseteq Range(buffer[s])
                    /\ Fragments(blocks[s]) = {} => Fragments(blocks'[s]) = {}
  OBVIOUS
<1>2. f \in Series => b \in AnyBlock /\ IsWhole(b) /\ b.points = buffer[f]
  BY Typing, BlockType, NewItemsAreWhole DEF Block
<1> HIDE DEF f, b
<1>3. CASE s # f
  <2>1. blocks'[s] = blocks[s] /\ buffer'[s] = buffer[s]
    BY <1>1, <1>3, Typing
  <2> QED
    BY <2>1 DEF Held
<1>4. CASE s = f
  <2>1. blocks'[s] = Append(blocks[s], b) /\ buffer'[s] = <<>> /\ blocks[s] \in Seq(AnyBlock)
    BY <1>1, <1>4, Typing
  <2>2. PointsIn(blocks'[s]) = PointsIn(blocks[s]) \union Range(buffer[s])
    BY <1>2, <1>4, <2>1, PointsInAppend
  <2>3. Fragments(blocks[s]) = {} => Fragments(blocks'[s]) = {}
    BY <1>2, <1>4, <2>1, WholeAppend
  <2> QED
    BY <2>1, <2>2, <2>3, RangeEmpty DEF Held
<1> QED
  BY <1>3, <1>4


\* The points of s that any file, any buffer or the call in progress holds, in
\* whole items or in fragments.
Anywhere(s) == Logged(s) \union Held(s) \union (IF s = target THEN Range(rest) ELSE {})

\* Whatever is held was appended, and does not belong to a deleted series.
Undeleted ==
  \A s \in Series : \A n \in Anywhere(s) :
    n \in 1..Len(fate[s]) /\ fate[s][n] \notin {"deleting", "deleted"}

GoneInv == PathInv /\ Undeleted

\* A step that brings no point from nowhere and deletes none.
FateKept ==
  \A s \in Series : \A n \in 1..Len(fate[s]) :
    /\ n \in 1..Len(fate'[s])
    /\ fate[s][n] \notin {"deleting", "deleted"} => fate'[s][n] \notin {"deleting", "deleted"}

\* Such a step keeps Undeleted.
LEMMA KeptUndeleted ==
  ASSUME Undeleted, FateKept, \A s \in Series : Anywhere(s)' \subseteq Anywhere(s)
  PROVE  Undeleted'
BY DEF Undeleted, FateKept

\* A call that returns, and a process that ends, delete nothing more.
LEMMA FateKeptAtEnd ==
  ASSUME TypeInv, NEW r, Return(r) \/ Forget \/ UNCHANGED fate
  PROVE  FateKept
<1> SUFFICES ASSUME NEW s \in Series, NEW n \in 1..Len(fate[s])
             PROVE  /\ n \in 1..Len(fate'[s])
                    /\ fate[s][n] \notin {"deleting", "deleted"} => fate'[s][n] \notin {"deleting", "deleted"}
  BY DEF FateKept
<1>1. fate \in [Series -> Seq(Fates)]
  BY Typing
<1>2. CASE UNCHANGED fate
  BY <1>2
<1>3. CASE Return(r)
  <2>1. fate' = [t \in Series |-> [k \in 1..Len(fate[t]) |-> FateAtReturn(r, t, k)]]
    BY <1>3 DEF Return
  <2> DEFINE g == [k \in 1..Len(fate[s]) |-> FateAtReturn(r, s, k)]
  <2>2. fate'[s] = g
    BY <2>1
  <2>3. Len(g) = Len(fate[s])
    BY <1>1
  <2>4. g[n] = FateAtReturn(r, s, n)
    OBVIOUS
  <2> HIDE DEF g
  <2>5. FateAtReturn(r, s, n) \in {"durable", "rejected", "accepted", fate[s][n]}
          \/ (fate[s][n] = "deleting" /\ FateAtReturn(r, s, n) = "deleted")
    BY DEF FateAtReturn
  <2> QED
    BY <2>2, <2>3, <2>4, <2>5
<1>4. CASE Forget
  <2>1. fate' = [t \in Series |-> [k \in 1..Len(fate[t]) |-> FateAtEnd(t, k)]]
    BY <1>4 DEF Forget
  <2> DEFINE g == [k \in 1..Len(fate[s]) |-> FateAtEnd(s, k)]
  <2>2. fate'[s] = g
    BY <2>1
  <2>3. Len(g) = Len(fate[s])
    BY <1>1
  <2>4. g[n] = FateAtEnd(s, n)
    OBVIOUS
  <2> HIDE DEF g
  <2>5. FateAtEnd(s, n) \in {"lost", "accepted", fate[s][n]}
    BY DEF FateAtEnd
  <2> QED
    BY <2>2, <2>3, <2>4, <2>5
<1> QED
  BY <1>2, <1>3, <1>4

\* Return with the files and the buffers as they are, or the WAL buffer dropped.
LEMMA ReturnUndeleted ==
  ASSUME GoneInv, NEW r, Return(r), UNCHANGED <<wal, blocks, buffer>>,
         walbuf' = walbuf \/ walbuf' = <<>>
  PROVE  Undeleted'
<1>1. rest' = <<>>
  BY DEF Return
<1>2. \A s \in Series : Anywhere(s)' \subseteq Anywhere(s)
  BY <1>1, RangeEmpty, InLogEmpty DEF Anywhere, Logged, Held
<1> QED
  BY <1>2, FateKeptAtEnd, KeptUndeleted DEF GoneInv, PathInv

\* The tsedge_db object goes away.
LEMMA ForgetUndeleted ==
  ASSUME GoneInv, Forget
  PROVE  Undeleted'
<1>1. /\ rest' = <<>> /\ walbuf' = <<>> /\ buffer' = Empty /\ UNCHANGED <<wal, blocks>>
  BY DEF Forget, disk
<1>2. \A s \in Series : buffer'[s] = <<>>
  BY <1>1, EmptyType
<1>3. \A s \in Series : Anywhere(s)' \subseteq Anywhere(s)
  BY <1>1, <1>2, RangeEmpty, InLogEmpty DEF Anywhere, Logged, Held
<1> QED
  BY <1>3, FateKeptAtEnd, KeptUndeleted DEF GoneInv, PathInv

\* The initial state.
LEMMA InitUndeleted == Init => Undeleted
<1> SUFFICES ASSUME Init PROVE Undeleted
  OBVIOUS
<1>1. \A s \in Series : buffer[s] = <<>> /\ blocks[s] = <<>>
  BY EmptyType DEF Init
<1>2. PointsIn(<<>>) = {}
  BY DEF PointsIn
<1>3. \A s \in Series : Anywhere(s) = {}
  BY <1>1, <1>2, RangeEmpty, InLogEmpty DEF Anywhere, Logged, Held, Init
<1> QED
  BY <1>3 DEF Undeleted

\* The chunk moves from the batch to the buffer.
LEMMA ChunkUndeleted ==
  ASSUME GoneInv, target \in Series,
         buffer' = [buffer EXCEPT ![target] = @ \o SubSeq(rest, 1, ChunkLength)],
         rest' = SubSeq(rest, ChunkLength + 1, Len(rest)),
         UNCHANGED <<wal, blocks, walbuf, target, fate>>
  PROVE  Undeleted'
<1> DEFINE chunk == SubSeq(rest, 1, ChunkLength)
<1>1. /\ Range(rest') \subseteq Range(rest)
      /\ Range(buffer'[target]) = Range(buffer[target]) \union Range(chunk)
      /\ \A s \in Series : s # target => buffer'[s] = buffer[s]
  BY ChunkIsHeld DEF GoneInv, PathInv
<1>2. Range(chunk) \subseteq Range(rest)
  <2>1. rest \in Seq(Nat) /\ ChunkLength \in 0..Len(rest)
    BY ChunkFits, Typing DEF GoneInv, PathInv, TypeInv
  <2> QED
    BY <2>1, RangeSplit
<1> HIDE DEF chunk
<1>3. \A s \in Series : Anywhere(s)' \subseteq Anywhere(s)
  BY <1>1, <1>2 DEF Anywhere, Logged, Held
<1> QED
  BY <1>3, FateKeptAtEnd, KeptUndeleted DEF GoneInv, PathInv

\* tsedge_open and its replay.
LEMMA ReplayUndeleted ==
  ASSUME GoneInv, Open \/ ReplayRecord \/ ReplayPoints \/ ReplayEnds
  PROVE  Undeleted'
<1>1. CASE Open
  <2>1. UNCHANGED <<wal, blocks, buffer, walbuf, target, rest, fate>>
    BY <1>1 DEF Open, disk
  <2> QED
    BY <2>1 DEF GoneInv, Undeleted, Anywhere, Logged, Held
<1>2. CASE ReplayRecord
  <2>1. /\ target' = wal[cursor].series /\ rest' = wal[cursor].points
        /\ UNCHANGED <<wal, blocks, buffer, walbuf, fate>>
    BY <1>2 DEF ReplayRecord
  <2>2. cursor \in 1..Len(wal)
    BY <1>2, ReplayedRecord DEF GoneInv, PathInv
  <2>3. \A n \in Range(rest') : n \in InLog(wal, target')
    BY <2>1, <2>2, InLogMember
  <2>4. \A s \in Series : Anywhere(s)' \subseteq Anywhere(s)
    BY <2>1, <2>3 DEF Anywhere, Logged, Held
  <2> QED
    BY <2>1, <2>4, FateKeptAtEnd, KeptUndeleted DEF GoneInv, PathInv
<1>3. CASE ReplayPoints
  <2>1. pc = "replay" /\ rest # <<>> /\ UNCHANGED <<wal, blocks, walbuf, target, fate>>
    BY <1>3 DEF ReplayPoints, disk
  <2>2. target \in Series
    BY <2>1 DEF GoneInv, PathInv, TypeInv, CallOK
  <2>3. CASE UNCHANGED <<buffer, rest>>
    BY <2>1, <2>3 DEF GoneInv, Undeleted, Anywhere, Logged, Held
  <2>4. CASE /\ buffer' = [buffer EXCEPT ![target] = @ \o SubSeq(rest, 1, ChunkLength)]
             /\ rest' = SubSeq(rest, ChunkLength + 1, Len(rest))
    BY <2>1, <2>2, <2>4, ChunkUndeleted
  <2> QED
    BY <1>3, <2>3, <2>4 DEF ReplayPoints
<1>4. CASE ReplayEnds
  BY <1>4, ReturnUndeleted, ForgetUndeleted DEF ReplayEnds, disk, memory
<1> QED
  BY <1>1, <1>2, <1>3, <1>4

\* tsedge_append.
LEMMA AppendUndeleted ==
  ASSUME GoneInv, Chunk \/ Log \/ Place \/ AppendDone
  PROVE  Undeleted'
<1>1. CASE Chunk
  <2>1. UNCHANGED <<wal, blocks, buffer, walbuf, target, rest, fate>>
    BY <1>1 DEF Chunk, disk, memory, call
  <2> QED
    BY <2>1 DEF GoneInv, Undeleted, Anywhere, Logged, Held
<1>2. CASE Log
  <2> DEFINE chunk == SubSeq(rest, 1, ChunkLength)
  <2>1. /\ pc = "log" /\ walbuf' = Append(walbuf, NextRecord)
        /\ UNCHANGED <<wal, blocks, buffer, target, rest, fate>>
    BY <1>2 DEF Log, disk, call
  <2>2. target \in Series
    BY <2>1 DEF GoneInv, PathInv, TypeInv, CallOK
  <2>3. NextRecord \in Record /\ NextRecord.series = target /\ NextRecord.points = chunk
    BY <2>2, ChunkFits, RecordType DEF GoneInv, PathInv, TypeInv, NextRecord, WalRecord
  <2>4. Range(chunk) \subseteq Range(rest)
    <3>1. rest \in Seq(Nat) /\ ChunkLength \in 0..Len(rest)
      BY <2>2, ChunkFits, Typing DEF GoneInv, PathInv, TypeInv
    <3> QED
      BY <3>1, RangeSplit
  <2> HIDE DEF chunk
  <2>5. \A s \in Series : InLog(walbuf', s) = InLog(walbuf, s) \union (IF target = s THEN Range(chunk) ELSE {})
    BY <2>1, <2>3, InLogAppend, Typing DEF GoneInv, PathInv
  <2>6. \A s \in Series : Anywhere(s)' \subseteq Anywhere(s)
    BY <2>1, <2>4, <2>5 DEF Anywhere, Logged, Held
  <2> QED
    BY <2>1, <2>6, FateKeptAtEnd, KeptUndeleted DEF GoneInv, PathInv
<1>3. CASE Place
  <2>1. /\ pc = "place"
        /\ buffer' = [buffer EXCEPT ![target] = @ \o SubSeq(rest, 1, ChunkLength)]
        /\ rest' = SubSeq(rest, ChunkLength + 1, Len(rest))
        /\ UNCHANGED <<wal, blocks, walbuf, target, fate>>
    BY <1>3 DEF Place, disk
  <2>2. target \in Series
    BY <2>1 DEF GoneInv, PathInv, TypeInv, CallOK
  <2> QED
    BY <2>1, <2>2, ChunkUndeleted
<1>4. CASE AppendDone
  BY <1>4, ReturnUndeleted DEF AppendDone, disk, memory
<1> QED
  BY <1>1, <1>2, <1>3, <1>4

\* tsedge_append hands over the next numbers of its series, all of them pending.
LEMMA HandedOver ==
  ASSUME TypeInv, NEW s \in Series, NEW k \in 1..MaxBatch, StartAppend(s, k)
  PROVE  /\ fate[s] \in Seq(Fates) /\ Len(fate[s]) \in Nat /\ k \in Nat
         /\ Len(fate'[s]) = Len(fate[s]) + k
         /\ \A n \in 1..(Len(fate[s]) + k) :
              fate'[s][n] = IF n <= Len(fate[s]) THEN fate[s][n] ELSE "pending"
         /\ \A x \in Series : x # s => fate'[x] = fate[x]
         /\ Len(rest') = k /\ \A i \in 1..k : rest'[i] = Len(fate[s]) + i
         /\ \A n : n \in Range(rest') <=> n \in 1..(Len(fate[s]) + k) /\ ~(n <= Len(fate[s]))
<1> DEFINE new == [i \in 1..k |-> "pending"]
           nums == [i \in 1..k |-> Len(fate[s]) + i]
<1>1. k \in Nat /\ fate[s] \in Seq(Fates) /\ Len(fate[s]) \in Nat
  BY Typing, StoreAssumption
<1>2. /\ Len(fate'[s]) = Len(fate[s]) + k
      /\ \A n \in 1..(Len(fate[s]) + k) :
           fate'[s][n] = IF n <= Len(fate[s]) THEN fate[s][n] ELSE "pending"
  <2>1. fate'[s] = fate[s] \o new
    BY Typing DEF StartAppend
  <2>2. new \in Seq(Fates) /\ Len(new) = k /\ \A i \in 1..k : new[i] = "pending"
    BY <1>1, IsASeq DEF Fates
  <2> HIDE DEF new
  <2>3. /\ Len(fate[s] \o new) = Len(fate[s]) + Len(new)
        /\ \A i \in 1..(Len(fate[s]) + Len(new)) :
             (fate[s] \o new)[i] = IF i <= Len(fate[s]) THEN fate[s][i] ELSE new[i - Len(fate[s])]
    BY <1>1, <2>2, ConcatProperties
  <2> DEFINE old == Len(fate[s])
  <2>4. \A n \in 1..(old + k) : ~(n <= old) => n - old \in 1..k
    BY <1>1
  <2> QED
    BY <2>1, <2>2, <2>3, <2>4
<1>3. \A x \in Series : x # s => fate'[x] = fate[x]
  BY Typing DEF StartAppend
<1>4. rest' = nums
  BY DEF StartAppend
<1>5. Len(nums) = k /\ \A i \in 1..k : nums[i] = Len(fate[s]) + i
  BY <1>1
<1>6. ASSUME NEW n PROVE n \in Range(nums) <=> n \in 1..(Len(fate[s]) + k) /\ ~(n <= Len(fate[s]))
  <2>1. n \in Range(nums) <=> \E i \in 1..k : n = Len(fate[s]) + i
    BY DEF Range
  <2>2. ASSUME n \in 1..(Len(fate[s]) + k), ~(n <= Len(fate[s]))
        PROVE  n - Len(fate[s]) \in 1..k /\ n = Len(fate[s]) + (n - Len(fate[s]))
    BY <1>1, <2>2
  <2>3. \A i \in 1..k : Len(fate[s]) + i \in 1..(Len(fate[s]) + k) /\ ~(Len(fate[s]) + i <= Len(fate[s]))
    BY <1>1
  <2> QED
    BY <2>1, <2>2, <2>3
<1> HIDE DEF nums
<1> QED
  BY <1>1, <1>2, <1>3, <1>4, <1>5, <1>6

\* The starts of the calls.
LEMMA StartUndeleted ==
  ASSUME GoneInv, StartCall \/ \E s \in Series : CreateFails(s)
  PROVE  Undeleted'
<1>1. ASSUME NEW s \in Series, NEW n \in 1..MaxBatch, StartAppend(s, n) PROVE Undeleted'
  <2>1. target' = s /\ UNCHANGED <<wal, blocks, buffer, walbuf>>
    BY <1>1 DEF StartAppend, Call, disk, memory
  <2>2. /\ Len(fate[s]) \in Nat /\ Len(fate'[s]) = Len(fate[s]) + n
        /\ \A i \in 1..(Len(fate[s]) + n) : fate'[s][i] = IF i <= Len(fate[s]) THEN fate[s][i] ELSE "pending"
        /\ \A x \in Series : x # s => fate'[x] = fate[x]
        /\ \A i \in Range(rest') : i \in 1..(Len(fate[s]) + n) /\ ~(i <= Len(fate[s]))
        /\ n \in Nat
    BY <1>1, HandedOver DEF GoneInv, PathInv
  <2> SUFFICES ASSUME NEW t \in Series, NEW x \in Anywhere(t)'
               PROVE  x \in 1..Len(fate'[t]) /\ fate'[t][x] \notin {"deleting", "deleted"}
    BY DEF Undeleted
  <2>3. CASE t = s /\ x \in Range(rest')
    BY <2>2, <2>3
  <2>4. CASE ~(t = s /\ x \in Range(rest'))
    <3>1. x \in Logged(t) \union Held(t)
      BY <2>1, <2>4 DEF Anywhere, Logged, Held
    <3>2. x \in 1..Len(fate[t]) /\ fate[t][x] \notin {"deleting", "deleted"}
      BY <3>1 DEF GoneInv, Undeleted, Anywhere
    <3> QED
      BY <2>2, <3>2
  <2> QED
    BY <2>3, <2>4
<1>2. ASSUME UNCHANGED <<wal, blocks, buffer, walbuf, rest, fate>>, rest = <<>> PROVE Undeleted'
  <2>1. \A s \in Series : Anywhere(s)' \subseteq Anywhere(s)
    BY <1>2, RangeEmpty DEF Anywhere, Logged, Held
  <2> QED
    BY <1>2, <2>1, FateKeptAtEnd, KeptUndeleted DEF GoneInv, PathInv
<1>3. pc = "idle" => rest = <<>>
  BY DEF GoneInv, PathInv, TypeInv, CallOK
<1>4. ASSUME NEW s \in Series, CreateSeries(s) \/ CreateFails(s) \/ StartFlush(s) PROVE Undeleted'
  BY <1>2, <1>3, <1>4 DEF CreateSeries, CreateFails, StartFlush, Call, disk, memory, call
<1>5. ASSUME NEW mode \in Selected, SetDurability(mode) PROVE Undeleted'
  BY <1>2, <1>3, <1>5 DEF SetDurability, disk, memory
<1>6. ASSUME NEW name, NEW s, StartFlushAll(name, s) PROVE Undeleted'
  BY <1>2, <1>3, <1>6 DEF StartFlushAll, Call, disk, memory
<1> QED
  BY <1>1, <1>4, <1>5, <1>6 DEF StartCall

\* Steps that leave every point where it is.
LEMMA StillUndeleted ==
  ASSUME GoneInv, UNCHANGED <<wal, blocks, buffer, walbuf, target, rest, fate>>
  PROVE  Undeleted'
BY DEF GoneInv, Undeleted, Anywhere, Logged, Held

\* The flushes.
LEMMA FlushUndeleted ==
  ASSUME GoneInv, WalFlush \/ FlushSeries \/ NextSeries \/ AppendBlock
  PROVE  Undeleted'
<1>1. CASE WalFlush
  <2>1. /\ wal' = wal \o walbuf /\ walbuf' = <<>> /\ UNCHANGED <<blocks, buffer>>
        /\ UNCHANGED <<target, rest, fate>> \/ Return("ok")
    BY <1>1 DEF WalFlush, call
  <2>2. \A s \in Series : Logged(s)' = Logged(s)
    BY <2>1, InLogConcat, InLogEmpty, Typing DEF Logged, GoneInv, PathInv
  <2>3. \A s \in Series : (IF s = target THEN Range(rest) ELSE {})' \subseteq (IF s = target THEN Range(rest) ELSE {})
    BY <2>1, RangeEmpty DEF Return
  <2>4. \A s \in Series : Anywhere(s)' \subseteq Anywhere(s)
    BY <2>1, <2>2, <2>3 DEF Anywhere, Held
  <2> QED
    BY <2>1, <2>4, FateKeptAtEnd, KeptUndeleted DEF GoneInv, PathInv
<1>2. CASE FlushSeries
  BY <1>2, ReturnUndeleted, StillUndeleted DEF FlushSeries, disk, memory, call
<1>3. CASE NextSeries
  BY <1>3, StillUndeleted DEF NextSeries, disk, memory
<1>4. CASE AppendBlock
  <2>1. UNCHANGED <<wal, walbuf, target, rest, fate>>
    BY <1>4 DEF AppendBlock, call
  <2>2. \A s \in Series : Held(s) = Held(s)'
    BY <1>4, BlockHolds DEF GoneInv, PathInv
  <2>3. \A s \in Series : Anywhere(s)' \subseteq Anywhere(s)
    BY <2>1, <2>2 DEF Anywhere, Logged
  <2> QED
    BY <2>1, <2>3, FateKeptAtEnd, KeptUndeleted DEF GoneInv, PathInv
<1> QED
  BY <1>1, <1>2, <1>3, <1>4

\* The truncation of the WAL, and what tsedge_db_delete_series does after it.
LEMMA TruncateUndeleted ==
  ASSUME GoneInv, TruncateWal \/ RewriteWal \/ RewriteEnds \/ UnlinkSegment \/ RemoveDirectory
  PROVE  Undeleted'
<1>1. CASE TruncateWal
  <2>1. /\ wal' = <<>> /\ walbuf' = <<>> /\ UNCHANGED <<blocks, buffer, target, rest, fate>>
    BY <1>1 DEF TruncateWal
  <2>2. \A s \in Series : Anywhere(s)' \subseteq Anywhere(s)
    BY <2>1, InLogEmpty DEF Anywhere, Logged, Held
  <2> QED
    BY <2>1, <2>2, FateKeptAtEnd, KeptUndeleted DEF GoneInv, PathInv
<1>2. CASE RewriteWal
  <2> DEFINE r == registry[cursor]
             record == WalRecord(r, buffer[r])
  <2>1. /\ r \in Series /\ wal' = IF buffer[r] = <<>> THEN wal ELSE Append(wal, record)
        /\ UNCHANGED <<blocks, buffer, walbuf, target, rest, fate>>
    BY <1>2, Typing, ElementOfSeq DEF RewriteWal, memory, GoneInv, PathInv
  <2>2. record \in Record /\ record.series = r /\ record.points = buffer[r]
    BY <2>1, RecordType, Typing DEF GoneInv, PathInv, WalRecord
  <2> HIDE DEF r, record
  <2>3. \A s \in Series : InLog(wal', s) \subseteq InLog(wal, s) \union Range(buffer[s])
    BY <2>1, <2>2, InLogAppend, Typing DEF GoneInv, PathInv
  <2>4. \A s \in Series : Anywhere(s)' \subseteq Anywhere(s)
    BY <2>1, <2>3 DEF Anywhere, Logged, Held
  <2> QED
    BY <2>1, <2>4, FateKeptAtEnd, KeptUndeleted DEF GoneInv, PathInv
<1>3. CASE RewriteEnds
  BY <1>3, ReturnUndeleted, ForgetUndeleted, StillUndeleted DEF RewriteEnds, disk, memory
<1>4. CASE UnlinkSegment
  <2>1. /\ pc = "unlink" /\ blocks' = [blocks EXCEPT ![target] = <<>>]
        /\ fate' = [fate EXCEPT ![target] = [n \in 1..Len(@) |-> "deleting"]]
        /\ UNCHANGED <<wal, buffer, walbuf, target, rest>>
    BY <1>4 DEF UnlinkSegment, memory, call
  <2>2. op = "delete" /\ rest = <<>> /\ wal = <<>> /\ walbuf = <<>> /\ \A s \in Series : buffer[s] = <<>>
    BY <2>1 DEF GoneInv, PathInv, PathOK, EmptiedOK, Bulk
  <2>3. PointsIn(<<>>) = {}
    BY DEF PointsIn
  <2>4. \A s \in Series : s = target => Anywhere(s)' = {}
    BY <2>1, <2>2, <2>3, RangeEmpty, InLogEmpty, Typing DEF Anywhere, Logged, Held, GoneInv, PathInv
  <2>5. \A s \in Series : s # target => Anywhere(s)' = Anywhere(s) /\ fate'[s] = fate[s]
    BY <2>1, Typing DEF Anywhere, Logged, Held, GoneInv, PathInv
  <2> QED
    BY <2>4, <2>5 DEF GoneInv, Undeleted
<1>5. CASE RemoveDirectory
  BY <1>5, ReturnUndeleted DEF RemoveDirectory
<1> QED
  BY <1>1, <1>2, <1>3, <1>4, <1>5

\* A write that stops, an operation that fails, and the end of the process.
LEMMA FailureUndeleted ==
  ASSUME GoneInv, PartialWrite \/ Fault \/ Crash
  PROVE  Undeleted'
<1>1. CASE PartialWrite
  <2>1. UNCHANGED <<buffer, walbuf, target, rest, fate>>
    BY <1>1 DEF PartialWrite, memory, call
  <2>2. ASSUME NEW items \in Seq(Record), NEW part \in PartialWrites(items), wal' = wal \o part,
               UNCHANGED blocks, \A s \in Series : InLog(items, s) \subseteq InLog(walbuf, s) \union Range(buffer[s])
        PROVE  Undeleted'
    <3>1. part \in Seq(Record)
      BY <2>2, PartialRecords
    <3>2. \A x \in Record, g \in Nat : Cut(x, g).points = x.points /\ Cut(x, g).series = x.series
      BY DEF Record, Cut
    <3>3. \A x \in Record : x.points \in Seq(Nat)
      BY DEF Record
    <3>4. \A s \in Series : InLog(part, s) \subseteq InLog(items, s)
      BY <2>2, <3>2, <3>3, PartialLog
    <3>5. \A s \in Series : InLog(wal', s) = InLog(wal, s) \union InLog(part, s)
      BY <2>2, <3>1, InLogConcat, Typing DEF GoneInv, PathInv
    <3>6. \A s \in Series : Anywhere(s)' \subseteq Anywhere(s)
      BY <2>1, <2>2, <3>4, <3>5 DEF Anywhere, Logged, Held
    <3> QED
      BY <2>1, <3>6, FateKeptAtEnd, KeptUndeleted DEF GoneInv, PathInv
  <2>3. CASE /\ \E part \in PartialWrites(walbuf) : wal' = wal \o part
             /\ UNCHANGED blocks
    <3>1. walbuf \in Seq(Record)
      BY Typing DEF GoneInv, PathInv
    <3> QED
      BY <2>2, <2>3, <3>1
  <2>4. CASE /\ pc = "rewrite" /\ cursor <= Len(registry)
             /\ \E part \in PartialWrites(<<WalRecord(registry[cursor], buffer[registry[cursor]])>>) :
                  wal' = wal \o part
             /\ UNCHANGED blocks
    <3> DEFINE r == registry[cursor]
               record == WalRecord(r, buffer[r])
               items == <<record>>
    <3>1. r \in Series
      BY <2>4, Typing, ElementOfSeq DEF GoneInv, PathInv
    <3>2. record \in Record /\ record.series = r /\ record.points = buffer[r]
      BY <3>1, RecordType, Typing DEF GoneInv, PathInv, WalRecord
    <3> HIDE DEF record
    <3>3. /\ items \in Seq(Record) /\ Len(items) = 1 /\ items[1] = record
      BY <3>2
    <3>4. PICK part \in PartialWrites(items) : wal' = wal \o part
      BY <2>4 DEF record
    <3> HIDE DEF items, r
    <3>5. \A s \in Series : InLog(items, s) \subseteq InLog(walbuf, s) \union Range(buffer[s])
      <4> SUFFICES ASSUME NEW s \in Series, NEW n \in InLog(items, s) PROVE n \in Range(buffer[s])
        OBVIOUS
      <4>1. PICK i \in 1..Len(items) : items[i].series = s /\ n \in Range(items[i].points)
        BY InLogMember
      <4>2. items[i] = record
        BY <3>3, <4>1
      <4> QED
        BY <3>2, <4>1, <4>2
    <3> QED
      BY <2>2, <2>4, <3>3, <3>4, <3>5
  <2>5. CASE /\ pc = "block"
             /\ \E part \in PartialWrites(<<Block(buffer[Flushed])>>) :
                  blocks' = [blocks EXCEPT ![Flushed] = @ \o part]
             /\ UNCHANGED wal
    <3> DEFINE f == Flushed
               b == Block(buffer[f])
               items == <<b>>
    <3>1. f \in Series
      BY <2>5, FlushedSeries DEF GoneInv
    <3>2. b \in AnyBlock /\ b.points = buffer[f]
      BY <3>1, BlockType, Typing DEF GoneInv, PathInv, Block
    <3> HIDE DEF b
    <3>3. items \in Seq(AnyBlock) /\ Len(items) = 1 /\ items[1] = b
      BY <3>2
    <3>4. PICK part \in PartialWrites(items) : blocks' = [blocks EXCEPT ![f] = @ \o part]
      BY <2>5 DEF b
    <3> HIDE DEF items, f
    <3>5. part \in Seq(AnyBlock)
      BY <3>3, PartialBlocks
    <3>6. PointsIn(part) \subseteq PointsIn(items)
      <4>1. \A x \in AnyBlock, g \in Nat : Cut(x, g).points = x.points
        BY DEF AnyBlock, Cut
      <4>2. \A x \in AnyBlock : x.points \in Seq(Nat)
        BY DEF AnyBlock
      <4> QED
        BY <3>3, <3>4, <4>1, <4>2, PartialPoints
    <3>7. PointsIn(items) \subseteq Range(buffer[f])
      <4> SUFFICES ASSUME NEW n \in PointsIn(items) PROVE n \in Range(buffer[f])
        OBVIOUS
      <4>1. PICK i \in 1..Len(items) : n \in Range(items[i].points)
        BY PointsInMember
      <4>2. items[i] = b
        BY <3>3, <4>1
      <4> QED
        BY <3>2, <4>1, <4>2
    <3>8. blocks[f] \in Seq(AnyBlock) /\ blocks'[f] = blocks[f] \o part
          /\ \A s \in Series : s # f => blocks'[s] = blocks[s]
      BY <3>1, <3>4, Typing DEF GoneInv, PathInv
    <3>9. PointsIn(blocks'[f]) = PointsIn(blocks[f]) \union PointsIn(part)
      BY <3>5, <3>8, PointsInConcat
    <3>10. \A s \in Series : PointsIn(blocks'[s]) \subseteq PointsIn(blocks[s]) \union Range(buffer[s])
      BY <3>6, <3>7, <3>8, <3>9
    <3>11. \A s \in Series : Anywhere(s)' \subseteq Anywhere(s)
      BY <2>1, <2>5, <3>10 DEF Anywhere, Logged, Held
    <3> QED
      BY <2>1, <3>11, FateKeptAtEnd, KeptUndeleted DEF GoneInv, PathInv
  <2> QED
    BY <1>1, <2>3, <2>4, <2>5 DEF PartialWrite
<1>2. CASE Fault
  BY <1>2, ReturnUndeleted, ForgetUndeleted DEF Fault, disk
<1>3. CASE Crash
  BY <1>3, ForgetUndeleted DEF Crash
<1> QED
  BY <1>1, <1>2, <1>3

\* GoneInv is inductive.
LEMMA NextGoneInv == GoneInv /\ [Next]_vars => GoneInv'
<1> SUFFICES ASSUME GoneInv, [Next]_vars PROVE GoneInv'
  OBVIOUS
<1>1. PathInv'
  BY NextPathInv DEF GoneInv
<1>2. CASE UNCHANGED vars \/ OpenFails
  BY <1>1, <1>2, StillUndeleted DEF OpenFails, vars, disk, memory, call, GoneInv
<1>3. CASE Open \/ StartCall \/ Continue \/ Environment
  BY <1>1, <1>3, ReplayUndeleted, StartUndeleted, AppendUndeleted, FlushUndeleted, TruncateUndeleted,
     FailureUndeleted DEF Continue, Environment, GoneInv
<1> QED
  BY <1>2, <1>3 DEF Next

\* What a query returns is held in a block or in a buffer.
LEMMA VisibleIsHeld ==
  ASSUME TypeInv, NEW s \in Series
  PROVE  Range(Visible(s)) \subseteq Held(s)
<1> DEFINE read == [i \in 1..Len(blocks[s]) |-> IF IsWhole(blocks[s][i]) THEN blocks[s][i].points ELSE <<>>]
           flat == FlattenSeq(read)
<1>1. blocks[s] \in Seq(AnyBlock) /\ buffer[s] \in Seq(Nat)
  BY Typing
<1>2. \A i \in 1..Len(blocks[s]) : blocks[s][i].points \in Seq(Nat)
  <2>1. \A i \in 1..Len(blocks[s]) : blocks[s][i] \in AnyBlock
    BY <1>1, ElementOfSeq
  <2> QED
    BY <2>1 DEF AnyBlock
<1>3. /\ read \in Seq(Seq(Nat)) /\ Len(read) = Len(blocks[s])
      /\ \A i \in 1..Len(blocks[s]) : read[i] = blocks[s][i].points \/ read[i] = <<>>
  BY <1>1, <1>2
<1> HIDE DEF read
<1>4. flat \in Seq(Nat) /\ Range(flat) = UNION {Range(read[i]) : i \in 1..Len(read)}
  BY <1>3, FlattenRange
<1>5. Range(flat) \subseteq PointsIn(blocks[s])
  <2> SUFFICES ASSUME NEW n \in Range(flat) PROVE n \in PointsIn(blocks[s])
    OBVIOUS
  <2>1. PICK i \in 1..Len(read) : n \in Range(read[i])
    BY <1>4
  <2>2. i \in 1..Len(blocks[s]) /\ n \in Range(blocks[s][i].points)
    BY <1>3, <2>1, RangeEmpty
  <2> QED
    BY <2>2, PointsInMember
<1> HIDE DEF flat
<1>6. Range(flat \o buffer[s]) = Range(flat) \union Range(buffer[s])
  BY <1>1, <1>4, RangeConcat
<1> QED
  BY <1>5, <1>6 DEF Held, Visible, flat, read

\* Once tsedge_delete_series has returned TSEDGE_OK, no restart, no series created
\* again under the name, no torn record and no failed operation brings a point
\* back: it is in no readable record or block, in no buffer and in no query.
THEOREM DeletedStay == Spec => []DeletedStaysDeleted
<1>1. Init => GoneInv
  BY InitPathInv, InitUndeleted DEF GoneInv
<1>2. GoneInv => DeletedStaysDeleted
  <2> SUFFICES ASSUME GoneInv, NEW s \in Series, NEW n \in PointsOf(s, {"deleted"}),
                      n \in OnDisk(s) \union BufferedRecords(s) \union Range(Visible(s))
               PROVE  FALSE
    BY DEF DeletedStaysDeleted
  <2>1. n \notin Anywhere(s)
    BY DEF GoneInv, Undeleted, PointsOf
  <2>2. BufferedRecords(s) = InLog(walbuf, s)
    BY DEF BufferedRecords, InLog
  <2>3. OnDisk(s) \subseteq InLog(wal, s) \union PointsIn(blocks[s])
    <3>1. wal \in Seq(Record) /\ blocks[s] \in Seq(AnyBlock)
      BY Typing DEF GoneInv, PathInv
    <3> QED
      BY <3>1, LoggedIsInLog DEF OnDisk
  <2>4. Range(Visible(s)) \subseteq Held(s)
    BY VisibleIsHeld DEF GoneInv, PathInv
  <2> QED
    BY <2>1, <2>2, <2>3, <2>4 DEF Anywhere, Logged, Held
<1> QED
  BY <1>1, <1>2, NextGoneInv, PTL DEF Spec

-----------------------------------------------------------------------------
(* The WAL buffer *)

\* wal_append_bytes copies a record to the WAL buffer only if the buffer is empty
\* or the record fits in: the room was made when the step was chosen.
LogRoom == pc = "log" => walbuf = <<>> \/ Cells(walbuf) + Size(NextRecord) <= WalLimit

BoundInv == TypeInv /\ LogRoom /\ WalBufferBounded

\* Steps that add no record, change no mode and do not go to the logging.
LEMMA QuietBound ==
  ASSUME BoundInv, TypeInv', pc' # "log",
         UNCHANGED <<walbuf, durability>> \/ walbuf' = <<>>
  PROVE  BoundInv'
BY DEF BoundInv, LogRoom, WalBufferBounded, WalLimit

\* A record is logged where there is room for it.
LEMMA LogBound ==
  ASSUME BoundInv, TypeInv', Log
  PROVE  BoundInv'
<1>1. /\ pc = "log" /\ pc' # "log" /\ walbuf' = Append(walbuf, NextRecord) /\ durability' = durability
  BY DEF Log, Goto
<1>2. target \in Series
  BY <1>1 DEF BoundInv, TypeInv, CallOK
<1>3. NextRecord \in Record /\ NextRecord.got = Size(NextRecord)
  BY <1>2, ChunkFits, RecordType DEF BoundInv, TypeInv, NextRecord, WalRecord, Size
<1>4. walbuf \in Seq(Record)
  BY Typing DEF BoundInv
<1>5. Cells(walbuf') = Cells(walbuf) + Size(NextRecord)
  BY <1>1, <1>3, <1>4, CellsAppend
<1>6. WalLimit' = WalLimit
  BY <1>1 DEF WalLimit
<1>7. walbuf = <<>> => Len(walbuf') = 1
  BY <1>1, <1>3, <1>4
<1> QED
  BY <1>1, <1>5, <1>6, <1>7 DEF BoundInv, LogRoom, WalBufferBounded

\* Every step keeps the bound.
LEMMA NextBoundInv == BoundInv /\ [Next]_vars => BoundInv'
<1> SUFFICES ASSUME BoundInv, [Next]_vars PROVE BoundInv'
  OBVIOUS
<1>1. TypeInv'
  BY NextTypeInv DEF BoundInv
<1>2. CASE UNCHANGED vars \/ OpenFails
  <2>1. UNCHANGED <<pc, walbuf, durability, target, rest, buffer>>
    BY <1>2 DEF OpenFails, vars, memory, call
  <2> QED
    BY <1>1, <2>1 DEF BoundInv, LogRoom, WalBufferBounded, WalLimit, NextRecord, ChunkLength, WalRecord, Size
<1>3. CASE Chunk
  <2>1. UNCHANGED <<walbuf, durability, target, rest, buffer>>
    BY <1>3 DEF Chunk, memory, call
  <2>2. pc' = "log" => walbuf = <<>> \/ ~(Cells(walbuf) + Size(NextRecord) > WalLimit)
    BY <1>3 DEF Chunk, Goto
  <2>3. Cells(walbuf) \in Nat
    <3>1. walbuf \in Seq(Record) /\ \A x \in Record : x.got \in Nat
      BY Typing DEF BoundInv, Record
    <3> QED
      BY <3>1, CellsType
  <2>4. pc = "chunk" /\ op = "append" /\ target \in Series
    BY <1>3 DEF Chunk, BoundInv, TypeInv, CallOK
  <2>5. NextRecord \in Record
    BY <2>4, ChunkFits, RecordType DEF BoundInv, TypeInv, NextRecord
  <2>6. Size(NextRecord) \in Nat /\ WalLimit \in Nat
    BY <2>5, StoreAssumption DEF Size, Record, WalLimit
  <2>7. LogRoom'
    <3>1. NextRecord' = NextRecord /\ WalLimit' = WalLimit
      BY <2>1 DEF NextRecord, ChunkLength, WalLimit
    <3>2. Size(NextRecord)' = Size(NextRecord) /\ Cells(walbuf)' = Cells(walbuf)
      BY <2>1, <3>1
    <3> QED
      BY <2>1, <2>2, <2>3, <2>6, <3>1, <3>2 DEF LogRoom
  <2>8. WalBufferBounded'
    BY <2>1 DEF BoundInv, WalBufferBounded, WalLimit
  <2> QED
    BY <1>1, <2>7, <2>8 DEF BoundInv
<1>4. CASE Log
  BY <1>1, <1>4, LogBound
<1>5. CASE WalFlush
  BY <1>1, <1>5 DEF WalFlush, BoundInv, LogRoom, WalBufferBounded
<1>6. CASE Open \/ ReplayRecord \/ ReplayPoints \/ ReplayEnds
  <2>1. pc' # "log" /\ (UNCHANGED <<walbuf, durability>> \/ walbuf' = <<>>)
    BY <1>6 DEF Open, ReplayRecord, ReplayPoints, ReplayEnds, Goto, Forget, Return, disk, memory
  <2> QED
    BY <1>1, <2>1, QuietBound
<1>7. CASE StartCall
  <2>1. pc' # "log" /\ UNCHANGED <<walbuf, durability>>
    BY <1>7 DEF StartCall, CreateSeries, StartAppend, SetDurability, StartFlush, StartFlushAll, Call, Goto, memory
  <2> QED
    BY <1>1, <2>1, QuietBound
<1>8. CASE Place \/ AppendDone \/ FlushSeries \/ NextSeries \/ AppendBlock
  <2>1. pc' # "log" /\ UNCHANGED <<walbuf, durability>>
    BY <1>8 DEF Place, AppendDone, FlushSeries, NextSeries, AppendBlock, Goto, Return, memory
  <2> QED
    BY <1>1, <2>1, QuietBound
<1>9. CASE TruncateWal \/ RewriteWal \/ RewriteEnds \/ UnlinkSegment \/ RemoveDirectory
  <2>1. pc' # "log" /\ (UNCHANGED <<walbuf, durability>> \/ walbuf' = <<>>)
    BY <1>9 DEF TruncateWal, RewriteWal, RewriteEnds, UnlinkSegment, RemoveDirectory, Goto, Return, Forget, memory
  <2> QED
    BY <1>1, <2>1, QuietBound
<1>10. CASE Environment
  <2>1. pc' # "log" /\ (UNCHANGED <<walbuf, durability>> \/ walbuf' = <<>>)
    BY <1>10 DEF Environment, CreateFails, PartialWrite, Fault, Crash, Goto, Return, Forget, memory
  <2> QED
    BY <1>1, <2>1, QuietBound
<1> QED
  BY <1>2, <1>3, <1>4, <1>5, <1>6, <1>7, <1>8, <1>9, <1>10 DEF Next, Continue

\* FAST and BALANCED keep at most a threshold's worth of records in memory, or a
\* single record that is larger: no sequence of appends, mode changes, failed
\* flushes and crashes makes the WAL buffer outgrow the threshold of its mode.
THEOREM WalBufferStaysBounded == Spec => []WalBufferBounded
<1>1. Init => BoundInv
  <2> SUFFICES ASSUME Init PROVE BoundInv
    OBVIOUS
  <2> QED
    BY InitTypeInv DEF Init, BoundInv, LogRoom, WalBufferBounded
<1>2. BoundInv => WalBufferBounded
  BY DEF BoundInv
<1> QED
  BY <1>1, <1>2, NextBoundInv, PTL DEF Spec

-----------------------------------------------------------------------------
(* A fragment at the end of wal.log *)

\* At most the last item is cut short.
TailOnly(file) == \A i \in Fragments(file) : i = Len(file) /\ file[i].got < Size(file[i])

\* Until the first failure: no fragment before a write stops half-way, one at the
\* end of the file then, and nothing behind it before the next open is through.
TornInv ==
  /\ PathInv
  /\ pc = "closed" \/ op = "open" => walbuf = <<>>
  /\ faults = 0 /\ crashes = 0 => Fragments(walbuf) = {} /\ (pc # "broken" => Fragments(wal) = {})
  /\ faults = 0 /\ (crashes = 0 \/ (crashes = 1 /\ (pc = "closed" \/ op = "open"))) => TailOnly(wal)

\* A fragment at the end of the file ends the replay without an error.
LEMMA TailAccepted ==
  ASSUME NEW w \in Seq(Record), TailOnly(w)
  PROVE  ~WalCorrupt(w)
<1> SUFFICES ASSUME Fragments(w) # {} PROVE ~WalCorrupt(w)
  BY DEF WalCorrupt
<1> DEFINE i == FirstFragment(w)
<1>1. i \in Fragments(w) /\ i \in 1..Len(w)
  BY FirstFragmentIsFirst
<1>2. i = Len(w) /\ w[i].got < Size(w[i])
  BY <1>1 DEF TailOnly
<1>3. w[i] \in Record
  BY <1>1, ElementOfSeq
<1>4. w[i].got \in Nat /\ Size(w[i]) \in Nat
  BY <1>3 DEF Record, Size
<1>5. SubSeq(w, i + 1, Len(w)) = <<>>
  BY <1>1, <1>2
<1>6. CellsAfter(w) = 0
  BY <1>5, CellsEmpty DEF CellsAfter
<1>7. Missing(w) = Size(w[i]) - w[i].got
  BY DEF Missing
<1> HIDE DEF i
<1>8. ~(0 >= Missing(w))
  BY <1>2, <1>4, <1>7
<1>9. ~(0 > 0)
  OBVIOUS
<1> QED
  BY <1>6, <1>8, <1>9 DEF WalCorrupt

\* A partial write after whole items leaves a fragment at the end at most.
LEMMA PartialTail ==
  ASSUME NEW w \in Seq(Record), NEW items \in Seq(Record), Fragments(w) = {}, Fragments(items) = {},
         NEW part \in PartialWrites(items)
  PROVE  TailOnly(w \o part)
<1> DEFINE v == w \o part
<1>1. part \in Seq(Record)
  BY PartialRecords
<1>2. SUFFICES ASSUME NEW i \in Fragments(v) PROVE i = Len(v) /\ v[i].got < Size(v[i])
  BY DEF TailOnly
<1>3. /\ i \in 1..Len(v) /\ ~IsWhole(v[i]) /\ Len(v) = Len(w) + Len(part)
      /\ \A k \in 1..Len(v) : v[k] = IF k <= Len(w) THEN w[k] ELSE part[k - Len(w)]
  BY <1>1 DEF Fragments
<1>4. \A k \in 1..Len(w) : IsWhole(w[k])
  BY DEF Fragments
<1>5. \A k \in 1..Len(items) : IsWhole(items[k])
  BY DEF Fragments
<1> HIDE DEF v
<1> DEFINE k == i - Len(w)
<1>6. k \in 1..Len(part) /\ v[i] = part[k]
  BY <1>1, <1>3, <1>4
<1>7. k \in 1..Len(items) /\ k = Len(part) /\ \E g \in 0..Len(items[k].points) : part[k] = Cut(items[k], g)
  <2>1. k \in 1..Len(items) /\ (part[k] = items[k] \/ (k = Len(part) /\ \E g \in 0..Len(items[k].points) : part[k] = Cut(items[k], g)))
    BY <1>6, PartialShape
  <2> QED
    BY <1>3, <1>5, <1>6, <2>1
<1>8. PICK g \in 0..Len(items[k].points) : part[k] = Cut(items[k], g)
  BY <1>7
<1>9. items[k] \in Record
  BY <1>7, ElementOfSeq
<1> HIDE DEF k
<1>10. part[k].got < Size(part[k])
  BY <1>8, <1>9 DEF Cut, Size, Record
<1>11. i = Len(v)
  BY <1>1, <1>3, <1>7 DEF k
<1> QED
  BY <1>6, <1>10, <1>11

\* Steps that leave wal.log alone.
LEMMA QuietTorn ==
  ASSUME TornInv, PathInv', UNCHANGED <<wal, crashes, faults>>, pc # "broken",
         walbuf' = walbuf \/ walbuf' = <<>>,
         pc' = "closed" \/ op' = "open" => (pc = "closed" \/ op = "open") \/ (wal = <<>> /\ walbuf' = <<>>)
  PROVE  TornInv'
<1>1. Fragments(<<>>) = {} /\ TailOnly(<<>>)
  BY DEF Fragments, TailOnly
<1> QED
  BY <1>1 DEF TornInv

\* A fault is the end of what TornInv says of wal.log.
LEMMA FailedTorn ==
  ASSUME TornInv, PathInv', faults' > 0, pc' = "closed" \/ op' = "open" => walbuf' = <<>>
  PROVE  TornInv'
BY DEF TornInv

\* Every step keeps TornInv.
LEMMA NextTornInv == TornInv /\ [Next]_vars => TornInv'
<1> SUFFICES ASSUME TornInv, [Next]_vars PROVE TornInv'
  OBVIOUS
<1>1. PathInv'
  BY NextPathInv DEF TornInv
<1>2. CASE UNCHANGED vars \/ OpenFails
  BY <1>1, <1>2 DEF OpenFails, vars, disk, memory, call, bounds, TornInv
<1>3. wal \in Seq(Record) /\ walbuf \in Seq(Record)
  BY Typing DEF TornInv, PathInv
<1>4. Fragments(<<>>) = {} /\ TailOnly(<<>>)
  BY DEF Fragments, TailOnly
<1>5. ASSUME NEW w, Fragments(w) = {} PROVE TailOnly(w)
  BY <1>5 DEF TailOnly
<1>6. CASE Open \/ ReplayRecord \/ ReplayPoints \/ ReplayEnds
  <2>1. pc = "closed" \/ (pc = "replay" /\ op = "open")
    BY <1>6 DEF Open, ReplayRecord, ReplayPoints, ReplayEnds, TornInv, PathInv, TypeInv, CallOK
  <2>2. UNCHANGED <<wal, crashes, faults>> /\ (walbuf' = walbuf \/ walbuf' = <<>>)
    BY <1>6 DEF Open, ReplayRecord, ReplayPoints, ReplayEnds, Forget, disk, memory, bounds
  <2> QED
    BY <1>1, <2>1, <2>2, QuietTorn
<1>7. CASE StartCall
  <2>1. /\ pc = "idle" /\ pc' # "closed" /\ UNCHANGED <<wal, walbuf, crashes, faults>>
        /\ op' # "open"
    BY <1>7, StoreAssumption
       DEF StartCall, CreateSeries, StartAppend, SetDurability, StartFlush, StartFlushAll, Call, Goto,
           disk, memory, call, bounds, TornInv, PathInv, TypeInv, CallOK
  <2> QED
    BY <1>1, <2>1, QuietTorn
<1>8. CASE Chunk \/ Place \/ AppendDone \/ FlushSeries \/ NextSeries \/ AppendBlock
  <2>1. /\ pc \notin {"closed", "broken"} /\ pc' # "closed" /\ UNCHANGED <<wal, walbuf, crashes, faults>>
        /\ op' = op \/ op' = "none"
    BY <1>8 DEF Chunk, Place, AppendDone, FlushSeries, NextSeries, AppendBlock, Goto, Return, disk, memory, call, bounds
  <2> QED
    BY <1>1, <2>1, QuietTorn
<1>9. CASE Log
  <2>1. /\ pc = "log" /\ pc' \in {"sync", "place"} /\ walbuf' = Append(walbuf, NextRecord)
        /\ UNCHANGED <<wal, op, crashes, faults>>
    BY <1>9 DEF Log, Goto, disk, call, bounds
  <2>2. op = "append" /\ target \in Series
    BY <2>1 DEF TornInv, PathInv, TypeInv, CallOK
  <2>3. NextRecord \in Record /\ IsWhole(NextRecord)
    BY <2>2, ChunkFits, RecordType, NewItemsAreWhole DEF TornInv, PathInv, TypeInv, NextRecord
  <2>4. Fragments(walbuf) = {} => Fragments(walbuf') = {}
    BY <1>3, <2>1, <2>3, WholeAppend
  <2> QED
    BY <1>1, <2>1, <2>2, <2>4 DEF TornInv
<1>10. CASE WalFlush
  <2>1. /\ pc \in {"spill", "sync", "seal", "switch"} /\ wal' = wal \o walbuf /\ walbuf' = <<>>
        /\ pc' \notin {"closed", "broken"} /\ UNCHANGED <<crashes, faults>>
        /\ op' = op \/ op' = "none"
    BY <1>10 DEF WalFlush, AfterWalFlush, Goto, Return, call, bounds
  <2>2. op = "open" => wal' = wal
    BY <1>3, <2>1, ConcatEmptySeq DEF TornInv
  <2>3. faults = 0 /\ crashes = 0 => Fragments(wal') = {}
    BY <1>3, <2>1, WholeConcat DEF TornInv
  <2> QED
    BY <1>1, <1>4, <1>5, <2>1, <2>2, <2>3 DEF TornInv
<1>11. CASE TruncateWal
  <2>1. /\ wal' = <<>> /\ walbuf' = <<>>
    BY <1>11 DEF TruncateWal
  <2> QED
    BY <1>1, <1>4, <2>1 DEF TornInv
<1>12. CASE RewriteWal
  <2> DEFINE r == registry[cursor]
             record == WalRecord(r, buffer[r])
  <2>1. /\ pc = "rewrite" /\ r \in Series /\ wal' = IF buffer[r] = <<>> THEN wal ELSE Append(wal, record)
        /\ UNCHANGED <<walbuf, pc, op, crashes, faults>>
    BY <1>12, Typing, ElementOfSeq DEF RewriteWal, memory, bounds, TornInv, PathInv
  <2>2. record \in Record /\ IsWhole(record)
    BY <2>1, RecordType, Typing, NewItemsAreWhole DEF TornInv, PathInv
  <2> HIDE DEF r, record
  <2>3. Fragments(wal) = {} => Fragments(wal') = {}
    BY <1>3, <2>1, <2>2, WholeAppend
  <2>4. op # "open"
    BY <2>1 DEF TornInv, PathInv, PathOK, Bulk
  <2> QED
    BY <1>1, <1>5, <2>1, <2>3, <2>4 DEF TornInv
<1>13. CASE RewriteEnds
  <2>1. pc = "rewrite" /\ op # "open" /\ UNCHANGED <<wal, crashes, faults>>
    BY <1>13 DEF RewriteEnds, Forget, disk, bounds, TornInv, PathInv, PathOK, Bulk
  <2>2. walbuf' = walbuf \/ walbuf' = <<>>
    BY <1>13 DEF RewriteEnds, Forget, memory
  <2>3. pc' = "closed" => op = "close" /\ wal = <<>> /\ walbuf' = <<>>
    BY <1>13, <2>1 DEF RewriteEnds, Return, Goto, Forget, TornInv, PathInv, EmptiedOK, Bulk
  <2>4. op' # "open"
    BY <1>13, <2>1 DEF RewriteEnds, Return, Forget
  <2> QED
    BY <1>1, <2>1, <2>2, <2>3, <2>4, QuietTorn
<1>14. CASE UnlinkSegment \/ RemoveDirectory
  <2>1. /\ pc \in {"unlink", "rmdir"} /\ pc' \notin {"closed", "broken"} /\ op' \in {op, "none"}
        /\ UNCHANGED <<wal, walbuf, crashes>>
        /\ faults' = faults \/ faults' = faults + 1
    BY <1>14 DEF UnlinkSegment, RemoveDirectory, Goto, Return, memory, call, bounds
  <2>2. op = "delete" /\ faults \in Nat
    BY <2>1, StoreAssumption DEF TornInv, PathInv, PathOK, TypeInv, TypeOK
  <2>3. CASE faults' = faults
    BY <1>1, <2>1, <2>2, <2>3, QuietTorn
  <2>4. CASE faults' = faults + 1
    BY <1>1, <2>1, <2>2, <2>4, FailedTorn
  <2> QED
    BY <2>1, <2>3, <2>4
<1>15. CASE (\E s \in Series : CreateFails(s)) \/ Fault
  <2>1. faults \in Nat /\ faults' = faults + 1
    BY <1>15, StoreAssumption DEF CreateFails, Fault, TornInv, PathInv, TypeInv, TypeOK
  <2>2. pc' = "closed" \/ op' = "open" => walbuf' = <<>>
    BY <1>15 DEF CreateFails, Fault, Return, Forget, call, TornInv
  <2> QED
    BY <1>1, <2>1, <2>2, FailedTorn
<1>16. CASE Crash
  <2>1. /\ pc' = "closed" /\ op' = "none" /\ walbuf' = <<>> /\ wal' = wal
        /\ crashes' = crashes + 1 /\ faults' = faults /\ crashes \in Nat
    BY <1>16, StoreAssumption DEF Crash, Forget, disk, TornInv, PathInv, TypeInv, TypeOK
  <2> QED
    BY <1>1, <1>4, <2>1 DEF TornInv
<1>17. CASE PartialWrite
  <2>1. /\ pc' = "broken" /\ UNCHANGED <<walbuf, op, crashes, faults>>
    BY <1>17 DEF PartialWrite, Goto, memory, call, bounds
  <2>2. pc \notin {"broken", "closed"}
    BY <1>17 DEF PartialWrite, AfterWalFlush
  <2>3. faults = 0 /\ crashes = 0 => Fragments(wal) = {} /\ Fragments(walbuf) = {}
    BY <2>2 DEF TornInv
  <2>4. CASE wal' = wal
    BY <1>1, <2>1, <2>2, <2>4 DEF TornInv
  <2>5. CASE walbuf # <<>> /\ \E part \in PartialWrites(walbuf) : wal' = wal \o part
    <3>1. op # "open"
      BY <2>5 DEF TornInv
    <3>2. faults = 0 /\ crashes = 0 => TailOnly(wal')
      BY <1>3, <2>3, <2>5, PartialTail
    <3> QED
      BY <1>1, <2>1, <3>1, <3>2 DEF TornInv
  <2>6. CASE /\ pc = "rewrite" /\ cursor <= Len(registry)
             /\ \E part \in PartialWrites(<<WalRecord(registry[cursor], buffer[registry[cursor]])>>) :
                  wal' = wal \o part
    <3> DEFINE r == registry[cursor]
               record == WalRecord(r, buffer[r])
               items == <<record>>
    <3>1. r \in Series
      BY <2>6, Typing, ElementOfSeq DEF TornInv, PathInv
    <3>2. record \in Record /\ IsWhole(record)
      BY <3>1, RecordType, Typing, NewItemsAreWhole DEF TornInv, PathInv
    <3> HIDE DEF record
    <3>3. items \in Seq(Record) /\ Len(items) = 1 /\ items[1] = record
      BY <3>2
    <3>4. PICK part \in PartialWrites(items) : wal' = wal \o part
      BY <2>6 DEF record
    <3> HIDE DEF items
    <3>5. Fragments(items) = {}
      BY <3>2, <3>3 DEF Fragments
    <3>6. faults = 0 /\ crashes = 0 => TailOnly(wal')
      BY <1>3, <2>3, <3>3, <3>4, <3>5, PartialTail
    <3>7. op # "open"
      BY <2>6 DEF TornInv, PathInv, PathOK, Bulk
    <3> QED
      BY <1>1, <2>1, <3>6, <3>7 DEF TornInv
  <2> QED
    BY <1>17, <2>4, <2>5, <2>6 DEF PartialWrite
<1> QED
  BY <1>2, <1>6, <1>7, <1>8, <1>9, <1>10, <1>11, <1>12, <1>13, <1>14, <1>15, <1>16, <1>17
     DEF Next, Continue, Environment

\* A database that crashed once, wherever it was and however its last write was
\* cut short, is not refused for its wal.log: tsedge_wal_replay takes the fragment
\* for the end of the file.
THEOREM OneCrashIsAccepted == Spec => []TornTailAccepted
<1>1. Init => TornInv
  <2> SUFFICES ASSUME Init PROVE TornInv
    OBVIOUS
  <2>1. Fragments(<<>>) = {} /\ TailOnly(<<>>)
    BY DEF Fragments, TailOnly
  <2> QED
    BY <2>1, InitPathInv DEF Init, TornInv
<1>2. TornInv => TornTailAccepted
  <2> SUFFICES ASSUME TornInv, pc = "closed", crashes <= 1, faults = 0 PROVE ~WalCorrupt(wal)
    BY DEF TornTailAccepted
  <2>1. crashes \in Nat /\ wal \in Seq(Record)
    BY Typing, StoreAssumption DEF TornInv, PathInv, TypeInv, TypeOK
  <2>2. TailOnly(wal)
    BY <2>1 DEF TornInv
  <2> QED
    BY <2>1, <2>2, TailAccepted
<1> QED
  BY <1>1, <1>2, NextTornInv, PTL DEF Spec

-----------------------------------------------------------------------------
(***************************************************************************)
(* The proof that the WAL is truncated only when nothing is lost by it:    *)
(* KeepsAcknowledged, for a file system that writes an item or does not    *)
(* (TornWrites = FALSE), with any number of crashes and of failures.       *)
(*                                                                         *)
(* The argument.  Truncation drops wal.log and the WAL buffer, so every    *)
(* acknowledged point in either of them has to be in a block or in a       *)
(* buffer (Covered).  While a database is open that is so because a point  *)
(* is acknowledged at the return of a call that has put it in its buffer   *)
(* (PendingHeld), and because the points of a record that was logged and   *)
(* never got that far stay pending (RestPending).  A crash forgets the     *)
(* buffers, so Covered is false while the database is opened; the replay   *)
(* makes it true again, record by record (ReplayHeld).                     *)
(***************************************************************************)

CallShape ==
  /\ op = "open" => pc \in {"replay", "seal", "block"}
  /\ pc = "flush" => op = "flush"
  /\ pc \in {"unlink", "rmdir"} => op \notin {"append", "open"}
  /\ pc \in {"idle", "closed"} => cursor = 1
  /\ pc = "closed" => walbuf = <<>>

Unbroken ==
  /\ pc # "broken"
  /\ Fragments(wal) = {}
  /\ Fragments(walbuf) = {}
  /\ \A s \in Series : Fragments(blocks[s]) = {}

Covered ==
  pc # "closed" /\ op # "open" =>
    \A s \in Series : \A n \in Acknowledged(s) : n \in Logged(s) => n \in Held(s)

PendingHeld ==
  \A s \in Series : \A n \in PointsOf(s, {"pending"}) :
    op = "append" /\ s = target /\ (n \in Range(rest) \/ n \in Held(s))

RestPending ==
  op = "append" => \A n \in Range(rest) : n \in PointsOf(target, {"pending"})

ReplayHeld ==
  op = "open" =>
    /\ walbuf = <<>>
    /\ \A i \in 1..Len(wal) : i < cursor =>
         \A n \in Range(wal[i].points) :
           n \in Held(wal[i].series) \/ (wal[i].series = target /\ n \in Range(rest))

KeepInv ==
  /\ TypeInv /\ CallShape /\ Unbroken
  /\ Covered /\ PendingHeld /\ RestPending /\ ReplayHeld

-----------------------------------------------------------------------------

\* An empty file has no fragments.
LEMMA EmptyHasNoFragments == Fragments(<<>>) = {}
BY DEF Fragments

\* The initial state satisfies the invariant.
LEMMA InitKeepInv == Init => KeepInv
<1> SUFFICES ASSUME Init PROVE KeepInv
  OBVIOUS
<1>1. TypeInv
  BY InitTypeInv
<1>2. CallShape
  BY DEF Init, CallShape
<1>3. Unbroken
  BY EmptyType, EmptyHasNoFragments DEF Init, Unbroken
<1>4. Covered /\ RestPending /\ ReplayHeld
  BY DEF Init, Covered, RestPending, ReplayHeld
<1>5. PendingHeld
  <2>1. \A s \in Series : PointsOf(s, {"pending"}) = {}
    BY EmptyType DEF Init, PointsOf
  <2> QED
    BY <2>1 DEF PendingHeld
<1> QED
  BY <1>1, <1>2, <1>3, <1>4, <1>5 DEF KeepInv

\* A step that leaves the files, the buffers and the fates alone.
LEMMA QuietKeepInv ==
  ASSUME KeepInv, TypeInv', CallShape', pc' # "broken",
         UNCHANGED <<wal, walbuf, blocks, buffer, fate>>,
         op' # "open" => op # "open" /\ pc # "closed",
         \/ UNCHANGED <<op, target, rest>>
         \/ op # "append" /\ op' # "append",
         op' = "open" => cursor' = 1 /\ walbuf = <<>>
  PROVE  KeepInv'
<1>1. Unbroken'
  BY DEF KeepInv, Unbroken
<1>2. Covered'
  BY DEF KeepInv, Covered, Acknowledged, PointsOf, Logged, Held
<1>3. PendingHeld'
  BY DEF KeepInv, PendingHeld, PointsOf, Held
<1>4. RestPending'
  BY DEF KeepInv, RestPending, PointsOf
<1>5. ReplayHeld'
  <2>1. \A i \in 1..Len(wal') : op' = "open" => ~(i < cursor')
    OBVIOUS
  <2> QED
    BY <2>1 DEF ReplayHeld
<1> QED
  BY <1>1, <1>2, <1>3, <1>4, <1>5 DEF KeepInv

\* A call returns: what was pending is rejected, or acknowledged and held.
LEMMA ReturnKeepInv ==
  ASSUME KeepInv, TypeInv', NEW r, Return(r), pc # "closed",
         r = "ok" => op # "append" \/ rest = <<>>,
         UNCHANGED <<blocks, buffer>>,
         Fragments(wal') = {}, Fragments(walbuf') = {},
         \A s \in Series : Logged(s)' \subseteq Logged(s),
         op = "open" => rest = <<>> /\ cursor > Len(wal)
  PROVE  KeepInv'
<1>1. /\ pc' = "idle" /\ op' = "none" /\ target' = NoSeries
      /\ rest' = <<>> /\ cursor' = 1
  BY DEF Return
<1>2. CallShape' /\ Unbroken' /\ RestPending' /\ ReplayHeld'
  BY <1>1 DEF KeepInv, CallShape, Unbroken, RestPending, ReplayHeld
<1>3. ASSUME NEW s \in Series
      PROVE  /\ Len(fate'[s]) = Len(fate[s])
             /\ \A n \in 1..Len(fate[s]) : fate'[s][n] = FateAtReturn(r, s, n)
  <2>1. fate[s] \in Seq(Fates)
    BY <1>3, Typing DEF KeepInv
  <2>2. fate'[s] = [n \in 1..Len(fate[s]) |-> FateAtReturn(r, s, n)]
    BY <1>3 DEF Return
  <2> QED
    BY <2>1, <2>2
<1>4. ASSUME NEW s \in Series, NEW n \in Acknowledged(s)'
      PROVE  n \in Acknowledged(s) \/ n \in Held(s)
  <2>1. n \in 1..Len(fate[s]) /\ FateAtReturn(r, s, n) \in {"accepted", "durable"}
    BY <1>3, <1>4 DEF Acknowledged, PointsOf
  <2>2. CASE fate[s][n] = "pending"
    <3>1. n \notin Range(rest)
      <4>1. op = "append"
        BY <1>4, <2>1, <2>2 DEF KeepInv, PendingHeld, PointsOf
      <4>2. CASE r = "ok"
        BY <4>1, <4>2, RangeEmpty
      <4>3. CASE r # "ok"
        BY <2>1, <2>2, <4>3 DEF FateAtReturn
      <4> QED
        BY <4>2, <4>3
    <3> QED
      BY <1>4, <2>1, <2>2, <3>1 DEF KeepInv, PendingHeld, PointsOf
  <2>3. CASE fate[s][n] # "pending"
    <3>1. fate[s][n] \in {"accepted", "durable"}
      BY <2>1, <2>3 DEF FateAtReturn
    <3> QED
      BY <2>1, <3>1 DEF Acknowledged, PointsOf
  <2> QED
    BY <2>2, <2>3
<1>5. Covered'
  <2> SUFFICES ASSUME NEW s \in Series, NEW n \in Acknowledged(s)', n \in Logged(s)'
               PROVE  n \in Held(s)
    BY DEF Covered, Held
  <2>1. n \in Logged(s)
    OBVIOUS
  <2>2. CASE op = "open"
    <3>1. walbuf = <<>> /\ n \in InLog(wal, s)
      BY <2>1, <2>2, InLogEmpty DEF KeepInv, ReplayHeld, Logged
    <3>2. PICK i \in 1..Len(wal) : wal[i].series = s /\ n \in Range(wal[i].points)
      BY <3>1, InLogMember
    <3>3. i < cursor /\ Range(rest) = {}
      <4>1. Len(wal) \in Nat /\ cursor \in Nat
        BY Typing DEF KeepInv
      <4> QED
        BY <2>2, <4>1, RangeEmpty
    <3> QED
      BY <2>2, <3>2, <3>3 DEF KeepInv, ReplayHeld
  <2>3. CASE op # "open"
    BY <1>4, <2>1, <2>3 DEF KeepInv, Covered
  <2> QED
    BY <2>2, <2>3
<1>6. PendingHeld'
  <2> SUFFICES ASSUME NEW s \in Series, NEW n \in PointsOf(s, {"pending"})' PROVE FALSE
    BY DEF PendingHeld
  <2>1. n \in 1..Len(fate[s]) /\ FateAtReturn(r, s, n) = "pending"
    BY <1>3 DEF PointsOf
  <2> QED
    BY <2>1 DEF FateAtReturn
<1> QED
  BY <1>2, <1>5, <1>6 DEF KeepInv


\* The tsedge_db object goes away.
LEMMA ForgetKeepInv ==
  ASSUME KeepInv, TypeInv', Forget
  PROVE  KeepInv'
<1>1. /\ pc' = "closed" /\ op' = "none" /\ cursor' = 1 /\ walbuf' = <<>>
      /\ UNCHANGED <<wal, blocks>>
  BY DEF Forget, disk
<1>2. CallShape' /\ Unbroken' /\ Covered' /\ RestPending' /\ ReplayHeld'
  BY <1>1, EmptyHasNoFragments
     DEF KeepInv, CallShape, Unbroken, Covered, RestPending, ReplayHeld
<1>3. PendingHeld'
  <2> SUFFICES ASSUME NEW s \in Series, NEW n \in PointsOf(s, {"pending"})' PROVE FALSE
    BY DEF PendingHeld
  <2>1. fate[s] \in Seq(Fates)
    BY Typing DEF KeepInv
  <2>2. fate'[s] = [m \in 1..Len(fate[s]) |-> FateAtEnd(s, m)]
    BY DEF Forget
  <2>3. n \in 1..Len(fate[s]) /\ FateAtEnd(s, n) = "pending"
    BY <2>1, <2>2 DEF PointsOf
  <2> QED
    BY <2>3 DEF FateAtEnd
<1> QED
  BY <1>2, <1>3 DEF KeepInv

\* Open keeps the invariant.
LEMMA OpenKeepInv == KeepInv /\ TypeInv' /\ Open => KeepInv'
<1> SUFFICES ASSUME KeepInv, TypeInv', Open PROVE KeepInv'
  OBVIOUS
<1>1. /\ pc = "closed" /\ pc' = "replay" /\ op' = "open"
      /\ UNCHANGED <<wal, walbuf, blocks, buffer, fate, target, rest, cursor>>
  BY DEF Open, Goto, disk
<1>2. op = "none" /\ cursor = 1 /\ walbuf = <<>>
  BY <1>1 DEF KeepInv, TypeInv, CallOK, CallShape
<1>3. CallShape'
  BY <1>1 DEF CallShape
<1>4. Unbroken' /\ Covered' /\ RestPending'
  BY <1>1 DEF KeepInv, Unbroken, Covered, RestPending
<1>5. PendingHeld'
  BY <1>1, <1>2 DEF KeepInv, PendingHeld, PointsOf
<1>6. ReplayHeld'
  <2>1. \A i \in 1..Len(wal) : ~(i < 1)
    OBVIOUS
  <2> QED
    BY <1>1, <1>2, <2>1 DEF ReplayHeld
<1> QED
  BY <1>3, <1>4, <1>5, <1>6 DEF KeepInv

\* ReplayRecord keeps the invariant.
LEMMA ReplayRecordKeepInv == KeepInv /\ TypeInv' /\ ReplayRecord => KeepInv'
<1> SUFFICES ASSUME KeepInv, TypeInv', ReplayRecord PROVE KeepInv'
  OBVIOUS
<1> DEFINE s == wal[cursor].series
           pts == wal[cursor].points
<1>1. /\ pc = "replay" /\ pc' = pc /\ op' = op /\ rest = <<>>
      /\ target' = s /\ rest' = pts /\ cursor' = cursor + 1
      /\ UNCHANGED <<wal, walbuf, blocks, buffer, fate>>
  BY DEF ReplayRecord
<1>2. op = "open"
  BY <1>1 DEF KeepInv, TypeInv, CallOK
<1>3. CallShape' /\ Unbroken' /\ Covered' /\ RestPending'
  BY <1>1, <1>2 DEF KeepInv, CallShape, Unbroken, Covered, RestPending
<1>4. PendingHeld'
  BY <1>1, <1>2 DEF KeepInv, PendingHeld, PointsOf
<1>5. ReplayHeld'
  <2> SUFFICES ASSUME NEW i \in 1..Len(wal), i < cursor + 1, NEW n \in Range(wal[i].points)
               PROVE  n \in Held(wal[i].series) \/ (wal[i].series = s /\ n \in Range(pts))
    BY <1>1, <1>2 DEF KeepInv, ReplayHeld, Held
  <2>1. CASE i < cursor
    <3>1. Range(rest) = {}
      BY <1>1, RangeEmpty
    <3> QED
      BY <1>2, <2>1, <3>1 DEF KeepInv, ReplayHeld
  <2>2. CASE ~(i < cursor)
    <3>1. i = cursor
      BY <2>2, Typing DEF KeepInv
    <3> QED
      BY <3>1
  <2> QED
    BY <2>1, <2>2
<1> QED
  BY <1>3, <1>4, <1>5 DEF KeepInv

\* ReplayPoints keeps the invariant.
LEMMA ReplayPointsKeepInv == KeepInv /\ TypeInv' /\ ReplayPoints => KeepInv'
<1> SUFFICES ASSUME KeepInv, TypeInv', ReplayPoints PROVE KeepInv'
  OBVIOUS
<1>1. /\ pc = "replay" /\ rest # <<>> /\ UNCHANGED <<wal, blocks, walbuf, op, target, cursor, fate>>
  BY DEF ReplayPoints, disk
<1>2. op = "open" /\ target \in Series /\ pc' \in {"replay", "seal"}
  BY <1>1 DEF ReplayPoints, Goto, KeepInv, TypeInv, CallOK
<1>3. CallShape' /\ Unbroken' /\ Covered' /\ RestPending'
  BY <1>1, <1>2 DEF KeepInv, CallShape, Unbroken, Covered, RestPending
<1>4. PendingHeld'
  BY <1>1, <1>2 DEF KeepInv, PendingHeld, PointsOf
<1>5. CASE BufferFull
  <2>1. UNCHANGED <<buffer, rest>>
    BY <1>5 DEF ReplayPoints
  <2>2. ReplayHeld'
    BY <1>1, <2>1 DEF KeepInv, ReplayHeld, Held
  <2> QED
    BY <1>3, <1>4, <2>2 DEF KeepInv
<1>6. CASE ~BufferFull
  <2>1. /\ buffer' = [buffer EXCEPT ![target] = @ \o SubSeq(rest, 1, ChunkLength)]
        /\ rest' = SubSeq(rest, ChunkLength + 1, Len(rest))
    BY <1>6 DEF ReplayPoints
  <2>2. /\ \A s \in Series : Held(s) \subseteq Held(s)'
        /\ \A n \in Range(rest) : n \in Range(rest') \/ n \in Held(target)'
    BY <1>1, <1>2, <2>1, ChunkIsHeld DEF KeepInv
  <2>3. ReplayHeld'
    <3> SUFFICES ASSUME NEW i \in 1..Len(wal), i < cursor, NEW n \in Range(wal[i].points)
                 PROVE  n \in Held(wal[i].series)' \/ (wal[i].series = target /\ n \in Range(rest'))
      BY <1>1, <1>2 DEF KeepInv, ReplayHeld, Held
    <3>1. n \in Held(wal[i].series) \/ (wal[i].series = target /\ n \in Range(rest))
      BY <1>2 DEF KeepInv, ReplayHeld
    <3>2. wal[i].series \in Series
      <4>1. wal[i] \in Record
        BY Typing, ElementOfSeq DEF KeepInv
      <4> QED
        BY <4>1 DEF Record
    <3>3. CASE n \in Held(wal[i].series)
      <4>1. PICK s \in Series : s = wal[i].series
        BY <3>2
      <4>2. n \in Held(s)'
        BY <2>2, <3>3, <4>1
      <4>3. Held(wal[i].series)' = Held(s)'
        BY <1>1, <4>1 DEF Held
      <4> QED
        BY <4>2, <4>3
    <3>4. CASE wal[i].series = target /\ n \in Range(rest)
      BY <1>1, <2>2, <3>4
    <3> QED
      BY <3>1, <3>3, <3>4
  <2> QED
    BY <1>3, <1>4, <2>3 DEF KeepInv
<1> QED
  BY <1>5, <1>6

\* ReplayEnds keeps the invariant.
LEMMA ReplayEndsKeepInv == KeepInv /\ TypeInv' /\ ReplayEnds => KeepInv'
<1> SUFFICES ASSUME KeepInv, TypeInv', ReplayEnds PROVE KeepInv'
  OBVIOUS
<1>1. CASE WalCorrupt(wal)
  BY <1>1, ForgetKeepInv DEF ReplayEnds
<1>2. CASE ~WalCorrupt(wal)
  <2>1. /\ pc = "replay" /\ rest = <<>> /\ Return("ok")
        /\ UNCHANGED <<wal, walbuf, blocks, buffer>>
    BY <1>2 DEF ReplayEnds, disk, memory
  <2>2. cursor > Len(wal)
    BY NoFragments DEF ReplayEnds, KeepInv, Unbroken
  <2>3. \A s \in Series : Logged(s)' \subseteq Logged(s)
    BY <2>1 DEF Logged
  <2>4. Fragments(wal') = {} /\ Fragments(walbuf') = {}
    BY <2>1 DEF KeepInv, Unbroken
  <2> QED
    BY <2>1, <2>2, <2>3, <2>4, ReturnKeepInv
<1> QED
  BY <1>1, <1>2

\* The steps between the interesting ones.
LEMMA QuietStepsKeepInv ==
  /\ KeepInv /\ TypeInv' /\ (\E s \in Series : CreateSeries(s) \/ CreateFails(s)) => KeepInv'
  /\ KeepInv /\ TypeInv' /\ Chunk => KeepInv'
  /\ KeepInv /\ TypeInv' /\ (\E mode \in Selected : SetDurability(mode)) => KeepInv'
  /\ KeepInv /\ TypeInv' /\ (\E s \in Series : StartFlush(s)) => KeepInv'
  /\ KeepInv /\ TypeInv' /\ (\E name \in {"flush_all", "close", "delete"}, s \in Series \union {NoSeries} :
                               StartFlushAll(name, s)) => KeepInv'
  /\ KeepInv /\ TypeInv' /\ NextSeries => KeepInv'
<1>1. KeepInv => (pc = "idle" => op = "none" /\ rest = <<>> /\ cursor = 1)
  BY DEF KeepInv, TypeInv, CallOK, CallShape
<1>2. ASSUME KeepInv, TypeInv', NEW s \in Series, CreateSeries(s) \/ CreateFails(s) PROVE KeepInv'
  <2>1. pc = "idle" /\ UNCHANGED <<wal, blocks, walbuf, buffer, pc, op, target, rest, cursor, fate>>
    BY <1>2 DEF CreateSeries, CreateFails, call
  <2>2. CallShape'
    BY <1>2, <2>1 DEF KeepInv, CallShape
  <2> QED
    BY <1>1, <1>2, <2>1, <2>2, QuietKeepInv
<1>3. ASSUME KeepInv, TypeInv', Chunk PROVE KeepInv'
  <2>1. /\ pc = "chunk" /\ pc' \in {"seal", "spill", "log"}
        /\ UNCHANGED <<wal, blocks, walbuf, buffer, op, target, rest, cursor, fate>>
    BY <1>3 DEF Chunk, Goto, disk, memory, call
  <2>2. op = "append"
    BY <1>3, <2>1 DEF KeepInv, TypeInv, CallOK
  <2>3. CallShape'
    BY <2>1, <2>2 DEF CallShape
  <2> QED
    BY <1>3, <2>1, <2>2, <2>3, QuietKeepInv
<1>4. ASSUME KeepInv, TypeInv', NEW mode \in Selected, SetDurability(mode) PROVE KeepInv'
  <2>1. /\ pc = "idle" /\ pc' = "switch" /\ op' = mode
        /\ UNCHANGED <<wal, blocks, walbuf, buffer, target, rest, cursor, fate>>
    BY <1>4 DEF SetDurability, Goto, disk, memory
  <2>2. mode \in {"FAST", "BALANCED", "STRICT"}
    BY StoreAssumption
  <2>3. CallShape'
    BY <2>1, <2>2 DEF CallShape
  <2> QED
    BY <1>1, <1>4, <2>1, <2>2, <2>3, QuietKeepInv
<1>5. ASSUME KeepInv, TypeInv', NEW s \in Series, StartFlush(s) PROVE KeepInv'
  <2>1. /\ pc = "idle" /\ pc' = "flush" /\ op' = "flush"
        /\ UNCHANGED <<wal, blocks, walbuf, buffer, rest, cursor, fate>>
    BY <1>5 DEF StartFlush, Call, Goto, disk, memory
  <2>2. CallShape'
    BY <2>1 DEF CallShape
  <2> QED
    BY <1>1, <1>5, <2>1, <2>2, QuietKeepInv
<1>6. ASSUME KeepInv, TypeInv', NEW name \in {"flush_all", "close", "delete"}, NEW s \in Series \union {NoSeries},
             StartFlushAll(name, s)
      PROVE  KeepInv'
  <2>1. /\ pc = "idle" /\ pc' = "next" /\ op' = name
        /\ UNCHANGED <<wal, blocks, walbuf, buffer, rest, cursor, fate>>
    BY <1>6 DEF StartFlushAll, Call, Goto, disk, memory
  <2>2. CallShape'
    BY <2>1 DEF CallShape
  <2> QED
    BY <1>1, <1>6, <2>1, <2>2, QuietKeepInv
<1>7. ASSUME KeepInv, TypeInv', NextSeries PROVE KeepInv'
  <2>1. /\ pc = "next" /\ pc' \in {"truncate", "seal", "next"}
        /\ UNCHANGED <<wal, blocks, walbuf, buffer, op, target, rest, fate>>
    BY <1>7 DEF NextSeries, Goto, disk, memory
  <2>2. op # "open"
    BY <1>7, <2>1 DEF KeepInv, CallShape
  <2>3. CallShape'
    BY <2>1, <2>2 DEF CallShape
  <2> QED
    BY <1>7, <2>1, <2>2, <2>3, QuietKeepInv
<1> QED
  BY <1>2, <1>3, <1>4, <1>5, <1>6, <1>7

\* StartAppend keeps the invariant.
LEMMA StartAppendKeepInv ==
  KeepInv /\ TypeInv' /\ (\E s \in Series, n \in 1..MaxBatch : StartAppend(s, n)) => KeepInv'
<1> SUFFICES ASSUME KeepInv, TypeInv', NEW s \in Series, NEW k \in 1..MaxBatch, StartAppend(s, k)
             PROVE  KeepInv'
  OBVIOUS
<1>1. /\ pc = "idle" /\ pc' = "chunk" /\ op' = "append" /\ target' = s /\ cursor' = cursor
      /\ UNCHANGED <<wal, blocks, walbuf, buffer>>
  BY DEF StartAppend, Call, Goto, disk, memory
<1>2. op = "none" /\ k \in Nat /\ fate[s] \in Seq(Fates) /\ Len(fate[s]) \in Nat
  BY <1>1, Typing, StoreAssumption DEF KeepInv, TypeInv, CallOK
<1>3. /\ Len(fate'[s]) = Len(fate[s]) + k
      /\ \A n \in 1..(Len(fate[s]) + k) :
           fate'[s][n] = IF n <= Len(fate[s]) THEN fate[s][n] ELSE "pending"
  BY HandedOver DEF KeepInv
<1>4. \A x \in Series : x # s => fate'[x] = fate[x]
  BY HandedOver DEF KeepInv
<1>5. \A n \in Range(rest') : n \in 1..(Len(fate[s]) + k) /\ ~(n <= Len(fate[s]))
  BY HandedOver DEF KeepInv
<1>6. \A n : n \in 1..(Len(fate[s]) + k) /\ ~(n <= Len(fate[s])) => n \in Range(rest')
  BY HandedOver DEF KeepInv
<1>7. CallShape' /\ Unbroken' /\ ReplayHeld'
  BY <1>1 DEF KeepInv, CallShape, Unbroken, ReplayHeld
<1>8. \A x \in Series : PointsOf(x, {"pending"}) = {}
  BY <1>2 DEF KeepInv, PendingHeld
<1>9. Covered'
  <2> SUFFICES ASSUME NEW x \in Series, NEW n \in Acknowledged(x)', n \in Logged(x)'
               PROVE  n \in Held(x)'
    BY DEF Covered
  <2>1. n \in Acknowledged(x)
    <3>1. CASE x = s
      BY <1>2, <1>3, <3>1 DEF Acknowledged, PointsOf
    <3>2. CASE x # s
      BY <1>4, <3>2 DEF Acknowledged, PointsOf
    <3> QED
      BY <3>1, <3>2
  <2>2. n \in Logged(x)
    BY <1>1 DEF Logged
  <2>3. n \in Held(x)
    BY <1>1, <1>2, <2>1, <2>2 DEF KeepInv, Covered
  <2> QED
    BY <1>1, <2>3 DEF Held
<1>10. PendingHeld'
  <2> SUFFICES ASSUME NEW x \in Series, NEW n \in PointsOf(x, {"pending"})'
               PROVE  x = s /\ n \in Range(rest')
    BY <1>1 DEF PendingHeld
  <2>1. CASE x # s
    <3>1. n \in PointsOf(x, {"pending"})
      BY <1>4, <2>1 DEF PointsOf
    <3> QED
      BY <1>8, <3>1
  <2>2. CASE x = s
    <3>1. n \in 1..(Len(fate[s]) + k) /\ fate'[s][n] = "pending"
      BY <1>3, <2>2 DEF PointsOf
    <3>2. ~(n <= Len(fate[s]))
      <4> SUFFICES ASSUME n <= Len(fate[s]) PROVE FALSE
        OBVIOUS
      <4>1. n \in 1..Len(fate[s]) /\ fate[s][n] = "pending"
        BY <1>2, <1>3, <3>1
      <4>2. n \in PointsOf(s, {"pending"})
        BY <4>1 DEF PointsOf
      <4> QED
        BY <1>8, <4>2
    <3> QED
      BY <1>6, <2>2, <3>1, <3>2
  <2> QED
    BY <2>1, <2>2
<1>11. RestPending'
  <2> SUFFICES ASSUME NEW n \in Range(rest') PROVE n \in PointsOf(target, {"pending"})'
    BY DEF RestPending
  <2>1. n \in 1..Len(fate'[s]) /\ fate'[s][n] = "pending"
    BY <1>3, <1>5
  <2> QED
    BY <1>1, <2>1 DEF PointsOf
<1> QED
  BY <1>7, <1>9, <1>10, <1>11 DEF KeepInv

\* Log keeps the invariant.
LEMMA LogKeepInv == KeepInv /\ TypeInv' /\ Log => KeepInv'
<1> SUFFICES ASSUME KeepInv, TypeInv', Log PROVE KeepInv'
  OBVIOUS
<1> DEFINE chunk == SubSeq(rest, 1, ChunkLength)
<1>1. /\ pc = "log" /\ pc' \in {"sync", "place"} /\ walbuf' = Append(walbuf, NextRecord)
      /\ UNCHANGED <<wal, blocks, buffer, op, target, rest, cursor, fate>>
  BY DEF Log, Goto, disk, call
<1>2. op = "append" /\ target \in Series
  BY <1>1 DEF KeepInv, TypeInv, CallOK
<1>3. NextRecord \in Record /\ IsWhole(NextRecord) /\ NextRecord.series = target /\ NextRecord.points = chunk
  BY <1>2, ChunkFits, RecordType, NewItemsAreWhole DEF KeepInv, TypeInv, NextRecord, WalRecord
<1>4. Range(chunk) \subseteq Range(rest)
  <2>1. rest \in Seq(Nat) /\ ChunkLength \in 0..Len(rest)
    BY <1>2, ChunkFits, Typing DEF KeepInv, TypeInv
  <2> QED
    BY <2>1, RangeSplit
<1> HIDE DEF chunk
<1>5. \A s \in Series : InLog(walbuf', s) = InLog(walbuf, s) \union (IF target = s THEN Range(chunk) ELSE {})
  BY <1>1, <1>3, InLogAppend, Typing DEF KeepInv
<1>6. CallShape' /\ RestPending' /\ ReplayHeld'
  BY <1>1, <1>2 DEF KeepInv, CallShape, RestPending, ReplayHeld, PointsOf
<1>7. PendingHeld'
  BY <1>1 DEF KeepInv, PendingHeld, PointsOf, Held
<1>8. Unbroken'
  <2>1. Fragments(walbuf') = {}
    BY <1>1, <1>3, WholeAppend, Typing DEF KeepInv, Unbroken
  <2> QED
    BY <1>1, <2>1 DEF KeepInv, Unbroken
<1>9. Covered'
  <2> SUFFICES ASSUME NEW s \in Series, NEW n \in Acknowledged(s)', n \in Logged(s)'
               PROVE  n \in Held(s)'
    BY DEF Covered
  <2>1. n \in Acknowledged(s)
    BY <1>1 DEF Acknowledged, PointsOf
  <2>2. ~(target = s /\ n \in Range(rest))
    BY <1>2, <2>1 DEF KeepInv, RestPending, Acknowledged, PointsOf
  <2>3. n \in Logged(s)
    BY <1>1, <1>4, <1>5, <2>2 DEF Logged
  <2>4. n \in Held(s)
    BY <1>1, <1>2, <2>1, <2>3 DEF KeepInv, Covered
  <2> QED
    BY <1>1, <2>4 DEF Held
<1> QED
  BY <1>6, <1>7, <1>8, <1>9 DEF KeepInv

\* Place keeps the invariant.
LEMMA PlaceKeepInv == KeepInv /\ TypeInv' /\ Place => KeepInv'
<1> SUFFICES ASSUME KeepInv, TypeInv', Place PROVE KeepInv'
  OBVIOUS
<1>1. /\ pc = "place" /\ pc' = "chunk"
      /\ buffer' = [buffer EXCEPT ![target] = @ \o SubSeq(rest, 1, ChunkLength)]
      /\ rest' = SubSeq(rest, ChunkLength + 1, Len(rest))
      /\ UNCHANGED <<wal, blocks, walbuf, op, target, cursor, fate>>
  BY DEF Place, Goto, disk
<1>2. op = "append" /\ target \in Series
  BY <1>1 DEF KeepInv, TypeInv, CallOK
<1>3. /\ \A s \in Series : Held(s) \subseteq Held(s)'
      /\ Range(rest') \subseteq Range(rest)
      /\ \A n \in Range(rest) : n \in Range(rest') \/ n \in Held(target)'
  BY <1>1, <1>2, ChunkIsHeld DEF KeepInv
<1>4. CallShape' /\ Unbroken' /\ ReplayHeld'
  BY <1>1, <1>2 DEF KeepInv, CallShape, Unbroken, ReplayHeld
<1>5. RestPending'
  BY <1>1, <1>2, <1>3 DEF KeepInv, RestPending, PointsOf
<1>6. Covered'
  <2> SUFFICES ASSUME NEW s \in Series, NEW n \in Acknowledged(s)', n \in Logged(s)'
               PROVE  n \in Held(s)'
    BY DEF Covered
  <2>1. n \in Acknowledged(s) /\ n \in Logged(s)
    BY <1>1 DEF Acknowledged, PointsOf, Logged
  <2>2. n \in Held(s)
    BY <1>1, <1>2, <2>1 DEF KeepInv, Covered
  <2> QED
    BY <1>3, <2>2
<1>7. PendingHeld'
  <2> SUFFICES ASSUME NEW s \in Series, NEW n \in PointsOf(s, {"pending"})'
               PROVE  s = target /\ (n \in Range(rest') \/ n \in Held(s)')
    BY <1>1, <1>2 DEF PendingHeld
  <2>1. n \in PointsOf(s, {"pending"})
    BY <1>1 DEF PointsOf
  <2>2. s = target /\ (n \in Range(rest) \/ n \in Held(s))
    BY <2>1 DEF KeepInv, PendingHeld
  <2>3. CASE n \in Range(rest)
    <3>1. Held(target)' = Held(s)'
      BY <1>1, <2>2 DEF Held
    <3> QED
      BY <1>3, <2>2, <2>3, <3>1
  <2>4. CASE n \in Held(s)
    BY <1>3, <2>2, <2>4
  <2> QED
    BY <2>2, <2>3, <2>4
<1> QED
  BY <1>4, <1>5, <1>6, <1>7 DEF KeepInv

\* WalFlush keeps the invariant.
LEMMA WalFlushKeepInv == KeepInv /\ TypeInv' /\ WalFlush => KeepInv'
<1> SUFFICES ASSUME KeepInv, TypeInv', WalFlush PROVE KeepInv'
  OBVIOUS
<1>1. /\ pc \in {"spill", "sync", "seal", "switch"}
      /\ wal' = wal \o walbuf /\ walbuf' = <<>>
      /\ UNCHANGED <<blocks, buffer>>
  BY DEF WalFlush, AfterWalFlush
<1>2. Fragments(wal') = {} /\ Fragments(walbuf') = {}
  BY <1>1, WholeConcat, EmptyHasNoFragments, Typing DEF KeepInv, Unbroken
<1>3. \A s \in Series : Logged(s)' = Logged(s)
  <2> TAKE s \in Series
  <2>1. InLog(wal', s) = InLog(wal, s) \union InLog(walbuf, s)
    BY <1>1, InLogConcat, Typing DEF KeepInv
  <2>2. InLog(walbuf', s) = {}
    BY <1>1, InLogEmpty
  <2> QED
    BY <2>1, <2>2 DEF Logged
<1>4. CASE pc = "switch"
  <2>1. Return("ok") /\ op \in Modes
    BY <1>4 DEF WalFlush, KeepInv, TypeInv, CallOK
  <2>2. op # "append" /\ op # "open"
    BY <2>1 DEF Modes
  <2> QED
    BY <1>1, <1>2, <1>3, <1>4, <2>1, <2>2, ReturnKeepInv
<1>5. CASE pc # "switch"
  <2>1. UNCHANGED <<op, target, rest, cursor, fate>>
    BY <1>5 DEF WalFlush, call
  <2>2. pc' = IF pc = "spill" THEN "log" ELSE IF pc = "sync" THEN "place" ELSE "block"
    BY <1>1, <1>5 DEF WalFlush, AfterWalFlush, Goto
  <2>3. CallShape' /\ RestPending'
    BY <1>1, <2>1, <2>2 DEF KeepInv, TypeInv, CallOK, CallShape, RestPending, PointsOf
  <2>4. Unbroken'
    BY <1>1, <1>2, <2>2 DEF KeepInv, Unbroken
  <2>5. Covered'
    <3> SUFFICES ASSUME op # "open", NEW s \in Series, NEW n \in Acknowledged(s)', n \in Logged(s)'
                 PROVE  n \in Held(s)'
      BY <2>1 DEF Covered
    <3>1. n \in Acknowledged(s) /\ n \in Logged(s)
      BY <1>3, <2>1 DEF Acknowledged, PointsOf
    <3>2. n \in Held(s)
      BY <1>1, <3>1 DEF KeepInv, Covered
    <3> QED
      BY <1>1, <3>2 DEF Held
  <2>6. PendingHeld'
    BY <1>1, <2>1 DEF KeepInv, PendingHeld, PointsOf, Held
  <2>7. ReplayHeld'
    <3> SUFFICES ASSUME op = "open" PROVE ReplayHeld'
      BY <2>1 DEF ReplayHeld
    <3>1. wal' = wal
      <4>1. walbuf = <<>>
        BY DEF KeepInv, ReplayHeld
      <4> QED
        BY <1>1, <4>1, ConcatEmptySeq, Typing DEF KeepInv
    <3> QED
      BY <1>1, <2>1, <3>1 DEF KeepInv, ReplayHeld, Held
  <2> QED
    BY <2>3, <2>4, <2>5, <2>6, <2>7 DEF KeepInv
<1> QED
  BY <1>4, <1>5

\* AppendBlock keeps the invariant.
LEMMA AppendBlockKeepInv == KeepInv /\ TypeInv' /\ AppendBlock => KeepInv'
<1> SUFFICES ASSUME KeepInv, TypeInv', AppendBlock PROVE KeepInv'
  OBVIOUS
<1>1. /\ pc = "block"
      /\ \/ pc' \in {"truncate", "next"} /\ op # "open"
         \/ pc' = "replay" /\ op = "open"
      /\ UNCHANGED <<wal, walbuf, op, target, rest, cursor, fate>>
  BY DEF AppendBlock, Goto, call
<1>2. /\ \A s \in Series : Held(s) = Held(s)'
      /\ \A s \in Series : Fragments(blocks[s]) = {} => Fragments(blocks'[s]) = {}
  BY BlockHolds DEF KeepInv
<1>3. CallShape' /\ RestPending'
  BY <1>1 DEF KeepInv, CallShape, RestPending, PointsOf
<1>4. Unbroken'
  BY <1>1, <1>2 DEF KeepInv, Unbroken
<1>5. Covered'
  <2> SUFFICES ASSUME op # "open", NEW s \in Series, NEW n \in Acknowledged(s)', n \in Logged(s)'
               PROVE  n \in Held(s)'
    BY <1>1 DEF Covered
  <2>1. n \in Acknowledged(s) /\ n \in Logged(s)
    BY <1>1 DEF Acknowledged, PointsOf, Logged
  <2>2. n \in Held(s)
    BY <1>1, <2>1 DEF KeepInv, Covered
  <2> QED
    BY <1>2, <2>2
<1>6. PendingHeld'
  <2> SUFFICES ASSUME NEW s \in Series, NEW n \in PointsOf(s, {"pending"})'
               PROVE  op = "append" /\ s = target /\ (n \in Range(rest) \/ n \in Held(s)')
    BY <1>1 DEF PendingHeld
  <2>1. n \in PointsOf(s, {"pending"})
    BY <1>1 DEF PointsOf
  <2> QED
    BY <1>2, <2>1 DEF KeepInv, PendingHeld
<1>7. ReplayHeld'
  <2> SUFFICES ASSUME op = "open", NEW i \in 1..Len(wal), i < cursor, NEW n \in Range(wal[i].points)
               PROVE  n \in Held(wal[i].series)' \/ (wal[i].series = target /\ n \in Range(rest))
    BY <1>1 DEF KeepInv, ReplayHeld
  <2>1. PICK s \in Series : s = wal[i].series
    <3>1. wal[i] \in Record
      BY Typing, ElementOfSeq DEF KeepInv
    <3> QED
      BY <3>1 DEF Record
  <2>2. n \in Held(s) \/ (s = target /\ n \in Range(rest))
    BY <2>1 DEF KeepInv, ReplayHeld
  <2>3. Held(wal[i].series)' = Held(s)'
    BY <1>1, <2>1 DEF Held
  <2> QED
    BY <1>2, <2>1, <2>2, <2>3
<1> QED
  BY <1>3, <1>4, <1>5, <1>6, <1>7 DEF KeepInv

\* Truncation and rewrite: what stays in wal.log is in a buffer or was there.
LEMMA ShrinkKeepInv ==
  ASSUME KeepInv, TypeInv', CallShape', op # "open", pc # "closed", pc' # "broken",
         UNCHANGED <<blocks, buffer, op, target, rest, fate>>,
         Fragments(wal') = {}, Fragments(walbuf') = {},
         \A s \in Series : Logged(s)' \subseteq Logged(s) \union Range(buffer[s])
  PROVE  KeepInv'
<1>1. Unbroken' /\ RestPending' /\ ReplayHeld'
  BY DEF KeepInv, Unbroken, RestPending, ReplayHeld, PointsOf
<1>2. PendingHeld'
  BY DEF KeepInv, PendingHeld, PointsOf, Held
<1>3. Covered'
  <2> SUFFICES ASSUME NEW s \in Series, NEW n \in Acknowledged(s)', n \in Logged(s)'
               PROVE  n \in Held(s)'
    BY DEF Covered
  <2>1. n \in Acknowledged(s)
    BY DEF Acknowledged, PointsOf
  <2>2. n \in Held(s)
    BY <2>1 DEF KeepInv, Covered, Held
  <2> QED
    BY <2>2 DEF Held
<1> QED
  BY <1>1, <1>2, <1>3 DEF KeepInv

\* TruncateWal keeps the invariant.
LEMMA TruncateWalKeepInv == KeepInv /\ TypeInv' /\ TruncateWal => KeepInv'
<1> SUFFICES ASSUME KeepInv, TypeInv', TruncateWal PROVE KeepInv'
  OBVIOUS
<1>1. /\ pc = "truncate" /\ pc' = "rewrite" /\ wal' = <<>> /\ walbuf' = <<>>
      /\ UNCHANGED <<blocks, buffer, op, target, rest, fate>>
  BY DEF TruncateWal, Goto
<1>2. op # "open"
  BY <1>1 DEF KeepInv, CallShape
<1>3. CallShape'
  BY <1>1, <1>2 DEF CallShape
<1>4. \A s \in Series : Logged(s)' = {}
  BY <1>1, InLogEmpty DEF Logged
<1> QED
  BY <1>1, <1>2, <1>3, <1>4, EmptyHasNoFragments, ShrinkKeepInv

\* RewriteWal keeps the invariant.
LEMMA RewriteWalKeepInv == KeepInv /\ TypeInv' /\ RewriteWal => KeepInv'
<1> SUFFICES ASSUME KeepInv, TypeInv', RewriteWal PROVE KeepInv'
  OBVIOUS
<1> DEFINE s == registry[cursor]
           record == WalRecord(s, buffer[s])
<1>1. /\ pc = "rewrite" /\ pc' = pc /\ cursor \in 1..Len(registry)
      /\ UNCHANGED <<blocks, walbuf, buffer, op, target, rest, fate>>
      /\ wal' = wal \/ wal' = Append(wal, record)
  BY Typing DEF RewriteWal, KeepInv, memory
<1>2. op # "open"
  BY <1>1 DEF KeepInv, CallShape
<1>3. CallShape'
  BY <1>1, <1>2 DEF CallShape
<1>4. s \in Series /\ buffer[s] \in Seq(Nat)
  BY <1>1, Typing, ElementOfSeq DEF KeepInv
<1>5. record \in Record /\ IsWhole(record) /\ record.series = s /\ record.points = buffer[s]
  BY <1>4, RecordType, NewItemsAreWhole DEF WalRecord
<1> HIDE DEF record
<1>6. Fragments(wal') = {} /\ Fragments(walbuf') = {}
  BY <1>1, <1>5, WholeAppend, Typing DEF KeepInv, Unbroken
<1>7. \A x \in Series : Logged(x)' \subseteq Logged(x) \union Range(buffer[x])
  <2> TAKE x \in Series
  <2>1. InLog(Append(wal, record), x) = InLog(wal, x) \union (IF record.series = x THEN Range(record.points) ELSE {})
    BY <1>5, InLogAppend, Typing DEF KeepInv
  <2>2. InLog(wal', x) \subseteq InLog(wal, x) \union Range(buffer[x])
    BY <1>1, <1>5, <2>1
  <2> QED
    BY <1>1, <2>2 DEF Logged
<1> QED
  BY <1>1, <1>2, <1>3, <1>6, <1>7, ShrinkKeepInv

\* RewriteEnds keeps the invariant.
LEMMA RewriteEndsKeepInv == KeepInv /\ TypeInv' /\ RewriteEnds => KeepInv'
<1> SUFFICES ASSUME KeepInv, TypeInv', RewriteEnds PROVE KeepInv'
  OBVIOUS
<1>1. pc = "rewrite" /\ op # "open"
  BY DEF RewriteEnds, KeepInv, CallShape
<1>2. CASE op \in {"flush", "flush_all"}
  <2>1. Return("ok") /\ UNCHANGED <<wal, walbuf, blocks, buffer>>
    BY <1>2 DEF RewriteEnds, disk, memory
  <2>2. \A s \in Series : Logged(s)' \subseteq Logged(s)
    BY <2>1 DEF Logged
  <2>3. Fragments(wal') = {} /\ Fragments(walbuf') = {}
    BY <2>1 DEF KeepInv, Unbroken
  <2> QED
    BY <1>1, <1>2, <2>1, <2>2, <2>3, ReturnKeepInv
<1>3. CASE op = "close"
  BY <1>3, ForgetKeepInv DEF RewriteEnds
<1>4. CASE op \notin {"flush", "flush_all", "close"}
  <2>1. /\ pc' = (IF op = "append" THEN "chunk" ELSE "unlink")
        /\ UNCHANGED <<wal, walbuf, blocks, buffer, op, target, rest, fate>>
    BY <1>4 DEF RewriteEnds, Goto, disk, memory
  <2>2. CallShape'
    BY <1>1, <2>1 DEF KeepInv, CallShape
  <2> QED
    BY <1>1, <2>1, <2>2, QuietKeepInv
<1> QED
  BY <1>2, <1>3, <1>4

\* UnlinkSegment keeps the invariant.
LEMMA UnlinkSegmentKeepInv == KeepInv /\ TypeInv' /\ UnlinkSegment => KeepInv'
<1> SUFFICES ASSUME KeepInv, TypeInv', UnlinkSegment PROVE KeepInv'
  OBVIOUS
<1>1. /\ pc = "unlink" /\ pc' = "rmdir"
      /\ UNCHANGED <<wal, walbuf, buffer, op, target, rest, cursor>>
  BY DEF UnlinkSegment, Goto, memory, call
<1>2. op \notin {"append", "open"}
  BY <1>1 DEF KeepInv, CallShape
<1>3. /\ blocks' = [blocks EXCEPT ![target] = <<>>]
      /\ fate' = [fate EXCEPT ![target] = [n \in 1..Len(fate[target]) |-> "deleting"]]
  BY DEF UnlinkSegment
<1>4. \A s \in Series : s # target => blocks'[s] = blocks[s] /\ fate'[s] = fate[s]
  BY <1>3, Typing DEF KeepInv
<1>5. target \in Series =>
        /\ blocks'[target] = <<>>
        /\ \A n \in 1..Len(fate'[target]) : fate'[target][n] = "deleting"
  <2> SUFFICES ASSUME target \in Series
               PROVE  /\ blocks'[target] = <<>>
                      /\ \A n \in 1..Len(fate'[target]) : fate'[target][n] = "deleting"
    OBVIOUS
  <2>1. blocks'[target] = <<>> /\ fate'[target] = [n \in 1..Len(fate[target]) |-> "deleting"]
    BY <1>3, Typing DEF KeepInv
  <2>2. Len(fate[target]) \in Nat
    BY Typing DEF KeepInv
  <2> QED
    BY <2>1, <2>2
<1>6. CallShape' /\ RestPending' /\ ReplayHeld'
  BY <1>1, <1>2 DEF CallShape, RestPending, ReplayHeld
<1>7. Unbroken'
  <2>1. \A s \in Series : Fragments(blocks'[s]) = {}
    BY <1>4, <1>5, EmptyHasNoFragments DEF KeepInv, Unbroken
  <2> QED
    BY <1>1, <2>1 DEF KeepInv, Unbroken
<1>8. ASSUME NEW s \in Series, NEW fates, "deleting" \notin fates, NEW n \in PointsOf(s, fates)'
      PROVE  s # target /\ n \in PointsOf(s, fates)
  <2>1. n \in 1..Len(fate'[s]) /\ fate'[s][n] \in fates
    BY <1>8 DEF PointsOf
  <2>2. s # target
    BY <1>5, <1>8, <2>1
  <2> QED
    BY <1>4, <2>1, <2>2 DEF PointsOf
<1>9. PendingHeld'
  <2> SUFFICES ASSUME NEW s \in Series, NEW n \in PointsOf(s, {"pending"})' PROVE FALSE
    BY DEF PendingHeld
  <2>1. n \in PointsOf(s, {"pending"})
    BY <1>8
  <2> QED
    BY <1>2, <2>1 DEF KeepInv, PendingHeld
<1>10. Covered'
  <2> SUFFICES ASSUME NEW s \in Series, NEW n \in Acknowledged(s)', n \in Logged(s)'
               PROVE  n \in Held(s)'
    BY DEF Covered
  <2>1. s # target /\ n \in Acknowledged(s)
    BY <1>8 DEF Acknowledged
  <2>2. n \in Logged(s)
    BY <1>1 DEF Logged
  <2>3. n \in Held(s)
    BY <1>1, <1>2, <2>1, <2>2 DEF KeepInv, Covered
  <2> QED
    BY <1>1, <1>4, <2>1, <2>3 DEF Held
<1> QED
  BY <1>6, <1>7, <1>9, <1>10 DEF KeepInv

\* The other returns: tsedge_append, an empty flush, the end of a delete.
LEMMA ReturnStepsKeepInv ==
  /\ KeepInv /\ TypeInv' /\ AppendDone => KeepInv'
  /\ KeepInv /\ TypeInv' /\ FlushSeries => KeepInv'
  /\ KeepInv /\ TypeInv' /\ RemoveDirectory => KeepInv'
<1>1. ASSUME UNCHANGED <<wal, walbuf>>, KeepInv
      PROVE  /\ \A s \in Series : Logged(s)' \subseteq Logged(s)
             /\ Fragments(wal') = {} /\ Fragments(walbuf') = {}
  BY <1>1 DEF Logged, KeepInv, Unbroken
<1>2. ASSUME KeepInv, TypeInv', AppendDone PROVE KeepInv'
  <2>1. /\ pc = "chunk" /\ rest = <<>> /\ Return("ok")
        /\ UNCHANGED <<wal, walbuf, blocks, buffer>>
    BY <1>2 DEF AppendDone, disk, memory
  <2>2. op # "open"
    BY <1>2, <2>1 DEF KeepInv, CallShape
  <2> QED
    BY <1>1, <1>2, <2>1, <2>2, ReturnKeepInv
<1>3. ASSUME KeepInv, TypeInv', FlushSeries PROVE KeepInv'
  <2>1. /\ pc = "flush" /\ UNCHANGED <<wal, walbuf, blocks, buffer>>
    BY <1>3 DEF FlushSeries, disk, memory
  <2>2. op = "flush"
    BY <1>3, <2>1 DEF KeepInv, CallShape
  <2>3. CASE buffer[target] = <<>>
    <3>1. Return("ok")
      BY <1>3, <2>3 DEF FlushSeries
    <3> QED
      BY <1>1, <1>3, <2>1, <2>2, <3>1, ReturnKeepInv
  <2>4. CASE buffer[target] # <<>>
    <3>1. pc' = "seal" /\ UNCHANGED <<op, target, rest, cursor, fate>>
      BY <1>3, <2>4 DEF FlushSeries, Goto, call
    <3>2. CallShape'
      BY <2>2, <3>1 DEF CallShape
    <3> QED
      BY <1>3, <2>1, <2>2, <3>1, <3>2, QuietKeepInv
  <2> QED
    BY <2>3, <2>4
<1>4. ASSUME KeepInv, TypeInv', RemoveDirectory PROVE KeepInv'
  <2>1. pc = "rmdir" /\ UNCHANGED <<wal, walbuf, blocks, buffer>>
    BY <1>4 DEF RemoveDirectory
  <2>2. op \notin {"append", "open"}
    BY <1>4, <2>1 DEF KeepInv, CallShape
  <2>3. Return("ok") \/ Return("error")
    BY <1>4 DEF RemoveDirectory
  <2>4. ASSUME NEW r, Return(r) PROVE KeepInv'
    BY <1>1, <1>4, <2>1, <2>2, <2>4, ReturnKeepInv
  <2> QED
    BY <2>3, <2>4
<1> QED
  BY <1>2, <1>3, <1>4

\* Fault keeps the invariant.
LEMMA FaultKeepInv == KeepInv /\ TypeInv' /\ Fault => KeepInv'
<1> SUFFICES ASSUME KeepInv, TypeInv', Fault PROVE KeepInv'
  OBVIOUS
<1>1. CASE op \in {"open", "close"}
  BY <1>1, ForgetKeepInv DEF Fault
<1>2. CASE op \notin {"open", "close"}
  <2>1. /\ Return("error") /\ UNCHANGED <<wal, blocks, buffer>>
        /\ walbuf' = <<>> \/ walbuf' = walbuf
    BY <1>2 DEF Fault, disk
  <2>2. pc # "closed"
    BY DEF Fault, FileSteps
  <2>3. \A s \in Series : Logged(s)' \subseteq Logged(s)
    BY <2>1, InLogEmpty DEF Logged
  <2>4. Fragments(wal') = {} /\ Fragments(walbuf') = {}
    BY <2>1, EmptyHasNoFragments DEF KeepInv, Unbroken
  <2> QED
    BY <1>2, <2>1, <2>2, <2>3, <2>4, ReturnKeepInv
<1> QED
  BY <1>1, <1>2

\* KeepInv is inductive when writes are not torn.
LEMMA NextKeepInv ==
  ASSUME TornWrites = FALSE, KeepInv, [Next]_vars
  PROVE  KeepInv'
<1>1. TypeInv'
  BY NextTypeInv DEF KeepInv
<1>2. CASE UNCHANGED vars
  BY <1>2
     DEF vars, disk, memory, call, bounds, KeepInv, TypeInv, TypeOK, CallOK, CallShape, Unbroken, Covered,
         PendingHeld, RestPending, ReplayHeld, Acknowledged, PointsOf, Held, Logged
<1>3. CASE Open
  BY <1>1, <1>3, OpenKeepInv
<1>4. CASE OpenFails
  BY <1>2, <1>4 DEF OpenFails
<1>5. CASE StartCall
  BY <1>1, <1>5, QuietStepsKeepInv, StartAppendKeepInv DEF StartCall
<1>6. CASE Continue
  BY <1>1, <1>6, ReplayRecordKeepInv, ReplayPointsKeepInv, ReplayEndsKeepInv, QuietStepsKeepInv, LogKeepInv,
     PlaceKeepInv, ReturnStepsKeepInv, WalFlushKeepInv, AppendBlockKeepInv, TruncateWalKeepInv,
     RewriteWalKeepInv, RewriteEndsKeepInv, UnlinkSegmentKeepInv DEF Continue
<1>7. CASE Environment
  <2>1. ~PartialWrite
    BY DEF PartialWrite
  <2>2. Crash => KeepInv'
    BY <1>1, ForgetKeepInv DEF Crash
  <2> QED
    BY <1>1, <1>7, <2>1, <2>2, QuietStepsKeepInv, FaultKeepInv DEF Environment
<1> QED
  BY <1>2, <1>3, <1>4, <1>5, <1>6, <1>7 DEF Next

-----------------------------------------------------------------------------
(* The action property *)

\* Without fragments OnDisk is what the log and the blocks hold.
LEMMA OnDiskWhole ==
  ASSUME NEW w, NEW b, NEW s, Fragments(w) = {}, Fragments(b) = {}
  PROVE  LoggedPoints(w, s) \union StoredPoints(b) = InLog(w, s) \union PointsIn(b)
BY InLogWhole, NoFragments DEF StoredPoints

\* No step but the truncation and the unlink removes anything from the files.
LEMMA FilesGrow ==
  ASSUME KeepInv, [Next]_vars, ~TruncateWal, ~UnlinkSegment, TornWrites = FALSE,
         NEW s \in Series
  PROVE  InLog(wal, s) \subseteq InLog(wal', s) /\ PointsIn(blocks[s]) \subseteq PointsIn(blocks'[s])
<1>1. CASE UNCHANGED <<wal, blocks>>
  BY <1>1
<1>2. CASE WalFlush
  BY <1>2, InLogConcat, Typing DEF WalFlush, KeepInv
<1>3. CASE AppendBlock
  BY <1>3, BlockHolds DEF AppendBlock, KeepInv
<1>4. CASE RewriteWal
  <2> DEFINE x == registry[cursor]
             record == WalRecord(x, buffer[x])
  <2>1. x \in Series /\ buffer[x] \in Seq(Nat)
    BY <1>4, Typing, ElementOfSeq DEF KeepInv, RewriteWal
  <2>2. record \in Record
    BY <2>1, RecordType
  <2>3. UNCHANGED blocks /\ (wal' = wal \/ wal' = Append(wal, record))
    BY <1>4 DEF RewriteWal
  <2> HIDE DEF record
  <2>4. InLog(Append(wal, record), s) = InLog(wal, s) \union (IF record.series = s THEN Range(record.points) ELSE {})
    BY <2>2, InLogAppend, Typing DEF KeepInv
  <2> QED
    BY <2>3, <2>4
<1>5. ~PartialWrite
  BY DEF PartialWrite
<1>6. \/ UNCHANGED <<wal, blocks>>
      \/ WalFlush \/ AppendBlock \/ RewriteWal
  <2>1. UNCHANGED vars \/ Open \/ OpenFails => UNCHANGED <<wal, blocks>>
    BY DEF vars, disk, Open, OpenFails
  <2>2. StartCall => UNCHANGED <<wal, blocks>>
    BY DEF StartCall, CreateSeries, StartAppend, SetDurability, StartFlush, StartFlushAll, disk
  <2>3. Environment => UNCHANGED <<wal, blocks>>
    BY <1>5 DEF Environment, CreateFails, Fault, Crash, Forget, disk
  <2>4. ReplayRecord \/ ReplayPoints \/ ReplayEnds \/ Chunk \/ Log \/ Place \/ AppendDone => UNCHANGED <<wal, blocks>>
    BY DEF ReplayRecord, ReplayPoints, ReplayEnds, Forget, Chunk, Log, Place, AppendDone, disk
  <2>5. FlushSeries \/ NextSeries \/ RemoveDirectory => UNCHANGED <<wal, blocks>>
    BY DEF FlushSeries, NextSeries, RemoveDirectory, disk
  <2>6. RewriteEnds => UNCHANGED <<wal, blocks>>
    <3>1. CASE op \in {"flush", "flush_all"}
      BY <3>1 DEF RewriteEnds, disk
    <3>2. CASE op = "close"
      BY <3>2 DEF RewriteEnds, Forget, disk
    <3>3. CASE op \notin {"flush", "flush_all", "close"}
      BY <3>3 DEF RewriteEnds, disk
    <3> QED
      BY <3>1, <3>2, <3>3
  <2> QED
    BY <2>1, <2>2, <2>3, <2>4, <2>5, <2>6 DEF Next, Continue
<1> QED
  BY <1>1, <1>2, <1>3, <1>4, <1>6

\* One step of TruncationKeepsAcknowledged, for one point.
LEMMA KeepStep ==
  ASSUME TornWrites = FALSE, KeepInv, [Next]_vars,
         NEW s \in Series, NEW n \in Acknowledged(s) \intersect OnDisk(s)
  PROVE  n \in OnDisk(s)' \union Range(buffer'[s]) \/ fate'[s][n] = "deleting"
<1>1. KeepInv'
  BY NextKeepInv
<1>2. n \in InLog(wal, s) \union PointsIn(blocks[s])
  BY OnDiskWhole DEF OnDisk, KeepInv, Unbroken
<1>3. OnDisk(s)' = InLog(wal', s) \union PointsIn(blocks'[s])
  <2>1. OnDisk(s)' = LoggedPoints(wal', s) \union StoredPoints(blocks'[s])
    BY DEF OnDisk
  <2> QED
    BY <1>1, <2>1, OnDiskWhole DEF KeepInv, Unbroken
<1>4. CASE TruncateWal
  <2>1. pc = "truncate" /\ UNCHANGED <<blocks, buffer>>
    BY <1>4 DEF TruncateWal
  <2>2. op # "open"
    BY <2>1 DEF KeepInv, CallShape
  <2>3. n \in Held(s)
    BY <1>2, <2>1, <2>2 DEF KeepInv, Covered, Logged, Held
  <2> QED
    BY <1>3, <2>1, <2>3 DEF Held
<1>5. CASE UnlinkSegment
  <2>1. UNCHANGED wal /\ blocks' = [blocks EXCEPT ![target] = <<>>]
    BY <1>5 DEF UnlinkSegment
  <2>2. CASE s # target
    BY <1>2, <1>3, <2>1, <2>2, Typing DEF KeepInv
  <2>3. CASE s = target
    <3>1. fate'[s] = [m \in 1..Len(fate[s]) |-> "deleting"]
      BY <1>5, <2>3, Typing DEF UnlinkSegment, KeepInv
    <3> QED
      BY <3>1 DEF Acknowledged, PointsOf
  <2> QED
    BY <2>2, <2>3
<1>6. CASE ~TruncateWal /\ ~UnlinkSegment
  BY <1>2, <1>3, <1>6, FilesGrow
<1> QED
  BY <1>4, <1>5, <1>6

\* As long as a write puts a whole item in a file or nothing, no step of any call,
\* no crash and no failed operation takes an acknowledged point off the disk while
\* no buffer holds it: wal.log is truncated only when blocks and buffers cover it.
THEOREM TruncationKeepsAcknowledged ==
  ASSUME TornWrites = FALSE
  PROVE  Spec => KeepsAcknowledged
<1>1. Init => KeepInv
  BY InitKeepInv
<1>2. KeepInv /\ [Next]_vars => KeepInv'
  BY NextKeepInv
<1>3. KeepInv /\ [Next]_vars =>
        [\A s \in Series : \A n \in Acknowledged(s) \intersect OnDisk(s) :
           \/ n \in OnDisk(s)' \union Range(buffer'[s])
           \/ fate'[s][n] = "deleting"]_vars
  BY KeepStep
<1> QED
  BY <1>1, <1>2, <1>3, PTL DEF Spec, KeepsAcknowledged
=============================================================================
